---------------------------- MODULE SharedSkills ----------------------------
(***************************************************************************)
(* One skill name, as the endpoints for uploading, deleting, promoting and *)
(* describing skills, the sync at the start of a run and the periodic scan *)
(* treat it (main_server.py, skill_manager.py).                            *)
(*                                                                         *)
(* The name may exist as a directory of shared-skills, as an entry of each *)
(* user's workspace (a symlink to the shared directory, or a directory of  *)
(* the user's own), and as a row of the skills table for either source.    *)
(* A handler runs from one database call to the next without interruption: *)
(* what it does to the file system is decided on answers that may be old.  *)
(***************************************************************************)
EXTENDS Naturals, FiniteSets

CONSTANTS
    User,    \* users, each with a workspace
    Shared,  \* the place of the shared directory, which is no user's
    Call     \* requests, sessions starting and scans under way at once

Place   == User \cup {Shared}
Real    == {"bare", "full"}          \* a directory without, or with, SKILL.md
Entry   == Real \cup {"none", "link"}
Status  == {"none", "active", "deprecated"}
Sources == {"shared", "personal"}
Ops     == {"upload", "delete", "promote", "retire", "meta", "session", "scan", "none"}
Steps   == {"idle", "lookup", "decide", "register", "deprecate", "unshare",
            "status", "names", "sync"}

Idle == [op |-> "none", place |-> Shared, step |-> "idle", seen |-> "none"]

VARIABLES
    dir,    \* what is at each place
    row,    \* skills.status of the row of each source
    fresh,  \* users whose _last_synced_gen is _shared_skills_gen
    call    \* each call: what it is, the directory it is about, the database
            \* call it waits for or has the answer of, and the answer

vars  == <<dir, row, fresh, call>>

Source(p) == IF p = Shared THEN "shared" ELSE "personal"

TypeOK ==
    /\ dir \in [Place -> Entry]
    /\ dir[Shared] # "link"
    /\ row \in [Sources -> Status]
    /\ fresh \subseteq User
    /\ call \in [Call -> [op : Ops, place : Place, step : Steps, seen : Status]]

Init ==
    /\ dir = [p \in Place |-> "none"]
    /\ row = [s \in Sources |-> "none"]
    /\ fresh = {}
    /\ call = [c \in Call |-> Idle]

Put(p, e) == dir' = [dir EXCEPT ![p] = e]

Begins(c)      == call[c].step = "idle"
Begin(c, o, p, s) == call' = [call EXCEPT ![c] = [Idle EXCEPT !.op = o, !.place = p, !.step = s]]
At(c, s)       == call[c].step = s
Goto(c, s)     == call' = [call EXCEPT ![c].step = s]
Got(c, s, a)   == call' = [call EXCEPT ![c].step = s, ![c].seen = a]
End(c)         == call' = [call EXCEPT ![c] = Idle]

-----------------------------------------------------------------------------
(* Uploads: of a personal skill, and of a shared one by an admin. *)

\* mkdir, _extract_zip_to_dir and _write_skill_meta, then the row; a bad
\* archive leaves nothing behind
Extract(c, p) ==
    \/ Put(p, "none") /\ End(c)
    \/ \E e \in Real : Put(p, e) /\ Begin(c, "upload", p, "register")

\* A symlink gives way, and so does a directory without SKILL.md; a skill
\* that is there needs a look at its row
Upload(c, p) ==
    /\ Begins(c)
    /\ IF dir[p] = "full"
       THEN Begin(c, "upload", p, "lookup") /\ UNCHANGED dir
       ELSE Extract(c, p)
    /\ UNCHANGED <<row, fresh>>

\* get_skill asks for the name alone: either source's row may answer
Lookup(c) ==
    LET found == {s \in Sources : row[s] # "none"}
    IN  /\ At(c, "lookup")
        /\ \/ found = {} /\ Got(c, "decide", "none")
           \/ \E s \in found : Got(c, "decide", row[s])
        /\ UNCHANGED <<dir, row, fresh>>

\* _resolve_skill_upload_conflict: 409 for an active skill, otherwise the
\* directory is removed, if it still is one
ResolveConflict(c) ==
    LET p == call[c].place
    IN  /\ At(c, "decide")
        /\ call[c].op = "upload"
        /\ IF call[c].seen # "active" /\ dir[p] \in Real
           THEN Extract(c, p)
           ELSE End(c) /\ UNCHANGED dir
        /\ UNCHANGED <<row, fresh>>

\* register_skill, then _bump_shared_skills_gen where the endpoint calls it
Register(c) ==
    LET p == call[c].place
    IN  /\ At(c, "register")
        /\ row' = [row EXCEPT ![Source(p)] = "active"]
        /\ fresh' = IF p = Shared /\ call[c].op # "scan" THEN {} ELSE fresh
        /\ End(c)
        /\ UNCHANGED dir

RegisterFailsMutant(c) ==
    /\ At(c, "register")
    /\ End(c)
    /\ UNCHANGED <<dir, row, fresh>>

\* _register_skill_or_rollback; the scan only logs the error
RegisterFails(c) ==
    LET p == call[c].place
    IN  /\ At(c, "register")
        /\ IF call[c].op # "scan" /\ dir[p] \in Real THEN Put(p, "none") ELSE UNCHANGED dir
        /\ End(c)
        /\ UNCHANGED <<row, fresh>>

\* promote_skill_to_shared copies a personal skill to a name not yet shared
Promote(c, u) ==
    /\ Begins(c)
    /\ dir[u] = "full"
    /\ dir[Shared] = "none"
    /\ Put(Shared, "full")
    /\ Begin(c, "promote", Shared, "register")
    /\ UNCHANGED <<row, fresh>>

-----------------------------------------------------------------------------
(* Deletion.  SkillManager.delete_skill marks the rows of the name, then   *)
(* removes the shared directory of that name.                              *)

\* delete_shared_skill, with _cleanup_shared_skill_from_all_users
DeleteShared(c) ==
    /\ Begins(c)
    /\ IF dir[Shared] = "none"
       THEN UNCHANGED <<dir, fresh>>
       ELSE /\ dir' = [p \in Place |->
                          IF p = Shared \/ dir[p] = "link" THEN "none" ELSE dir[p]]
            /\ fresh' = {}
    /\ Begin(c, "delete", Shared, "deprecate")
    /\ UNCHANGED row

\* delete_skill, the endpoint: a directory of the user's own is removed, and
\* what is shared under the name takes its place
DeletePersonal(c, u) ==
    /\ Begins(c)
    /\ IF dir[u] \in Real
       THEN Put(u, "none") /\ Begin(c, "delete", u, "names")
       ELSE UNCHANGED dir /\ Begin(c, "delete", u, "deprecate")
    /\ UNCHANGED <<row, fresh>>

Deprecate(c) ==
    /\ At(c, "deprecate")
    /\ row' = [s \in Sources |-> IF row[s] = "none" THEN "none" ELSE "deprecated"]
    /\ Goto(c, "unshare")
    /\ UNCHANGED <<dir, fresh>>

\* _delete_skill_files
Unshare(c) ==
    /\ At(c, "unshare")
    /\ Put(Shared, "none")
    /\ End(c)
    /\ UNCHANGED <<row, fresh>>

\* delete_skill_admin and update_skill_meta_db look for the name first
Administer(c, o) ==
    /\ Begins(c)
    /\ Begin(c, o, Shared, "lookup")
    /\ UNCHANGED <<dir, row, fresh>>

Administered(c) ==
    /\ At(c, "decide")
    /\ call[c].op \in {"retire", "meta"}
    /\ IF call[c].seen = "none" THEN End(c)
       ELSE Goto(c, IF call[c].op = "meta" THEN "status" ELSE "deprecate")
    /\ UNCHANGED <<dir, row, fresh>>

\* update_skill_meta: the rows of the name, of both sources
SetStatus(c, s) ==
    /\ At(c, "status")
    /\ row' = [r \in Sources |-> IF row[r] = "none" THEN "none" ELSE s]
    /\ End(c)
    /\ UNCHANGED <<dir, fresh>>

-----------------------------------------------------------------------------
(* The sync at the start of a run, and the scan for unregistered skills.   *)

\* _build_sdk_config; nothing to do when no shared skill has changed
StartSession(c, u) ==
    /\ Begins(c)
    /\ u \notin fresh
    /\ Begin(c, "session", u, "names")
    /\ UNCHANGED <<dir, row, fresh>>

\* _fetch_deprecated_skill_names, of rows of either source
ReadNames(c) ==
    /\ At(c, "names")
    /\ Got(c, "sync", IF \E s \in Sources : row[s] = "deprecated" THEN "deprecated" ELSE "active")
    /\ UNCHANGED <<dir, row, fresh>>

SyncedMutant(u, state) ==
    IF dir[Shared] # "none" /\ state = "active" THEN "link" ELSE "none"

\* _cleanup_stale_skill_entries and _sync_skill_symlink
Synced(u, state) ==
    IF dir[u] \in Real THEN dir[u]
    ELSE IF dir[Shared] # "none" /\ state = "active" THEN "link" ELSE "none"

\* _sync_shared_skills once the names are there; the endpoint goes on
Sync(c) ==
    LET u == call[c].place
    IN  /\ At(c, "sync")
        /\ Put(u, Synced(u, call[c].seen))
        /\ fresh' = fresh \cup {u}
        /\ IF call[c].op = "delete" THEN Goto(c, "deprecate") ELSE End(c)
        /\ UNCHANGED row

\* migrate_from_filesystem comes to a place where the skill is
Scan(c, p) ==
    /\ Begins(c)
    /\ dir[p] = "full"
    /\ Begin(c, "scan", p, "lookup")
    /\ UNCHANGED <<dir, row, fresh>>

Scanned(c) ==
    /\ At(c, "decide")
    /\ call[c].op = "scan"
    /\ IF call[c].seen = "none" THEN Goto(c, "register") ELSE End(c)
    /\ UNCHANGED <<dir, row, fresh>>

Next == \E c \in Call :
    \/ \E p \in Place : Upload(c, p) \/ Scan(c, p)
    \/ \E u \in User : DeletePersonal(c, u) \/ StartSession(c, u) \/ Promote(c, u)
    \/ DeleteShared(c)
    \/ \E o \in {"retire", "meta"} : Administer(c, o)
    \/ Lookup(c) \/ ResolveConflict(c) \/ Administered(c) \/ Scanned(c)
    \/ Register(c) \/ RegisterFails(c)
    \/ Deprecate(c) \/ Unshare(c)
    \/ \E s \in Status \ {"none"} : SetStatus(c, s)
    \/ ReadNames(c) \/ Sync(c)

Spec == Init /\ [][Next]_vars

-----------------------------------------------------------------------------
\* The call that moves in a step, as it begins or as it stood
Mover(c) == IF call[c] = Idle THEN call'[c] ELSE call[c]

\* What a user has put into the workspace stays there until the same user
\* uploads or deletes that name: no admin's request, no sync and no scan takes
\* it.  "personal skills (real directories without a marker) are left alone"
KeepsPersonal ==
    \A u \in User, c \in Call :
        /\ dir[u] \in Real
        /\ call'[c] # call[c]
        /\ ~(Mover(c).op \in {"upload", "delete"} /\ Mover(c).place = u)
        => dir'[u] = dir[u]
PersonalKept == [][KeepsPersonal]_vars

\* "Keeps disk and DB consistent: if DB registration fails the extracted
\* directory is removed so no orphan state lingers": a skill whose directory no
\* request is registering has a row of its source.
NoOrphan ==
    \A p \in Place : dir[p] \in Real =>
        \/ row[Source(p)] # "none"
        \/ \E c \in Call : At(c, "register") /\ call[c].place = p
=============================================================================
