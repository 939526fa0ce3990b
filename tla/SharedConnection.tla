-------------------------- MODULE SharedConnection --------------------------
(***************************************************************************)
(* The one SQLite connection of the process (database.py), which every     *)
(* handler, background job and agent task works on.                        *)
(*                                                                         *)
(* A statement that writes opens a transaction if none is open; whoever    *)
(* commits next commits what everybody has written since.  Nobody rolls    *)
(* back: what a failed call has written stays pending, and is lost only if *)
(* the process ends first.  Each await lets the statements of other calls  *)
(* in between.                                                             *)
(*                                                                         *)
(* An operation is the sequence of what it does:                           *)
(*   see     a query on whose answer it may end                            *)
(*   look    a query that only tells it something                          *)
(*   put     a statement that writes                                       *)
(*   file    a change of files, there at once and for good                 *)
(*   commit  conn.commit()                                                 *)
(* A loop over rows is done at most twice.                                 *)
(***************************************************************************)
EXTENDS Naturals, Sequences

CONSTANTS
    Call    \* calls of operations, each made once

Step == {"see", "look", "put", "file", "commit"}

-----------------------------------------------------------------------------
(* Sessions and messages: session_store.py. *)

create_session         == <<"put", "put", "commit">>
delete_session         == <<"see", "put", "commit">>
update_session_title   == <<"put", "commit">>
update_session_status  == <<"put", "commit">>
update_session_stats   == <<"put", "commit">>
add_message            == <<"see", "look", "put", "commit">>
backfill_session_stats == <<"put", "put", "commit">>

(* Users, files and summaries: main_server.py, audit_logger.py. *)

register_user_mutant         == <<"put">>
register_user                == <<"put", "commit">>
admin_disable_user           == <<"see", "put", "look">>
admin_enable_user            == <<"see", "put", "look">>
admin_promote_user           == <<"see", "put", "look">>
admin_demote_user            == <<"see", "put", "look">>
update_user_language         == <<"put", "commit">>
resolve_user_language        == <<"see", "put", "commit">>
summarize_and_store_session  == <<"see", "put", "commit">>
insert_generated_file        == <<"put", "commit">>
insert_upload_file           == <<"put", "commit">>
audit_log                    == <<"put", "commit">>

(* MCP servers: mcp_store.py.  To rename to a name that is taken deletes   *)
(* the row and then updates none.                                          *)

mcp_create == <<"see", "put", "commit", "look">>
mcp_update == <<"see", "put", "commit", "look">>
mcp_rename == <<"see", "look", "put", "commit", "put", "commit", "look">>
mcp_delete == <<"put", "commit">>
mcp_toggle == <<"see", "put", "commit">>

(* Skills, versions and promotions: skill_manager.py, skill_feedback.py. *)

register_skill             == <<"put", "commit">>
update_skill_meta          == <<"put", "commit">>
delete_skill               == <<"put", "commit", "file">>
record_usage               == <<"put", "commit">>
check_auto_promotion       == <<"see", "put", "commit", "put", "commit">>
record_version             == <<"put", "commit">>
activate_version_mutant    == <<"see", "file", "put", "commit", "put", "put", "commit">>
activate_version           == <<"see", "file", "put", "put", "put", "commit">>
rollback_version           == <<"see", "file", "put", "commit">>
execute_promotion          == <<"see", "look", "file", "put", "put", "commit">>
refuse_promotion           == <<"see", "look", "put", "commit">>
reject_promotion           == <<"put", "commit">>
cleanup_expired_promotions == <<"put", "commit">>
submit_feedback            == <<"put">>
create_version             == <<"see", "file", "put", "put", "commit">>

(* Observations, instincts and the evolution log: observation.py,          *)
(* instinct_extractor.py, evolution_log.py and the review endpoint.        *)

record               == <<"look", "put">>
upsert               == <<"look", "look", "put">>
adjust_confidence    == <<"put">>
apply_skill_change   == <<"file", "put", "put", "put">>
propose_skill_change == <<"put", "put", "put">>
review_keep_proposed == <<"see", "file", "put">>
review_discard       == <<"see", "put">>
review_keep          == <<"see", "put">>
review_rollback      == <<"see">> \o rollback_version \o <<"put">>

(* The wiki and sub-agent tasks: wiki_generator.py, sub_agent.py. *)

generate_warning_page     == <<"put", "commit">>
generate_antipattern_page == <<"put", "commit">>
generate_page             == <<"put", "commit">>
update_validation         == <<"put", "commit">>
db_save                   == <<"put", "commit">>
db_delete                 == <<"put", "commit">>

Program == [
    create_session |-> create_session, delete_session |-> delete_session,
    update_session_title |-> update_session_title,
    update_session_status |-> update_session_status,
    update_session_stats |-> update_session_stats, add_message |-> add_message,
    backfill_session_stats |-> backfill_session_stats,
    register_user |-> register_user, admin_disable_user |-> admin_disable_user,
    admin_enable_user |-> admin_enable_user, admin_promote_user |-> admin_promote_user,
    admin_demote_user |-> admin_demote_user, update_user_language |-> update_user_language,
    resolve_user_language |-> resolve_user_language,
    summarize_and_store_session |-> summarize_and_store_session,
    insert_generated_file |-> insert_generated_file,
    insert_upload_file |-> insert_upload_file, audit_log |-> audit_log,
    mcp_create |-> mcp_create, mcp_update |-> mcp_update, mcp_rename |-> mcp_rename,
    mcp_delete |-> mcp_delete, mcp_toggle |-> mcp_toggle,
    register_skill |-> register_skill, update_skill_meta |-> update_skill_meta,
    delete_skill |-> delete_skill, record_usage |-> record_usage,
    check_auto_promotion |-> check_auto_promotion, record_version |-> record_version,
    activate_version |-> activate_version, rollback_version |-> rollback_version,
    execute_promotion |-> execute_promotion, refuse_promotion |-> refuse_promotion,
    reject_promotion |-> reject_promotion,
    cleanup_expired_promotions |-> cleanup_expired_promotions,
    submit_feedback |-> submit_feedback, create_version |-> create_version,
    record |-> record, upsert |-> upsert, adjust_confidence |-> adjust_confidence,
    apply_skill_change |-> apply_skill_change,
    propose_skill_change |-> propose_skill_change,
    review_keep_proposed |-> review_keep_proposed, review_discard |-> review_discard,
    review_keep |-> review_keep, review_rollback |-> review_rollback,
    generate_warning_page |-> generate_warning_page,
    generate_antipattern_page |-> generate_antipattern_page,
    generate_page |-> generate_page, update_validation |-> update_validation,
    db_save |-> db_save, db_delete |-> db_delete ]

Op == DOMAIN Program

\* Operations that swallow the exception of a statement and answer as always
Quiet == {"audit_log", "record_usage", "insert_generated_file", "insert_upload_file",
          "summarize_and_store_session", "update_user_language", "resolve_user_language",
          "backfill_session_stats", "db_save", "db_delete"}

\* Operations that try again from the start, when the database is locked or,
\* for the audit log, after any failure
Retried == {"update_session_title", "update_session_status", "update_session_stats",
            "add_message", "audit_log"}

\* Operations that leave it to whoever commits next to make what they wrote last
Uncommitted == {"admin_disable_user", "admin_enable_user", "admin_promote_user",
                "admin_demote_user", "submit_feedback", "record", "upsert",
                "adjust_confidence", "apply_skill_change", "propose_skill_change",
                "review_keep_proposed", "review_discard", "review_keep",
                "review_rollback"}

\* Operations that commit one row, or one half, before they write the next
Piecemeal == {"mcp_rename", "check_auto_promotion", "review_rollback"}

-----------------------------------------------------------------------------
VARIABLES
    calls,    \* each call: its operation, the step it is at, and how it stands
    pending,  \* what has been written in the open transaction: call and step
    durable,  \* what is there for good
    foreign   \* calls of which another call's commit has made something last

connVars == <<calls, pending, durable, foreign>>

None  == "none"
Write == Call \X (1 .. 7)

TypeOK ==
    /\ calls \in [Call -> [op : Op \cup {None}, pc : 1 .. 8,
                           state : {"new", "busy", "answered", "failed", "cut"}]]
    /\ pending \subseteq Write
    /\ durable \subseteq Write
    /\ foreign \subseteq Call
    /\ pending \cap durable = {}

Init ==
    /\ calls = [c \in Call |-> [op |-> None, pc |-> 1, state |-> "new"]]
    /\ pending = {}
    /\ durable = {}
    /\ foreign = {}

Busy(c)  == calls[c].state = "busy"
At(c, s) == Busy(c) /\ Program[calls[c].op][calls[c].pc] = s

Ends(c, how) == calls' = [calls EXCEPT ![c].state = how]

\* One step further; past the last step the call is answered
Advance(c) ==
    IF calls[c].pc = Len(Program[calls[c].op])
    THEN Ends(c, "answered")
    ELSE calls' = [calls EXCEPT ![c].pc = @ + 1]

Begin(c) ==
    /\ calls[c].state = "new"
    /\ \E o \in Op : calls' = [calls EXCEPT ![c].op = o, ![c].state = "busy"]
    /\ UNCHANGED <<pending, durable, foreign>>

Read(c) ==
    /\ At(c, "see") \/ At(c, "look")
    /\ Advance(c)
    /\ UNCHANGED <<pending, durable, foreign>>

\* The early return, or the HTTPException, that a query leads to
EndEarly(c) ==
    /\ At(c, "see")
    /\ Ends(c, "answered")
    /\ UNCHANGED <<pending, durable, foreign>>

Put(c) ==
    /\ At(c, "put")
    /\ pending' = (pending \cup {<<c, calls[c].pc>>}) \ durable
    /\ Advance(c)
    /\ UNCHANGED <<durable, foreign>>

File(c) ==
    /\ At(c, "file")
    /\ durable' = durable \cup {<<c, calls[c].pc>>}
    /\ Advance(c)
    /\ UNCHANGED <<pending, foreign>>

Commit(c) ==
    /\ At(c, "commit")
    /\ durable' = durable \cup pending
    /\ pending' = {}
    /\ foreign' = foreign \cup {d \in Call \ {c} : \E w \in pending : w[1] = d}
    /\ Advance(c)

\* A statement raises: nothing is taken back
Fail(c) ==
    /\ At(c, "see") \/ At(c, "look") \/ At(c, "put") \/ At(c, "commit")
    /\ Ends(c, IF calls[c].op \in Quiet THEN "answered" ELSE "failed")
    /\ UNCHANGED <<pending, durable, foreign>>

Retry(c) ==
    /\ At(c, "put") \/ At(c, "commit")
    /\ calls[c].op \in Retried
    /\ calls' = [calls EXCEPT ![c].pc = 1]
    /\ UNCHANGED <<pending, durable, foreign>>

\* The process ends, whether it is stopped or crashes: the shutdown handler
\* neither commits nor closes the connection
ProcessEnds ==
    /\ calls' = [c \in Call |-> IF Busy(c) THEN [calls[c] EXCEPT !.state = "cut"] ELSE calls[c]]
    /\ pending' = {}
    /\ UNCHANGED <<durable, foreign>>

Next ==
    \/ \E c \in Call : \/ Begin(c) \/ Read(c) \/ EndEarly(c) \/ Put(c) \/ File(c)
                       \/ Commit(c) \/ Fail(c) \/ Retry(c)
    \/ ProcessEnds

Spec == Init /\ [][Next]_connVars

-----------------------------------------------------------------------------
Steps(c, s) == {i \in 1 .. Len(Program[calls[c].op]) : Program[calls[c].op][i] = s}
Lasting(c)  == {i \in Steps(c, "put") : <<c, i>> \in durable}

\* What an operation has written before it answered outlives the process, unless
\* it is one that swallows its failures or leaves the commit to others: no
\* failure, commit or end of the process elsewhere takes it.
AnsweredIsDurable ==
    \A c \in Call :
        /\ calls[c].state = "answered"
        /\ calls[c].op \notin Quiet \cup Uncommitted
        => \A i \in Steps(c, "put") : i <= calls[c].pc => <<c, i>> \in durable

\* "Uses a single aiosqlite connection ... All operations are serialized": of a
\* call that writes several rows and commits once, all or none are there for
\* good, wherever it fails or is cut, as long as no other call has committed
\* in the middle of it.
SplitOnlyByOthers ==
    \A c \in Call :
        calls[c].state # "new" /\ calls[c].op \notin Piecemeal =>
            Lasting(c) \in {{}, Steps(c, "put")} \/ c \in foreign
=============================================================================
