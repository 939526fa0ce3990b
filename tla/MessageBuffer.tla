--------------------------- MODULE MessageBuffer ---------------------------
(***************************************************************************)
(* One session of src/src/message_buffer.py: the in-memory buffer, its     *)
(* sequence counter, the rows of the messages table and the status column  *)
(* of the sessions table.                                                  *)
(*                                                                         *)
(* A call of add_message, mark_done, remove_messages_by_type, get_history  *)
(* or delete_session is a coroutine of one asyncio loop.  It runs without   *)
(* interruption up to its next SQL statement and then waits in dbq, the    *)
(* queue of the one aiosqlite connection every caller shares: statements   *)
(* are executed, and their callers resumed, in the order they were issued. *)
(* An action resumes the caller at the head of dbq: it runs the statement  *)
(* and the code up to the next one.  The statements of one transaction     *)
(* that no other code looks between (INSERT, UPDATE count, COMMIT) are one *)
(* entry of the queue.                                                     *)
(***************************************************************************)
EXTENDS Integers, Sequences, FiniteSets

CONSTANTS
    Msg,        \* calls of add_message, each with the message it carries
    Marker,     \* calls of mark_done
    Remover,    \* calls of remove_messages_by_type(_, "file_result")
    Deleter,    \* calls of the delete_session endpoint
    Reader,     \* callers of get_history on behalf of the session's user
    After,      \* the values of after_index they ask for
    Kinds,      \* the kinds of message the callers send
    MaxHistory, \* MAX_HISTORY: messages kept in memory
    ResyncGap,  \* the 100 of _write_db: a counter further ahead is not trusted
    MaxCalls,   \* bound: calls under way at once
    MaxBufs,    \* bound: buffers created between two crashes
    MaxCrashes  \* bound: crashes of the server process

Terminal == {"completed", "error", "cancelled"}
States   == Terminal \cup {"idle", "running", "waiting_user"}

(* "text" stands for every message the buffer treats alike: user input,    *)
(* assistant text, tool calls and results, system notices.  The names of   *)
(* states are session_state_changed messages.                              *)
StateKinds == {"running"} \cup Terminal
AllKinds   == {"text", "stream", "file", "progress", "ask", "result"} \cup StateKinds

Co     == Msg \cup Marker \cup Remover \cup Deleter \cup Reader
NoRow  == -1   \* no row in the messages table; also COALESCE(MAX(seq), -1)
NoSeq  == -1   \* a dict without "seq"; no entry in MessageBuffer._seq
NoKind == "none"
NoBuf  == 0    \* session_id not in MessageBuffer.sessions

ASSUME ConstantsAssumption ==
    /\ Kinds \subseteq AllKinds
    /\ MaxHistory \in Nat \ {0}
    /\ ResyncGap \in Nat
    /\ MaxCalls \in Nat
    /\ MaxBufs \in Nat
    /\ MaxCrashes \in Nat
    /\ After \subseteq Nat
    /\ Msg \cap (Marker \cup Remover \cup Deleter \cup Reader) = {}
    /\ Marker \cap (Remover \cup Deleter \cup Reader) = {}
    /\ Remover \cap (Deleter \cup Reader) = {}
    /\ Deleter \cap Reader = {}
    /\ IsFiniteSet(Msg)

VARIABLES
    bufs,     \* the buffer dicts created since the process started
    cur,      \* index of the one registered in MessageBuffer.sessions
    nextSeq,  \* MessageBuffer._seq[session_id]
    msgSeq,   \* the "seq" of each message dict, shared by all who hold it
    row,      \* messages table: the seq of each message's row
    status,   \* sessions.status
    deleted,  \* sessions.deleted_at IS NOT NULL
    kind,     \* what each add_message call carries
    pc,       \* the statement each coroutine waits for
    ref,      \* the buffer dict a coroutine holds in its local "buf"
    num,      \* the seq an add_message is about to insert
    st,       \* the state a coroutine read, or is about to write
    after,    \* get_history: the index asked for,
    out,      \*   the messages found,
    before,   \*   history: the messages stored when it was called
    dbq,      \* coroutines waiting for the connection, in order
    log,      \* history: persistable messages in the order they were appended
    crashes

mem   == <<bufs, cur, nextSeq, msgSeq>>
db    == <<row, status, deleted>>
local == <<kind, ref, num, st, after, out, before>>
hist  == <<after, out, before>>
vars  == <<bufs, cur, nextSeq, msgSeq, row, status, deleted,
           kind, pc, ref, num, st, after, out, before, dbq, log, crashes>>

Waits == {"owner", "readstate", "readseq", "select", "insert", "status",
          "delete", "exists", "softdelete", "cold", "fallback"}

Buffer == [msgs : Seq(Msg), base : Nat, done : BOOLEAN, state : States]

TypeOK ==
    /\ bufs \in Seq(Buffer)
    /\ cur \in 0..Len(bufs)
    /\ nextSeq \in Nat \cup {NoSeq}
    /\ msgSeq \in [Msg -> Nat \cup {NoSeq}]
    /\ row \in [Msg -> Nat \cup {NoRow}]
    /\ status \in States \cup {"deleted"}
    /\ deleted \in BOOLEAN
    /\ kind \in [Msg -> Kinds \cup {NoKind}]
    /\ pc \in [Co -> Waits \cup {"idle", "returned", "raised", "lost"}]
    /\ ref \in [Co -> Nat]
    /\ num \in [Co -> Nat]
    /\ st \in [Co -> States]
    /\ after \in [Reader -> Nat]
    /\ out \in [Reader -> SUBSET Msg]
    /\ before \in [Reader -> SUBSET Msg]
    /\ dbq \in Seq(Co)
    /\ log \in Seq(Msg)
    /\ crashes \in 0..MaxCrashes

Init ==
    /\ bufs = <<>>
    /\ cur = NoBuf
    /\ nextSeq = NoSeq
    /\ msgSeq = [m \in Msg |-> NoSeq]
    /\ row = [m \in Msg |-> NoRow]
    /\ status = "idle"
    /\ deleted = FALSE
    /\ kind = [m \in Msg |-> NoKind]
    /\ pc = [c \in Co |-> "idle"]
    /\ ref = [c \in Co |-> NoBuf]
    /\ num = [c \in Co |-> 0]
    /\ st = [c \in Co |-> "idle"]
    /\ after = [r \in Reader |-> 0]
    /\ out = [r \in Reader |-> {}]
    /\ before = [r \in Reader |-> {}]
    /\ dbq = <<>>
    /\ log = <<>>
    /\ crashes = 0

-----------------------------------------------------------------------------
(* The database as the statements of message_buffer.py see it. *)

Stored(m) == row[m] # NoRow

\* SELECT COALESCE(MAX(seq), -1)
DbMax ==
    LET S == {row[m] : m \in Msg} \cup {NoRow}
    IN  CHOOSE s \in S : \A t \in S : t <= s

Newest(S) == CHOOSE m \in S : \A o \in S : row[o] <= row[m]
StoredOf(ks) == {m \in Msg : Stored(m) /\ kind[m] \in ks}

\* _read_db_state: the last session_state_changed or result message by seq
DbState ==
    LET S == StoredOf(StateKinds \cup {"result"})
    IN  IF S = {} THEN "idle"
        ELSE IF kind[Newest(S)] = "result" THEN "completed"
        ELSE kind[Newest(S)]

BackfillStateMutant ==
    IF StoredOf({"result"}) # {} THEN "completed"
    ELSE IF StoredOf({"progress"}) # {} THEN "running"
    ELSE IF \E m \in Msg : Stored(m) THEN "idle"
    ELSE status

\* backfill_session_stats: the last session_state_changed, or a guess
BackfillState ==
    LET S == StoredOf(StateKinds)
    IN  IF S # {} THEN kind[Newest(S)]
        ELSE IF StoredOf({"result"}) # {} THEN "completed"
        ELSE IF StoredOf({"progress"}) # {} THEN "running"
        ELSE IF \E m \in Msg : Stored(m) THEN "idle"
        ELSE status

-----------------------------------------------------------------------------
(* The buffer dict. *)

NewBuf(s) == [msgs |-> <<>>, base |-> 0, done |-> s \in Terminal, state |-> s]

AppendedMutant(b, m) ==
    LET all  == Append(b.msgs, m)
        drop == IF Len(all) > MaxHistory THEN Len(all) - MaxHistory ELSE 0
    IN  [b EXCEPT !.msgs = SubSeq(all, drop + 1, Len(all))]

\* Append and _evict_old
Appended(b, m) ==
    LET all  == Append(b.msgs, m)
        drop == IF Len(all) > MaxHistory THEN Len(all) - MaxHistory ELSE 0
    IN  [b EXCEPT !.msgs = SubSeq(all, drop + 1, Len(all)), !.base = @ + drop]

\* "Align base_index with the seq of the first message"
Aligned(b, s) ==
    IF b.base = 0 /\ Len(b.msgs) = 1 THEN [b EXCEPT !.base = s] ELSE b

StateAfter(s, k) ==
    CASE k = "progress"   -> "running"
      [] k = "ask"        -> "waiting_user"
      [] k = "result"     -> "completed"
      [] k \in StateKinds -> k
      [] OTHER            -> s

TransitionMutant(b, k) ==
    [b EXCEPT !.state = StateAfter(@, k),
              !.done  = @ \/ k \in Terminal \cup {"result"}]

\* The state update add_message makes once the message is written
Transition(b, k) ==
    [b EXCEPT !.state = StateAfter(@, k),
              !.done  = k \in Terminal \cup {"result"}]

IsFile(m) == kind[m] = "file"

\* The messages of seq that are no files, in their order: a recursive
\* function, where SelectSeq would do, for the sake of the proofs
Kept(seq) ==
    LET kept[i \in 0..Len(seq)] ==
            IF i = 0 THEN <<>>
            ELSE IF IsFile(seq[i]) THEN kept[i - 1]
            ELSE Append(kept[i - 1], seq[i])
    IN  kept[Len(seq)]

WithoutFilesMutant(b) ==
    [b EXCEPT !.msgs = Kept(b.msgs), !.base = @ + Len(Kept(b.msgs)) - Len(b.msgs)]

\* Positions move down as messages go, and base_index up by as much
WithoutFiles(b) ==
    [b EXCEPT !.msgs = Kept(b.msgs), !.base = @ + Len(b.msgs) - Len(Kept(b.msgs))]

-----------------------------------------------------------------------------
(* What a coroutine does once _ensure_buf has given it buffer b of heap h, *)
(* n being the counter and q the queue of the connection without it.       *)

AwaitMutant(c, wait, q) ==
    /\ pc' = [pc EXCEPT ![c] = wait]
    /\ dbq' = <<c>> \o q

Await(c, wait, q) ==
    /\ pc' = [pc EXCEPT ![c] = wait]
    /\ dbq' = Append(q, c)

Return(c, q) ==
    /\ pc' = [pc EXCEPT ![c] = "returned"]
    /\ dbq' = q

\* add_message: take a seq, append, evict; a stream event is never written,
\* so it goes on to the state update without waiting
AddStream(m, b, h, n, q) ==
    /\ kind'[m] = "stream"
    /\ bufs' = [h EXCEPT ![b] = Transition(Appended(@, m), "stream")]
    /\ nextSeq' = n
    /\ Return(m, q)
    /\ UNCHANGED <<msgSeq, st, log>>

AddNumbered(m, b, h, n, q) ==
    LET s == IF n = NoSeq THEN 0 ELSE n
    IN  /\ kind'[m] # "stream"
        /\ msgSeq' = [msgSeq EXCEPT ![m] = s]
        /\ nextSeq' = s + 1
        /\ bufs' = [h EXCEPT ![b] = Appended(@, m)]
        /\ log' = Append(log, m)
        /\ Await(m, "select", q)
        /\ UNCHANGED st

\* mark_done: a cancelled or failed session keeps its state
Mark(c, b, h, n, q) ==
    LET s == IF h[b].state \in {"cancelled", "error"} THEN h[b].state ELSE "completed"
    IN  /\ bufs' = [h EXCEPT ![b].done = TRUE, ![b].state = s]
        /\ st' = [st EXCEPT ![c] = s]
        /\ nextSeq' = n
        /\ Await(c, "status", q)
        /\ UNCHANGED <<msgSeq, log>>

\* remove_messages_by_type
Remove(c, b, h, n, q) ==
    LET any == \E i \in DOMAIN h[b].msgs : IsFile(h[b].msgs[i])
    IN  /\ bufs' = IF any THEN [h EXCEPT ![b] = WithoutFiles(@)] ELSE h
        /\ nextSeq' = n
        /\ IF any THEN Await(c, "delete", q) ELSE Return(c, q)
        /\ UNCHANGED <<msgSeq, st, log>>

\* get_history of a session that was not in memory has its answer already
Answer(c, h, n, q) ==
    /\ bufs' = h
    /\ nextSeq' = n
    /\ Return(c, q)
    /\ UNCHANGED <<msgSeq, st, log>>

Proceed(c, b, h, n, q) ==
    /\ ref' = [ref EXCEPT ![c] = b]
    /\ \/ c \in Msg     /\ AddStream(c, b, h, n, q)
       \/ c \in Msg     /\ AddNumbered(c, b, h, n, q)
       \/ c \in Marker  /\ Mark(c, b, h, n, q)
       \/ c \in Remover /\ Remove(c, b, h, n, q)
       \/ c \in Reader  /\ Answer(c, h, n, q)
    /\ UNCHANGED <<db, num, hist, crashes>>

-----------------------------------------------------------------------------
(* Calls, and the first half of _ensure_buf. *)

Wait(c, wait, q) ==
    /\ Await(c, wait, q)
    /\ UNCHANGED <<mem, db, ref, num, st, hist, log, crashes>>

Starts(c) ==
    /\ pc[c] = "idle"
    /\ Cardinality({o \in Co : pc[o] \in Waits}) < MaxCalls

\* add_message(m): the owner is looked up first when the session is not in
\* memory, otherwise the buffer is used at once
Add(m) ==
    /\ Starts(m)
    /\ \E k \in Kinds : kind' = [kind EXCEPT ![m] = k]
    /\ IF cur = NoBuf
       THEN Wait(m, "owner", dbq)
       ELSE Proceed(m, cur, bufs, nextSeq, dbq) /\ UNCHANGED cur

\* mark_done and remove_messages_by_type
CallOther(c) ==
    /\ Starts(c)
    /\ UNCHANGED kind
    /\ IF cur = NoBuf
       THEN Wait(c, "readstate", dbq)
       ELSE Proceed(c, cur, bufs, nextSeq, dbq) /\ UNCHANGED cur

\* delete_session: SessionStore.delete_session first looks for the row
CallDelete(c) ==
    /\ Starts(c)
    /\ Wait(c, "exists", dbq)
    /\ UNCHANGED kind

Resumes(c, wait) ==
    /\ dbq # <<>>
    /\ c = Head(dbq)
    /\ pc[c] = wait

\* _get_db_owner answered, then _ensure_buf looks at the sessions again
OwnerRead(c) ==
    /\ Resumes(c, "owner")
    /\ UNCHANGED kind
    /\ IF cur = NoBuf
       THEN Wait(c, "readstate", Tail(dbq))
       ELSE Proceed(c, cur, bufs, nextSeq, Tail(dbq)) /\ UNCHANGED cur

\* _ensure_buf registers a new dict, whatever is registered by now
Register(c, s, n) ==
    /\ Len(bufs) < MaxBufs
    /\ cur' = Len(bufs) + 1
    /\ Proceed(c, Len(bufs) + 1, Append(bufs, NewBuf(s)), n, Tail(dbq))

StateRead(c) ==
    /\ Resumes(c, "readstate")
    /\ UNCHANGED kind
    /\ IF nextSeq = NoSeq
       THEN /\ st' = [st EXCEPT ![c] = DbState]
            /\ Await(c, "readseq", Tail(dbq))
            /\ UNCHANGED <<mem, db, ref, num, hist, log, crashes>>
       ELSE Register(c, DbState, nextSeq)

SeqReadMutant(c) ==
    /\ Resumes(c, "readseq")
    /\ UNCHANGED kind
    /\ Register(c, st[c], IF DbMax = NoRow THEN 0 ELSE DbMax)

SeqRead(c) ==
    /\ Resumes(c, "readseq")
    /\ UNCHANGED kind
    /\ Register(c, st[c], DbMax + 1)

-----------------------------------------------------------------------------
(* _write_db and the rest of add_message. *)

WriteSeqMutantMax(m, d) == d + 1

WriteSeqMutantRenumber(m, d) == IF nextSeq > d + 1 THEN nextSeq ELSE d + 1

\* The seq _write_db settles on when the table's maximum is d
WriteSeq(m, d) ==
    IF msgSeq[m] > d THEN msgSeq[m]
    ELSE IF nextSeq > d + ResyncGap THEN d + 1
    ELSE IF nextSeq > d + 1 THEN nextSeq
    ELSE d + 1

Select(m) ==
    LET s == WriteSeq(m, DbMax)
    IN  /\ Resumes(m, "select")
        /\ num' = [num EXCEPT ![m] = s]
        /\ nextSeq' = s + 1
        /\ Await(m, "insert", Tail(dbq))
        /\ UNCHANGED <<bufs, cur, msgSeq, db, kind, ref, st, hist, log, crashes>>

\* UNIQUE INDEX idx_messages_session_seq
Taken(s) == \E o \in Msg : row[o] = s

InsertFails(m) ==
    /\ Resumes(m, "insert")
    /\ Taken(num[m])
    /\ pc' = [pc EXCEPT ![m] = "raised"]
    /\ dbq' = Tail(dbq)
    /\ UNCHANGED <<mem, db, local, log, crashes>>

InsertMutant(m) ==
    LET old == bufs[ref[m]]
        new == Transition(Aligned(old, num[m]), kind[m])
    IN  /\ Resumes(m, "insert")
        /\ ~Taken(num[m])
        /\ row' = [row EXCEPT ![m] = num[m]]
        /\ bufs' = [bufs EXCEPT ![ref[m]] = new]
        /\ IF new.state # old.state
           THEN st' = [st EXCEPT ![m] = new.state] /\ Await(m, "status", Tail(dbq))
           ELSE UNCHANGED st /\ Return(m, Tail(dbq))
        /\ UNCHANGED <<cur, nextSeq, msgSeq, status, deleted, kind, ref, num, hist, log, crashes>>

Insert(m) ==
    LET old == bufs[ref[m]]
        new == Transition(Aligned(old, num[m]), kind[m])
    IN  /\ Resumes(m, "insert")
        /\ ~Taken(num[m])
        /\ row' = [row EXCEPT ![m] = num[m]]
        /\ msgSeq' = [msgSeq EXCEPT ![m] = num[m]]
        /\ bufs' = [bufs EXCEPT ![ref[m]] = new]
        /\ IF new.state # old.state
           THEN st' = [st EXCEPT ![m] = new.state] /\ Await(m, "status", Tail(dbq))
           ELSE UNCHANGED st /\ Return(m, Tail(dbq))
        /\ UNCHANGED <<cur, nextSeq, status, deleted, kind, ref, num, hist, log, crashes>>

\* UPDATE sessions SET status ... AND deleted_at IS NULL
WriteStatus(c) ==
    /\ Resumes(c, "status")
    /\ status' = IF deleted THEN status ELSE st[c]
    /\ Return(c, Tail(dbq))
    /\ UNCHANGED <<mem, row, deleted, local, log, crashes>>

\* _delete_db_by_type
DeleteRows(c) ==
    /\ Resumes(c, "delete")
    /\ row' = [m \in Msg |-> IF IsFile(m) THEN NoRow ELSE row[m]]
    /\ Return(c, Tail(dbq))
    /\ UNCHANGED <<mem, status, deleted, local, log, crashes>>

\* 404 for a session deleted before: it keeps its buffer, if it has one
FindSession(c) ==
    /\ Resumes(c, "exists")
    /\ IF deleted
       THEN pc' = [pc EXCEPT ![c] = "raised"] /\ dbq' = Tail(dbq)
       ELSE Await(c, "softdelete", Tail(dbq))
    /\ UNCHANGED <<mem, db, local, log, crashes>>

\* The row is marked deleted, then remove_session drops the buffer
SoftDelete(c) ==
    /\ Resumes(c, "softdelete")
    /\ deleted' = TRUE
    /\ status' = "deleted"
    /\ cur' = NoBuf
    /\ Return(c, Tail(dbq))
    /\ UNCHANGED <<bufs, nextSeq, msgSeq, row, local, log, crashes>>

-----------------------------------------------------------------------------
(* get_history(after_index = a, user_id = the owner) *)

RowsFrom(a) == {m \in Msg : Stored(m) /\ row[m] >= a}

\* The positions of the list that after_index selects, {} for none: the list
\* is indexed from base_index
Slice(b, a) == IF a < b.base THEN {} ELSE (a - b.base + 1)..Len(b.msgs)

Asks(r, a) ==
    /\ Starts(r)
    /\ after' = [after EXCEPT ![r] = a]
    /\ before' = [before EXCEPT ![r] = {m \in Msg : Stored(m)}]
    /\ UNCHANGED <<mem, db, kind, ref, num, st, log, crashes>>

\* get_session_state, is_done, subscribe: only _ensure_buf
Look(r) ==
    /\ Starts(r)
    /\ cur = NoBuf
    /\ Wait(r, "readstate", dbq)
    /\ UNCHANGED kind

\* Answered from memory, without waiting
GetFromMemory(r, a) ==
    /\ cur # NoBuf
    /\ Slice(bufs[cur], a) # {}
    /\ out' = [out EXCEPT ![r] = {bufs[cur].msgs[i] : i \in Slice(bufs[cur], a)}]
    /\ Return(r, dbq)
    /\ Asks(r, a)

\* Answered from SQLite, before or after a look at the buffer
GetFromDb(r, a) ==
    /\ \/ cur = NoBuf /\ Await(r, "cold", dbq)
       \/ cur # NoBuf /\ Slice(bufs[cur], a) = {} /\ Await(r, "fallback", dbq)
    /\ UNCHANGED out
    /\ Asks(r, a)

Fallback(r) ==
    /\ Resumes(r, "fallback")
    /\ out' = [out EXCEPT ![r] = RowsFrom(after[r])]
    /\ Return(r, Tail(dbq))
    /\ UNCHANGED <<mem, db, kind, ref, num, st, after, before, log, crashes>>

\* The session was not in memory: rows if there are any, else a look at the
\* owner; _ensure_buf comes last
ColdRead(r) ==
    /\ Resumes(r, "cold")
    /\ out' = [out EXCEPT ![r] = RowsFrom(after[r])]
    /\ IF out'[r] = {} THEN Await(r, "owner", Tail(dbq))
       ELSE IF cur = NoBuf THEN Await(r, "readstate", Tail(dbq))
       ELSE Return(r, Tail(dbq))
    /\ UNCHANGED <<mem, db, kind, ref, num, st, after, before, log, crashes>>

-----------------------------------------------------------------------------
(* What happens to a buffer from outside. *)

\* handle_ws marks the buffer running before it starts a task
BeginRun ==
    /\ cur # NoBuf
    /\ bufs' = [bufs EXCEPT ![cur].done = FALSE, ![cur].state = "running"]
    /\ UNCHANGED <<cur, nextSeq, msgSeq, db, local, pc, dbq, log, crashes>>

\* cleanup_expired: nothing was appended for BUFFER_TIMEOUT, so no call on
\* the session is still under way
Expire ==
    /\ cur # NoBuf
    /\ dbq = <<>>
    /\ cur' = NoBuf
    /\ UNCHANGED <<bufs, nextSeq, msgSeq, db, local, pc, dbq, log, crashes>>

\* The process dies and starts again: memory is gone, calls under way never
\* return.  The startup task of backfill_session_stats queues its UPDATE of
\* status before any request is two statements in, so before any new write.
Crash ==
    /\ crashes < MaxCrashes
    /\ crashes' = crashes + 1
    /\ status' = IF deleted THEN status ELSE BackfillState
    /\ bufs' = <<>>
    /\ cur' = NoBuf
    /\ nextSeq' = NoSeq
    /\ msgSeq' = [m \in Msg |-> NoSeq]
    /\ pc' = [c \in Co |-> IF pc[c] \in Waits THEN "lost" ELSE pc[c]]
    /\ ref' = [c \in Co |-> NoBuf]
    /\ dbq' = <<>>
    /\ UNCHANGED <<row, deleted, kind, num, st, hist, log>>

Next ==
    \/ \E m \in Msg :
        \/ Add(m) \/ Select(m) \/ Insert(m) \/ InsertFails(m)
    \/ \E c \in Co : OwnerRead(c) \/ StateRead(c) \/ SeqRead(c) \/ WriteStatus(c)
    \/ \E c \in Marker \cup Remover : CallOther(c)
    \/ \E c \in Remover : DeleteRows(c)
    \/ \E c \in Deleter : CallDelete(c) \/ FindSession(c) \/ SoftDelete(c)
    \/ \E r \in Reader :
        \/ \E a \in After : GetFromMemory(r, a) \/ GetFromDb(r, a)
        \/ Fallback(r) \/ ColdRead(r) \/ Look(r)
    \/ BeginRun
    \/ Expire
    \/ Crash

Spec == Init /\ [][Next]_vars

-----------------------------------------------------------------------------
(* Properties.  "Warm" means that no call but the first finds the session  *)
(* out of memory while another one is being served (MaxBufs = 1), "a pair" *)
(* that at most two calls are under way at once (MaxCalls = 2), as when a  *)
(* running task and one request of the user meet.                          *)

\* Replay follows the conversation: of two stored messages the one that was
\* appended first has the smaller seq, so that ORDER BY seq in
\* _read_db_messages gives back the order in which add_message took them.
\* True of a pair; renumbering in _write_db breaks it for three writers.
ReplayOrder ==
    \A i, j \in DOMAIN log :
        i < j /\ Stored(log[i]) /\ Stored(log[j]) => row[log[i]] < row[log[j]]

\* A client resumes by seq against memory and against SQLite alike: once
\* add_message has returned, the seq its dict carries is the seq of its row,
\* whatever raced with it and however often _write_db renumbered.
Agreement ==
    \A m \in Msg :
        pc[m] = "returned" /\ msgSeq[m] # NoSeq /\ Stored(m) => msgSeq[m] = row[m]

\* No message is lost to a collision of numbers: the INSERT of _write_db never
\* meets a seq that is taken, though its SELECT MAX(seq) is older than it.
\* True of a warm pair, across crashes.
NothingLost == \A m \in Msg : pc[m] # "raised"

\* Between calls the counter is past every row, so that the next message is
\* stored under the seq it is shown with.  True of a warm pair, across crashes.
CounterAhead == dbq = <<>> /\ nextSeq # NoSeq => nextSeq > DbMax

\* A buffer that tells handle_ws "done" is in a terminal state, whichever of
\* add_message, mark_done, BeginRun and a cold start wrote last: the done flag
\* and the state string are set apart and never disagree this way round.
DoneIsTerminal == \A b \in DOMAIN bufs : bufs[b].done => bufs[b].state \in Terminal

\* Between calls, a session that is done in memory has that same state in the
\* sessions table, which the dashboard counts by: through cancel, mark_done,
\* eviction, and a crash followed by backfill_session_stats.  True of sessions
\* without a result message (see _read_db_state against the backfill).
StatusAgrees ==
    dbq = <<>> /\ ~deleted /\ cur # NoBuf =>
        (bufs[cur].done => status = bufs[cur].state)

\* A reader gets all it asked for: every message that was stored when
\* get_history was called, is stored still and has a seq of at least
\* after_index is in the answer.  Files are left out: remove_messages_by_type
\* takes them from memory before it deletes their rows.
\* "Falls back to SQLite when the in-memory list doesn't have enough history."
HistoryComplete ==
    \A r \in Reader : pc[r] = "returned" =>
        \A m \in before[r] :
            ~IsFile(m) /\ Stored(m) /\ row[m] >= after[r] => m \in out[r]

\* As long as the buffer has held the session since its first message, list
\* positions and numbers agree, through eviction and removals.
FreshHistoryComplete == crashes = 0 => HistoryComplete

\* "This guarantees get_history() always returns messages with seq, so WS and
\* REST use the same index for dedup": a seq, once a reader may have seen it,
\* is not changed.  True of a warm pair.
IndexStable ==
    [][\A m \in Msg : msgSeq[m] # NoSeq => msgSeq'[m] \in {msgSeq[m], NoSeq}]_vars

-----------------------------------------------------------------------------
(* The log that the buffer implements. *)

\* _read_db_messages: the messages that have a row, by seq
Rank(rows, m) == Cardinality({o \in Msg : rows[o] # NoRow /\ rows[o] <= rows[m]})
Replay(rows) ==
    [i \in 1..Cardinality({m \in Msg : rows[m] # NoRow}) |->
        CHOOSE m \in Msg : rows[m] # NoRow /\ Rank(rows, m) = i]

Log == INSTANCE SessionLog WITH
           taken   <- log,
           files   <- {m \in Msg : IsFile(m) /\ \E i \in DOMAIN log : log[i] = m},
           history <- Replay(row)

\* The buffer implements the log, through memory, eviction, two calls that race
\* and crashes: a replay from SQLite only ever grows at its end, in the order
\* add_message took the messages, or loses its files.  True of a warm pair.
ImplementsLog == Log!Spec
=============================================================================
