---------------------------- MODULE SessionTask ----------------------------
(***************************************************************************)
(* One chat session of src/main_server.py: the WebSocket handlers          *)
(* (handle_ws) of the connections that are open on it, the agent task they *)
(* start, reuse and cancel, the cancel endpoint, and what all of them do   *)
(* to the state and the done flag of the session's buffer.                 *)
(*                                                                         *)
(* Everything runs on one asyncio loop, so an action is what a coroutine   *)
(* does from one await to the next.  add_message is taken as its last part *)
(* alone, the state update that follows the write (module MessageBuffer    *)
(* has the rest); so is mark_done.                                         *)
(***************************************************************************)
EXTENDS Naturals, Sequences, FiniteSets

CONSTANTS
    Conn,        \* WebSocket connections, one handle_ws each
    Prompt,      \* chat messages, each sent once
    Canceller,   \* calls of the cancel_session endpoint
    Free,        \* the task lock has no holder
    NoTask,      \* active_tasks has no entry for the session
    Requests,    \* what clients send besides chat: of recover, resume, close
    Impatient,   \* clients send a chat message before the last one is answered
    Faults,      \* a statement of the chat branch may fail
    MaxRequests, \* bound: recover, resume and close messages
    MaxTimeouts  \* bound: tasks that run into AGENT_TASK_TIMEOUT

ASSUME ConstantsAssumption ==
    /\ Free \notin Conn
    /\ NoTask \notin Prompt
    /\ Requests \subseteq {"recover", "resume", "close"}
    /\ Requests \cap Prompt = {}
    /\ Impatient \in BOOLEAN
    /\ Faults \in BOOLEAN
    /\ MaxRequests \in Nat
    /\ MaxTimeouts \in Nat

VARIABLES
    state,     \* buf["state"]
    done,      \* buf["done"]
    recorded,  \* prompts the buffer has taken
    lock,      \* _task_locks[task_key]: its holder
    active,    \* active_tasks[task_key]: the prompt that task is for
    run,       \* how far the task of each prompt is
    doomed,    \* tasks that were told to cancel and have not ended
    at,        \* where the handler of each connection is
    prompt,    \* the chat message it is serving
    inbox,     \* its pending_ws_msgs
    turn,      \* how far a loop that watches the buffer is in its turn
    call,      \* where each cancel_session call is
    sent,      \* prompts sent so far
    expired,   \* tasks ended by their timeout
    asked      \* recover, resume and close messages sent so far

buffer == <<state, done, recorded>>
tasks  == <<active, run, doomed, expired>>
conns  == <<at, prompt, inbox, turn>>
env    == <<sent, asked>>
vars   == <<state, done, recorded, lock, active, run, doomed, at, prompt, inbox,
            turn, call, sent, expired, asked>>

Terminal == {"completed", "error", "cancelled"}
States   == Terminal \cup {"idle", "running", "waiting_user"}
Serving  == {"begin", "user", "announce", "create"}
Watching == {"subscribed", "resume"}

TypeOK ==
    /\ state \in States
    /\ done \in BOOLEAN
    /\ recorded \subseteq Prompt
    /\ lock \in Conn \cup {Free}
    /\ active \in Prompt \cup {NoTask}
    /\ run \in [Prompt -> {"none", "start", "work", "ask", "completed", "title",
                           "failing", "reported", "failed", "closing", "done"}]
    /\ doomed \subseteq Prompt
    /\ at \in [Conn -> {"outer", "lock", "recover", "lost", "typed", "interrupt",
                        "parting", "leaving", "orphan", "closed"} \cup Serving \cup Watching]
    /\ prompt \in [Conn -> Prompt \cup {NoTask}]
    /\ inbox \in [Conn -> Seq(Prompt \cup Requests)]
    /\ turn \in [Conn -> {"top", "pull", "wait"}]
    /\ call \in [Canceller -> {"idle", "marked", "returned"}]
    /\ sent \subseteq Prompt
    /\ expired \subseteq Prompt
    /\ asked \in 0..MaxRequests

Init ==
    /\ state = "idle"
    /\ done = FALSE
    /\ recorded = {}
    /\ lock = Free
    /\ active = NoTask
    /\ run = [p \in Prompt |-> "none"]
    /\ doomed = {}
    /\ at = [c \in Conn |-> "outer"]
    /\ prompt = [c \in Conn |-> NoTask]
    /\ inbox = [c \in Conn |-> <<>>]
    /\ turn = [c \in Conn |-> "top"]
    /\ call = [k \in Canceller |-> "idle"]
    /\ sent = {}
    /\ expired = {}
    /\ asked = 0

Live(p)  == run[p] \notin {"none", "done"}
TaskLive == active # NoTask /\ Live(active)

-----------------------------------------------------------------------------
(* The clients. *)

\* ws_reader ends with the message that stands for the closed connection
Open(c) == at[c] # "closed" /\ \A i \in DOMAIN inbox[c] : inbox[c][i] # "close"

Send(c, p) ==
    /\ p \notin sent
    /\ Open(c)
    /\ Impatient \/ (at[c] = "outer" /\ inbox[c] = <<>>)
    /\ sent' = sent \cup {p}
    /\ inbox' = [inbox EXCEPT ![c] = Append(@, p)]
    /\ UNCHANGED <<buffer, tasks, lock, at, prompt, turn, call, asked>>

Request(c, m) ==
    /\ asked < MaxRequests
    /\ asked' = asked + 1
    /\ Open(c)
    /\ inbox' = [inbox EXCEPT ![c] = Append(@, m)]
    /\ UNCHANGED <<buffer, tasks, lock, at, prompt, turn, call, sent>>

-----------------------------------------------------------------------------
(* handle_ws *)

Goes(c, place) == at' = [at EXCEPT ![c] = place]

Next1(c, m) == inbox[c] # <<>> /\ m = Head(inbox[c])

\* The outer loop takes the next message
TakePrompt(c, p) ==
    /\ at[c] = "outer"
    /\ Next1(c, p)
    /\ inbox' = [inbox EXCEPT ![c] = Tail(@)]
    /\ prompt' = [prompt EXCEPT ![c] = p]
    /\ Goes(c, "lock")
    /\ UNCHANGED <<buffer, tasks, lock, turn, call, env>>

TakeRequestMutant(c, m) ==
    /\ at[c] = "outer"
    /\ Next1(c, m)
    /\ inbox' = [inbox EXCEPT ![c] = Tail(@)]
    /\ Goes(c, m)
    /\ UNCHANGED <<buffer, tasks, lock, prompt, turn, call, env>>

TakeRequest(c, m) ==
    /\ at[c] = "outer"
    /\ Next1(c, m)
    /\ inbox' = [inbox EXCEPT ![c] = Tail(@)]
    /\ Goes(c, IF m = "close" THEN "closed" ELSE m)
    /\ UNCHANGED <<buffer, tasks, lock, prompt, turn, call, env>>

ReuseMutant(c) ==
    /\ at[c] = "lock"
    /\ lock = Free
    /\ TaskLive
    /\ done' = FALSE
    /\ recorded' = recorded \cup {prompt[c]}
    /\ Goes(c, "subscribed")
    /\ UNCHANGED <<state, tasks, lock, prompt, inbox, turn, call, env>>

\* The chat branch, under the session's lock: a task that has not ended is
\* reused, and the message with it goes no further
Reuse(c) ==
    /\ at[c] = "lock"
    /\ lock = Free
    /\ TaskLive
    /\ Goes(c, "subscribed")
    /\ UNCHANGED <<buffer, tasks, lock, prompt, inbox, turn, call, env>>

\* The buffer dict is set directly, then create_session and
\* add_message(user) are awaited
SetRunning(c) ==
    /\ state' = "running"
    /\ done' = FALSE
    /\ Goes(c, "user")

AcquireMutant(c) ==
    /\ at[c] = "lock"
    /\ ~TaskLive
    /\ lock' = c
    /\ \/ recorded = {} /\ Goes(c, "begin") /\ UNCHANGED <<state, done>>
       \/ recorded # {} /\ SetRunning(c)
    /\ UNCHANGED <<recorded, tasks, prompt, inbox, turn, call, env>>

\* is_continuation: a session with nothing in memory asks the database first
Acquire(c) ==
    /\ at[c] = "lock"
    /\ lock = Free
    /\ ~TaskLive
    /\ lock' = c
    /\ \/ recorded = {} /\ Goes(c, "begin") /\ UNCHANGED <<state, done>>
       \/ recorded # {} /\ SetRunning(c)
    /\ UNCHANGED <<recorded, tasks, prompt, inbox, turn, call, env>>

BeginMutant(c) ==
    /\ at[c] = "begin"
    /\ state' = "running"
    /\ done' = FALSE
    /\ Goes(c, "announce")
    /\ UNCHANGED <<recorded, tasks, lock, prompt, inbox, turn, call, env>>

\* has_session_history has answered
Begin(c) ==
    /\ at[c] = "begin"
    /\ SetRunning(c)
    /\ UNCHANGED <<recorded, tasks, lock, prompt, inbox, turn, call, env>>

RecordUser(c) ==
    /\ at[c] = "user"
    /\ done' = FALSE
    /\ recorded' = recorded \cup {prompt[c]}
    /\ Goes(c, "announce")
    /\ UNCHANGED <<state, tasks, lock, prompt, inbox, turn, call, env>>

\* add_message(running); the status column and the uploads are written next
Announce(c) ==
    /\ at[c] = "announce"
    /\ state' = "running"
    /\ done' = FALSE
    /\ Goes(c, "create")
    /\ UNCHANGED <<recorded, tasks, lock, prompt, inbox, turn, call, env>>

CreateMutant(c) ==
    /\ at[c] = "create"
    /\ run' = [run EXCEPT ![prompt[c]] = "start"]
    /\ active' = prompt[c]
    /\ Goes(c, "subscribed")
    /\ UNCHANGED <<buffer, doomed, expired, lock, prompt, inbox, turn, call, env>>

Create(c) ==
    /\ at[c] = "create"
    /\ run' = [run EXCEPT ![prompt[c]] = "start"]
    /\ active' = prompt[c]
    /\ lock' = Free
    /\ Goes(c, "subscribed")
    /\ UNCHANGED <<buffer, doomed, expired, prompt, inbox, turn, call, env>>

\* A write fails: the handler ends, and leaves the buffer as it is
Break(c) ==
    /\ Faults
    /\ at[c] \in Serving \cup {"typed"}
    /\ lock' = IF lock = c THEN Free ELSE lock
    /\ Goes(c, "closed")
    /\ UNCHANGED <<buffer, tasks, prompt, inbox, turn, call, env>>

\* A loop takes messages at the top of its turn
Hears(c, m) == turn[c] = "top" /\ Next1(c, m)

\* The subscribe loop gets a chat message for its session: it is buffered,
\* the CLI is interrupted, the task cancelled and the message put back
Typed(c, p) ==
    /\ at[c] = "subscribed"
    /\ Hears(c, p)
    /\ inbox' = [inbox EXCEPT ![c] = Tail(@)]
    /\ prompt' = [prompt EXCEPT ![c] = p]
    /\ Goes(c, "typed")
    /\ UNCHANGED <<buffer, tasks, lock, turn, call, env>>

RecordTyped(c) ==
    /\ at[c] = "typed"
    /\ done' = FALSE
    /\ recorded' = recorded \cup {prompt[c]}
    /\ Goes(c, "interrupt")
    /\ UNCHANGED <<state, tasks, lock, prompt, inbox, turn, call, env>>

CancelOld(c) ==
    /\ at[c] = "interrupt"
    /\ doomed' = IF TaskLive THEN doomed \cup {active} ELSE doomed
    /\ inbox' = [inbox EXCEPT ![c] = Append(@, prompt[c])]
    /\ Goes(c, "outer")
    /\ UNCHANGED <<buffer, active, run, expired, lock, prompt, turn, call, env>>

\* _wait_for_ws_or_buffer puts the message that ends its wait back at the end
Rotated(q) == IF q = <<>> THEN q ELSE Append(Tail(q), Head(q))

\* The recover and resume loops leave a chat message to the outer loop; a
\* recover loop comes past _wait_for_ws_or_buffer on its way there
PutBack(c, p) ==
    /\ at[c] \in {"recover", "resume"}
    /\ Hears(c, p)
    /\ inbox' = [inbox EXCEPT ![c] = Append(Tail(@), p)]
    /\ Goes(c, IF at[c] = "recover" THEN "parting" ELSE "outer")
    /\ UNCHANGED <<buffer, tasks, lock, prompt, turn, call, env>>

Part(c) ==
    /\ at[c] = "parting"
    /\ inbox' = [inbox EXCEPT ![c] = Rotated(@)]
    /\ Goes(c, "outer")
    /\ UNCHANGED <<buffer, tasks, lock, prompt, turn, call, env>>

\* "ignore duplicate recover/resume for SAME session"; for the resume loop a
\* recover message is one more chat message
Ignore(c, m) ==
    /\ at[c] \in {"subscribed", "recover", "resume"}
    /\ Hears(c, m)
    /\ m \in {"recover", "resume"}
    /\ IF at[c] = "resume" /\ m = "recover"
       THEN inbox' = [inbox EXCEPT ![c] = Append(Tail(@), m)] /\ Goes(c, "outer")
       ELSE inbox' = [inbox EXCEPT ![c] = Tail(@)] /\ UNCHANGED at
    /\ UNCHANGED <<buffer, tasks, lock, prompt, turn, call, env>>

Closed(c) ==
    /\ at[c] \in {"subscribed", "recover", "resume"}
    /\ Hears(c, "close")
    /\ inbox' = [inbox EXCEPT ![c] = Tail(@)]
    /\ Goes(c, "closed")
    /\ UNCHANGED <<buffer, tasks, lock, prompt, turn, call, env>>

\* A turn of the subscribe and resume loops: the queue is empty, the buffer is
\* read and its messages sent, and the loop ends if the buffer says done.
\* Otherwise it waits for the buffer, for a message or for the heartbeat.
Pull(c) ==
    /\ at[c] \in Watching
    /\ turn[c] = "top"
    /\ inbox[c] = <<>>
    /\ turn' = [turn EXCEPT ![c] = "pull"]
    /\ UNCHANGED <<buffer, tasks, lock, at, prompt, inbox, call, env>>

CheckDone(c) ==
    /\ at[c] \in Watching
    /\ turn[c] = "pull"
    /\ turn' = [turn EXCEPT ![c] = IF done THEN "top" ELSE "wait"]
    /\ Goes(c, IF done THEN "leaving" ELSE at[c])
    /\ UNCHANGED <<buffer, tasks, lock, prompt, inbox, call, env>>

Wake(c) ==
    /\ at[c] \in Watching
    /\ turn[c] = "wait"
    /\ turn' = [turn EXCEPT ![c] = "top"]
    /\ inbox' = [inbox EXCEPT ![c] = Rotated(@)]
    /\ UNCHANGED <<buffer, tasks, lock, at, prompt, call, env>>

Orphaned == state = "running" /\ ~TaskLive

Left(c) ==
    /\ at[c] = "leaving"
    /\ Goes(c, IF Orphaned THEN "orphan" ELSE "outer")
    /\ UNCHANGED <<buffer, tasks, lock, prompt, inbox, turn, call, env>>

\* _handle_orphaned_running: before a loop is left, and in every turn of the
\* recover loop, which nothing but a message ends
FindOrphan(c) ==
    /\ at[c] = "recover"
    /\ Orphaned
    /\ Goes(c, "lost")
    /\ UNCHANGED <<buffer, tasks, lock, prompt, inbox, turn, call, env>>

\* The synthetic error has been sent: the buffer is marked, whatever has
\* happened since the look.  A recover loop then goes on.
MarkOrphan(c) ==
    /\ at[c] \in {"lost", "orphan"}
    /\ state' = "error"
    /\ done' = TRUE
    /\ Goes(c, IF at[c] = "lost" THEN "recover" ELSE "outer")
    /\ UNCHANGED <<recorded, tasks, lock, prompt, inbox, turn, call, env>>

-----------------------------------------------------------------------------
(* The agent task: LocalAgentExecutor.run under wait_for.  A task told to   *)
(* cancel takes no further step but to end: "except Exception" lets         *)
(* CancelledError through.                                                  *)

Runs(p, from, to) ==
    /\ run[p] \in from
    /\ p \notin doomed
    /\ run' = [run EXCEPT ![p] = to]
    /\ UNCHANGED <<recorded, active, doomed, expired, lock, conns, call, env>>

\* The client is connected and queried
Connected(p) == Runs(p, {"start"}, "work") /\ UNCHANGED <<state, done>>

\* process_event of a message that announces no state
Emit(p) == Runs(p, {"work"}, "work") /\ done' = FALSE /\ UNCHANGED state

\* AskUserQuestion: answered, or given up after 300 s
AskUser(p) == Runs(p, {"work"}, "ask") /\ done' = FALSE /\ state' = "waiting_user"
Answered(p) == Runs(p, {"ask"}, "work") /\ UNCHANGED <<state, done>>

\* _finish_task: completed, the result, then the title, then mark_done
Finish(p) == Runs(p, {"work"}, "completed") /\ done' = TRUE /\ state' = "completed"
Result(p) == Runs(p, {"completed"}, "title") /\ done' = TRUE /\ state' = "completed"

MarkedState == IF state \in {"cancelled", "error"} THEN state ELSE "completed"

MarkDone(p) ==
    /\ Runs(p, {"completed", "title", "failed"}, "closing")
    /\ done' = TRUE
    /\ state' = MarkedState

FailMutant(p) ==
    Runs(p, {"start", "work", "ask", "completed", "title"}, "closing") /\ UNCHANGED <<state, done>>

\* handle_task_error: the error, the state, mark_done
Fail(p) ==
    Runs(p, {"start", "work", "ask", "completed", "title"}, "failing") /\ UNCHANGED <<state, done>>
ShowError(p) == Runs(p, {"failing"}, "reported") /\ done' = FALSE /\ UNCHANGED state
ReportError(p) == Runs(p, {"reported"}, "failed") /\ done' = TRUE /\ state' = "error"

\* The task's coroutine returns and Task.done() is true
End(p) == Runs(p, {"closing"}, "done") /\ UNCHANGED <<state, done>>

Ends(p) ==
    /\ Live(p)
    /\ run' = [run EXCEPT ![p] = "done"]
    /\ doomed' = doomed \ {p}
    /\ UNCHANGED <<buffer, active, lock, conns, call, env>>

\* CancelledError
Die(p) == p \in doomed /\ Ends(p) /\ UNCHANGED expired

\* wait_for cancels the executor and raises TimeoutError to nobody
Expire(p) ==
    /\ Cardinality(expired) < MaxTimeouts
    /\ p \notin doomed
    /\ expired' = expired \cup {p}
    /\ Ends(p)

-----------------------------------------------------------------------------
(* cancel_session *)

CancelMark(k) ==
    /\ call[k] = "idle"
    /\ call' = [call EXCEPT ![k] = "marked"]
    /\ state' = "cancelled"
    /\ done' = TRUE
    /\ UNCHANGED <<recorded, tasks, lock, conns, env>>

CancelTask(k) ==
    /\ call[k] = "marked"
    /\ call' = [call EXCEPT ![k] = "returned"]
    /\ doomed' = IF TaskLive THEN doomed \cup {active} ELSE doomed
    /\ UNCHANGED <<buffer, active, run, expired, lock, conns, env>>

-----------------------------------------------------------------------------
Handle(c) ==
    \/ \E p \in Prompt : TakePrompt(c, p) \/ Typed(c, p) \/ PutBack(c, p)
    \/ \E m \in Requests : TakeRequest(c, m) \/ Ignore(c, m)
    \/ Closed(c)
    \/ Reuse(c) \/ Acquire(c) \/ Begin(c) \/ RecordUser(c) \/ Announce(c) \/ Create(c)
    \/ RecordTyped(c) \/ CancelOld(c)
    \/ Part(c) \/ Pull(c) \/ CheckDone(c) \/ Wake(c)
    \/ Left(c) \/ FindOrphan(c) \/ MarkOrphan(c)

Advance(p) ==
    \/ Connected(p) \/ Answered(p) \/ Finish(p) \/ Result(p) \/ MarkDone(p)
    \/ ShowError(p) \/ ReportError(p) \/ End(p) \/ Die(p)

Next ==
    \/ \E c \in Conn :
        \/ \E p \in Prompt : Send(c, p)
        \/ \E m \in Requests : Request(c, m)
        \/ Handle(c) \/ Break(c)
    \/ \E p \in Prompt : Advance(p) \/ Emit(p) \/ AskUser(p) \/ Fail(p) \/ Expire(p)
    \/ \E k \in Canceller : CancelMark(k) \/ CancelTask(k)

Spec == Init /\ [][Next]_vars

\* The loop resumes a coroutine whose await is over, asyncio.Lock is handed
\* over first come first served, and an agent that goes on long enough comes
\* to its last message: max_turns bounds it, AGENT_TASK_TIMEOUT ends it.
Fairness ==
    /\ \A c \in Conn : WF_vars(Handle(c)) /\ SF_vars(Reuse(c) \/ Acquire(c))
    /\ \A p \in Prompt : WF_vars(Advance(p)) /\ SF_vars(Finish(p))

FairSpec == Spec /\ Fairness

-----------------------------------------------------------------------------
(* Properties *)

\* Every task that has not ended is the one active_tasks names, so the cancel
\* endpoint, the heartbeat and the next chat message all reach it, and there
\* is never a second one: through the awaits between the test of done() and
\* create_task, and through messages that cancel the task they follow.
ActiveIsLive == \A p \in Prompt : Live(p) => active = p

\* "Buffer user message BEFORE agent task starts": whoever recovers a session
\* with a live task finds the message the task is about.
RecordedBeforeRun == \A p \in Prompt : Live(p) => p \in recorded

\* When no task is left and no handler is about to start one, the buffer says
\* done, so that no loop waits for a task that is over: true of clients that
\* wait for their answer, with any number of connections on the session, as
\* long as no task is cancelled or runs into its timeout.
SettledDone ==
    (\A p \in Prompt : ~Live(p)) /\ active # NoTask
    /\ (\A c \in Conn : at[c] \in {"outer", "lock", "closed"} \cup Watching) => done

\* Every chat message that waits for the session's lock gets it.
LockPassesOn == \A c \in Conn : at[c] = "lock" ~> at[c] # "lock"

\* A connection that watches a live task leaves its loop in the end and hears
\* its client again: the loop looks at the done flag once in a turn, and no
\* task leaves it FALSE behind.  Under the conditions of SettledDone.
WatcherLeaves ==
    \A c \in Conn : at[c] \in Watching /\ TaskLive ~> at[c] \notin Watching

\* "If session is done, final pull and exit": the recover loop ends, too.
RecoverExits == \A c \in Conn : at[c] = "recover" /\ done ~> at[c] # "recover"

Queued(p) == \E c \in Conn : \E i \in DOMAIN inbox[c] : inbox[c][i] = p

Held(p) == \E c \in Conn :
    prompt[c] = p /\ at[c] \in {"lock", "typed", "interrupt"} \cup Serving

\* "User messages are persisted before the agent task starts": a chat message
\* that no queue and no handler holds any longer is in the buffer.
PromptRecorded == \A p \in sent : Queued(p) \/ Held(p) \/ p \in recorded

\* "the agent is truly dead": a task that has just started, or is at work, is
\* not in a session that was declared an error.
LiveIsNotDead == TaskLive /\ run[active] \in {"start", "work"} => state # "error"

\* "Handles: TimeoutError, asyncio.CancelledError, and generic Exception.
\* Emits appropriate error messages, state changes, and marks session done."
TimeoutMarked == active \in expired /\ lock = Free => done
=============================================================================
