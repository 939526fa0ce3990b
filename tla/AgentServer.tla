---------------------------- MODULE AgentServer ----------------------------
(***************************************************************************)
(* One connection to the server inside a user's container (agent_server.py *)
(* agent_ws): the coroutine that reads the connection, the thread of each  *)
(* _CliRunner with its CLI process, and the pump that carries the events   *)
(* of a runner's queue to the connection.                                  *)
(*                                                                         *)
(* A runner outlives the run it was started for: the next run of the       *)
(* connection hands it another prompt.  Whether it still can take one is   *)
(* asked of its thread, which goes on for a while after its last event.    *)
(*                                                                         *)
(* The host at the other end is external: it may send a run, a cancel, or  *)
(* go, at any time (container_bridge.py uses it that way).                 *)
(***************************************************************************)
EXTENDS Naturals, Sequences, SequencesExt

CONSTANTS
    MaxRuns,     \* bound: run messages
    MaxCancels,  \* bound: cancel messages
    MaxLines     \* bound: lines a CLI writes for one prompt before its result

Run       == 1 .. MaxRuns
Terminal  == {"done", "exception", "cancelled"}
Kind      == Terminal \cup {"output", "result"}
Event     == [kind : Kind, prompt : Run \cup {0}]
Threads   == {"unborn", "starting", "waiting", "checking", "reading", "finishing",
              "dying", "dead"}
None      == 0

VARIABLES
    open,     \* the host still holds the connection
    inbox,    \* messages of the host that agent_ws has not read
    cancels,  \* how many of them were cancels so far
    serve,    \* agent_ws: where it is, how many runs it took, its runner, and
              \* whether the last run went to a thread that was about to end
    thread,   \* each runner: its thread, _cancel_event, _prompt_ready,
              \* _current_prompt, _shutting_down, its process, lines read
    queue,    \* each runner's _event_queue
    pump,     \* _pump_events of the run under way: none, waiting or ended
    sent      \* what has gone out: under which run, and from which prompt

agentVars == <<open, inbox, cancels, serve, thread, queue, pump, sent>>

Unborn == [at |-> "unborn", cancel |-> FALSE, ready |-> FALSE, prompt |-> None,
           shutdown |-> FALSE, cli |-> FALSE, lines |-> 0]

TypeOK ==
    /\ open \in BOOLEAN
    /\ inbox \in Seq({"run", "cancel"})
    /\ cancels \in 0 .. MaxCancels
    /\ serve \in [at : {"outer", "inner", "ending", "closed"}, run : Run \cup {None},
                  runner : Run \cup {None}, late : BOOLEAN]
    /\ thread \in [Run -> [at : Threads, cancel : BOOLEAN, ready : BOOLEAN,
                           prompt : Run \cup {None}, shutdown : BOOLEAN,
                           cli : BOOLEAN, lines : 0 .. MaxLines]]
    /\ queue \in [Run -> Seq(Event)]
    /\ pump \in {"none", "waiting", "ended"}
    /\ sent \subseteq [run : Run \cup {None}, event : Event]

Init ==
    /\ open = TRUE
    /\ inbox = <<>>
    /\ cancels = 0
    /\ serve = [at |-> "outer", run |-> None, runner |-> None, late |-> FALSE]
    /\ thread = [r \in Run |-> Unborn]
    /\ queue = [r \in Run |-> <<>>]
    /\ pump = "none"
    /\ sent = {}

Alive(r)   == r # None /\ thread[r].at \notin {"unborn", "dead"}
Put(r, k)  == queue' = [queue EXCEPT ![r] = Append(@, [kind |-> k, prompt |-> thread[r].prompt])]
Turn(r, s) == thread' = [thread EXCEPT ![r].at = s]

-----------------------------------------------------------------------------
(* The host (external). *)

runsSent == serve.run + Len(SelectSeq(inbox, LAMBDA m : m = "run"))

HostSends(m) ==
    /\ open
    /\ Len(inbox) < 2
    /\ IF m = "run" THEN runsSent < MaxRuns /\ UNCHANGED cancels
       ELSE cancels < MaxCancels /\ cancels' = cancels + 1
    /\ inbox' = Append(inbox, m)
    /\ UNCHANGED <<open, serve, thread, queue, pump, sent>>

HostGoes ==
    /\ open
    /\ open' = FALSE
    /\ UNCHANGED <<inbox, cancels, serve, thread, queue, pump, sent>>

-----------------------------------------------------------------------------
(* agent_ws. *)

CanReuseMutant(r) == r # None
CanReuse(r) == Alive(r)

\* enqueue_prompt
Prompted(t, n) == [t EXCEPT !.prompt = n, !.cancel = FALSE, !.ready = TRUE]

\* A run: a new runner unless the thread of the last one is alive
Accept ==
    LET n == serve.run + 1
        r == IF CanReuse(serve.runner) THEN serve.runner ELSE n
    IN  /\ serve.at = "outer"
        /\ inbox # <<>> /\ Head(inbox) = "run"
        /\ n \in Run                                         \* bound
        /\ inbox' = Tail(inbox)
        /\ serve' = [at |-> "inner", run |-> n, runner |-> r,
                     late |-> r # n /\ thread[r].at = "dying"]
        /\ thread' = [thread EXCEPT ![r] =
              Prompted(IF r = n THEN [Unborn EXCEPT !.at = "starting"] ELSE @, n)]
        /\ pump' = "waiting"
        /\ UNCHANGED <<open, cancels, queue, sent>>

\* A cancel: between runs it is answered at once; during one it is only passed
\* to the runner, and any other message is dropped
ReadCancel ==
    LET r == serve.runner
    IN  /\ serve.at = "outer"
        /\ inbox # <<>> /\ Head(inbox) = "cancel"
        /\ inbox' = Tail(inbox)
        /\ thread' = IF r = None THEN thread ELSE [thread EXCEPT ![r].cancel = TRUE]
        /\ sent' = sent \cup {[run |-> serve.run,
                               event |-> [kind |-> "cancelled", prompt |-> serve.run]]}
        /\ UNCHANGED <<open, cancels, serve, queue, pump>>

ReadDuringRun ==
    /\ serve.at = "inner"
    /\ pump = "waiting"
    /\ inbox # <<>>
    /\ inbox' = Tail(inbox)
    /\ IF Head(inbox) = "cancel"
       THEN thread' = [thread EXCEPT ![serve.runner].cancel = TRUE] /\ UNCHANGED serve
       ELSE UNCHANGED <<thread, serve>>
    /\ UNCHANGED <<open, cancels, queue, pump, sent>>

\* done_event is set; the runner is forgotten if its thread has ended by now
RunOver ==
    /\ serve.at = "inner"
    /\ pump = "ended"
    /\ serve' = [serve EXCEPT !.at = "outer", !.runner = IF Alive(@) THEN @ ELSE None]
    /\ UNCHANGED <<open, inbox, cancels, thread, queue, pump, sent>>

\* WebSocketDisconnect during a run: up to five seconds for the pump
LostDuringRun ==
    /\ serve.at = "inner"
    /\ pump = "waiting"
    /\ ~open /\ inbox = <<>>
    /\ serve' = [serve EXCEPT !.at = "ending"]
    /\ thread' = [thread EXCEPT ![serve.runner].cancel = TRUE]
    /\ UNCHANGED <<open, inbox, cancels, queue, pump, sent>>

ClosedMutant(r) == IF Alive(r) THEN [thread EXCEPT ![r].ready = TRUE] ELSE thread
Closed(r) == IF Alive(r)
             THEN [thread EXCEPT ![r].shutdown = TRUE, ![r].cancel = TRUE, ![r].ready = TRUE]
             ELSE thread

\* The outer finally: runner.shutdown(), after a pump that was too slow was
\* cancelled
Close ==
    /\ \/ serve.at = "ending"
       \/ serve.at = "outer" /\ ~open /\ inbox = <<>>
    /\ serve' = [serve EXCEPT !.at = "closed"]
    /\ thread' = Closed(serve.runner)
    /\ pump' = IF pump = "waiting" THEN "none" ELSE pump
    /\ UNCHANGED <<open, inbox, cancels, queue, sent>>

EndsMutant == Terminal \cup {"result"}
Ends       == Terminal

\* _pump_events
Pump ==
    LET r == serve.runner
        e == Head(queue[r])
    IN  /\ pump = "waiting"
        /\ queue[r] # <<>>
        /\ queue' = [queue EXCEPT ![r] = Tail(@)]
        /\ sent' = IF open THEN sent \cup {[run |-> serve.run, event |-> e]} ELSE sent
        /\ pump' = IF e.kind \in Ends THEN "ended" ELSE "waiting"
        /\ UNCHANGED <<open, inbox, cancels, serve, thread>>

-----------------------------------------------------------------------------
(* The thread of a runner (_run_cli).  The process is terminated in its    *)
(* finally, which may take five seconds: the thread is alive meanwhile.    *)

\* The answer to initialize; a cancel that came before it is looked at later
Initialized(r) ==
    /\ thread[r].at = "starting"
    /\ thread' = [thread EXCEPT ![r].at = "waiting", ![r].cli = TRUE]
    /\ UNCHANGED <<open, inbox, cancels, serve, queue, pump, sent>>

CancelledAtStart(r) ==
    /\ thread[r].at = "starting"
    /\ thread[r].cancel
    /\ Put(r, "cancelled")
    /\ Turn(r, "dying")
    /\ UNCHANGED <<open, inbox, cancels, serve, pump, sent>>

\* _wait_for_prompt returns: shutdown, or a prompt to send
TakePrompt(r) ==
    /\ thread[r].at = "waiting"
    /\ thread[r].ready
    /\ IF thread[r].shutdown
       THEN /\ thread' = [thread EXCEPT ![r].at = "dying", ![r].ready = FALSE]
            /\ Put(r, "done")
       ELSE /\ thread' = [thread EXCEPT ![r].at = "checking", ![r].ready = FALSE, ![r].lines = 0]
            /\ UNCHANGED queue
    /\ UNCHANGED <<open, inbox, cancels, serve, pump, sent>>

\* while not self._cancel_event.is_set()
Check(r) ==
    /\ thread[r].at = "checking"
    /\ Turn(r, IF thread[r].cancel THEN "finishing" ELSE "reading")
    /\ UNCHANGED <<open, inbox, cancels, serve, queue, pump, sent>>

ReadLine(r) ==
    /\ thread[r].at = "reading"
    /\ thread[r].cli
    /\ thread[r].lines < MaxLines
    /\ thread' = [thread EXCEPT ![r].at = "checking", ![r].lines = @ + 1]
    /\ Put(r, "output")
    /\ UNCHANGED <<open, inbox, cancels, serve, pump, sent>>

\* A hook's question: the enforcer allows or denies, and the CLI is told
AnswerHook(r) ==
    /\ thread[r].at = "reading"
    /\ thread[r].cli
    /\ thread[r].lines < MaxLines
    /\ thread' = [thread EXCEPT ![r].at = "checking", ![r].lines = @ + 1]
    /\ UNCHANGED <<open, inbox, cancels, serve, queue, pump, sent>>

ReadResult(r) ==
    /\ thread[r].at = "reading"
    /\ thread[r].cli
    /\ Turn(r, "finishing")
    /\ Put(r, "result")
    /\ UNCHANGED <<open, inbox, cancels, serve, pump, sent>>

\* The end of the CLI's output ends the loop like a result
ReadEnd(r) ==
    /\ thread[r].at = "reading"
    /\ thread' = [thread EXCEPT ![r].at = "finishing", ![r].cli = FALSE]
    /\ UNCHANGED <<open, inbox, cancels, serve, queue, pump, sent>>

Finish(r) ==
    /\ thread[r].at = "finishing"
    /\ Put(r, IF thread[r].cancel THEN "cancelled" ELSE "done")
    /\ Turn(r, IF thread[r].cancel THEN "dying" ELSE "waiting")
    /\ UNCHANGED <<open, inbox, cancels, serve, pump, sent>>

\* An exception: no process, no answer in time, a broken pipe
Fail(r) ==
    /\ thread[r].at \in {"starting", "checking", "reading"}
    /\ Put(r, "exception")
    /\ Turn(r, "dying")
    /\ UNCHANGED <<open, inbox, cancels, serve, pump, sent>>

Die(r) ==
    /\ thread[r].at = "dying"
    /\ thread' = [thread EXCEPT ![r].at = "dead", ![r].cli = FALSE]
    /\ UNCHANGED <<open, inbox, cancels, serve, queue, pump, sent>>

Next ==
    \/ \E m \in {"run", "cancel"} : HostSends(m)
    \/ HostGoes
    \/ Accept \/ ReadCancel \/ ReadDuringRun \/ RunOver \/ LostDuringRun \/ Close
    \/ Pump
    \/ \E r \in Run :
          \/ Initialized(r) \/ CancelledAtStart(r) \/ TakePrompt(r) \/ Check(r)
          \/ ReadLine(r) \/ AnswerHook(r) \/ ReadResult(r) \/ ReadEnd(r) \/ Finish(r)
          \/ Fail(r) \/ Die(r)

Spec == Init /\ [][Next]_agentVars

-----------------------------------------------------------------------------
\* What goes out under a run is what the CLI said to that run's prompt, though
\* runs of a connection share a runner, its process and its queue.
OwnEvents == \A m \in sent : m.event.prompt = m.run

\* A pump that waits has something to wait for: an event in the queue, or a
\* thread that has the run's prompt and will put one; unless the thread was in
\* its finally when it was given the prompt, where it passed for alive.
PumpFed ==
    serve.at = "inner" /\ pump = "waiting" /\ ~serve.late =>
        LET r == serve.runner
        IN  \/ queue[r] # <<>>
            \/ thread[r].prompt = serve.run
               /\ \/ thread[r].at \in {"starting", "waiting"} /\ thread[r].ready
                  \/ thread[r].at \in {"checking", "reading", "finishing"}

\* Once the connection is over, every thread still alive has been told to end:
\* no CLI is left to work or to wait for a prompt nobody can send.
NoCliLeftBehind ==
    serve.at = "closed" =>
        \A r \in Run : Alive(r) /\ thread[r].at # "dying" =>
            /\ thread[r].cancel \/ thread[r].at = "waiting"
            /\ thread[r].shutdown
=============================================================================
