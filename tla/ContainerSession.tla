-------------------------- MODULE ContainerSession --------------------------
(***************************************************************************)
(* The runs of one session in container mode, as the server sees them: the *)
(* executor (agent/container.py), the bridge each run may create           *)
(* (container_bridge.py) with its receive task.  The user's container is   *)
(* up at some port, or not: who starts and stops it is in ContainerPool.   *)
(*                                                                         *)
(* At the far end of a bridge's connection an agent server takes one run   *)
(* and answers it (module AgentServer); here it only works, speaks, ends.  *)
(***************************************************************************)
EXTENDS Naturals, Sequences

CONSTANTS
    MaxRuns,    \* bound: runs of the session
    MaxStarts   \* bound: how often the container comes up with a new port

Run     == 1 .. MaxRuns
Try     == 1 .. 2                    \* a bridge connects again at most once
Kind    == {"output", "done", "error", "lost"}
None    == 0
Outcome == {"none", "done", "error", "failed", "cancelled"}

VARIABLES
    box,      \* the container: whether it runs, and its port by number
    task,     \* the executor's run: where it is, which it is, its connect
    reg,      \* session_agents[session]["bridge"]
    bridge,   \* each run's bridge: _connected, its connection, the receive
              \* task, _receive_queue, _error, and the port of container_url
    link,     \* each connection: up, closed in good order, what the agent
              \* server does with it, what is on its way to the bridge
    outcome   \* how each run ended

sessionVars == <<task, reg, bridge, link, outcome>>
vars        == <<box, task, reg, bridge, link, outcome>>

NoBridge == [connected |-> FALSE, ws |-> None, receive |-> "none", queue |-> <<>>,
             error |-> FALSE, port |-> None]
NoLink   == [up |-> FALSE, clean |-> FALSE, work |-> "none", out |-> <<>>]

TypeOK ==
    /\ box \in [up : BOOLEAN, port : 0 .. MaxStarts]
    /\ task \in [at : {"idle", "starting", "connecting", "sending", "streaming"},
                 run : Run \cup {None}, try : Try]
    /\ reg \in Run \cup {None}
    /\ bridge \in [Run -> [connected : BOOLEAN, ws : Try \cup {None},
                           receive : {"none", "on", "over"}, queue : Seq(Kind),
                           error : BOOLEAN, port : 0 .. MaxStarts]]
    /\ link \in [Run \X Try -> [up : BOOLEAN, clean : BOOLEAN,
                                work : {"none", "busy", "spoke"}, out : Seq(Kind)]]
    /\ outcome \in [Run -> Outcome]

Init ==
    /\ box = [up |-> FALSE, port |-> 0]
    /\ task = [at |-> "idle", run |-> None, try |-> 1]
    /\ reg = None
    /\ bridge = [r \in Run |-> NoBridge]
    /\ link = [c \in Run \X Try |-> NoLink]
    /\ outcome = [r \in Run |-> "none"]

-----------------------------------------------------------------------------
(* The container. *)

\* ensure_container: as it is, or up again at a new port
Ensured == IF box.up THEN UNCHANGED box
           ELSE box.port < MaxStarts /\ box' = [up |-> TRUE, port |-> box.port + 1]

\* start_container, and the warm-up at the start of a connection's task
Ensure ==
    /\ ~box.up
    /\ Ensured
    /\ UNCHANGED sessionVars

\* The container is stopped or destroyed, and what runs in it ends
Stop ==
    /\ box.up
    /\ box' = [box EXCEPT !.up = FALSE]
    /\ link' = [c \in Run \X Try |-> [link[c] EXCEPT !.up = FALSE, !.work = "none"]]
    /\ UNCHANGED <<task, reg, bridge, outcome>>

-----------------------------------------------------------------------------
(* ContainerAgentExecutor.run. *)

Ends(r, o) == /\ task' = [task EXCEPT !.at = "idle"]
              /\ outcome' = [outcome EXCEPT ![r] = o]
Goto(s)    == task' = [task EXCEPT !.at = s]

Start ==
    /\ task.at = "idle"
    /\ task.run < MaxRuns
    /\ \/ Ensured /\ task' = [at |-> "starting", run |-> task.run + 1, try |-> 1]
          /\ UNCHANGED outcome
       \/ /\ task' = [at |-> "idle", run |-> task.run + 1, try |-> 1]
          /\ outcome' = [outcome EXCEPT ![task.run + 1] = "failed"]
          /\ UNCHANGED box
    /\ UNCHANGED <<reg, bridge, link>>

SetupMutant ==
    /\ task.at = "starting"
    /\ bridge' = [bridge EXCEPT ![task.run].port = box.port]
    /\ Goto("connecting")
    /\ UNCHANGED <<box, reg, link, outcome>>

\* A registered bridge gets the new address, and the run then fails, as
\* options_dict has no value; otherwise a new bridge
Setup ==
    LET r == task.run
    IN  /\ task.at = "starting"
        /\ IF reg # None
           THEN bridge' = [bridge EXCEPT ![reg].port = box.port] /\ Ends(r, "failed")
           ELSE /\ bridge' = [bridge EXCEPT ![r].port = box.port]
                /\ Goto("connecting")
                /\ UNCHANGED outcome
        /\ UNCHANGED <<box, reg, link>>

\* connect, at the port the bridge knows; a ConnectionError is not caught here
Connect ==
    LET r == task.run
    IN  /\ task.at = "connecting"
        /\ IF box.up /\ bridge[r].port = box.port
           THEN /\ bridge' = [bridge EXCEPT ![r].connected = TRUE, ![r].ws = task.try]
                /\ link' = [link EXCEPT ![<<r, task.try>>].up = TRUE]
                /\ Goto("sending")
                /\ UNCHANGED outcome
           ELSE Ends(r, "failed") /\ UNCHANGED <<bridge, link>>
        /\ UNCHANGED <<box, reg>>

ResetMutant(b) == [b EXCEPT !.error = FALSE, !.receive = "on"]
Reset(b)       == [b EXCEPT !.queue = <<>>, !.error = FALSE, !.receive = "on"]

\* run_and_stream up to the first event, on a connection that is up
Send ==
    LET r == task.run
        c == <<r, bridge[r].ws>>
    IN  /\ task.at = "sending"
        /\ link[c].up
        /\ bridge' = [bridge EXCEPT ![r] = Reset(@)]
        /\ link' = [link EXCEPT ![c].work = "busy"]
        /\ Goto("streaming")
        /\ UNCHANGED <<box, reg, outcome>>

\* disconnect
Gone(b) == [b EXCEPT !.connected = FALSE, !.ws = None, !.receive = "none"]

\* send_run finds the connection closed; the receive task may have told the
\* queue already.  Once, the bridge disconnects and connects again
SendFails ==
    LET r == task.run
        c == <<r, bridge[r].ws>>
    IN  /\ task.at = "sending"
        /\ ~link[c].up
        /\ \E q \in {<<>>, <<"lost">>} :
              bridge' = [bridge EXCEPT ![r] = Gone([@ EXCEPT !.queue = q])]
        /\ IF task.try = 1
           THEN task' = [task EXCEPT !.at = "connecting", !.try = 2] /\ UNCHANGED outcome
           ELSE Ends(r, "failed")
        /\ UNCHANGED <<box, reg, link>>

EndsLoop(k) == k # "output"

\* A terminal event ends the loop; the bridge is registered, the task finished
EndRun(r, o) == reg' = r /\ Ends(r, o)

Handle ==
    LET r == task.run
        k == Head(bridge[r].queue)
    IN  /\ task.at = "streaming"
        /\ bridge[r].queue # <<>>
        /\ bridge' = [bridge EXCEPT ![r].queue = Tail(@), ![r].error = k \in {"error", "lost"}]
        /\ IF EndsLoop(k) THEN EndRun(r, IF k = "done" THEN "done" ELSE "error")
           ELSE UNCHANGED <<reg, task, outcome>>
        /\ UNCHANGED <<box, link>>

\* Nothing for 30 seconds, and the receive task has ended
NoMore ==
    LET r == task.run
    IN  /\ task.at = "streaming"
        /\ bridge[r].queue = <<>>
        /\ bridge[r].receive = "over"
        /\ bridge' = [bridge EXCEPT ![r].error = TRUE]
        /\ EndRun(r, "error")
        /\ UNCHANGED <<box, link>>

\* CancelledError passes by the handler: the bridge is neither told nor kept
Cancel ==
    /\ task.at # "idle"
    /\ Ends(task.run, "cancelled")
    /\ UNCHANGED <<box, reg, bridge, link>>

\* cleanup_session_client
Cleanup ==
    /\ reg # None
    /\ reg' = None
    /\ bridge' = [bridge EXCEPT ![reg] = Gone(@)]
    /\ link' = IF bridge[reg].ws = None THEN link
               ELSE [link EXCEPT ![<<reg, bridge[reg].ws>>].up = FALSE,
                                 ![<<reg, bridge[reg].ws>>].out = <<>>]
    /\ UNCHANGED <<box, task, outcome>>

-----------------------------------------------------------------------------
(* The receive task and the far end. *)

Receive(r) ==
    LET c == <<r, bridge[r].ws>>
    IN  /\ bridge[r].receive = "on"
        /\ link[c].out # <<>>
        /\ bridge' = [bridge EXCEPT ![r].queue = Append(@, Head(link[c].out))]
        /\ link' = [link EXCEPT ![c].out = Tail(@)]
        /\ UNCHANGED <<box, task, reg, outcome>>

\* The iteration ends without a word on a close in good order
ReceiveEnds(r) ==
    LET c == <<r, bridge[r].ws>>
    IN  /\ bridge[r].receive = "on"
        /\ ~link[c].up
        /\ link[c].out = <<>>
        /\ bridge' = [bridge EXCEPT
              ![r].receive = "over",
              ![r].connected = @ /\ link[c].clean,
              ![r].queue = IF link[c].clean \/ bridge[r].error THEN @ ELSE Append(@, "lost")]
        /\ UNCHANGED <<box, task, reg, link, outcome>>

LinkDrops(c) ==
    /\ link[c].up
    /\ \E clean \in BOOLEAN :
          link' = [link EXCEPT ![c].up = FALSE, ![c].clean = clean]
    /\ UNCHANGED <<box, task, reg, bridge, outcome>>

Speaks(c, k, w) ==
    link' = [link EXCEPT ![c].work = w,
                         ![c].out = IF link[c].up THEN Append(@, k) ELSE @]

AgentWorks(c) ==
    /\ box.up
    /\ \/ link[c].work = "busy" /\ Speaks(c, "output", "spoke")
       \/ link[c].work # "none" /\ \E k \in {"done", "error"} : Speaks(c, k, "none")
    /\ UNCHANGED <<box, task, reg, bridge, outcome>>

Next ==
    \/ Ensure \/ Stop
    \/ Start \/ Setup \/ Connect \/ Send \/ SendFails \/ Handle \/ NoMore
    \/ Cancel \/ Cleanup
    \/ \E r \in Run : Receive(r) \/ ReceiveEnds(r)
    \/ \E c \in Run \X Try : LinkDrops(c) \/ AgentWorks(c)

Spec == Init /\ [][Next]_vars

-----------------------------------------------------------------------------
Working(r) == \E t \in Try : link[<<r, t>>].work # "none"
Held(r)    == \E t \in Try : link[<<r, t>>].up

\* A run that has ended by itself over a connection that is still up has left
\* no CLI at work: nothing that came before (the error of a connection given
\* up, a message of an earlier attempt) ends a run whose CLI goes on.
EndedIsOver ==
    \A r \in Run : outcome[r] \in {"done", "error"} /\ Held(r) => ~Working(r)

\* No run goes over a bridge of an earlier one, whose queue may still get the end
\* of that run: while a bridge is registered, every run fails before it connects.
NeverReused == reg # None => task.at \notin {"connecting", "sending", "streaming"}
=============================================================================
