--------------------------- MODULE ContainerPool ---------------------------
(***************************************************************************)
(* The containers of all users: started by requests and runs, paused and   *)
(* destroyed by requests, stopped by the idle monitor, which goes by the   *)
(* time of each user's last activity (container_manager.py).               *)
(*                                                                         *)
(* The module's calls do not yield, so each is one step: a request or a    *)
(* check of the monitor waits until ensure_container has come back.        *)
(***************************************************************************)
CONSTANTS
    User   \* the users

Status == {"none", "running", "paused", "exited"}

VARIABLES
    status,   \* each user's container, as Docker has it
    stamped,  \* users with an entry in _last_activity
    lately,   \* users active within CONTAINER_IDLE_TTL
    missed    \* users who have not been active since a listing failed

vars == <<status, stamped, lately, missed>>

TypeOK ==
    /\ status \in [User -> Status]
    /\ stamped \subseteq User
    /\ lately \subseteq User
    /\ missed \subseteq User

Init ==
    /\ status = [u \in User |-> "none"]
    /\ stamped = {} /\ lately = {} /\ missed = {}

Becomes(u, s) == status' = [status EXCEPT ![u] = s]

\* touch_user
StampedMutant(u) == stamped
Stamped(u)       == stamped \cup {u}

Touches(u) ==
    /\ stamped' = Stamped(u)
    /\ lately' = lately \cup {u}
    /\ missed' = missed \ {u}

\* An event of a run of the user (run_and_stream)
Touch(u) ==
    /\ status[u] = "running"
    /\ Touches(u)
    /\ UNCHANGED status

\* ensure_container; the container may fail to come up in time
Ensure(u) ==
    /\ Touches(u)
    /\ \/ Becomes(u, "running")
       \/ status[u] # "running" /\ \E s \in {"none", "exited"} : Becomes(u, s)

\* pause_container
Pause(u) ==
    /\ status[u] = "running"
    /\ Becomes(u, "paused")
    /\ UNCHANGED <<stamped, lately, missed>>

\* destroy_container
Destroy(u) ==
    /\ status[u] # "none"
    /\ Becomes(u, "none")
    /\ UNCHANGED <<stamped, lately, missed>>

TimePasses(u) ==
    /\ u \in lately
    /\ lately' = lately \ {u}
    /\ UNCHANGED <<status, stamped, missed>>

running == {u \in User : status[u] = "running"}

\* A user without an entry counts as idle
Idle == {u \in running : u \notin stamped \/ u \notin lately}

\* stop_idle_containers: what is idle of what Docker lists as running is
\* stopped, and the entries of the others dropped; Docker may refuse on the way
MonitorChecks ==
    /\ \E stopped \in SUBSET Idle :
          /\ status' = [u \in User |-> IF u \in stopped THEN "exited" ELSE status[u]]
          /\ \/ stamped' = stamped \cap running
             \/ stopped # Idle /\ UNCHANGED stamped
    /\ UNCHANGED <<lately, missed>>

\* _list_user_containers answers a failure with an empty list
MonitorMisses ==
    /\ stamped # {}
    /\ stamped' = {}
    /\ missed' = missed \cup stamped
    /\ UNCHANGED <<status, lately>>

\* The server ends and starts again: destroy_all_containers removes what Docker
\* lists and lets go
Restart ==
    /\ stamped' = {} /\ lately' = {} /\ missed' = {}
    /\ \E removed \in SUBSET User :
          status' = [u \in User |-> IF u \in removed THEN "none" ELSE status[u]]

Next ==
    \/ \E u \in User : \/ Touch(u) \/ Ensure(u) \/ Pause(u) \/ Destroy(u)
                       \/ TimePasses(u)
    \/ MonitorChecks \/ MonitorMisses \/ Restart

Spec == Init /\ [][Next]_vars

-----------------------------------------------------------------------------
\* A running container that nobody may stop as idle is known as such: the entry
\* of a user who was active lately is there, through the monitor's pruning and
\* whatever requests do meanwhile, unless a listing has failed since.
ActiveIsStamped ==
    \A u \in running : u \in lately => u \in stamped \/ u \in missed

\* "Stop containers idle beyond CONTAINER_IDLE_TTL. ... a missing entry means the
\* container was never touched by this process and is treated as idle."  No step
\* stops the container of a user who was active within the TTL: the monitor
\* finds the entry, unless a listing has failed since and dropped it.
StopsIdle ==
    \A u \in User :
        status[u] = "running" /\ status'[u] = "exited" => u \notin lately \/ u \in missed
StopsIdleOnly == [][StopsIdle]_vars
=============================================================================
