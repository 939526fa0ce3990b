----------------------------- MODULE SessionLog -----------------------------
(***************************************************************************)
(* What the buffer promises of one session: its stored messages are a log. *)
(* They are in the order in which they were taken, a message that is       *)
(* stored stays, at its place, and only files are ever removed.  What has  *)
(* been taken may never be stored: a call may fail and a process crash.    *)
(***************************************************************************)
EXTENDS Naturals, Sequences

CONSTANTS
    Msg   \* the messages

VARIABLES
    taken,    \* messages in the order in which they were taken
    files,    \* those of them that are files
    history   \* messages that a replay from SQLite gives, in its order

logVars == <<taken, files, history>>

In(m, seq)        == \E i \in DOMAIN seq : seq[i] = m
Before(m, n, seq) == \E i, j \in DOMAIN seq : i < j /\ seq[i] = m /\ seq[j] = n

Init == taken = <<>> /\ files = {} /\ history = <<>>

Take(m) ==
    /\ ~In(m, taken)
    /\ taken' = Append(taken, m)
    /\ files' \in {files, files \cup {m}}
    /\ UNCHANGED history

\* Behind everything that is stored, all of which was taken before
Store(m) ==
    /\ In(m, taken) /\ ~In(m, history)
    /\ \A i \in DOMAIN history : Before(history[i], m, taken)
    /\ history' = Append(history, m)
    /\ UNCHANGED <<taken, files>>

\* What is no file stays, once and in its order
RemoveFiles ==
    /\ history' \in Seq(Msg)
    /\ \A m \in Msg : In(m, history') <=> In(m, history) /\ m \notin files
    /\ \A m, n \in Msg : Before(m, n, history') => Before(m, n, history)
    /\ UNCHANGED <<taken, files>>

Next == RemoveFiles \/ \E m \in Msg : Take(m) \/ Store(m)

Spec == Init /\ [][Next]_logVars
=============================================================================
