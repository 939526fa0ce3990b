----------------------------- MODULE MCDelivery -----------------------------
(***************************************************************************)
(* Delivery for TLC, where things must happen in the end.  A behaviour is  *)
(* one of one scene, chosen at the start: in watch the page follows what    *)
(* another one has sent, in spinner both send, also while messages are on   *)
(* their way, and in orphan the server restarts with both there.           *)
(***************************************************************************)
EXTENDS Delivery

VARIABLE scene

\* Bounds of each scene
AtMost == [
    watch   |-> [text |-> 1, stream |-> 1, drop |-> 1, reload |-> 1, restart |-> 0],
    spinner |-> [text |-> 1, stream |-> 0, drop |-> 0, reload |-> 1, restart |-> 0],
    orphan  |-> [text |-> 0, stream |-> 0, drop |-> 0, reload |-> 0, restart |-> 1]]

SceneInit == Init /\ scene \in DOMAIN AtMost

SceneNext ==
    /\ UNCHANGED scene
    /\ \/ Agent
       \/ Handler
       \/ Browser
       \/ \E p \in Prompt : SendElsewhere(p) \/ (scene # "watch" /\ Send(p))
       \/ StoreElsewhere /\ scene = "orphan"
       \/ (Drop \/ Reload) /\ ~OnItsWay
       \/ Restart
    /\ \A w \in DOMAIN count : count'[w] <= AtMost[scene][w]
    /\ count'.drop + count'.reload <= 1

\* A scene only limits what Fairness does not ask for
SceneSpec == SceneInit /\ [][SceneNext]_<<vars, scene>> /\ Fairness

\* The properties of Delivery, each in the scene that puts it at risk.  In
\* watch a session has at most five rows.
WatchDelivered == scene = "watch" => \A n \in 1..5 : Delivered(n)
SpinnerSynced  == scene = "spinner" => StateSynced
OrphansSettled == scene = "orphan" => OrphanSettled
=============================================================================
