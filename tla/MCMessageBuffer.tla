-------------------------- MODULE MCMessageBuffer --------------------------
\* MessageBuffer for TLC.
EXTENDS MessageBuffer, TLC

Symmetry == Permutations(Msg)

\* For buffer_pair: a session is used either by a run and those who read and
\* prune it, which is what positions depend on, or by a run of three messages
\* and those who end it, which is what its state depends on
OneParty ==
    LET added == {m \in Msg : kind'[m] # NoKind}
        said  == {kind'[m] : m \in added}
        here  == {c \in Co : pc'[c] # "idle"}
    IN  \/ said \subseteq {"text", "file"} /\ here \subseteq Msg \cup Remover \cup Reader
        \/ /\ said \subseteq {"ask", "cancelled"} /\ here \subseteq Msg \cup Marker \cup Deleter
           /\ Cardinality(added) <= 3
=============================================================================
