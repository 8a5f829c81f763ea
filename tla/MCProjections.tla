--------------------------- MODULE MCProjections ---------------------------
(***************************************************************************)
(* A small instance of Projections: one agent seen by two sources, checks  *)
(* with and without an onset, a second subject.                            *)
(***************************************************************************)
EXTENDS Projections

Check(at, holds, since) ==
    [kind |-> "adherence", subject |-> "a", at |-> at, holds |-> holds, since |-> since]
Says(kind, subject, at) ==
    [kind |-> kind, subject |-> subject, at |-> at, holds |-> TRUE, since |-> Unset]

MCEvidence ==
    {Check(at, TRUE, Unset) : at \in 2 .. 4}
    \cup {Check(2, FALSE, Unset), Check(3, FALSE, Unset), Check(3, TRUE, 1), Check(4, TRUE, 2)}
    \cup {Says("agent", "a", 2), Says("agent", "b", 3), Says("queue", "b", 2)}
=============================================================================
