------------------------------ MODULE MCReplay ------------------------------
(***************************************************************************)
(* A small instance of Replay: one agent, a rule on its state and a rule   *)
(* on its adherence, which notify of different transitions.                *)
(***************************************************************************)
EXTENDS Preview

MCTargets == <<{1}, {1}>>
MCReads == <<"agent", "adherence">>
MCDurations == <<[trigger |-> 1, clear |-> 0], [trigger |-> 2, clear |-> 1]>>
MCNotifyOn == <<{"open", "recovery"}, {"open"}>>

State(at, holds) ==
    [kind |-> "agent", subject |-> 1, at |-> at, holds |-> holds, since |-> Unset]
Check(at, holds, since) ==
    [kind |-> "adherence", subject |-> 1, at |-> at, holds |-> holds, since |-> since]

MCEvidence == {State(1, TRUE), State(2, FALSE), State(3, TRUE),
               Check(2, TRUE, Unset), Check(3, TRUE, 1), Check(4, FALSE, Unset), Check(3, FALSE, 1)}
=============================================================================
