---------------------------- MODULE MCEvaluation ----------------------------
(***************************************************************************)
(* A small instance of Evaluation: two rules of different durations, two   *)
(* subjects of which the second rule selects one, three occurrences.       *)
(***************************************************************************)
EXTENDS Evaluation

MCTargets == <<Subjects, {1}>>
MCDurations == <<[trigger |-> 2, clear |-> 1], [trigger |-> 1, clear |-> 0]>>

MCOccurrences == {[subject |-> 1, effectiveAt |-> 1], [subject |-> 1, effectiveAt |-> 2],
                  [subject |-> 2, effectiveAt |-> 1]}

True(onset) == [trigger |-> "true", clear |-> "false", trueSince |-> onset]
False == [trigger |-> "false", clear |-> "true", trueSince |-> Unset]
Unknown == [trigger |-> "unknown", clear |-> "unknown", trueSince |-> Unset]
Both == [trigger |-> "true", clear |-> "true", trueSince |-> Unset]

\* Rules that agree, an onset only one rule's predicate takes, an unknown field, and
\* predicates that overlap.
MCOutcomes == {<<True(Unset), True(Unset)>>, <<False, False>>,
               <<True(1), Unknown>>, <<Both, True(1)>>}
=============================================================================
