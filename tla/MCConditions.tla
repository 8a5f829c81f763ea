---------------------------- MODULE MCConditions ----------------------------
(***************************************************************************)
(* A small instance of Conditions: two subjects, three observations and    *)
(* logical time up to MaxTime.                                             *)
(***************************************************************************)
EXTENDS Conditions, TLC

CONSTANTS MaxTime

MCInstants == 0 .. MaxTime

\* The runtime evaluates an event at its processing time, never before the event's
\* effective time, and supplies an onset (trigger only) not after that time.  One
\* subject sees every combination; the other, which is there for the order of timers,
\* sees prompt evaluations only.
MCInputs ==
    {o \in [subject : Subjects, direction : Directions, result : Results,
            effectiveAt : MCInstants, processingAt : MCInstants, trueSince : MCInstants] :
        /\ o.processingAt # Unset => o.effectiveAt <= o.processingAt
        /\ o.trueSince # Unset => o.direction = "trigger" /\ o.result = "true"
                                  /\ o.trueSince < o.effectiveAt
        /\ o.result = "unknown" => o.direction = "trigger"
        /\ o.effectiveAt = Unset => o.processingAt = Unset
        /\ o.subject # 1 => /\ o.processingAt = o.effectiveAt
                            /\ o.processingAt # Unset
                            /\ o.trueSince = Unset}

Symmetry == Permutations(ObservationIds)
=============================================================================
