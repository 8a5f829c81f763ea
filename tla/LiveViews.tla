----------------------------- MODULE LiveViews -----------------------------
(***************************************************************************)
(* The live view of one source and subject                                 *)
(* (internal/projections/projections.go).  Of a snapshot, a state change   *)
(* or a check only what a rule's predicate reads is kept: whether it       *)
(* holds.  Times are natural numbers, 0 being Go's zero time.              *)
(***************************************************************************)
EXTENDS Naturals

Kinds == {"queue", "agent", "adherence"}

Unset == 0
View == [at : Nat, position : Nat, holds : BOOLEAN, since : Nat]
NoView == [at |-> Unset, position |-> 0, holds |-> FALSE, since |-> Unset]

\* newer(): effective time first, ingestion position on a tie.  Everything accepted
\* has both, so it is newer than no view at all.
\* Mutant: no tie break.
NewerByTime(candidate, current) == candidate.at > current.at
Newer(candidate, current) ==
    \/ candidate.at > current.at
    \/ candidate.at = current.at /\ candidate.position > current.position

\* KnownViolationSince: the onset the check supplies, else the one known so far of a
\* violation that continues, else the check's own time.
\* Mutant: a violation that continues starts anew with every check.
SinceOwnCheck(prior, e) ==
    IF ~e.holds THEN Unset ELSE IF e.since # Unset THEN e.since ELSE e.at
KnownViolationSince(prior, e) ==
    IF ~e.holds THEN Unset
    ELSE IF e.since # Unset THEN e.since
    ELSE IF prior.holds /\ prior.since # Unset THEN prior.since
    ELSE e.at

Candidate(prior, e, position) ==
    [at |-> e.at, position |-> position, holds |-> e.holds,
     since |-> IF e.kind = "adherence" THEN KnownViolationSince(prior, e) ELSE Unset]

\* buildQueue, buildAgentState, buildAdherence: evidence that is not newer is kept in
\* the history only.
Built(prior, e, position) ==
    LET candidate == Candidate(prior, e, position) IN
    IF Newer(candidate, prior) THEN candidate ELSE prior

\* A row of the *_current tables: the observation shown, by its ingest position.  It
\* moves unless the new one is older: (effective_at, stream_position) <= new.
NoRow == [row |-> 0, at |-> Unset]

Moved(current, row, at) ==
    IF current.at < at \/ (current.at = at /\ current.row <= row)
      THEN [row |-> row, at |-> at]
      ELSE current
=============================================================================
