------------------------------ MODULE Trackers ------------------------------
(***************************************************************************)
(* The tracker of one condition key (trackerState in                       *)
(* internal/conditions/conditions.go) and the operations the reducer       *)
(* performs on it.  Timestamps are natural numbers; 0 is Go's zero time.   *)
(* The free-text reason and the effective and evidence timestamps a        *)
(* tracker carries along for its next transition are left out: no          *)
(* transition depends on them.                                             *)
(***************************************************************************)
EXTENDS Naturals

Unset == 0          \* time.Time{}: IsZero() holds
NoEpisode == 0      \* the empty episode id; a stable id is its sequence number

Directions == {"trigger", "clear"}
Results == {"true", "false", "unknown"}
Phases == {"inactive", "triggering", "active", "clearing"}

Tracker == [phase : Phases, attempt : Nat, startedAt : Nat,
            episode : Nat, sequence : Nat]

NewTracker == [phase |-> "inactive", attempt |-> 0, startedAt |-> Unset,
               episode |-> NoEpisode, sequence |-> 0]

PhaseFor(dir) == IF dir = "clear" THEN "clearing" ELSE "triggering"
DirectionFor(phase) == IF phase = "clearing" THEN "clear" ELSE "trigger"

\* The phase from which a true evaluation in direction dir opens an interval,
\* and the one a completed interval in that direction ends in.
RestingBefore(dir) == IF dir = "clear" THEN "active" ELSE "inactive"
RestingAfter(dir) == IF dir = "clear" THEN "inactive" ELSE "active"

Pending(t) == t.phase \in {"triggering", "clearing"}

\* d maps each direction to the duration the rule revision configures for it.
DueAt(t, d) == t.startedAt + d[DirectionFor(t.phase)]

\* Reducer.start: the interval opens at the event's effective time, or at the
\* onset the projection supplies when that is set and not later.
OnsetOf(effectiveAt, trueSince) ==
    IF trueSince # Unset /\ trueSince <= effectiveAt THEN trueSince ELSE effectiveAt

Started(t, dir, onset) ==
    [t EXCEPT !.phase = PhaseFor(dir), !.startedAt = onset, !.attempt = @ + 1]

\* The evaluation stopped being true before the interval qualified.
Cancelled(t) ==
    [t EXCEPT !.phase = RestingBefore(DirectionFor(t.phase)), !.attempt = @ + 1]

\* Reducer.commit: the pending interval of t qualifies.
\* Mutant: a clear leaves the closed episode's identity behind.
CommittedKeepingEpisode(t) ==
    LET dir == DirectionFor(t.phase) IN
    [t EXCEPT !.phase = RestingAfter(dir),
              !.sequence = @ + 1,
              !.episode = IF dir = "trigger" THEN t.sequence + 1 ELSE t.episode]
Committed(t) ==
    LET dir == DirectionFor(t.phase) IN
    [t EXCEPT !.phase = RestingAfter(dir),
              !.sequence = @ + 1,
              !.episode = IF dir = "trigger" THEN t.sequence + 1 ELSE NoEpisode]
=============================================================================
