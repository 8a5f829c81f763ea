----------------------------- MODULE Conditions -----------------------------
(***************************************************************************)
(* The condition reducer of one rule revision                              *)
(* (internal/conditions/conditions.go, type Reducer).  Evaluations of the  *)
(* rule arrive as observations, each True, False or Unknown for one        *)
(* subject and one direction; an evaluation that stays true for the        *)
(* configured duration commits a transition, which opens (trigger) or      *)
(* closes (clear) an episode of the subject.                               *)
(*                                                                         *)
(* Three callers drive a reducer: Apply feeds it an observation, Advance   *)
(* moves logical time and fires what became due, and Fire applies one      *)
(* timer callback that a worker claimed earlier from Timers() and that may *)
(* by now be stale, duplicated or out of order.                            *)
(***************************************************************************)
EXTENDS Integers, Sequences, FiniteSets, Trackers, Orders

CONSTANTS
    Subjects,         \* condition keys, numbered in the canonical order of timers()
    TriggerDuration,
    ClearDuration,
    ObservationIds,   \* the occurrence identities the application assigns
    Inputs,           \* the observations the evaluator may submit, without their id
    Instants,         \* the values of `now` a caller may pass, Unset included
    MaxClaims         \* bound: timer callbacks in flight at once

Duration == [trigger |-> TriggerDuration, clear |-> ClearDuration]

Observation == [subject : Subjects, direction : Directions, result : Results,
                effectiveAt : Nat, processingAt : Nat, trueSince : Nat]

ASSUME SubjectsAssumption == Subjects \subseteq Nat /\ IsFiniteSet(Subjects)
ASSUME DurationAssumption == TriggerDuration \in Nat /\ ClearDuration \in Nat
ASSUME InputsAssumption == Inputs \subseteq Observation
ASSUME InstantsAssumption == Instants \subseteq Nat
ASSUME MaxClaimsAssumption == MaxClaims \in Nat

VARIABLES
    logical,      \* Reducer.logical
    tracker,      \* Reducer.states
    seen,         \* Reducer.seenOccurrences
    episodes,     \* Reducer.episodes: per subject, in the order of their ids
    journal,      \* Reducer.transitions
    claimed,      \* timers a worker took from Timers() and has not dropped
    heldSince     \* observation variable, see HeldAfter; the code has no such state

vars == <<logical, tracker, seen, episodes, journal, claimed, heldSince>>

Timer == [subject : Subjects, direction : Directions, dueAt : Nat, attempt : Nat]
Transition == [subject : Subjects, direction : Directions, at : Nat, dueAt : Nat,
               processingAt : Nat, attempt : Nat, episode : Nat]
Episode == [id : Nat, openedAt : Nat, closedAt : Nat, status : {"open", "closed"}]

-----------------------------------------------------------------------------

Later(a, b) == IF a >= b THEN a ELSE b

TimerOf(s) == [subject |-> s, direction |-> DirectionFor(tracker[s].phase),
               dueAt |-> DueAt(tracker[s], Duration), attempt |-> tracker[s].attempt]

\* Mutant: a clear names a new episode instead of the one it closes.
TransitionWithFreshEpisode(s, t, at, processing) ==
    [subject |-> s, direction |-> DirectionFor(t.phase), at |-> at,
     dueAt |-> DueAt(t, Duration), processingAt |-> processing, attempt |-> t.attempt,
     episode |-> t.sequence + 1]
TransitionOf(s, t, at, processing) ==
    [subject |-> s, direction |-> DirectionFor(t.phase), at |-> at,
     dueAt |-> DueAt(t, Duration), processingAt |-> processing, attempt |-> t.attempt,
     episode |-> IF t.phase = "triggering" THEN t.sequence + 1 ELSE t.episode]

\* The episodes of a subject after its tracker t commits at time `at`.
EpisodesAfter(eps, t, at) ==
    IF t.phase = "triggering"
      THEN Append(eps, [id |-> t.sequence + 1, openedAt |-> at,
                        closedAt |-> Unset, status |-> "open"])
      ELSE [i \in DOMAIN eps |->
              IF eps[i].id = t.episode
                THEN [eps[i] EXCEPT !.closedAt = at, !.status = "closed"]
                ELSE eps[i]]

\* timers(): due time first, then the canonical key.  A key has one timer.
Before(s1, s2) ==
    LET d1 == DueAt(tracker[s1], Duration)
        d2 == DueAt(tracker[s2], Duration)
    IN d1 < d2 \/ (d1 = d2 /\ s1 < s2)

InTimerOrder(S) == SortedBy(S, {p \in S \X S : Before(p[1], p[2])})

\* Mutant: a timer due exactly now is left for later.
DueBeforeNow(now) == {s \in Subjects : Pending(tracker[s]) /\ DueAt(tracker[s], Duration) < now}
DueBy(now) == {s \in Subjects : Pending(tracker[s]) /\ DueAt(tracker[s], Duration) <= now}

\* Advance(now) for now not before logical.  A commit starts no new interval, so
\* the loop fires exactly the timers due by `now`, each once, at their due time.
DrainedTracker(now) ==
    [s \in Subjects |-> IF s \in DueBy(now) THEN Committed(tracker[s]) ELSE tracker[s]]

DrainedEpisodes(now) ==
    [s \in Subjects |-> IF s \in DueBy(now)
                          THEN EpisodesAfter(episodes[s], tracker[s],
                                             DueAt(tracker[s], Duration))
                          ELSE episodes[s]]

Drained(now) ==
    LET q == InTimerOrder(DueBy(now))
    IN [i \in 1 .. Cardinality(DueBy(now)) |->
          TransitionOf(q[i], tracker[q[i]], DueAt(tracker[q[i]], Duration), now)]

\* What the subject's run of true evaluations in o's direction becomes: the time it
\* began, or Unset when o interrupts it.
HeldAfter(held, o, now) ==
    IF o.result # "true" THEN Unset ELSE IF held = Unset THEN now ELSE held

-----------------------------------------------------------------------------

Init ==
    /\ logical = Unset
    /\ tracker = [s \in Subjects |-> NewTracker]
    /\ seen = {}
    /\ episodes = [s \in Subjects |-> <<>>]
    /\ journal = <<>>
    /\ claimed = {}
    /\ heldSince = [s \in Subjects |-> [trigger |-> Unset, clear |-> Unset]]

\* Advance(now): zero is ignored, a time in the past is clamped to logical.
Advance(now) ==
    LET at == Later(now, logical) IN
    /\ now # Unset
    /\ logical' = at
    /\ tracker' = DrainedTracker(at)
    /\ episodes' = DrainedEpisodes(at)
    /\ journal' = journal \o Drained(at)
    /\ UNCHANGED <<seen, claimed, heldSince>>

\* The observation meets a tracker, t, whose due timers have fired already.
Starts(t, o) == o.result = "true" /\ t.phase = RestingBefore(o.direction)
\* Mutant: only False stops a pending interval, Unknown does not.
InterruptsOnFalse(t, o) == o.result = "false" /\ t.phase = PhaseFor(o.direction)
Interrupts(t, o) == o.result # "true" /\ t.phase = PhaseFor(o.direction)

\* start() commits at once when the interval it opens is due already.
\* Mutant: an interval that qualifies exactly now is left to its timer.
QualifiesBeforeNow(t, now) == DueAt(t, Duration) < now
QualifiesAtOnce(t, now) == DueAt(t, Duration) <= now

\* ... and dates the commit no earlier than logical time.
\* Mutant: the commit is dated when the backdated interval would have qualified.
CommitAtDue(t, now) == DueAt(t, Duration)
CommitAt(t, now) == Later(DueAt(t, Duration), now)

SeenAfter(o, id) == seen \cup {id}

\* The logical time o is processed at, and the time its evaluation is effective.
Processing(o) == IF o.processingAt # Unset THEN o.processingAt ELSE o.effectiveAt
Effective(o) == IF o.effectiveAt # Unset THEN o.effectiveAt ELSE Processing(o)

\* The interval o opens on t, and whether it is due at once.
OpenedBy(t, o) == Started(t, o.direction, OnsetOf(Effective(o), o.trueSince))
CommitsAtOnce(t, o, now) == Starts(t, o) /\ QualifiesAtOnce(OpenedBy(t, o), now)

Observed(t, o, now) ==
    IF CommitsAtOnce(t, o, now) THEN Committed(OpenedBy(t, o))
    ELSE IF Starts(t, o) THEN OpenedBy(t, o)
    ELSE IF Interrupts(t, o) THEN Cancelled(t)
    ELSE t

\* Apply(o) under identity id.  An observation without any timestamp, or one whose
\* identity was seen, changes nothing; any other first fires what is due.
Apply(o, id) ==
    LET at == Later(Processing(o), logical)
        s == o.subject
        t == DrainedTracker(at)[s]
        commit == CommitAt(OpenedBy(t, o), at)
    IN
    /\ Processing(o) # Unset
    /\ id \notin seen
    /\ seen' = SeenAfter(o, id)
    /\ logical' = at
    /\ tracker' = [DrainedTracker(at) EXCEPT ![s] = Observed(t, o, at)]
    /\ episodes' = IF CommitsAtOnce(t, o, at)
                     THEN [DrainedEpisodes(at) EXCEPT ![s] =
                             EpisodesAfter(@, OpenedBy(t, o), commit)]
                     ELSE DrainedEpisodes(at)
    /\ journal' = IF CommitsAtOnce(t, o, at)
                    THEN Append(journal \o Drained(at),
                                TransitionOf(s, OpenedBy(t, o), commit, at))
                    ELSE journal \o Drained(at)
    /\ heldSince' = [heldSince EXCEPT ![s][o.direction] = HeldAfter(@, o, at)]
    /\ UNCHANGED claimed

\* A worker keeps a copy of a pending timer; the reducer may change under it.
Claim(s) ==
    /\ Pending(tracker[s])
    /\ Cardinality(claimed) < MaxClaims
    /\ claimed' = claimed \cup {TimerOf(s)}
    /\ UNCHANGED <<logical, tracker, seen, episodes, journal, heldSince>>

Drop(timer) ==
    /\ claimed' = claimed \ {timer}
    /\ UNCHANGED <<logical, tracker, seen, episodes, journal, heldSince>>

\* The conditions Fire puts on a callback once logical time is `at`.
\* Mutant: the phase of the tracker is not compared with the timer's direction.
AcceptedInAnyPhase(timer, at) ==
    LET t == tracker[timer.subject] IN
    /\ timer.dueAt <= at
    /\ timer.attempt = t.attempt
    /\ timer.dueAt = DueAt(t, Duration)
Accepted(timer, at) ==
    LET t == tracker[timer.subject] IN
    /\ timer.dueAt <= at
    /\ timer.attempt = t.attempt
    /\ t.phase = PhaseFor(timer.direction)
    /\ timer.dueAt = DueAt(t, Duration)

\* Fire(timer, now).  The claim survives: a callback may be delivered again.  Only
\* this timer fires, and a rejected callback still moves logical time.
Fire(timer, now) ==
    LET at == Later(now, logical)
        s == timer.subject
    IN
    /\ now # Unset
    /\ logical' = at
    /\ IF Accepted(timer, at)
         THEN /\ tracker' = [tracker EXCEPT ![s] = Committed(@)]
              /\ episodes' = [episodes EXCEPT ![s] = EpisodesAfter(@, tracker[s], timer.dueAt)]
              /\ journal' = Append(journal, TransitionOf(s, tracker[s], timer.dueAt, at))
         ELSE UNCHANGED <<tracker, episodes, journal>>
    /\ UNCHANGED <<seen, claimed, heldSince>>

Next ==
    \/ \E now \in Instants : Advance(now)
    \/ \E o \in Inputs, id \in ObservationIds : Apply(o, id)
    \/ \E s \in Subjects : Claim(s)
    \/ \E timer \in claimed : Drop(timer)
    \/ \E timer \in claimed, now \in Instants : Fire(timer, now)

Spec == Init /\ [][Next]_vars

-----------------------------------------------------------------------------

\* Every variable keeps the shape the Go fields give it.
TypeOK ==
    /\ logical \in Nat
    /\ tracker \in [Subjects -> Tracker]
    /\ seen \subseteq ObservationIds
    /\ episodes \in [Subjects -> Seq(Episode)]
    /\ journal \in Seq(Transition)
    /\ claimed \subseteq Timer
    /\ heldSince \in [Subjects -> [Directions -> Nat]]

\* The positions of the open episodes in a subject's list.
OpenIn(eps) == {i \in DOMAIN eps : eps[i].status = "open"}

\* A tracker is active or clearing exactly while its subject has an open episode, it
\* has only that one, and it names it: callbacks, cancellations and clears that come
\* in any order never open a second episode over an open one nor strand one open.
Matches(t, eps) ==
    IF t.phase \in {"active", "clearing"}
      THEN /\ OpenIn(eps) = {Len(eps)}
           /\ eps[Len(eps)].id = t.episode
      ELSE OpenIn(eps) = {} /\ t.episode = NoEpisode

EpisodeMatchesPhase == \A s \in Subjects : Matches(tracker[s], episodes[s])

\* The positions at which the journal holds transitions of s.
JournalOf(s) == {i \in DOMAIN journal : journal[i].subject = s}

\* The journal tells the same story as the episodes: each trigger entry is the opening
\* of one episode, each clear entry the closing of one that was opened earlier in the
\* journal, and no episode is opened or closed without its entry or twice.
JournalTellsEpisodes ==
    \A s \in Subjects :
        /\ \A n \in DOMAIN episodes[s] :
             LET e == episodes[s][n]
                 of == {i \in JournalOf(s) : journal[i].episode = e.id}
                 opening == {i \in of : journal[i].direction = "trigger"}
                 closing == {i \in of : journal[i].direction = "clear"}
             IN /\ Cardinality(opening) = 1
                /\ Cardinality(closing) = IF e.status = "open" THEN 0 ELSE 1
                /\ \A i \in opening : journal[i].at = e.openedAt
                /\ \A i \in opening, j \in closing : i < j /\ journal[j].at = e.closedAt
        /\ \A i \in JournalOf(s) :
             \E n \in DOMAIN episodes[s] : episodes[s][n].id = journal[i].episode

\* Episodes of one subject are intervals of logical time that follow one another: none
\* closes before it opens or opens before the previous one closed, and nothing is
\* recorded in the future, whatever late evidence or backdated onset started it.
InOrder(eps, now) ==
    \A n \in DOMAIN eps :
        /\ eps[n].openedAt <= now
        /\ eps[n].status = "closed" => eps[n].openedAt <= eps[n].closedAt /\ eps[n].closedAt <= now
        /\ n > 1 => /\ eps[n - 1].status = "closed"
                    /\ eps[n - 1].closedAt <= eps[n].openedAt

EpisodesDoNotOverlap == \A s \in Subjects : InOrder(episodes[s], logical)

\* An interval is pending only over evaluations that have been true, in its direction,
\* without a False or an Unknown in between: Unknown evidence must stop it too.
PendingIsHeld ==
    \A s \in Subjects :
        Pending(tracker[s]) => heldSince[s][DirectionFor(tracker[s].phase)] # Unset

\* A pending interval commits at most once: no two journal entries of a subject share
\* an attempt, although a callback may be delivered again after a commit or a restart.
OneCommitPerAttempt ==
    \A i, j \in DOMAIN journal :
        journal[i].subject = journal[j].subject /\ journal[i].attempt = journal[j].attempt
            => i = j

\* An interval that is due when logical time reaches its due time is not lost: no step,
\* not even one that brings a False observation at that very instant, cancels it; it
\* stays as it is or is journalled, under its own attempt, at its due time.
JournalledBetween(s, first, last) ==
    \E i \in first .. last :
        /\ journal'[i].subject = s
        /\ journal'[i].attempt = tracker[s].attempt
        /\ journal'[i].at = DueAt(tracker[s], Duration)

KeepsDueInterval(s) ==
    \/ ~Pending(tracker[s])
    \/ DueAt(tracker[s], Duration) > logical'
    \/ tracker'[s] = tracker[s]
    \/ JournalledBetween(s, Len(journal) + 1, Len(journal'))

DueIntervalIsNotLost == [][\A s \in Subjects : KeepsDueInterval(s)]_vars
=============================================================================
