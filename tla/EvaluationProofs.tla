-------------------------- MODULE EvaluationProofs --------------------------
(***************************************************************************)
(* Theorems about the evaluation runtime, for every set of rules, targets, *)
(* durations, occurrences and outcomes of their predicates.                *)
(***************************************************************************)
EXTENDS Evaluation, SequenceTheorems, FiniteSetTheorems, TLAPS

CONSTANT AnyRule   \* stands for any one rule, at the end

-----------------------------------------------------------------------------
(* What makes the properties of the runtime inductive.                     *)

\* Every variable keeps the shape the Go fields give it, in every reducer.
Observation == [subject : Subjects, direction : Directions, result : Results,
                effectiveAt : Nat, processingAt : Nat, trueSince : Nat]
Result == [occurrence : Occurrences, logical : Nat, outcome : Outcomes]
Queued == [rule : Rules, id : Occurrences \X Directions, observation : Observation]

TypeOK ==
    /\ logical \in Nat /\ target \in Nat
    /\ queue \in Seq(Queued)
    /\ result \in Result \cup {NoResult}
    /\ clock \in [Rules -> Nat]
    /\ tracker \in [Rules -> [Subjects -> Tracker]]
    /\ seen \in [Rules -> SUBSET (Occurrences \X Directions)]
    /\ episodes = [r \in Rules |-> episodes[r]]
    /\ journal = [r \in Rules |-> journal[r]]
    /\ \A r \in Rules : /\ episodes[r] \in [Subjects -> Seq(Reducer(r)!Episode)]
                        /\ journal[r] \in Seq(Reducer(r)!Transition)
    /\ heldSince \in [Rules -> [Subjects -> [Directions -> Nat]]]
    /\ out \in Seq(Rules \X Nat)

\* Only one call runs, and what Apply works on was evaluated at the present time.
OneCallRuns ==
    /\ queue # <<>> => target = Unset /\ logical # Unset
    /\ \A i \in DOMAIN queue : queue[i].observation.processingAt = logical

\* Between two calls the reducers' clocks show what the runtime's does.
ClocksAgree ==
    IF target = Unset THEN \A r \in Rules : clock[r] = logical
                      ELSE logical <= target /\ \A r \in Rules : clock[r] <= target

\* What was emitted lies in the past, also of every timer that Advance still has to fire.
EmittedInPast ==
    /\ \A i \in DOMAIN out : TimeOf(out[i]) <= IF target = Unset THEN logical ELSE target
    /\ target # Unset =>
         \A i \in DOMAIN out, timer \in Rules \X Subjects :
            Pending(tracker[timer[1]][timer[2]]) => TimeOf(out[i]) <= DueTime(timer)

RuntimeInv ==
    TypeOK /\ OneCallRuns /\ ClocksAgree /\ NothingOverdue /\ EmittedInOrder /\ EmittedInPast

-----------------------------------------------------------------------------
(* Facts from ConditionsProofs that do not depend on a reducer's state.    *)

Sorting == INSTANCE ConditionsProofs WITH
    TriggerDuration <- 0, ClearDuration <- 0, ObservationIds <- {}, Inputs <- {},
    Instants <- {}, MaxClaims <- 0, claimed <- {}

LEMMA LeastNatural ==
    ASSUME NEW S \in SUBSET Nat, S # {}
    PROVE  \E m \in S : \A x \in S : m <= x
BY EvaluationSubjects, Sorting!LeastNatural, SMT DEF Sorting!IsFiniteSet, IsFiniteSet

\* R orders the members of S strictly; q lists n members of S in that order.
Linear(R, S) == Sorting!Linear(R, S)
Lists(q, n, S, R) == Sorting!Lists(q, n, S, R)

LEMMA SameCounting ==
    \A S : Sorting!Cardinality(S) = Cardinality(S) /\ (Sorting!IsFiniteSet(S) <=> IsFiniteSet(S))
BY DEF Sorting!Cardinality, Cardinality, Sorting!IsFiniteSet, IsFiniteSet

LEMMA OrderExists ==
    ASSUME NEW S, IsFiniteSet(S), NEW R, Linear(R, S)
    PROVE  \E q : Lists(q, Cardinality(S), S, R)
<1>1. \A U : Sorting!IsFiniteSet(U) <=> IsFiniteSet(U)
  BY SameCounting
<1>2. Sorting!IsFiniteSet(S) /\ Sorting!Linear(R, S)
  BY <1>1 DEF Linear
<1>3. Sorting!IsFiniteSet(Subjects) /\ Subjects \subseteq Nat
  BY <1>1, EvaluationSubjects
<1>4. \E q : Sorting!Lists(q, Sorting!Cardinality(S), S, R)
  BY <1>2, <1>3, Sorting!OrderExists, SMT
<1>5. QED BY <1>4, SameCounting DEF Lists

LEMMA OrderIsOnto ==
    ASSUME NEW S, IsFiniteSet(S), NEW R, Linear(R, S), NEW q, Lists(q, Cardinality(S), S, R)
    PROVE  /\ \A i, j \in 1 .. Cardinality(S) : q[i] = q[j] => i = j
           /\ \A s \in S : \E i \in 1 .. Cardinality(S) : q[i] = s
<1>1. \A U : Sorting!IsFiniteSet(U) <=> IsFiniteSet(U)
  BY SameCounting
<1>2. Sorting!Cardinality(S) = Cardinality(S)
  BY SameCounting
<1>3. Sorting!IsFiniteSet(S) /\ Sorting!Linear(R, S)
  BY <1>1 DEF Linear
<1>4. Sorting!Lists(q, Sorting!Cardinality(S), S, R)
  BY <1>2 DEF Lists
<1>5. Sorting!IsFiniteSet(Subjects) /\ Subjects \subseteq Nat
  BY <1>1, EvaluationSubjects
<1>6. /\ \A i, j \in 1 .. Sorting!Cardinality(S) : q[i] = q[j] => i = j
      /\ \A s \in S : \E i \in 1 .. Sorting!Cardinality(S) : q[i] = s
  BY <1>3, <1>4, <1>5, Sorting!OrderIsOnto, SMT
<1>7. QED BY <1>2, <1>6

LEMMA OrderIsUnique ==
    ASSUME NEW S, IsFiniteSet(S), NEW R, Linear(R, S),
           NEW p, Lists(p, Cardinality(S), S, R), NEW q, Lists(q, Cardinality(S), S, R)
    PROVE  p = q
<1>1. \A U : Sorting!IsFiniteSet(U) <=> IsFiniteSet(U)
  BY SameCounting
<1>2. /\ Sorting!IsFiniteSet(S) /\ Sorting!Linear(R, S)
      /\ Sorting!Lists(p, Sorting!Cardinality(S), S, R)
      /\ Sorting!Lists(q, Sorting!Cardinality(S), S, R)
  BY <1>1, SameCounting DEF Linear, Lists
<1>3. Sorting!IsFiniteSet(Subjects) /\ Subjects \subseteq Nat
  BY <1>1, EvaluationSubjects
<1>4. QED BY <1>2, <1>3, Sorting!OrderIsUnique, SMT

LEMMA FunctionIsSeq ==
    ASSUME NEW S, NEW n \in Nat, NEW f \in [1 .. n -> S]
    PROVE  f \in Seq(S) /\ Len(f) = n
<1>1. f \in Seq(S)
  BY SeqDef, Zenon
<1>2. QED BY <1>1, LenProperties

LEMMA EpisodesAfterType ==
    ASSUME NEW r \in Rules, NEW t \in Tracker, NEW eps \in Seq(Reducer(r)!Episode), NEW at \in Nat
    PROVE  Reducer(r)!EpisodesAfter(eps, t, at) \in Seq(Reducer(r)!Episode)
<1> DEFINE after == Reducer(r)!EpisodesAfter(eps, t, at)
<1>1. Len(eps) \in Nat /\ DOMAIN eps = 1 .. Len(eps)
  BY LenProperties
<1>2. \A i \in 1 .. Len(eps) : eps[i] \in Reducer(r)!Episode
  BY ElementOfSeq
<1>3. CASE t.phase = "triggering"
  <2>1. [id |-> t.sequence + 1, openedAt |-> at, closedAt |-> Unset, status |-> "open"]
          \in Reducer(r)!Episode
    BY DEF Reducer!Episode, Tracker, Unset
  <2>2. after = Append(eps, [id |-> t.sequence + 1, openedAt |-> at,
                             closedAt |-> Unset, status |-> "open"])
    BY <1>3 DEF Reducer!EpisodesAfter, Reducer!Unset, Unset
  <2>3. QED BY <2>1, <2>2, AppendProperties
<1>4. CASE t.phase # "triggering"
  <2> DEFINE e(i) == IF eps[i].id = t.episode
                       THEN [eps[i] EXCEPT !.closedAt = at, !.status = "closed"]
                       ELSE eps[i]
  <2>1. \A x \in Reducer(r)!Episode :
           [x EXCEPT !.closedAt = at, !.status = "closed"] \in Reducer(r)!Episode
    BY Zenon DEF Reducer!Episode
  <2>2. \A i \in 1 .. Len(eps) : e(i) \in Reducer(r)!Episode
    BY <1>2, <2>1
  <2>3. after = [i \in 1 .. Len(eps) |-> e(i)]
    BY <1>1, <1>4 DEF Reducer!EpisodesAfter
  <2> HIDE DEF e
  <2>4. [i \in 1 .. Len(eps) |-> e(i)] \in [1 .. Len(eps) -> Reducer(r)!Episode]
    BY <2>2
  <2> HIDE DEF after
  <2>5. after \in Seq(Reducer(r)!Episode)
    BY <1>1, <2>3, <2>4, FunctionIsSeq
  <2>6. QED BY <2>5 DEF after
<1>5. QED BY <1>3, <1>4

-----------------------------------------------------------------------------
(* One reducer.                                                            *)

\* Its timers due by now, and the order of timers of trackers trk with durations d.
DueOf(r, now) ==
    {s \in Subjects : Pending(tracker[r][s]) /\ DueAt(tracker[r][s], Durations[r]) <= now}
Earlier(trk, d, s1, s2) ==
    LET d1 == DueAt(trk[s1], d)
        d2 == DueAt(trk[s2], d)
    IN d1 < d2 \/ (d1 = d2 /\ s1 < s2)
EarlierIn(trk, d) == {p \in Subjects \X Subjects : Earlier(trk, d, p[1], p[2])}

LEMMA DurationType ==
    ASSUME NEW r \in Rules
    PROVE  Durations[r] \in [Directions -> Nat] /\ Reducer(r)!Duration = Durations[r]
<1>1. Durations[r] \in [Directions -> Nat]
  BY DurationsAssumption
<1>2. Reducer(r)!Duration = Durations[r]
  BY <1>1 DEF Reducer!Duration, Directions
<1>3. QED BY <1>1, <1>2

LEMMA SameTrackers ==
    ASSUME NEW r
    PROVE  /\ Reducer(r)!Unset = Unset
           /\ \A t : /\ Reducer(r)!Pending(t) <=> Pending(t)
                    /\ Reducer(r)!Committed(t) = Committed(t)
                    /\ Reducer(r)!Cancelled(t) = Cancelled(t)
                    /\ \A d : Reducer(r)!DueAt(t, d) = DueAt(t, d)
                    /\ \A dir, onset : Reducer(r)!Started(t, dir, onset) = Started(t, dir, onset)
<1>1. \A t : Reducer(r)!Committed(t) = Committed(t)
  BY DEF Reducer!Committed, Committed, Reducer!DirectionFor, DirectionFor,
         Reducer!RestingAfter, RestingAfter, Reducer!NoEpisode, NoEpisode
<1>2. \A t : Reducer(r)!Cancelled(t) = Cancelled(t)
  BY DEF Reducer!Cancelled, Cancelled, Reducer!DirectionFor, DirectionFor,
         Reducer!RestingBefore, RestingBefore
<1>3. \A t : \A dir, onset : Reducer(r)!Started(t, dir, onset) = Started(t, dir, onset)
  BY DEF Reducer!Started, Started, Reducer!PhaseFor, PhaseFor
<1>4. \A t : /\ Reducer(r)!Pending(t) <=> Pending(t)
            /\ \A d : Reducer(r)!DueAt(t, d) = DueAt(t, d)
  BY DEF Reducer!Pending, Pending, Reducer!DueAt, DueAt, Reducer!DirectionFor, DirectionFor
<1>5. Reducer(r)!Unset = Unset
  BY DEF Reducer!Unset, Unset
<1>6. QED BY <1>1, <1>2, <1>3, <1>4, <1>5

LEMMA DueIsDue ==
    ASSUME NEW r \in Rules, NEW now
    PROVE  Reducer(r)!DueBy(now) = DueOf(r, now)
BY DurationType, SameTrackers DEF Reducer!DueBy, DueOf

LEMMA DueIsDueAfter ==
    ASSUME NEW r \in Rules, NEW CONSTANT now
    PROVE  Reducer(r)!DueBy(now)' = DueOf(r, now)'
BY DurationType, SameTrackers DEF Reducer!DueBy, DueOf

LEMMA DirectionType == \A phase : DirectionFor(phase) \in Directions
BY DEF DirectionFor, Directions

LEMMA DueTimeType ==
    ASSUME NEW r \in Rules, NEW t \in Tracker
    PROVE  DueAt(t, Durations[r]) \in Nat
BY DurationType, DirectionType DEF DueAt, Tracker

LEMMA CommittedType ==
    ASSUME NEW t \in Tracker
    PROVE  /\ Committed(t) \in Tracker
           /\ ~Pending(Committed(t))
<1> DEFINE e == IF DirectionFor(t.phase) = "trigger" THEN t.sequence + 1 ELSE NoEpisode
<1>1. /\ RestingAfter(DirectionFor(t.phase)) \in Phases
      /\ t.sequence + 1 \in Nat /\ e \in Nat
  BY DEF RestingAfter, Phases, Tracker, NoEpisode
<1>2. Committed(t) = [t EXCEPT !.phase = RestingAfter(DirectionFor(t.phase)),
                               !.sequence = t.sequence + 1,
                               !.episode = e]
  BY DEF Committed, Tracker
<1> HIDE DEF e
<1>3. Committed(t) \in Tracker
  BY <1>1, <1>2, Zenon DEF Tracker
<1>4. Committed(t).phase = RestingAfter(DirectionFor(t.phase))
  BY <1>2, <1>3 DEF Tracker
<1>5. QED BY <1>3, <1>4 DEF Pending, RestingAfter

\* The order of a reducer's timers is a strict order.
LEMMA TimersAreOrdered ==
    ASSUME NEW r \in Rules, NEW trk \in [Subjects -> Tracker], NEW S \in SUBSET Subjects
    PROVE  IsFiniteSet(S) /\ Linear(EarlierIn(trk, Durations[r]), S)
<1> DEFINE d == Durations[r]
<1>1. \A s \in Subjects : DueAt(trk[s], d) \in Nat /\ s \in Nat
  BY DueTimeType, EvaluationSubjects
<1> HIDE DEF d
<1>2. \A s1, s2 \in Subjects : <<s1, s2>> \in EarlierIn(trk, d) <=> Earlier(trk, d, s1, s2)
  BY DEF EarlierIn
<1>3. \A s1, s2, s3 \in Subjects :
         /\ ~Earlier(trk, d, s1, s1)
         /\ s1 # s2 => Earlier(trk, d, s1, s2) \/ Earlier(trk, d, s2, s1)
         /\ Earlier(trk, d, s1, s2) /\ Earlier(trk, d, s2, s3) => Earlier(trk, d, s1, s3)
  BY <1>1 DEF Earlier
<1>4. Linear(EarlierIn(trk, d), S)
  BY <1>2, <1>3 DEF Linear, Sorting!Linear
<1>5. QED BY <1>4, EvaluationSubjects, FS_Subset DEF d

-----------------------------------------------------------------------------
(* What Evaluate's result becomes.                                         *)

LEMMA ObservationFields ==
    ASSUME NEW res \in Result, NEW r \in Rules, NEW dir \in Directions
    PROVE  /\ ObservationOf(res, r, dir) \in Queued
           /\ ObservationOf(res, r, dir).rule = r
           /\ ObservationOf(res, r, dir).observation.direction = dir
           /\ ObservationOf(res, r, dir).observation.effectiveAt = res.occurrence.effectiveAt
<1> DEFINE o == [subject |-> res.occurrence.subject, direction |-> dir,
                 result |-> res.outcome[r][dir],
                 effectiveAt |-> res.occurrence.effectiveAt, processingAt |-> res.logical,
                 trueSince |-> IF dir = "trigger" THEN res.outcome[r].trueSince ELSE Unset]
<1>1. /\ res.occurrence \in Occurrences /\ res.logical \in Nat
      /\ res.outcome \in Outcomes
  BY DEF Result
<1>2. res.occurrence.subject \in Subjects /\ res.occurrence.effectiveAt \in Nat
  BY <1>1, OccurrencesAssumption
<1>3. res.outcome[r] \in Outcome
  BY <1>1, OutcomesAssumption
<1>4. res.outcome[r][dir] \in Results /\ res.outcome[r].trueSince \in Nat
  BY <1>3 DEF Outcome, Directions
<1>5. (IF dir = "trigger" THEN res.outcome[r].trueSince ELSE Unset) \in Nat
  BY <1>4 DEF Unset
<1>6. o \in Observation
  BY <1>1, <1>2, <1>4, <1>5 DEF Observation
<1>7. ObservationOf(res, r, dir) = [rule |-> r, id |-> <<res.occurrence, dir>>, observation |-> o]
  BY DEF ObservationOf, ObservationId
<1>8. o.direction = dir /\ o.effectiveAt = res.occurrence.effectiveAt
  OBVIOUS
<1> HIDE DEF o
<1>9. QED BY <1>1, <1>6, <1>7, <1>8 DEF Queued

\* Its observations, in the canonical order, all of one time.
LEMMA ObservationsType ==
    ASSUME NEW res \in Result
    PROVE  /\ ObservationsOf(res) \in Seq(Queued)
           /\ \A i \in 1 .. Len(ObservationsOf(res)) :
                ObservationsOf(res)[i].observation.effectiveAt = res.occurrence.effectiveAt
<1> DEFINE selected == {r \in Rules : res.occurrence.subject \in Targets[r]}
           S == {ObservationOf(res, r, dir) : r \in selected, dir \in Directions}
           R == {p \in S \X S : LessObservation(p[1], p[2])}
           f == [p \in selected \X Directions |-> ObservationOf(res, p[1], p[2])]
<1>1. IsFiniteSet(selected \X Directions)
  <2>1. IsFiniteSet(selected)
    BY RulesAssumption, FS_Subset
  <2>2. IsFiniteSet({"trigger"})
    BY FS_Singleton
  <2>3. Directions = {"trigger"} \cup {"clear"}
    BY DEF Directions
  <2>4. IsFiniteSet(Directions)
    BY <2>2, <2>3, FS_AddElement
  <2>5. QED BY <2>1, <2>4, FS_Product
<1>2. f \in Surjection(selected \X Directions, S)
  <2>1. f \in [selected \X Directions -> S]
    OBVIOUS
  <2>2. ASSUME NEW x \in S PROVE \E p \in selected \X Directions : f[p] = x
    <3>1. PICK r \in selected, dir \in Directions : x = ObservationOf(res, r, dir)
      OBVIOUS
    <3>2. <<r, dir>> \in selected \X Directions /\ f[<<r, dir>>] = x
      BY <3>1
    <3>3. QED BY <3>2
  <2> HIDE DEF f, S
  <2>3. QED BY <2>1, <2>2 DEF Surjection
<1>3. IsFiniteSet(S) /\ Cardinality(S) \in Nat
  BY <1>1, <1>2, FS_Surjection, FS_CardinalityType
<1>4. \A x \in S : \E r \in Rules, dir \in Directions :
         /\ x = ObservationOf(res, r, dir) /\ x.rule = r /\ x.observation.direction = dir
         /\ x \in Queued
         /\ x.observation.effectiveAt = res.occurrence.effectiveAt
  BY ObservationFields
<1>5. Linear(R, S)
  <2>1. \A x \in S : x.rule \in Nat /\ x.observation.direction \in {"trigger", "clear"}
    BY <1>4, RulesAssumption DEF Directions
  <2>2. \A x, y \in S : x.rule = y.rule /\ x.observation.direction = y.observation.direction => x = y
    BY <1>4
  <2>3. \A x, y \in S : <<x, y>> \in R <=> LessObservation(x, y)
    OBVIOUS
  <2> HIDE DEF S, R
  <2>4. \A x \in S : ~LessObservation(x, x)
    BY <2>1 DEF LessObservation
  <2>5. \A x, y \in S : x # y => LessObservation(x, y) \/ LessObservation(y, x)
    BY <2>1, <2>2 DEF LessObservation
  <2>6. \A x, y, z \in S : LessObservation(x, y) /\ LessObservation(y, z) => LessObservation(x, z)
    BY <2>1 DEF LessObservation
  <2>7. QED BY <2>3, <2>4, <2>5, <2>6 DEF Linear, Sorting!Linear
<1>6. PICK q : Lists(q, Cardinality(S), S, R)
  <2> HIDE DEF S, R
  <2>1. QED BY <1>3, <1>5, OrderExists
<1> DEFINE n == Cardinality(S)
<1>7. q \in [1 .. n -> S] /\ \A i, j \in 1 .. n : i < j => <<q[i], q[j]>> \in R
  BY <1>6 DEF Lists, Sorting!Lists
<1>8. ObservationsOf(res) = CHOOSE c \in [1 .. n -> S] :
                              \A i, j \in 1 .. n : i < j => <<c[i], c[j]>> \in R
  BY DEF ObservationsOf, SortedBy
<1>9. S \subseteq Queued /\ \A x \in S : x.observation.effectiveAt = res.occurrence.effectiveAt
  BY <1>4
<1> HIDE DEF S, R, f, n
<1>10. ObservationsOf(res) \in [1 .. n -> S]
  BY <1>7, <1>8
<1>11. ObservationsOf(res) \in [1 .. n -> Queued]
  BY <1>9, <1>10
<1>12. n \in Nat
  BY <1>3 DEF n
<1>13. ObservationsOf(res) \in Seq(Queued) /\ Len(ObservationsOf(res)) = n
  BY <1>11, <1>12, FunctionIsSeq
<1>14. QED BY <1>9, <1>10, <1>13

-----------------------------------------------------------------------------
(* An observation meets its reducer.                                       *)

\* Between two calls there is nothing to drain.
LEMMA NothingToDrain ==
    ASSUME TypeOK, NEW r \in Rules, NEW now \in Nat, DueOf(r, now) = {}
    PROVE  /\ Reducer(r)!DrainedTracker(now) = tracker[r]
           /\ Reducer(r)!DrainedEpisodes(now) = episodes[r]
           /\ Reducer(r)!Drained(now) = <<>>
           /\ journal[r] \o Reducer(r)!Drained(now) = journal[r]
<1>1. Reducer(r)!DueBy(now) = {}
  BY DueIsDue
<1>2. /\ tracker[r] = [s \in Subjects |-> tracker[r][s]]
      /\ episodes[r] = [s \in Subjects |-> episodes[r][s]]
      /\ journal[r] \in Seq(Reducer(r)!Transition)
  BY DEF TypeOK
<1>3. Reducer(r)!DrainedTracker(now) = tracker[r]
  BY <1>1, <1>2, SameTrackers DEF Reducer!DrainedTracker
<1>4. Reducer(r)!DrainedEpisodes(now) = episodes[r]
  BY <1>1, <1>2 DEF Reducer!DrainedEpisodes
<1>5. Reducer(r)!Drained(now) = <<>>
  <2>1. Reducer(r)!Cardinality({}) = Cardinality({})
    BY DEF Reducer!Cardinality, Cardinality, Reducer!IsFiniteSet, IsFiniteSet
  <2>2. Cardinality({}) = 0
    BY FS_EmptySet
  <2>3. Reducer(r)!Cardinality(Reducer(r)!DueBy(now)) = 0
    BY <1>1, <2>1, <2>2
  <2>4. \A f : [i \in 1 .. 0 |-> f[i]] = <<>>
    OBVIOUS
  <2>5. QED BY <2>3 DEF Reducer!Drained
<1>6. QED BY <1>2, <1>3, <1>4, <1>5, ConcatEmptySeq

\* The interval an observation opens, if it opens one.
LEMMA StartedType ==
    ASSUME NEW r \in Rules, NEW t \in Tracker, NEW o \in Observation
    PROVE  /\ Reducer(r)!OpenedBy(t, o) \in Tracker
           /\ DueAt(Reducer(r)!OpenedBy(t, o), Durations[r]) \in Nat
           /\ Reducer(r)!Processing(o) = IF o.processingAt # Unset THEN o.processingAt
                                                                   ELSE o.effectiveAt
<1> DEFINE onset == Reducer(r)!OnsetOf(Reducer(r)!Effective(o), o.trueSince)
<1>1. /\ o.processingAt \in Nat /\ o.effectiveAt \in Nat /\ o.trueSince \in Nat
      /\ o.direction \in Directions
  BY DEF Observation
<1>2. onset \in Nat
  BY <1>1 DEF Reducer!OnsetOf, Reducer!Effective, Reducer!Processing
<1>3. PhaseFor(o.direction) \in Phases /\ t.attempt + 1 \in Nat
  BY DEF PhaseFor, Phases, Tracker
<1>4. Reducer(r)!OpenedBy(t, o) = Started(t, o.direction, onset)
  BY SameTrackers DEF Reducer!OpenedBy
<1> HIDE DEF onset
<1>5. Started(t, o.direction, onset) \in Tracker
  BY <1>2, <1>3, Zenon DEF Started, Tracker
<1>6. Reducer(r)!Processing(o) = IF o.processingAt # Unset THEN o.processingAt ELSE o.effectiveAt
  BY SameTrackers DEF Reducer!Processing
<1>7. QED BY <1>4, <1>5, <1>6, DueTimeType

\* What an observation makes of a tracker: pending only when it was, unchanged, or with
\* an interval that is not due yet.
LEMMA ObservedType ==
    ASSUME NEW r \in Rules, NEW t \in Tracker, NEW o \in Observation, NEW now \in Nat
    PROVE  /\ Reducer(r)!Observed(t, o, now) \in Tracker
           /\ Pending(Reducer(r)!Observed(t, o, now))
                => \/ Reducer(r)!Observed(t, o, now) = t
                   \/ DueAt(Reducer(r)!Observed(t, o, now), Durations[r]) > now
<1> DEFINE opened == Reducer(r)!OpenedBy(t, o)
           u == Reducer(r)!Observed(t, o, now)
<1>1. opened \in Tracker /\ DueAt(opened, Durations[r]) \in Nat
  BY StartedType
<1>2. Cancelled(t) \in Tracker /\ ~Pending(Cancelled(t))
  <2>1. RestingBefore(DirectionFor(t.phase)) \in Phases /\ t.attempt + 1 \in Nat
    BY DEF RestingBefore, Phases, Tracker
  <2>2. Cancelled(t) \in Tracker
    BY <2>1, Zenon DEF Cancelled, Tracker
  <2>3. Cancelled(t).phase = RestingBefore(DirectionFor(t.phase))
    BY <2>2 DEF Cancelled, Tracker
  <2>4. QED BY <2>2, <2>3 DEF Pending, RestingBefore
<1>3. Committed(opened) \in Tracker /\ ~Pending(Committed(opened))
  BY <1>1, CommittedType
<1>4. \/ Reducer(r)!CommitsAtOnce(t, o, now) /\ u = Committed(opened)
      \/ ~Reducer(r)!CommitsAtOnce(t, o, now) /\ Reducer(r)!Starts(t, o) /\ u = opened
      \/ u = Cancelled(t)
      \/ u = t
  BY SameTrackers DEF Reducer!Observed
<1>5. Reducer(r)!CommitsAtOnce(t, o, now) <=>
        Reducer(r)!Starts(t, o) /\ DueAt(opened, Durations[r]) <= now
  BY DurationType, SameTrackers DEF Reducer!CommitsAtOnce, Reducer!QualifiesAtOnce
<1> HIDE DEF opened, u
<1>6. u \in Tracker /\ (Pending(u) => u = t \/ DueAt(u, Durations[r]) > now)
  BY <1>1, <1>2, <1>3, <1>4, <1>5
<1>7. QED BY <1>6 DEF u

LEMMA TransitionType ==
    ASSUME NEW r \in Rules, NEW s \in Subjects, NEW t \in Tracker,
           NEW at \in Nat, NEW processing \in Nat
    PROVE  /\ Reducer(r)!TransitionOf(s, t, at, processing) \in Reducer(r)!Transition
           /\ Reducer(r)!TransitionOf(s, t, at, processing).at = at
<1>1. /\ t.sequence + 1 \in Nat /\ t.episode \in Nat /\ t.attempt \in Nat
  BY DEF Tracker
<1>2. Reducer(r)!DueAt(t, Reducer(r)!Duration) \in Nat
  <2>1. Reducer(r)!Duration = Durations[r]
    BY DurationType
  <2>2. \A d : Reducer(r)!DueAt(t, d) = DueAt(t, d)
    BY SameTrackers
  <2>3. QED BY <2>1, <2>2, DueTimeType
<1>3. Reducer(r)!DirectionFor(t.phase) \in Directions
  BY DEF Reducer!DirectionFor, Directions
<1>4. Reducer(r)!Directions = Directions
  BY DEF Reducer!Directions, Directions
<1>5. QED BY <1>1, <1>2, <1>3, <1>4 DEF Reducer!TransitionOf, Reducer!Transition

\* The parts of RuntimeInv an Apply relies on.
ApplyInv == TypeOK /\ OneCallRuns /\ ClocksAgree /\ NothingOverdue

\* What one turn of Apply's loop does: with nothing to drain it is the observation alone
\* that changes its reducer, and what it commits is dated at the present time.
Takes(r, id, o) ==
    LET t == tracker[r][o.subject]
        opened == Reducer(r)!OpenedBy(t, o)
    IN
    /\ seen' = [seen EXCEPT ![r] = @ \cup {id}]
    /\ clock' = clock
    /\ tracker' = [tracker EXCEPT ![r] =
                     [tracker[r] EXCEPT ![o.subject] = Reducer(r)!Observed(t, o, logical)]]
    /\ heldSince' = [heldSince EXCEPT ![r][o.subject][o.direction] =
                       Reducer(r)!HeldAfter(@, o, logical)]
    /\ IF Reducer(r)!CommitsAtOnce(t, o, logical)
         THEN /\ episodes' = [episodes EXCEPT ![r] =
                   [episodes[r] EXCEPT ![o.subject] =
                      Reducer(r)!EpisodesAfter(@, opened, logical)]]
              /\ journal' = [journal EXCEPT ![r] =
                   Append(journal[r], Reducer(r)!TransitionOf(o.subject, opened, logical, logical))]
              /\ out' = Append(out, <<r, Len(journal[r]) + 1>>)
         ELSE episodes' = episodes /\ journal' = journal /\ out' = out

LEMMA HeadQueued ==
    ASSUME ApplyInv, ApplyNext
    PROVE  /\ queue # <<>> /\ Head(queue) \in Queued
           /\ \E r \in Rules : r = Head(queue).rule
<1>1. queue # <<>>
  BY DEF ApplyNext
<1>2. Head(queue) \in Queued
  BY <1>1, HeadTailProperties DEF ApplyInv, TypeOK
<1>3. QED BY <1>1, <1>2 DEF Queued

LEMMA ApplyNextTakes ==
    ASSUME ApplyInv, ApplyNext, NEW r \in Rules, r = Head(queue).rule
    PROVE  /\ target = Unset /\ queue # <<>> /\ queue' = Tail(queue)
           /\ UNCHANGED <<logical, target, result>>
           /\ Head(queue) \in Queued
           /\ Head(queue).observation.processingAt = logical
           /\ logical # Unset
           /\ \/ UNCHANGED <<reducers, out>>
              \/ /\ Head(queue).id \notin seen[r]
                 /\ Takes(r, Head(queue).id, Head(queue).observation)
<1> DEFINE id == Head(queue).id
           o == Head(queue).observation
           s == o.subject
           t == tracker[r][s]
           opened == Reducer(r)!OpenedBy(t, o)
<1> USE DEF ApplyInv
<1>1. queue # <<>> /\ queue' = Tail(queue) /\ UNCHANGED <<logical, target, result>>
  BY DEF ApplyNext
<1>2. target = Unset /\ logical # Unset
  BY <1>1 DEF OneCallRuns
<1>3. Head(queue) \in Queued
  BY HeadQueued
<1>4. r \in Rules /\ id \in Occurrences \X Directions /\ o \in Observation
  BY <1>3 DEF Queued
<1>5. s \in Subjects /\ o.direction \in Directions
  BY <1>4 DEF Observation
<1>6. o.processingAt = logical
  <2>1. 1 \in DOMAIN queue /\ Head(queue) = queue[1]
    BY <1>1, EmptySeq DEF TypeOK
  <2>2. QED BY <2>1 DEF OneCallRuns
<1>7. clock[r] = logical /\ logical \in Nat
  BY <1>2, <1>4 DEF ClocksAgree, TypeOK
<1>8. DueOf(r, logical) = {}
  BY <1>2, <1>4, DueIsDue DEF NothingOverdue
<1>9. t \in Tracker
  BY <1>4, <1>5 DEF TypeOK
<1>10. Reducer(r)!Later(o.processingAt, clock[r]) = logical
  BY <1>6, <1>7 DEF Reducer!Later
<1>11. /\ Reducer(r)!DrainedTracker(logical) = tracker[r]
       /\ Reducer(r)!DrainedEpisodes(logical) = episodes[r]
       /\ journal[r] \o Reducer(r)!Drained(logical) = journal[r]
  BY <1>4, <1>7, <1>8, NothingToDrain
<1>12. Reducer(r)!CommitsAtOnce(t, o, logical) => Reducer(r)!CommitAt(opened, logical) = logical
  <2>1. DueAt(opened, Durations[r]) \in Nat
    BY <1>4, <1>9, StartedType
  <2>2. Reducer(r)!DueAt(opened, Reducer(r)!Duration) = DueAt(opened, Durations[r])
    <3>1. Reducer(r)!Duration = Durations[r]
      BY <1>4, DurationType
    <3>2. \A d : Reducer(r)!DueAt(opened, d) = DueAt(opened, d)
      BY SameTrackers
    <3>3. QED BY <3>1, <3>2
  <2>3. Reducer(r)!CommitsAtOnce(t, o, logical) => DueAt(opened, Durations[r]) <= logical
    BY <2>2 DEF Reducer!CommitsAtOnce, Reducer!QualifiesAtOnce
  <2> HIDE DEF opened
  <2>4. QED BY <1>7, <2>1, <2>2, <2>3 DEF Reducer!CommitAt, Reducer!Later
<1>13. CASE id \in seen[r]
  BY <1>1, <1>2, <1>3, <1>6, <1>13 DEF ApplyNext, Fresh
<1>14. CASE id \notin seen[r]
  <2> DEFINE atOnce == Reducer(r)!CommitsAtOnce(t, o, logical)
             commit == Reducer(r)!CommitAt(opened, logical)
  <2>1. /\ seen' = [seen EXCEPT ![r] = @ \cup {id}]
        /\ clock' = [clock EXCEPT ![r] = logical]
        /\ tracker' = [tracker EXCEPT ![r] =
             [tracker[r] EXCEPT ![s] = Reducer(r)!Observed(t, o, logical)]]
        /\ episodes' = [episodes EXCEPT ![r] =
             IF atOnce THEN [episodes[r] EXCEPT ![s] =
                               Reducer(r)!EpisodesAfter(@, opened, commit)]
                       ELSE episodes[r]]
        /\ journal' = [journal EXCEPT ![r] =
             IF atOnce THEN Append(journal[r], Reducer(r)!TransitionOf(s, opened, commit, logical))
                       ELSE journal[r]]
        /\ heldSince' = [heldSince EXCEPT ![r][s][o.direction] =
                           Reducer(r)!HeldAfter(@, o, logical)]
        /\ out' = out \o [i \in 1 .. Len(journal'[r]) - Len(journal[r]) |->
                            <<r, Len(journal[r]) + i>>]
    <3> DEFINE at == Reducer(r)!Later(o.processingAt, clock[r])
               u == Reducer(r)!DrainedTracker(at)[s]
               interval == Reducer(r)!OpenedBy(u, o)
               when == Reducer(r)!CommitAt(interval, at)
               drained == journal[r] \o Reducer(r)!Drained(at)
    <3>1. /\ seen' = [seen EXCEPT ![r] = @ \cup {id}]
          /\ clock' = [clock EXCEPT ![r] = at]
          /\ tracker' = [tracker EXCEPT ![r] =
               [Reducer(r)!DrainedTracker(at) EXCEPT ![s] = Reducer(r)!Observed(u, o, at)]]
          /\ episodes' = [episodes EXCEPT ![r] =
               IF Reducer(r)!CommitsAtOnce(u, o, at)
                 THEN [Reducer(r)!DrainedEpisodes(at) EXCEPT ![s] =
                         Reducer(r)!EpisodesAfter(@, interval, when)]
                 ELSE Reducer(r)!DrainedEpisodes(at)]
          /\ journal' = [journal EXCEPT ![r] =
               IF Reducer(r)!CommitsAtOnce(u, o, at)
                 THEN Append(drained, Reducer(r)!TransitionOf(s, interval, when, at))
                 ELSE drained]
          /\ heldSince' = [heldSince EXCEPT ![r][s][o.direction] = Reducer(r)!HeldAfter(@, o, at)]
          /\ out' = out \o [i \in 1 .. Len(journal'[r]) - Len(journal[r]) |->
                              <<r, Len(journal[r]) + i>>]
      BY <1>14, Zenon DEF ApplyNext, Fresh
    <3>2. at = logical
      BY <1>10
    <3> HIDE DEF at
    <3>3. u = t /\ drained = journal[r]
      BY <1>11, <3>2
    <3>4. QED BY <1>11, <3>1, <3>2, <3>3
  <2>2. clock' = clock
    BY <1>4, <1>7, <2>1 DEF TypeOK
  <2>3. /\ journal[r] \in Seq(Reducer(r)!Transition) /\ Len(journal[r]) \in Nat
        /\ out \in Seq(Rules \X Nat)
        /\ journal = [x \in Rules |-> journal[x]] /\ episodes = [x \in Rules |-> episodes[x]]
    BY <1>4, LenProperties DEF TypeOK
  <2>4. CASE atOnce
    <3> DEFINE new == Reducer(r)!TransitionOf(s, opened, logical, logical)
    <3>1. commit = logical
      BY <1>12, <2>4
    <3>2. journal' = [journal EXCEPT ![r] = Append(journal[r], new)]
      BY <2>1, <2>4, <3>1
    <3>3. journal'[r] = Append(journal[r], new)
      BY <1>4, <2>3, <3>2
    <3>4. new \in Reducer(r)!Transition
      BY <1>4, <1>5, <1>7, <1>9, StartedType, TransitionType
    <3>5. Len(journal'[r]) - Len(journal[r]) = 1
      <4> HIDE DEF new
      <4>1. QED BY <2>3, <3>3, <3>4, AppendProperties
    <3>6. out' = out \o <<<<r, Len(journal[r]) + 1>>>>
      <4>1. out' = out \o [i \in 1 .. 1 |-> <<r, Len(journal[r]) + i>>]
        BY <2>1, <3>5
      <4>2. [i \in 1 .. 1 |-> <<r, Len(journal[r]) + i>>] = <<<<r, Len(journal[r]) + 1>>>>
        OBVIOUS
      <4>3. QED BY <4>1, <4>2
    <3>7. out' = Append(out, <<r, Len(journal[r]) + 1>>)
      BY <1>4, <2>3, <3>6, AppendIsConcat
    <3>8. episodes' = [episodes EXCEPT ![r] =
             [episodes[r] EXCEPT ![s] = Reducer(r)!EpisodesAfter(@, opened, logical)]]
      BY <2>1, <2>4, <3>1
    <3>9. Takes(r, id, o)
      BY <2>1, <2>2, <2>4, <3>2, <3>7, <3>8 DEF Takes
    <3>10. QED BY <1>1, <1>2, <1>3, <1>6, <1>14, <3>9
  <2>5. CASE ~atOnce
    <3>1. journal' = journal /\ episodes' = episodes
      BY <2>1, <2>3, <2>5
    <3>2. Len(journal'[r]) - Len(journal[r]) = 0
      BY <2>3, <3>1
    <3>3. out' = out
      <4>1. out' = out \o [i \in 1 .. 0 |-> <<r, Len(journal[r]) + i>>]
        BY <2>1, <3>2
      <4>2. [i \in 1 .. 0 |-> <<r, Len(journal[r]) + i>>] = <<>>
        OBVIOUS
      <4>3. QED BY <2>3, <4>1, <4>2, ConcatEmptySeq
    <3>4. Takes(r, id, o)
      BY <2>1, <2>2, <2>5, <3>1, <3>3 DEF Takes
    <3>5. QED BY <1>1, <1>2, <1>3, <1>6, <1>14, <3>4
  <2>6. QED BY <2>4, <2>5
<1>15. QED BY <1>13, <1>14

-----------------------------------------------------------------------------
(* A timer fires.                                                          *)

\* A timer that is due has a first one before it.
LEMMA FirstTimer ==
    ASSUME TypeOK, NEW now \in Nat, NEW r \in Rules, DueOf(r, now) # {}
    PROVE  \E timer \in Rules \X Subjects : IsNextDue(timer, now)
<1> DEFINE U == Rules \X Subjects
           R == {p \in U \X U : LessTimer(p[1], p[2])}
           S == DueTimers(now)
<1>1. \A x \in U : DueTime(x) \in Nat /\ x[1] \in Nat /\ x[2] \in Nat
  BY DueTimeType, RulesAssumption, EvaluationSubjects DEF TypeOK, DueTime
<1>2. Linear(R, U)
  <2>1. \A x, y \in U : <<x, y>> \in R <=> LessTimer(x, y)
    OBVIOUS
  <2>2. \A x, y \in U : x[1] = y[1] /\ x[2] = y[2] => x = y
    OBVIOUS
  <2> HIDE DEF U, R
  <2>3. \A x \in U : ~LessTimer(x, x)
    BY <1>1 DEF LessTimer
  <2>4. \A x, y \in U : x # y => LessTimer(x, y) \/ LessTimer(y, x)
    BY <1>1, <2>2 DEF LessTimer
  <2>5. \A x, y, z \in U : LessTimer(x, y) /\ LessTimer(y, z) => LessTimer(x, z)
    BY <1>1 DEF LessTimer
  <2>6. QED BY <2>1, <2>3, <2>4, <2>5 DEF Linear, Sorting!Linear
<1>3. S \in SUBSET U /\ IsFiniteSet(S)
  <2>1. S \in SUBSET U
    BY DEF DueTimers
  <2>2. IsFiniteSet(U)
    BY RulesAssumption, EvaluationSubjects, FS_Product
  <2>3. QED BY <2>1, <2>2, FS_Subset
<1>4. S # {}
  <2>1. PICK s \in Subjects : s \in DueOf(r, now)
    BY DEF DueOf
  <2>2. <<r, s>> \in S
    BY <2>1, DueIsDue DEF DueTimers
  <2>3. QED BY <2>2
<1>5. \E x \in S : \A y \in S \ {x} : <<x, y>> \in R
  <2> HIDE DEF U, R, S
  <2>1. Sorting!IsFiniteSet(S) /\ Sorting!Linear(R, U)
    BY <1>2, <1>3, SameCounting DEF Linear
  <2>2. Sorting!IsFiniteSet(Subjects) /\ Subjects \subseteq Nat
    BY SameCounting, EvaluationSubjects
  <2>3. QED BY <1>3, <1>4, <2>1, <2>2, Sorting!FirstExists, SMT
<1>6. PICK x \in S : \A y \in S \ {x} : LessTimer(x, y)
  BY <1>3, <1>5
<1>7. QED BY <1>3, <1>6 DEF IsNextDue

\* The step, for the timer of subject s of rule r.
Fires(r, s) ==
    LET t == tracker[r][s]
        due == DueAt(t, Durations[r])
    IN
    /\ clock' = [clock EXCEPT ![r] = target]
    /\ tracker' = [tracker EXCEPT ![r] = [tracker[r] EXCEPT ![s] = Committed(t)]]
    /\ episodes' = [episodes EXCEPT ![r] =
                      [episodes[r] EXCEPT ![s] = Reducer(r)!EpisodesAfter(@, t, due)]]
    /\ journal' = [journal EXCEPT ![r] =
                     Append(journal[r], Reducer(r)!TransitionOf(s, t, due, target))]
    /\ out' = Append(out, <<r, Len(journal[r]) + 1>>)
    /\ UNCHANGED <<logical, target, queue, result, seen, heldSince>>

LEMMA FireNextFires ==
    ASSUME TypeOK, FireNext
    PROVE  /\ target # Unset
           /\ \E r \in Rules, s \in Subjects :
                /\ s \in DueOf(r, target)
                /\ \A q \in Rules : \A u \in DueOf(q, target) :
                     <<q, u>> = <<r, s>> \/ LessTimer(<<r, s>>, <<q, u>>)
                /\ Fires(r, s)
<1>1. target # Unset
  BY DEF FireNext
<1>2. PICK timer \in Rules \X Subjects : 
         LET r == timer[1]
             s == timer[2]
             t == tracker[r][s]
         IN /\ IsNextDue(timer, target)
            /\ clock' = [clock EXCEPT ![r] = target]
            /\ tracker' = [tracker EXCEPT ![r][s] = Committed(t)]
            /\ episodes' = [episodes EXCEPT ![r][s] =
                              Reducer(r)!EpisodesAfter(@, t, DueTime(timer))]
            /\ journal' = [journal EXCEPT ![r] =
                             Append(@, Reducer(r)!TransitionOf(s, t, DueTime(timer), target))]
            /\ out' = Append(out, <<r, Len(journal[r]) + 1>>)
  BY DEF FireNext
<1> DEFINE r == timer[1]
           s == timer[2]
<1>3. r \in Rules /\ s \in Subjects /\ timer = <<r, s>>
  OBVIOUS
<1>4. s \in DueOf(r, target)
  BY <1>2, <1>3, DueIsDue DEF IsNextDue, DueTimers
<1>5. ASSUME NEW q \in Rules, NEW u \in DueOf(q, target)
      PROVE  <<q, u>> = <<r, s>> \/ LessTimer(<<r, s>>, <<q, u>>)
  <2>1. u \in Subjects
    BY <1>5 DEF DueOf
  <2>2. <<q, u>> \in DueTimers(target)
    BY <1>5, <2>1, DueIsDue DEF DueTimers
  <2>3. \A other \in DueTimers(target) \ {timer} : LessTimer(timer, other)
    BY <1>2 DEF IsNextDue
  <2>4. QED BY <1>3, <2>2, <2>3
<1>6. DueTime(timer) = DueAt(tracker[r][s], Durations[r])
  BY DEF DueTime
<1>7. Fires(r, s)
  <2>1. UNCHANGED <<logical, target, queue, result, seen, heldSince>>
    BY DEF FireNext
  <2>2. QED BY <1>2, <1>6, <2>1 DEF Fires
<1>8. QED BY <1>1, <1>3, <1>4, <1>5, <1>7

-----------------------------------------------------------------------------
(* RuntimeInv is inductive: first the part an Apply relies on.             *)

LEMMA InitApplyInv == Init => ApplyInv
<1> SUFFICES ASSUME Init PROVE ApplyInv
  OBVIOUS
<1>1. NewTracker \in Tracker /\ ~Pending(NewTracker)
  BY DEF NewTracker, Tracker, Phases, Pending, Unset, NoEpisode
<1>2. Unset = 0
  BY DEF Unset
<1>3. TypeOK
  BY <1>1, <1>2 DEF Init, TypeOK
<1>4. OneCallRuns /\ ClocksAgree
  BY <1>2 DEF Init, OneCallRuns, ClocksAgree
<1>5. \A r \in Rules : DueOf(r, logical) = {}
  BY <1>1 DEF Init, DueOf
<1>6. NothingOverdue
  BY <1>5, DueIsDue DEF NothingOverdue
<1>7. QED BY <1>3, <1>4, <1>6 DEF ApplyInv

LEMMA BeginAdvanceApplyInv ==
    ASSUME ApplyInv, NEW now \in 1 .. MaxTime, BeginAdvance(now)
    PROVE  ApplyInv'
<1> USE DEF ApplyInv
<1>1. /\ target' = now /\ now \in Nat /\ now # Unset /\ logical <= now
      /\ target = Unset /\ queue = <<>>
      /\ UNCHANGED <<logical, queue, result, clock, tracker, seen, episodes, journal, heldSince, out>>
  BY MaxTimeAssumption DEF BeginAdvance, Idle, TypeOK, reducers
<1>2. TypeOK'
  BY <1>1 DEF TypeOK
<1>3. OneCallRuns'
  BY <1>1 DEF OneCallRuns
<1>4. ClocksAgree'
  BY <1>1 DEF ClocksAgree, TypeOK
<1>5. NothingOverdue'
  BY <1>1 DEF NothingOverdue
<1>6. QED BY <1>2, <1>3, <1>4, <1>5

LEMMA FireNextTypeOK ==
    ASSUME TypeOK, NEW r \in Rules, NEW s \in DueOf(r, target), Fires(r, s)
    PROVE  /\ TypeOK'
           /\ journal'[r] = Append(journal[r],
                Reducer(r)!TransitionOf(s, tracker[r][s], DueAt(tracker[r][s], Durations[r]), target))
           /\ Reducer(r)!TransitionOf(s, tracker[r][s], DueAt(tracker[r][s], Durations[r]), target)
                \in Reducer(r)!Transition
<1> DEFINE t == tracker[r][s]
           due == DueAt(t, Durations[r])
           new == Reducer(r)!TransitionOf(s, t, due, target)
<1>1. s \in Subjects
  BY DEF DueOf
<1>2. t \in Tracker /\ due \in Nat /\ target \in Nat
  BY <1>1, DueTimeType DEF TypeOK
<1>3. new \in Reducer(r)!Transition
  BY <1>1, <1>2, TransitionType
<1>4. Committed(t) \in Tracker
  BY <1>2, CommittedType
<1>5. /\ episodes[r] \in [Subjects -> Seq(Reducer(r)!Episode)]
      /\ journal[r] \in Seq(Reducer(r)!Transition) /\ Len(journal[r]) \in Nat
      /\ tracker[r] \in [Subjects -> Tracker]
  BY LenProperties DEF TypeOK
<1>6. Reducer(r)!EpisodesAfter(episodes[r][s], t, due) \in Seq(Reducer(r)!Episode)
  BY <1>1, <1>2, <1>5, EpisodesAfterType
<1> HIDE DEF t, due, new
<1>7. /\ clock' = [clock EXCEPT ![r] = target]
      /\ tracker' = [tracker EXCEPT ![r] = [tracker[r] EXCEPT ![s] = Committed(t)]]
      /\ episodes' = [episodes EXCEPT ![r] = [episodes[r] EXCEPT ![s] =
                        Reducer(r)!EpisodesAfter(episodes[r][s], t, due)]]
      /\ journal' = [journal EXCEPT ![r] = Append(journal[r], new)]
      /\ out' = Append(out, <<r, Len(journal[r]) + 1>>)
      /\ UNCHANGED <<logical, target, queue, result, seen, heldSince>>
  BY <1>1, <1>5 DEF Fires, t, due, new
<1>8. clock' \in [Rules -> Nat]
  BY <1>2, <1>7 DEF TypeOK
<1>9. tracker' \in [Rules -> [Subjects -> Tracker]]
  <2>1. [tracker[r] EXCEPT ![s] = Committed(t)] \in [Subjects -> Tracker]
    BY <1>4, <1>5
  <2>2. QED BY <1>7, <2>1 DEF TypeOK
<1>10. episodes' = [q \in Rules |-> episodes'[q]] /\ journal' = [q \in Rules |-> journal'[q]]
  BY <1>7 DEF TypeOK
<1>11. journal'[r] = Append(journal[r], new)
  BY <1>7 DEF TypeOK
<1>12. ASSUME NEW q \in Rules
       PROVE  /\ episodes'[q] \in [Subjects -> Seq(Reducer(q)!Episode)]
              /\ journal'[q] \in Seq(Reducer(q)!Transition)
  <2>1. CASE q # r
    <3>1. episodes'[q] = episodes[q] /\ journal'[q] = journal[q]
      BY <1>7, <2>1 DEF TypeOK
    <3>2. QED BY <3>1 DEF TypeOK
  <2>2. CASE q = r
    <3>1. episodes'[r] = [episodes[r] EXCEPT ![s] =
                            Reducer(r)!EpisodesAfter(episodes[r][s], t, due)]
      BY <1>7 DEF TypeOK
    <3>2. episodes'[r] \in [Subjects -> Seq(Reducer(r)!Episode)]
      BY <1>5, <1>6, <3>1
    <3>3. Append(journal[r], new) \in Seq(Reducer(r)!Transition)
      BY <1>3, <1>5, AppendProperties
    <3>4. journal'[r] \in Seq(Reducer(r)!Transition)
      BY <1>11, <3>3
    <3>5. QED BY <2>2, <3>2, <3>4
  <2>3. QED BY <2>1, <2>2
<1>13. out' \in Seq(Rules \X Nat)
  <2>1. out \in Seq(Rules \X Nat) /\ <<r, Len(journal[r]) + 1>> \in Rules \X Nat
    BY <1>5 DEF TypeOK
  <2>2. Append(out, <<r, Len(journal[r]) + 1>>) \in Seq(Rules \X Nat)
    BY <2>1, AppendProperties
  <2>3. QED BY <1>7, <2>2
<1>14. /\ logical' \in Nat /\ target' \in Nat
       /\ queue' \in Seq(Queued) /\ result' \in Result \cup {NoResult}
       /\ seen' \in [Rules -> SUBSET (Occurrences \X Directions)]
       /\ heldSince' \in [Rules -> [Subjects -> [Directions -> Nat]]]
  BY <1>7 DEF TypeOK
<1>15. TypeOK'
  <2>1. \A q \in Rules : Reducer(q)!Episode' = Reducer(q)!Episode
    BY DEF Reducer!Episode
  <2>2. \A q \in Rules : Reducer(q)!Transition' = Reducer(q)!Transition
    BY DEF Reducer!Transition
  <2>3. QED BY <1>8, <1>9, <1>10, <1>12, <1>13, <1>14 DEF TypeOK
<1>16. QED BY <1>3, <1>11, <1>15 DEF t, due, new

LEMMA FireNextApplyInv ==
    ASSUME ApplyInv, FireNext
    PROVE  ApplyInv'
<1> USE DEF ApplyInv
<1>1. target # Unset /\ target \in Nat
  BY DEF FireNext, TypeOK
<1>2. PICK r \in Rules, s \in Subjects : s \in DueOf(r, target) /\ Fires(r, s)
  BY FireNextFires
<1>3. TypeOK'
  BY <1>2, FireNextTypeOK
<1>4. UNCHANGED <<logical, target, queue>>
  BY <1>2 DEF Fires
<1>5. OneCallRuns'
  BY <1>1, <1>4 DEF OneCallRuns
<1>6. ClocksAgree'
  <2>1. clock' = [clock EXCEPT ![r] = target]
    BY <1>2 DEF Fires
  <2>2. QED BY <1>1, <1>4, <2>1 DEF ClocksAgree, TypeOK
<1>7. NothingOverdue'
  BY <1>1, <1>4 DEF NothingOverdue
<1>8. QED BY <1>3, <1>5, <1>6, <1>7

LEMMA FinishAdvanceApplyInv ==
    ASSUME ApplyInv, FinishAdvance
    PROVE  ApplyInv' /\ \A r \in Rules : DueOf(r, target) = {}
<1> USE DEF ApplyInv
<1>1. /\ target \in Nat /\ logical' = target /\ target' = Unset
      /\ clock' = [r \in Rules |-> target]
      /\ UNCHANGED <<queue, result, tracker, seen, episodes, journal, heldSince, out>>
      /\ target # Unset
  BY DEF FinishAdvance, TypeOK
<1>2. \A r \in Rules : DueOf(r, target) = {}
  BY <1>1, FirstTimer DEF FinishAdvance
<1>3. TypeOK'
  BY <1>1 DEF TypeOK, Unset
<1>4. OneCallRuns'
  <2>1. queue = <<>>
    BY <1>1 DEF OneCallRuns
  <2>2. QED BY <1>1, <2>1 DEF OneCallRuns
<1>5. ClocksAgree'
  BY <1>1 DEF ClocksAgree
<1>6. NothingOverdue'
  <2>1. ASSUME NEW r \in Rules PROVE (Reducer(r)!DueBy(logical))' = {}
    <3>1. (Reducer(r)!DueBy(logical))' =
             {s \in Subjects : Pending(tracker'[r][s]) /\
                               DueAt(tracker'[r][s], Durations[r]) <= logical'}
      BY DurationType, SameTrackers DEF Reducer!DueBy
    <3>2. DueOf(r, target) = {}
      BY <1>2
    <3>3. QED BY <1>1, <3>1, <3>2 DEF DueOf
  <2>2. QED BY <2>1 DEF NothingOverdue
<1>7. QED BY <1>2, <1>3, <1>4, <1>5, <1>6

LEMMA EvaluateApplyInv ==
    ASSUME ApplyInv, NEW occurrence \in Occurrences, NEW outcome \in Outcomes,
           Evaluate(occurrence, outcome)
    PROVE  ApplyInv'
<1> USE DEF ApplyInv
<1>1. /\ result' = [occurrence |-> occurrence, logical |-> logical, outcome |-> outcome]
      /\ UNCHANGED <<logical, target, queue, clock, tracker, seen, episodes, journal, heldSince, out>>
  BY DEF Evaluate, reducers
<1>2. result' \in Result
  BY <1>1 DEF TypeOK, Result
<1>3. TypeOK'
  BY <1>1, <1>2 DEF TypeOK
<1>4. OneCallRuns' /\ ClocksAgree'
  BY <1>1 DEF OneCallRuns, ClocksAgree
<1>5. NothingOverdue'
  BY <1>1 DEF NothingOverdue, Reducer!DueBy
<1>6. QED BY <1>3, <1>4, <1>5

LEMMA BeginApplyApplyInv ==
    ASSUME ApplyInv, BeginApply
    PROVE  ApplyInv'
<1> USE DEF ApplyInv
<1>1. /\ target = Unset /\ result # NoResult /\ ValidResult(result)
      /\ queue' = ObservationsOf(result)
      /\ UNCHANGED <<logical, target, result, clock, tracker, seen, episodes, journal, heldSince, out>>
  BY DEF BeginApply, Idle, reducers
<1>2. result \in Result
  BY <1>1 DEF TypeOK
<1>3. ObservationsOf(result) \in Seq(Queued)
  BY <1>2, ObservationsType
<1>4. TypeOK'
  BY <1>1, <1>3 DEF TypeOK
<1>5. \A i \in DOMAIN queue' : queue'[i].observation.processingAt = logical
  BY <1>1 DEF ValidResult
<1>6. queue' # <<>> => logical # Unset
  <2>1. SUFFICES ASSUME queue' # <<>> PROVE logical # Unset
    OBVIOUS
  <2>2. 1 \in DOMAIN queue' /\ queue'[1] \in Queued
    BY <1>1, <1>3, <2>1, EmptySeq, LenProperties, ElementOfSeq
  <2>3. /\ queue'[1].observation.effectiveAt <= queue'[1].observation.processingAt
        /\ queue'[1].observation.processingAt = logical
    BY <1>1, <2>2 DEF ValidResult
  <2>4. queue'[1].observation.effectiveAt \in Nat /\ queue'[1].observation.effectiveAt # Unset
    <3>1. queue'[1].observation.effectiveAt = result.occurrence.effectiveAt
      BY <1>1, <1>2, <1>3, <2>2, ObservationsType, LenProperties
    <3>2. result.occurrence \in Occurrences
      BY <1>2 DEF Result
    <3>3. QED BY <3>1, <3>2, OccurrencesAssumption DEF Unset
  <2>5. QED BY <2>3, <2>4 DEF Unset, TypeOK
<1>7. OneCallRuns'
  BY <1>1, <1>5, <1>6 DEF OneCallRuns
<1>8. ClocksAgree'
  BY <1>1 DEF ClocksAgree
<1>9. NothingOverdue'
  BY <1>1 DEF NothingOverdue, Reducer!DueBy
<1>10. QED BY <1>4, <1>7, <1>8, <1>9

LEMMA ApplyNextApplyInv ==
    ASSUME ApplyInv, ApplyNext
    PROVE  ApplyInv'
<1>0. PICK r \in Rules : r = Head(queue).rule
  BY HeadQueued
<1> DEFINE id == Head(queue).id
           o == Head(queue).observation
           s == o.subject
           t == tracker[r][s]
           u == Reducer(r)!Observed(t, o, logical)
           opened == Reducer(r)!OpenedBy(t, o)
           new == Reducer(r)!TransitionOf(s, opened, logical, logical)
<1> USE DEF ApplyInv
<1>1. /\ target = Unset /\ queue # <<>> /\ queue' = Tail(queue)
      /\ UNCHANGED <<logical, target, result>>
      /\ Head(queue) \in Queued /\ logical # Unset
      /\ \/ UNCHANGED <<reducers, out>>
         \/ Takes(r, id, o)
  BY <1>0, ApplyNextTakes
<1>2. r \in Rules /\ id \in Occurrences \X Directions /\ o \in Observation
  BY <1>1 DEF Queued
<1>3. s \in Subjects /\ o.direction \in Directions
  BY <1>2 DEF Observation
<1>4. t \in Tracker /\ logical \in Nat
  BY <1>2, <1>3 DEF TypeOK
<1>5. queue' \in Seq(Queued) /\ OneCallRuns'
  <2>1. /\ Tail(queue) \in Seq(Queued)
        /\ \A i \in DOMAIN Tail(queue) : i + 1 \in DOMAIN queue /\ Tail(queue)[i] = queue[i + 1]
    BY <1>1, HeadTailProperties, LenProperties DEF TypeOK
  <2>2. QED BY <1>1, <2>1 DEF OneCallRuns
<1>6. CASE UNCHANGED <<reducers, out>>
  <2>1. UNCHANGED <<clock, tracker, seen, episodes, journal, heldSince, out>>
    BY <1>6 DEF reducers
  <2>2. TypeOK'
    BY <1>1, <1>5, <2>1 DEF TypeOK
  <2>3. ClocksAgree'
    BY <1>1, <2>1 DEF ClocksAgree
  <2>4. NothingOverdue'
    BY <1>1, <2>1 DEF NothingOverdue, Reducer!DueBy
  <2>5. QED BY <1>5, <2>2, <2>3, <2>4
<1>7. CASE Takes(r, id, o)
  <2>1. u \in Tracker /\ (Pending(u) => u = t \/ DueAt(u, Durations[r]) > logical)
    BY <1>2, <1>4, ObservedType
  <2>2. new \in Reducer(r)!Transition /\ opened \in Tracker
    BY <1>2, <1>3, <1>4, StartedType, TransitionType
  <2>3. Reducer(r)!EpisodesAfter(episodes[r][s], opened, logical) \in Seq(Reducer(r)!Episode)
    BY <1>2, <1>3, <1>4, <2>2, EpisodesAfterType DEF TypeOK
  <2>4. /\ episodes[r] \in [Subjects -> Seq(Reducer(r)!Episode)]
        /\ journal[r] \in Seq(Reducer(r)!Transition) /\ Len(journal[r]) \in Nat
        /\ tracker[r] \in [Subjects -> Tracker]
    BY <1>2, LenProperties DEF TypeOK
  <2>5. /\ seen' = [seen EXCEPT ![r] = @ \cup {id}]
        /\ clock' = clock
        /\ tracker' = [tracker EXCEPT ![r] = [tracker[r] EXCEPT ![s] = u]]
        /\ heldSince' = [heldSince EXCEPT ![r][s][o.direction] =
                           Reducer(r)!HeldAfter(@, o, logical)]
        /\ \/ /\ episodes' = [episodes EXCEPT ![r] = [episodes[r] EXCEPT ![s] =
                                Reducer(r)!EpisodesAfter(episodes[r][s], opened, logical)]]
              /\ journal' = [journal EXCEPT ![r] = Append(journal[r], new)]
              /\ out' = Append(out, <<r, Len(journal[r]) + 1>>)
           \/ episodes' = episodes /\ journal' = journal /\ out' = out
    BY <1>3, <1>7, <2>4 DEF Takes
  <2>6. Reducer(r)!HeldAfter(heldSince[r][s][o.direction], o, logical) \in Nat
    BY <1>2, <1>3, <1>4, SameTrackers DEF Reducer!HeldAfter, TypeOK, Unset
  <2> HIDE DEF id, o, s, t, u, opened, new
  <2>7. clock' \in [Rules -> Nat] /\ seen' \in [Rules -> SUBSET (Occurrences \X Directions)]
    BY <1>2, <2>5 DEF TypeOK
  <2>8. tracker' \in [Rules -> [Subjects -> Tracker]]
    <3>1. [tracker[r] EXCEPT ![s] = u] \in [Subjects -> Tracker]
      BY <2>1, <2>4
    <3>2. QED BY <1>2, <2>5, <3>1 DEF TypeOK
  <2>9. heldSince' \in [Rules -> [Subjects -> [Directions -> Nat]]]
    <3> DEFINE h == Reducer(r)!HeldAfter(heldSince[r][s][o.direction], o, logical)
               byDir == [heldSince[r][s] EXCEPT ![o.direction] = h]
               bySubject == [heldSince[r] EXCEPT ![s] = byDir]
    <3>1. heldSince' = [heldSince EXCEPT ![r] = bySubject]
      BY <1>2, <1>3, <2>5 DEF TypeOK
    <3>2. byDir \in [Directions -> Nat]
      <4> HIDE DEF h
      <4>1. h \in Nat
        BY <2>6 DEF h
      <4>2. QED BY <1>2, <1>3, <4>1 DEF TypeOK
    <3> HIDE DEF byDir
    <3>3. bySubject \in [Subjects -> [Directions -> Nat]]
      BY <1>2, <1>3, <3>2 DEF TypeOK
    <3> HIDE DEF bySubject
    <3>4. QED BY <1>2, <3>1, <3>3 DEF TypeOK
  <2>10. episodes' = [q \in Rules |-> episodes'[q]] /\ journal' = [q \in Rules |-> journal'[q]]
    BY <2>5 DEF TypeOK
  <2>11. ASSUME NEW q \in Rules
         PROVE  /\ episodes'[q] \in [Subjects -> Seq(Reducer(q)!Episode)]
                /\ journal'[q] \in Seq(Reducer(q)!Transition)
    <3>1. CASE q # r \/ (episodes' = episodes /\ journal' = journal)
      <4>1. episodes'[q] = episodes[q] /\ journal'[q] = journal[q]
        BY <2>5, <3>1 DEF TypeOK
      <4>2. QED BY <4>1 DEF TypeOK
    <3>2. CASE /\ q = r
               /\ episodes' = [episodes EXCEPT ![r] = [episodes[r] EXCEPT ![s] =
                                 Reducer(r)!EpisodesAfter(episodes[r][s], opened, logical)]]
               /\ journal' = [journal EXCEPT ![r] = Append(journal[r], new)]
      <4>1. episodes'[r] = [episodes[r] EXCEPT ![s] =
                              Reducer(r)!EpisodesAfter(episodes[r][s], opened, logical)]
        BY <1>2, <3>2 DEF TypeOK
      <4>2. episodes'[r] \in [Subjects -> Seq(Reducer(r)!Episode)]
        BY <2>3, <2>4, <4>1
      <4>3. Append(journal[r], new) \in Seq(Reducer(r)!Transition)
        BY <2>2, <2>4, AppendProperties
      <4>4. journal'[r] \in Seq(Reducer(r)!Transition)
        BY <1>2, <3>2, <4>3 DEF TypeOK
      <4>5. QED BY <3>2, <4>2, <4>4
    <3>3. QED BY <2>5, <3>1, <3>2
  <2>12. out' \in Seq(Rules \X Nat)
    <3>1. out \in Seq(Rules \X Nat) /\ <<r, Len(journal[r]) + 1>> \in Rules \X Nat
      BY <1>2, <2>4 DEF TypeOK
    <3>2. Append(out, <<r, Len(journal[r]) + 1>>) \in Seq(Rules \X Nat)
      BY <3>1, AppendProperties
    <3>3. QED BY <2>5, <3>1, <3>2
  <2>13. TypeOK'
    <3>1. \A q \in Rules : Reducer(q)!Episode' = Reducer(q)!Episode
      BY DEF Reducer!Episode
    <3>2. \A q \in Rules : Reducer(q)!Transition' = Reducer(q)!Transition
      BY DEF Reducer!Transition
    <3>3. logical' \in Nat /\ target' \in Nat /\ result' \in Result \cup {NoResult}
      BY <1>1 DEF TypeOK
    <3>4. QED BY <1>5, <2>7, <2>8, <2>9, <2>10, <2>11, <2>12, <3>1, <3>2, <3>3 DEF TypeOK
  <2>14. ClocksAgree'
    BY <1>1, <2>5 DEF ClocksAgree
  <2>15. ASSUME NEW q \in Rules, NEW x \in Subjects, Pending(tracker'[q][x])
         PROVE  DueAt(tracker'[q][x], Durations[q]) > logical
    <3>1. DueOf(q, logical) = {}
      BY <1>1, DueIsDue DEF NothingOverdue
    <3>2. tracker[q][x] \in Tracker /\ DueAt(tracker[q][x], Durations[q]) \in Nat
      BY DueTimeType DEF TypeOK
    <3>3. Pending(tracker[q][x]) => DueAt(tracker[q][x], Durations[q]) > logical
      BY <1>4, <3>1, <3>2 DEF DueOf
    <3>4. tracker'[q][x] = tracker[q][x] \/ (q = r /\ x = s /\ tracker'[q][x] = u)
      BY <1>2, <1>3, <2>4, <2>5 DEF TypeOK
    <3>5. q = r /\ x = s => t = tracker[q][x]
      BY DEF t
    <3>6. QED BY <2>1, <2>15, <3>3, <3>4, <3>5
  <2>16. NothingOverdue'
    <3>1. ASSUME NEW q \in Rules PROVE (Reducer(q)!DueBy(logical))' = {}
      <4>1. (Reducer(q)!DueBy(logical))' =
               {x \in Subjects : Pending(tracker'[q][x]) /\
                                 DueAt(tracker'[q][x], Durations[q]) <= logical'}
        BY DurationType, SameTrackers DEF Reducer!DueBy
      <4>2. \A x \in Subjects : DueAt(tracker'[q][x], Durations[q]) \in Nat
        BY <2>8, DueTimeType
      <4>3. QED BY <1>1, <1>4, <2>15, <4>1, <4>2
    <3>2. QED BY <3>1 DEF NothingOverdue
  <2>17. QED BY <1>5, <2>13, <2>14, <2>16
<1>8. QED BY <1>1, <1>6, <1>7

LEMMA NextApplyInv == ApplyInv /\ [Next]_vars => ApplyInv'
<1> SUFFICES ASSUME ApplyInv, [Next]_vars PROVE ApplyInv'
  OBVIOUS
<1>1. CASE UNCHANGED vars
  <2>1. UNCHANGED <<logical, target, queue, result, clock, tracker, seen, episodes, journal,
                    heldSince, out>>
    BY <1>1 DEF vars, reducers
  <2>2. QED BY <2>1 DEF ApplyInv, TypeOK, OneCallRuns, ClocksAgree, NothingOverdue,
                        Reducer!DueBy, Reducer!Episode, Reducer!Transition
<1>2. CASE \E now \in 1 .. MaxTime : BeginAdvance(now)
  BY <1>2, BeginAdvanceApplyInv
<1>3. CASE FireNext
  BY <1>3, FireNextApplyInv
<1>4. CASE FinishAdvance
  BY <1>4, FinishAdvanceApplyInv
<1>5. CASE \E occurrence \in Occurrences, outcome \in Outcomes : Evaluate(occurrence, outcome)
  BY <1>5, EvaluateApplyInv
<1>6. CASE BeginApply
  BY <1>6, BeginApplyApplyInv
<1>7. CASE ApplyNext
  BY <1>7, ApplyNextApplyInv
<1>8. QED BY <1>1, <1>2, <1>3, <1>4, <1>5, <1>6, <1>7 DEF Next

\* Between two calls no reducer of the runtime holds a timer that is due.
THEOREM NothingIsOverdue == Spec => []NothingOverdue
<1>1. ApplyInv => NothingOverdue
  BY DEF ApplyInv
<1>2. QED BY <1>1, InitApplyInv, NextApplyInv, PTL DEF Spec

-----------------------------------------------------------------------------
(* What has been emitted.                                                  *)

\* Every entry names a transition some reducer journalled.
LEMMA EmittedEntries ==
    ASSUME TypeOK, EmittedInOrder, NEW i \in DOMAIN out
    PROVE  /\ out[i] \in Rules \X Nat /\ out[i][1] \in Rules
           /\ out[i][2] \in 1 .. Len(journal[out[i][1]])
           /\ TimeOf(out[i]) \in Nat
<1>1. out[i] \in Rules \X Nat /\ out[i][1] \in Rules
  BY ElementOfSeq, LenProperties DEF TypeOK
<1>2. PICK q \in Rules : out[i] \in {q} \X DOMAIN journal[q]
  BY DEF EmittedInOrder
<1>3. out[i][1] = q /\ out[i][2] \in DOMAIN journal[q]
  BY <1>2
<1>4. journal[q] \in Seq(Reducer(q)!Transition)
  BY DEF TypeOK
<1>5. DOMAIN journal[q] = 1 .. Len(journal[q])
  BY <1>4, LenProperties
<1>6. journal[q][out[i][2]] \in Reducer(q)!Transition
  BY <1>3, <1>4, <1>5, ElementOfSeq
<1>7. journal[q][out[i][2]].at \in Nat
  BY <1>6 DEF Reducer!Transition
<1>8. QED BY <1>1, <1>3, <1>5, <1>7 DEF TimeOf

\* A reducer journals a transition, dated no earlier than what was emitted.
LEMMA EmitOne ==
    ASSUME TypeOK, TypeOK', EmittedInOrder, NEW r \in Rules, NEW x \in Reducer(r)!Transition,
           journal' = [journal EXCEPT ![r] = Append(journal[r], x)],
           out' = Append(out, <<r, Len(journal[r]) + 1>>),
           \A i \in DOMAIN out : TimeOf(out[i]) <= x.at
    PROVE  /\ EmittedInOrder'
           /\ \A i \in DOMAIN out' : \/ i \in DOMAIN out /\ TimeOf(out[i])' = TimeOf(out[i])
                                     \/ TimeOf(out[i])' = x.at
<1> DEFINE L == Len(out)
           n == Len(journal[r])
           e == <<r, n + 1>>
<1>1. /\ out \in Seq(Rules \X Nat) /\ L \in Nat /\ DOMAIN out = 1 .. L
      /\ journal[r] \in Seq(Reducer(r)!Transition) /\ n \in Nat /\ DOMAIN journal[r] = 1 .. n
  BY LenProperties DEF TypeOK
<1>2. /\ DOMAIN out' = 1 .. L + 1 /\ out'[L + 1] = e
      /\ \A i \in 1 .. L : out'[i] = out[i]
  BY <1>1, AppendProperties, LenProperties
<1>3. /\ DOMAIN journal'[r] = 1 .. n + 1 /\ journal'[r][n + 1] = x
      /\ \A k \in 1 .. n : journal'[r][k] = journal[r][k]
  <2>1. journal'[r] = Append(journal[r], x)
    BY DEF TypeOK
  <2>2. QED BY <1>1, <2>1, AppendProperties, LenProperties
<1>4. \A q \in Rules : q # r => journal'[q] = journal[q]
  BY DEF TypeOK
<1>5. \A i \in 1 .. L : /\ out[i][1] \in Rules /\ out[i][2] \in 1 .. Len(journal[out[i][1]])
                        /\ out[i] \in Rules \X Nat
  BY <1>1, EmittedEntries
<1>6. \A i \in 1 .. L : TimeOf(out[i])' = TimeOf(out[i])
  BY <1>2, <1>3, <1>4, <1>5 DEF TimeOf
<1>7. \A i \in {L + 1} : TimeOf(out[i])' = x.at
  BY <1>2, <1>3 DEF TimeOf
<1>8. \A i \in 1 .. L : out[i] # e
  BY <1>1, <1>5
<1>9. {out'[i] : i \in DOMAIN out'} = UNION {{q} \X DOMAIN journal'[q] : q \in Rules}
  <2>1. {out[i] : i \in DOMAIN out} = UNION {{q} \X DOMAIN journal[q] : q \in Rules}
    BY DEF EmittedInOrder
  <2>2. {out'[i] : i \in DOMAIN out'} = {out[i] : i \in DOMAIN out} \cup {e}
    BY <1>1, <1>2
  <2>3. DOMAIN journal'[r] = DOMAIN journal[r] \cup {n + 1}
    BY <1>1, <1>3
  <2>4. \A q \in Rules : q # r => DOMAIN journal'[q] = DOMAIN journal[q]
    BY <1>4
  <2>5. UNION {{q} \X DOMAIN journal'[q] : q \in Rules}
          = (UNION {{q} \X DOMAIN journal[q] : q \in Rules}) \cup {e}
    <3> DEFINE before == UNION {{q} \X DOMAIN journal[q] : q \in Rules}
               after == UNION {{q} \X DOMAIN journal'[q] : q \in Rules}
    <3>1. \A p : p \in before <=> \E q \in Rules : \E k \in DOMAIN journal[q] : p = <<q, k>>
      OBVIOUS
    <3>2. \A p : p \in after <=> \E q \in Rules : \E k \in DOMAIN journal'[q] : p = <<q, k>>
      OBVIOUS
    <3> HIDE DEF before, after
    <3>3. ASSUME NEW p \in after PROVE p \in before \cup {e}
      <4>1. PICK q \in Rules : \E k \in DOMAIN journal'[q] : p = <<q, k>>
        BY <3>2, <3>3
      <4>2. PICK k \in DOMAIN journal'[q] : p = <<q, k>>
        BY <4>1
      <4>3. QED BY <2>3, <2>4, <3>1, <4>2
    <3>4. ASSUME NEW p \in before \cup {e} PROVE p \in after
      <4>1. CASE p = e
        BY <2>3, <3>2, <4>1
      <4>2. CASE p \in before
        <5>1. PICK q \in Rules : \E k \in DOMAIN journal[q] : p = <<q, k>>
          BY <3>1, <4>2
        <5>2. DOMAIN journal[q] \subseteq DOMAIN journal'[q]
          BY <2>3, <2>4
        <5>3. QED BY <3>2, <5>1, <5>2
      <4>3. QED BY <3>4, <4>1, <4>2
    <3> HIDE DEF e
    <3>5. after \subseteq before \cup {e}
      BY <3>3
    <3>6. before \cup {e} \subseteq after
      BY <3>4
    <3>7. after = before \cup {e}
      BY <3>5, <3>6
    <3>8. QED BY <3>7, Zenon DEF before, after
  <2>6. QED BY <2>1, <2>2, <2>5
<1>10. \A i, j \in DOMAIN out : i < j => out[i] # out[j] /\ TimeOf(out[i]) <= TimeOf(out[j])
  BY DEF EmittedInOrder
<1>11. ASSUME NEW i \in 1 .. L + 1, NEW j \in 1 .. L + 1, i < j
       PROVE  out'[i] # out'[j] /\ TimeOf(out[i])' <= TimeOf(out[j])'
  <2>1. i \in 1 .. L
    BY <1>1, <1>11
  <2>2. CASE j \in 1 .. L
    BY <1>1, <1>2, <1>6, <1>10, <1>11, <2>1, <2>2
  <2>3. CASE j = L + 1
    BY <1>1, <1>2, <1>6, <1>7, <1>8, <2>1, <2>3
  <2>4. QED BY <1>1, <2>2, <2>3
<1>12. EmittedInOrder'
  BY <1>2, <1>9, <1>11 DEF EmittedInOrder
<1>13. QED BY <1>1, <1>2, <1>6, <1>7, <1>12

LEMMA EmitNothing ==
    ASSUME UNCHANGED <<journal, out>>
    PROVE  /\ EmittedInOrder => EmittedInOrder'
           /\ \A i \in DOMAIN out : TimeOf(out[i])' = TimeOf(out[i])
BY DEF EmittedInOrder, TimeOf

\* Whatever is still pending between two calls comes after the present.
LEMMA PendingLater ==
    ASSUME ApplyInv, target = Unset, NEW r \in Rules, NEW s \in Subjects, Pending(tracker[r][s])
    PROVE  logical < DueAt(tracker[r][s], Durations[r])
<1>1. DueOf(r, logical) = {}
  BY DueIsDue DEF ApplyInv, NothingOverdue
<1>2. DueAt(tracker[r][s], Durations[r]) \in Nat /\ logical \in Nat
  BY DueTimeType DEF ApplyInv, TypeOK
<1>3. QED BY <1>1, <1>2 DEF DueOf

LEMMA FireNextEmits ==
    ASSUME RuntimeInv, ApplyInv', FireNext
    PROVE  EmittedInOrder' /\ EmittedInPast'
<1> USE DEF RuntimeInv
<1>1. target # Unset /\ target \in Nat
  BY DEF FireNext, TypeOK
<1>2. PICK r \in Rules, s \in Subjects :
         /\ s \in DueOf(r, target)
         /\ \A q \in Rules : \A u \in DueOf(q, target) :
              <<q, u>> = <<r, s>> \/ LessTimer(<<r, s>>, <<q, u>>)
         /\ Fires(r, s)
  BY FireNextFires
<1> DEFINE t == tracker[r][s]
           due == DueAt(t, Durations[r])
           new == Reducer(r)!TransitionOf(s, t, due, target)
<1>3. t \in Tracker /\ due \in Nat /\ Pending(t) /\ due <= target
  BY <1>2, DueTimeType DEF TypeOK, DueOf
<1>4. new \in Reducer(r)!Transition /\ new.at = due
  BY <1>1, <1>2, <1>3, TransitionType
<1>5. \A i \in DOMAIN out : TimeOf(out[i]) <= due
  <2>1. DueTime(<<r, s>>) = due
    BY DEF DueTime
  <2>2. <<r, s>> \in Rules \X Subjects /\ <<r, s>>[1] = r /\ <<r, s>>[2] = s
    BY <1>2
  <2>3. QED BY <1>1, <1>3, <2>1, <2>2 DEF EmittedInPast
<1>6. /\ tracker' = [tracker EXCEPT ![r] = [tracker[r] EXCEPT ![s] = Committed(t)]]
      /\ journal' = [journal EXCEPT ![r] = Append(journal[r], new)]
      /\ out' = Append(out, <<r, Len(journal[r]) + 1>>)
      /\ UNCHANGED <<logical, target>>
  BY <1>2 DEF Fires
<1>7. /\ EmittedInOrder'
      /\ \A i \in DOMAIN out' : \/ i \in DOMAIN out /\ TimeOf(out[i])' = TimeOf(out[i])
                                \/ TimeOf(out[i])' = due
  <2> HIDE DEF new, due, t
  <2>1. TypeOK /\ TypeOK' /\ EmittedInOrder
    BY DEF ApplyInv
  <2>2. QED BY <1>4, <1>5, <1>6, <2>1, EmitOne
<1>8. \A i \in DOMAIN out' : TimeOf(out[i])' \in Nat /\ TimeOf(out[i])' <= due
  BY <1>3, <1>5, <1>7, EmittedEntries
<1>9. ASSUME NEW q \in Rules, NEW u \in Subjects, Pending(tracker'[q][u])
      PROVE  due <= DueAt(tracker'[q][u], Durations[q])
  <2>1. /\ <<q, u>> # <<r, s>>
        /\ tracker'[q][u] = tracker[q][u]
    <3>1. ~Pending(Committed(t))
      BY <1>3, CommittedType
    <3>2. tracker'[q][u] = IF q = r /\ u = s THEN Committed(t) ELSE tracker[q][u]
      BY <1>2, <1>6 DEF TypeOK
    <3>3. QED BY <1>9, <3>1, <3>2
  <2>2. DueAt(tracker[q][u], Durations[q]) \in Nat
    BY DueTimeType DEF TypeOK
  <2>3. CASE DueAt(tracker[q][u], Durations[q]) > target
    BY <1>1, <1>3, <2>1, <2>2, <2>3
  <2>4. CASE DueAt(tracker[q][u], Durations[q]) <= target
    <3>1. u \in DueOf(q, target)
      BY <1>9, <2>1, <2>4 DEF DueOf
    <3>2. LessTimer(<<r, s>>, <<q, u>>)
      BY <1>2, <2>1, <3>1
    <3>3. QED BY <1>3, <2>1, <2>2, <3>2 DEF LessTimer, DueTime
  <2>5. QED BY <1>1, <2>2, <2>3, <2>4
<1>10. EmittedInPast'
  <2>1. \A timer \in Rules \X Subjects :
           Pending(tracker'[timer[1]][timer[2]]) =>
             /\ due <= DueTime(timer)'
             /\ DueTime(timer)' \in Nat
    <3>1. ASSUME NEW timer \in Rules \X Subjects, Pending(tracker'[timer[1]][timer[2]])
          PROVE  due <= DueTime(timer)' /\ DueTime(timer)' \in Nat
      <4>1. timer[1] \in Rules /\ timer[2] \in Subjects
        OBVIOUS
      <4>2. DueTime(timer)' = DueAt(tracker'[timer[1]][timer[2]], Durations[timer[1]])
        BY DEF DueTime
      <4>3. tracker'[timer[1]][timer[2]] \in Tracker
        BY <4>1 DEF ApplyInv, TypeOK
      <4>4. QED BY <1>9, <3>1, <4>1, <4>2, <4>3, DueTimeType
    <3>2. QED BY <3>1
  <2> HIDE DEF due
  <2>2. \A i \in DOMAIN out' : TimeOf(out[i])' <= target'
    <3>1. target' = target
      BY <1>6
    <3>2. due \in Nat /\ due <= target
      BY <1>3
    <3>3. QED BY <1>1, <1>8, <3>1, <3>2
  <2>3. target' # Unset
    BY <1>1, <1>6
  <2>4. \A i \in DOMAIN out', timer \in Rules \X Subjects :
           Pending(tracker'[timer[1]][timer[2]]) => TimeOf(out[i])' <= DueTime(timer)'
    BY <1>3, <1>8, <2>1
  <2>5. QED BY <2>2, <2>3, <2>4 DEF EmittedInPast
<1>11. QED BY <1>7, <1>10

LEMMA ApplyNextEmits ==
    ASSUME RuntimeInv, ApplyInv', ApplyNext
    PROVE  EmittedInOrder' /\ EmittedInPast'
<1>0. PICK r \in Rules : r = Head(queue).rule
  BY HeadQueued DEF RuntimeInv, ApplyInv
<1> DEFINE id == Head(queue).id
           o == Head(queue).observation
           s == o.subject
           t == tracker[r][s]
           opened == Reducer(r)!OpenedBy(t, o)
           new == Reducer(r)!TransitionOf(s, opened, logical, logical)
<1>1. TypeOK /\ TypeOK' /\ EmittedInOrder /\ EmittedInPast /\ ApplyInv
  BY DEF RuntimeInv, ApplyInv
<1>2. /\ target = Unset /\ UNCHANGED <<logical, target, result>>
      /\ Head(queue) \in Queued
      /\ UNCHANGED <<reducers, out>> \/ Takes(r, id, o)
  BY <1>0, <1>1, ApplyNextTakes
<1>3. r \in Rules /\ o \in Observation /\ s \in Subjects
  BY <1>2 DEF Queued, Observation
<1>4. t \in Tracker /\ logical \in Nat
  BY <1>1, <1>3 DEF TypeOK
<1>5. opened \in Tracker
  BY <1>3, <1>4, StartedType
<1>6. new \in Reducer(r)!Transition /\ new.at = logical
  BY <1>3, <1>4, <1>5, TransitionType
<1>7. \A i \in DOMAIN out : TimeOf(out[i]) <= logical
  BY <1>1, <1>2 DEF EmittedInPast
<1>8. \/ UNCHANGED <<journal, out>>
      \/ /\ journal' = [journal EXCEPT ![r] = Append(journal[r], new)]
         /\ out' = Append(out, <<r, Len(journal[r]) + 1>>)
  BY <1>2 DEF Takes, reducers
<1> HIDE DEF id, o, s, t, opened, new
<1>9. /\ EmittedInOrder'
      /\ \A i \in DOMAIN out' : \/ i \in DOMAIN out /\ TimeOf(out[i])' = TimeOf(out[i])
                                \/ TimeOf(out[i])' = logical
  <2>1. CASE UNCHANGED <<journal, out>>
    BY <1>1, <2>1, EmitNothing
  <2>2. CASE /\ journal' = [journal EXCEPT ![r] = Append(journal[r], new)]
             /\ out' = Append(out, <<r, Len(journal[r]) + 1>>)
    BY <1>1, <1>3, <1>6, <1>7, <2>2, EmitOne
  <2>3. QED BY <1>8, <2>1, <2>2
<1>10. \A i \in DOMAIN out' : TimeOf(out[i])' <= logical
  BY <1>4, <1>7, <1>9
<1>11. EmittedInPast'
  BY <1>2, <1>10 DEF EmittedInPast
<1>12. QED BY <1>9, <1>11

\* The steps that emit nothing: the time up to which everything was emitted only grows.
LEMMA QuietStepsEmit ==
    ASSUME RuntimeInv, ApplyInv', UNCHANGED <<tracker, journal, out>>,
           \/ UNCHANGED <<logical, target>>
           \/ target = Unset /\ target' # Unset /\ UNCHANGED logical
           \/ target # Unset /\ target' = Unset /\ logical' = target
    PROVE  EmittedInOrder' /\ EmittedInPast'
<1>1. /\ TypeOK /\ TypeOK' /\ EmittedInOrder /\ EmittedInPast /\ ApplyInv /\ ClocksAgree'
  BY DEF RuntimeInv, ApplyInv
<1>2. EmittedInOrder' /\ \A i \in DOMAIN out : TimeOf(out[i])' = TimeOf(out[i])
  BY <1>1, EmitNothing
<1>3. \A timer \in Rules \X Subjects : DueTime(timer)' = DueTime(timer)
  BY DEF DueTime
<1>4. \A i \in DOMAIN out : TimeOf(out[i]) \in Nat
  BY <1>1, EmittedEntries
<1>5. logical \in Nat /\ target \in Nat /\ logical' \in Nat /\ target' \in Nat
  BY <1>1 DEF TypeOK
<1>6. CASE UNCHANGED <<logical, target>>
  BY <1>1, <1>2, <1>3, <1>6 DEF EmittedInPast
<1>7. CASE target = Unset /\ target' # Unset /\ UNCHANGED logical
  <2>1. \A i \in DOMAIN out : TimeOf(out[i]) <= logical
    BY <1>1, <1>7 DEF EmittedInPast
  <2>2. \A timer \in Rules \X Subjects :
           Pending(tracker[timer[1]][timer[2]]) =>
              logical <= DueTime(timer) /\ DueTime(timer) \in Nat
    <3>1. ASSUME NEW timer \in Rules \X Subjects, Pending(tracker[timer[1]][timer[2]])
          PROVE  logical <= DueTime(timer) /\ DueTime(timer) \in Nat
      <4>1. timer[1] \in Rules /\ timer[2] \in Subjects
        OBVIOUS
      <4>2. DueTime(timer) = DueAt(tracker[timer[1]][timer[2]], Durations[timer[1]])
        BY DEF DueTime
      <4>3. tracker[timer[1]][timer[2]] \in Tracker
        BY <1>1, <4>1 DEF TypeOK
      <4>4. DueTime(timer) \in Nat
        BY <4>1, <4>2, <4>3, DueTimeType
      <4>5. logical < DueTime(timer)
        BY <1>1, <1>7, <3>1, <4>1, <4>2, PendingLater
      <4>6. QED BY <1>5, <4>4, <4>5
    <3>2. QED BY <3>1
  <2>3. logical <= target'
    BY <1>1, <1>7 DEF ClocksAgree
  <2>4. QED BY <1>2, <1>3, <1>4, <1>5, <1>7, <2>1, <2>2, <2>3 DEF EmittedInPast
<1>8. CASE target # Unset /\ target' = Unset /\ logical' = target
  BY <1>1, <1>2, <1>8 DEF EmittedInPast
<1>9. QED BY <1>6, <1>7, <1>8

LEMMA NextRuntimeInv == RuntimeInv /\ [Next]_vars => RuntimeInv'
<1> SUFFICES ASSUME RuntimeInv, [Next]_vars PROVE RuntimeInv'
  OBVIOUS
<1>1. ApplyInv /\ ApplyInv'
  BY NextApplyInv DEF RuntimeInv, ApplyInv
<1>2. SUFFICES EmittedInOrder' /\ EmittedInPast'
  BY <1>1 DEF RuntimeInv, ApplyInv
<1>3. CASE UNCHANGED vars
  BY <1>1, <1>3, QuietStepsEmit DEF vars, reducers
<1>4. CASE \E now \in 1 .. MaxTime : BeginAdvance(now)
  <2>1. PICK now \in 1 .. MaxTime : BeginAdvance(now)
    BY <1>4
  <2>2. /\ target = Unset /\ target' # Unset
        /\ UNCHANGED <<logical, tracker, journal, out>>
    BY <2>1 DEF BeginAdvance, Idle, reducers
  <2>3. QED BY <1>1, <2>2, QuietStepsEmit
<1>5. CASE FireNext
  BY <1>1, <1>5, FireNextEmits
<1>6. CASE FinishAdvance
  BY <1>1, <1>6, QuietStepsEmit DEF FinishAdvance
<1>7. CASE \E occurrence \in Occurrences, outcome \in Outcomes : Evaluate(occurrence, outcome)
  BY <1>1, <1>7, QuietStepsEmit DEF Evaluate, reducers
<1>8. CASE BeginApply
  BY <1>1, <1>8, QuietStepsEmit DEF BeginApply, reducers
<1>9. CASE ApplyNext
  BY <1>1, <1>9, ApplyNextEmits
<1>10. QED BY <1>3, <1>4, <1>5, <1>6, <1>7, <1>8, <1>9 DEF Next

LEMMA InitRuntimeInv == Init => RuntimeInv
<1> SUFFICES ASSUME Init PROVE RuntimeInv
  OBVIOUS
<1>1. ApplyInv
  BY InitApplyInv
<1>2. out = <<>> /\ \A r \in Rules : journal[r] = <<>>
  BY DEF Init
<1>3. DOMAIN out = {} /\ \A r \in Rules : DOMAIN journal[r] = {}
  BY <1>2
<1>4. EmittedInPast
  BY <1>3 DEF EmittedInPast
<1>5. EmittedInOrder
  <2>1. {out[i] : i \in DOMAIN out} = {}
    BY <1>3
  <2>2. \A r \in Rules : {r} \X DOMAIN journal[r] = {}
    BY <1>3
  <2>3. (UNION {{r} \X DOMAIN journal[r] : r \in Rules}) = {}
    BY <2>2
  <2>4. QED BY <1>3, <2>1, <2>3 DEF EmittedInOrder
<1>6. QED BY <1>1, <1>4, <1>5 DEF RuntimeInv, ApplyInv

\* The runtime keeps the shape of its state, in every reducer.
THEOREM TypeCorrect == Spec => []TypeOK
<1>1. RuntimeInv => TypeOK
  BY DEF RuntimeInv
<1>2. QED BY <1>1, InitRuntimeInv, NextRuntimeInv, PTL DEF Spec

\* All that the reducers journal leaves the runtime, once each and in the order of time.
THEOREM TransitionsLeaveInOrder == Spec => []EmittedInOrder
<1>1. RuntimeInv => EmittedInOrder
  BY DEF RuntimeInv
<1>2. QED BY <1>1, InitRuntimeInv, NextRuntimeInv, PTL DEF Spec

-----------------------------------------------------------------------------
(* The runtime implements Conditions, reducer by reducer.                  *)

LEMMA ReducerUntouched ==
    ASSUME NEW r \in Rules, UNCHANGED reducers
    PROVE  UNCHANGED Reducer(r)!vars
BY DEF reducers, Reducer!vars

\* The timer that fires is one its reducer accepts.
LEMMA FireIsFire ==
    ASSUME ApplyInv, target # Unset, NEW r \in Rules, NEW s \in DueOf(r, target), Fires(r, s)
    PROVE  Reducer(r)!Fire(Reducer(r)!TimerOf(s), target)
<1> DEFINE t == tracker[r][s]
           due == DueAt(t, Durations[r])
           timer == Reducer(r)!TimerOf(s)
<1>1. s \in Subjects /\ Pending(t) /\ due <= target
  BY DEF DueOf
<1>2. TypeOK /\ target \in Nat /\ t \in Tracker /\ due \in Nat
  BY <1>1, DueTimeType DEF ApplyInv, TypeOK
<1>3. Reducer(r)!DueAt(t, Reducer(r)!Duration) = due
  <2>1. Reducer(r)!Duration = Durations[r]
    BY DurationType
  <2>2. \A d : Reducer(r)!DueAt(t, d) = DueAt(t, d)
    BY SameTrackers
  <2>3. QED BY <2>1, <2>2
<1>4. /\ timer.subject = s /\ timer.dueAt = due /\ timer.attempt = t.attempt
      /\ timer.direction = DirectionFor(t.phase)
  BY <1>3 DEF Reducer!TimerOf, Reducer!DirectionFor, DirectionFor
<1>5. Reducer(r)!Later(target, clock[r]) = target
  <2>1. clock[r] \in Nat /\ clock[r] <= target
    BY <1>2 DEF ApplyInv, ClocksAgree, TypeOK
  <2>2. QED BY <1>2, <2>1 DEF Reducer!Later
<1>6. t.phase = Reducer(r)!PhaseFor(DirectionFor(t.phase))
  BY <1>1 DEF Pending, DirectionFor, Reducer!PhaseFor
<1>7. /\ clock' = [clock EXCEPT ![r] = target]
      /\ tracker' = [tracker EXCEPT ![r] = [tracker[r] EXCEPT ![s] = Committed(t)]]
      /\ episodes' = [episodes EXCEPT ![r] =
                        [episodes[r] EXCEPT ![s] = Reducer(r)!EpisodesAfter(@, t, due)]]
      /\ journal' = [journal EXCEPT ![r] =
                       Append(journal[r], Reducer(r)!TransitionOf(s, t, due, target))]
      /\ UNCHANGED <<seen, heldSince>>
  BY DEF Fires
<1> HIDE DEF due, timer
<1>8. Reducer(r)!Accepted(timer, target)
  BY <1>1, <1>3, <1>4, <1>6 DEF Reducer!Accepted
<1>9. /\ clock'[r] = target
      /\ tracker'[r] = [tracker[r] EXCEPT ![s] = Committed(t)]
      /\ episodes'[r] = [episodes[r] EXCEPT ![s] = Reducer(r)!EpisodesAfter(@, t, due)]
      /\ journal'[r] = Append(journal[r], Reducer(r)!TransitionOf(s, t, due, target))
      /\ seen'[r] = seen[r] /\ heldSince'[r] = heldSince[r]
  BY <1>2, <1>7 DEF TypeOK
<1>10. target # Reducer(r)!Unset
  BY SameTrackers
<1>11. Reducer(r)!Committed(t) = Committed(t)
  BY SameTrackers
<1>12. tracker'[r] = [tracker[r] EXCEPT ![timer.subject] = Reducer(r)!Committed(@)]
  BY <1>4, <1>9, <1>11
<1>13. episodes'[r] = [episodes[r] EXCEPT ![timer.subject] =
                         Reducer(r)!EpisodesAfter(@, tracker[r][timer.subject], timer.dueAt)]
  BY <1>4, <1>9
<1>14. journal'[r] = Append(journal[r], Reducer(r)!TransitionOf(timer.subject,
                              tracker[r][timer.subject], timer.dueAt, target))
  BY <1>4, <1>9
<1>15. Reducer(r)!Fire(timer, target)
  BY <1>5, <1>8, <1>9, <1>10, <1>12, <1>13, <1>14, Zenon DEF Reducer!Fire
<1>16. QED BY <1>15 DEF timer

\* The observation that is taken is applied by its reducer.
LEMMA ApplyIsApply ==
    ASSUME ApplyInv, NEW r \in Rules, NEW o \in Observation, NEW id,
           o.processingAt = logical, logical # Unset, target = Unset,
           id \notin seen[r], Takes(r, id, o)
    PROVE  Reducer(r)!Apply(o, id)
<1> DEFINE s == o.subject
           t == tracker[r][s]
           opened == Reducer(r)!OpenedBy(t, o)
           commit == Reducer(r)!CommitAt(opened, logical)
           atOnce == Reducer(r)!CommitsAtOnce(t, o, logical)
<1>1. TypeOK /\ clock[r] = logical /\ logical \in Nat /\ s \in Subjects
  BY DEF ApplyInv, ClocksAgree, TypeOK, Observation
<1>2. /\ Reducer(r)!Processing(o) = logical
      /\ Reducer(r)!Processing(o) # Reducer(r)!Unset
  BY <1>1, SameTrackers DEF Reducer!Processing
<1>3. Reducer(r)!Later(Reducer(r)!Processing(o), clock[r]) = logical
  BY <1>1, <1>2 DEF Reducer!Later
<1>4. /\ Reducer(r)!DrainedTracker(logical) = tracker[r]
      /\ Reducer(r)!DrainedEpisodes(logical) = episodes[r]
      /\ journal[r] \o Reducer(r)!Drained(logical) = journal[r]
  <2>1. DueOf(r, logical) = {}
    BY DueIsDue DEF ApplyInv, NothingOverdue
  <2>2. QED BY <1>1, <2>1, NothingToDrain
<1>5. atOnce => commit = logical
  <2>1. t \in Tracker
    BY <1>1 DEF TypeOK
  <2>2. DueAt(opened, Durations[r]) \in Nat
    BY <2>1, StartedType
  <2>3. Reducer(r)!DueAt(opened, Reducer(r)!Duration) = DueAt(opened, Durations[r])
    <3>1. Reducer(r)!Duration = Durations[r]
      BY DurationType
    <3>2. \A d : Reducer(r)!DueAt(opened, d) = DueAt(opened, d)
      BY SameTrackers
    <3>3. QED BY <3>1, <3>2
  <2>4. atOnce => DueAt(opened, Durations[r]) <= logical
    BY <2>3 DEF Reducer!CommitsAtOnce, Reducer!QualifiesAtOnce
  <2> HIDE DEF opened
  <2>5. QED BY <1>1, <2>2, <2>3, <2>4 DEF Reducer!CommitAt, Reducer!Later
<1>6. /\ seen' = [seen EXCEPT ![r] = @ \cup {id}]
      /\ clock' = clock
      /\ tracker' = [tracker EXCEPT ![r] =
                       [tracker[r] EXCEPT ![s] = Reducer(r)!Observed(t, o, logical)]]
      /\ heldSince' = [heldSince EXCEPT ![r][s][o.direction] =
                         Reducer(r)!HeldAfter(@, o, logical)]
      /\ IF atOnce
           THEN /\ episodes' = [episodes EXCEPT ![r] =
                     [episodes[r] EXCEPT ![s] = Reducer(r)!EpisodesAfter(@, opened, logical)]]
                /\ journal' = [journal EXCEPT ![r] =
                     Append(journal[r], Reducer(r)!TransitionOf(s, opened, logical, logical))]
           ELSE episodes' = episodes /\ journal' = journal
  BY DEF Takes
<1>7. /\ seen'[r] = Reducer(r)!SeenAfter(o, id)
      /\ clock'[r] = logical
      /\ tracker'[r] = [tracker[r] EXCEPT ![s] = Reducer(r)!Observed(t, o, logical)]
      /\ heldSince'[r] = [heldSince[r] EXCEPT ![s][o.direction] =
                            Reducer(r)!HeldAfter(@, o, logical)]
  BY <1>1, <1>6 DEF TypeOK, Reducer!SeenAfter
<1>8. episodes'[r] = IF atOnce
                       THEN [episodes[r] EXCEPT ![s] = Reducer(r)!EpisodesAfter(@, opened, commit)]
                       ELSE episodes[r]
  BY <1>1, <1>5, <1>6 DEF TypeOK
<1>9. journal'[r] = IF atOnce
                      THEN Append(journal[r], Reducer(r)!TransitionOf(s, opened, commit, logical))
                      ELSE journal[r]
  BY <1>1, <1>5, <1>6 DEF TypeOK
<1>10. QED BY <1>2, <1>3, <1>4, <1>7, <1>8, <1>9 DEF Reducer!Apply

\* The runtime's last step of an Advance is an Advance of every reducer.
LEMMA FinishIsAdvance ==
    ASSUME ApplyInv, FinishAdvance, NEW r \in Rules
    PROVE  Reducer(r)!Advance(target)
<1>1. TypeOK /\ target \in Nat /\ target # Unset
  BY DEF ApplyInv, TypeOK, FinishAdvance
<1>2. DueOf(r, target) = {}
  BY FinishAdvanceApplyInv
<1>3. clock[r] \in Nat /\ clock[r] <= target
  BY <1>1 DEF ApplyInv, ClocksAgree, TypeOK
<1>4. Reducer(r)!Later(target, clock[r]) = target
  BY <1>1, <1>3 DEF Reducer!Later
<1>5. /\ Reducer(r)!DrainedTracker(target) = tracker[r]
      /\ Reducer(r)!DrainedEpisodes(target) = episodes[r]
      /\ journal[r] \o Reducer(r)!Drained(target) = journal[r]
  BY <1>1, <1>2, NothingToDrain
<1>6. target # Reducer(r)!Unset
  BY <1>1, SameTrackers
<1>7. /\ clock'[r] = target
      /\ UNCHANGED <<tracker, seen, episodes, journal, heldSince>>
  BY DEF FinishAdvance
<1>8. QED BY <1>4, <1>5, <1>6, <1>7 DEF Reducer!Advance

LEMMA StepsFollow ==
    ASSUME RuntimeInv, [Next]_vars, NEW r \in Rules
    PROVE  ReducerStep(r) \/ UNCHANGED Reducer(r)!vars
<1>1. ApplyInv
  BY DEF RuntimeInv, ApplyInv
<1>2. CASE UNCHANGED vars
  BY <1>2, ReducerUntouched DEF vars
<1>3. CASE \E now \in 1 .. MaxTime : BeginAdvance(now)
  BY <1>3, ReducerUntouched DEF BeginAdvance
<1>4. CASE FireNext
  <2>1. TypeOK /\ target # Unset
    BY <1>1, <1>4 DEF FireNext, ApplyInv
  <2>2. PICK q \in Rules, s \in Subjects : s \in DueOf(q, target) /\ Fires(q, s)
    BY <1>4, <2>1, FireNextFires
  <2>3. CASE q = r
    BY <1>1, <2>1, <2>2, <2>3, FireIsFire DEF ReducerStep
  <2>4. CASE q # r
    <3>1. /\ clock'[r] = clock[r] /\ tracker'[r] = tracker[r] /\ seen'[r] = seen[r]
          /\ episodes'[r] = episodes[r] /\ journal'[r] = journal[r]
          /\ heldSince'[r] = heldSince[r]
      BY <2>1, <2>2, <2>4 DEF Fires, TypeOK
    <3>2. QED BY <3>1 DEF Reducer!vars
  <2>5. QED BY <2>3, <2>4
<1>5. CASE FinishAdvance
  BY <1>1, <1>5, FinishIsAdvance DEF FinishAdvance, ReducerStep
<1>6. CASE \E occurrence \in Occurrences, outcome \in Outcomes : Evaluate(occurrence, outcome)
  BY <1>6, ReducerUntouched DEF Evaluate
<1>7. CASE BeginApply
  BY <1>7, ReducerUntouched DEF BeginApply
<1>8. CASE ApplyNext
  <2>0. PICK q \in Rules : q = Head(queue).rule
    BY <1>1, <1>8, HeadQueued
  <2> DEFINE id == Head(queue).id
             o == Head(queue).observation
  <2>1. /\ target = Unset /\ queue # <<>> /\ Head(queue) \in Queued
        /\ o.processingAt = logical /\ logical # Unset
        /\ UNCHANGED <<reducers, out>> \/ (id \notin seen[q] /\ Takes(q, id, o))
    BY <2>0, <1>1, <1>8, ApplyNextTakes
  <2>2. q \in Rules /\ o \in Observation /\ o.subject \in Subjects
    BY <2>1 DEF Queued, Observation
  <2>3. CASE UNCHANGED reducers
    BY <2>3, ReducerUntouched
  <2>4. CASE id \notin seen[q] /\ Takes(q, id, o) /\ q = r
    <3>1. Reducer(r)!Apply(o, id)
      BY <1>1, <2>1, <2>2, <2>4, ApplyIsApply
    <3>2. QED BY <2>1, <3>1 DEF ReducerStep
  <2>5. CASE Takes(q, id, o) /\ q # r
    <3> HIDE DEF id, o
    <3>1. /\ clock'[r] = clock[r] /\ tracker'[r] = tracker[r] /\ seen'[r] = seen[r]
          /\ heldSince'[r] = heldSince[r]
      BY <1>1, <2>2, <2>5 DEF Takes, ApplyInv, TypeOK
    <3>2. episodes'[r] = episodes[r] /\ journal'[r] = journal[r]
      BY <1>1, <2>2, <2>5 DEF Takes, ApplyInv, TypeOK
    <3>3. QED BY <3>1, <3>2 DEF Reducer!vars
  <2>6. QED BY <2>1, <2>3, <2>4, <2>5
<1>9. QED BY <1>2, <1>3, <1>4, <1>5, <1>6, <1>7, <1>8 DEF Next

\* Every step of the runtime is, for every rule, a step of its reducer's specification.
THEOREM ReducersAreUsedAsDescribed == Spec => ReducersFollowConditions
<1>1. RuntimeInv /\ [Next]_vars
        => [\A r \in Rules : ReducerStep(r) \/ UNCHANGED Reducer(r)!vars]_vars
  BY StepsFollow
<1>2. QED BY <1>1, InitRuntimeInv, NextRuntimeInv, PTL DEF Spec, ReducersFollowConditions

-----------------------------------------------------------------------------
(* What a reducer would drain to does not depend on who fires first.       *)

\* What draining the timers of the list q journals.
Journalled(r, q, n, trk, now) ==
    [i \in 1 .. n |-> Reducer(r)!TransitionOf(q[i], trk[q[i]], DueAt(trk[q[i]], Durations[r]), now)]

\* A list satisfying Before is the one EarlierIn gives, for the trackers as they are ...
LEMMA DrainedLists ==
    ASSUME TypeOK, NEW r \in Rules, NEW CONSTANT now \in Nat
    PROVE  LET S == DueOf(r, now) IN
           \E q : /\ Lists(q, Cardinality(S), S, EarlierIn(tracker[r], Durations[r]))
                  /\ Reducer(r)!Drained(now) = Journalled(r, q, Cardinality(S), tracker[r], now)
<1> DEFINE S == DueOf(r, now)
           n == Cardinality(S)
           R == EarlierIn(tracker[r], Durations[r])
           q == Reducer(r)!InTimerOrder(DueOf(r, now))
           B == {p \in S \X S : Reducer(r)!Before(p[1], p[2])}
<1>1. S \in SUBSET Subjects /\ tracker[r] \in [Subjects -> Tracker]
  BY DEF DueOf, TypeOK
<1>2. IsFiniteSet(S) /\ Linear(R, S)
  BY <1>1, TimersAreOrdered
<1>3. PICK p : Lists(p, n, S, R)
  BY <1>2, OrderExists
<1>4. Reducer(r)!Cardinality(S) = n
  BY DEF Reducer!Cardinality, Cardinality, Reducer!IsFiniteSet, IsFiniteSet
<1>5. /\ Reducer(r)!Duration = Durations[r]
      /\ \A t, d : Reducer(r)!DueAt(t, d) = DueAt(t, d)
  BY DurationType, SameTrackers
<1>6. \A a, b \in S : <<a, b>> \in B <=> <<a, b>> \in R
  <2>1. \A a, b \in Subjects : Reducer(r)!Before(a, b) <=> Earlier(tracker[r], Durations[r], a, b)
    BY <1>5 DEF Reducer!Before, Earlier
  <2>2. \A a, b \in Subjects : <<a, b>> \in R <=> Earlier(tracker[r], Durations[r], a, b)
    BY DEF EarlierIn
  <2> HIDE DEF S, R
  <2>3. \A a, b \in S : <<a, b>> \in B <=> Reducer(r)!Before(a, b)
    OBVIOUS
  <2> HIDE DEF B
  <2>4. QED BY <1>1, <2>1, <2>2, <2>3
<1>7. q = CHOOSE c \in [1 .. n -> S] : \A i, j \in 1 .. n : i < j => <<c[i], c[j]>> \in B
  BY <1>4 DEF Reducer!InTimerOrder, Reducer!SortedBy
<1> HIDE DEF S, n, R, q, B
<1>8. p \in [1 .. n -> S] /\ \A i, j \in 1 .. n : i < j => <<p[i], p[j]>> \in B
  BY <1>3, <1>6 DEF Lists, Sorting!Lists
<1>9. q \in [1 .. n -> S] /\ \A i, j \in 1 .. n : i < j => <<q[i], q[j]>> \in B
  BY <1>7, <1>8
<1>10. Lists(q, n, S, R)
  BY <1>6, <1>9 DEF Lists, Sorting!Lists
<1>11. Reducer(r)!Drained(now) = Journalled(r, q, n, tracker[r], now)
  <2>1. Reducer(r)!DueBy(now) = S
    BY DueIsDue DEF S
  <2>2. QED BY <1>4, <1>5, <2>1 DEF Reducer!Drained, Journalled, q, S
<1>12. QED BY <1>10, <1>11 DEF S, n, R

\* ... and as a step leaves them.
LEMMA DrainedListsAfter ==
    ASSUME TypeOK', NEW r \in Rules, NEW CONSTANT now \in Nat
    PROVE  LET S == DueOf(r, now)' IN
           \E q : /\ Lists(q, Cardinality(S), S, EarlierIn(tracker'[r], Durations[r]))
                  /\ Reducer(r)!Drained(now)' = Journalled(r, q, Cardinality(S), tracker'[r], now)
<1> DEFINE S == DueOf(r, now)'
           n == Cardinality(S)
           R == EarlierIn(tracker'[r], Durations[r])
           q == Reducer(r)!InTimerOrder(DueOf(r, now))'
           B == {p \in S \X S : Reducer(r)!Before(p[1], p[2])'}
<1>1. S \in SUBSET Subjects /\ tracker'[r] \in [Subjects -> Tracker]
  BY DEF DueOf, TypeOK
<1>2. IsFiniteSet(S) /\ Linear(R, S)
  BY <1>1, TimersAreOrdered
<1>3. PICK p : Lists(p, n, S, R)
  BY <1>2, OrderExists
<1>4. Reducer(r)!Cardinality(S) = n
  BY DEF Reducer!Cardinality, Cardinality, Reducer!IsFiniteSet, IsFiniteSet
<1>5. /\ Reducer(r)!Duration = Durations[r]
      /\ \A t, d : Reducer(r)!DueAt(t, d) = DueAt(t, d)
  BY DurationType, SameTrackers
<1>6. \A a, b \in S : <<a, b>> \in B <=> <<a, b>> \in R
  <2>1. \A a, b \in Subjects : Reducer(r)!Before(a, b)' <=> Earlier(tracker'[r], Durations[r], a, b)
    BY <1>5 DEF Reducer!Before, Earlier
  <2>2. \A a, b \in Subjects : <<a, b>> \in R <=> Earlier(tracker'[r], Durations[r], a, b)
    BY DEF EarlierIn
  <2> HIDE DEF S, R
  <2>3. \A a, b \in S : <<a, b>> \in B <=> Reducer(r)!Before(a, b)'
    OBVIOUS
  <2> HIDE DEF B
  <2>4. QED BY <1>1, <2>1, <2>2, <2>3
<1>7. q = CHOOSE c \in [1 .. n -> S] : \A i, j \in 1 .. n : i < j => <<c[i], c[j]>> \in B
  BY <1>4 DEF Reducer!InTimerOrder, Reducer!SortedBy
<1> HIDE DEF S, n, R, q, B
<1>8. p \in [1 .. n -> S] /\ \A i, j \in 1 .. n : i < j => <<p[i], p[j]>> \in B
  BY <1>3, <1>6 DEF Lists, Sorting!Lists
<1>9. q \in [1 .. n -> S] /\ \A i, j \in 1 .. n : i < j => <<q[i], q[j]>> \in B
  BY <1>7, <1>8
<1>10. Lists(q, n, S, R)
  BY <1>6, <1>9 DEF Lists, Sorting!Lists
<1>11. Reducer(r)!Drained(now)' = Journalled(r, q, n, tracker'[r], now)
  <2>1. Reducer(r)!DueBy(now)' = S
    BY DueIsDueAfter DEF S
  <2>2. QED BY <1>4, <1>5, <2>1 DEF Reducer!Drained, Journalled, q, S
<1>12. QED BY <1>10, <1>11 DEF S, n, R

LEMMA FirstMovesOver ==
    ASSUME NEW T, NEW before \in Seq(T), NEW first \in T, NEW full \in Seq(T), NEW rest \in Seq(T),
           Len(full) = Len(rest) + 1, full[1] = first, \A i \in 1 .. Len(rest) : rest[i] = full[i + 1]
    PROVE  before \o full = Append(before, first) \o rest
<1>1. Len(before) \in Nat /\ Len(rest) \in Nat
  BY LenProperties
<1>2. PICK after \in Seq(T) : after = Append(before, first)
  BY AppendProperties
<1>3. Len(after) = Len(before) + 1 /\ after[Len(before) + 1] = first /\ \A i \in 1 .. Len(before) : after[i] = before[i]
  BY <1>2, AppendProperties
<1>4. /\ before \o full \in Seq(T) /\ Len(before \o full) = Len(before) + Len(full)
      /\ \A i \in 1 .. Len(before) + Len(full) :
           (before \o full)[i] = IF i <= Len(before) THEN before[i] ELSE full[i - Len(before)]
  BY ConcatProperties
<1>5. /\ after \o rest \in Seq(T) /\ Len(after \o rest) = Len(after) + Len(rest)
      /\ \A i \in 1 .. Len(after) + Len(rest) :
           (after \o rest)[i] = IF i <= Len(after) THEN after[i] ELSE rest[i - Len(after)]
  BY ConcatProperties
<1>6. Len(before \o full) = Len(after \o rest)
  BY <1>1, <1>3, <1>4, <1>5
<1>7. ASSUME NEW i \in 1 .. Len(before \o full) PROVE (before \o full)[i] = (after \o rest)[i]
  <2>1. i \in 1 .. Len(before) + Len(full) /\ i \in 1 .. Len(after) + Len(rest) /\ i \in Nat
    BY <1>1, <1>3, <1>4
  <2>2. (before \o full)[i] = IF i <= Len(before) THEN before[i] ELSE full[i - Len(before)]
    BY <1>4, <2>1
  <2>3. (after \o rest)[i] = IF i <= Len(before) + 1 THEN after[i] ELSE rest[i - (Len(before) + 1)]
    BY <1>3, <1>5, <2>1
  <2>4. CASE i <= Len(before)
    <3>1. i \in 1 .. Len(before) /\ i <= Len(before) + 1
      BY <1>1, <2>1, <2>4
    <3>2. QED BY <1>3, <2>2, <2>3, <2>4, <3>1
  <2>5. CASE i = Len(before) + 1
    <3>1. i - Len(before) = 1 /\ ~(i <= Len(before)) /\ i <= Len(before) + 1
      BY <1>1, <2>5
    <3>2. QED BY <1>3, <2>2, <2>3, <2>5, <3>1
  <2>6. CASE i > Len(before) + 1
    <3>1. /\ i - (Len(before) + 1) \in 1 .. Len(rest) /\ (i - (Len(before) + 1)) + 1 = i - Len(before)
          /\ ~(i <= Len(before)) /\ ~(i <= Len(before) + 1)
      BY <1>1, <2>1, <2>6
    <3>2. QED BY <2>2, <2>3, <3>1
  <2>7. QED BY <1>1, <2>1, <2>4, <2>5, <2>6
<1>8. before \o full = after \o rest
  BY <1>4, <1>5, <1>6, <1>7, SeqEqual
<1>9. QED BY <1>2, <1>8

LEMMA TransitionMovesOver ==
    ASSUME NEW r \in Rules
    PROVE  \A before, full, rest \in Seq(Reducer(r)!Transition) :
             \A first \in Reducer(r)!Transition :
               /\ Len(full) = Len(rest) + 1 /\ full[1] = first
               /\ \A i \in 1 .. Len(rest) : rest[i] = full[i + 1]
               => before \o full = Append(before, first) \o rest
<1> TAKE before, full, rest \in Seq(Reducer(r)!Transition)
<1> TAKE first \in Reducer(r)!Transition
<1> HAVE /\ Len(full) = Len(rest) + 1 /\ full[1] = first
         /\ \A i \in 1 .. Len(rest) : rest[i] = full[i + 1]
<1>1. QED BY FirstMovesOver, Zenon

\* When the first of r's due timers fires, the others are what is still to be drained.
LEMMA FiringShiftsDrain ==
    ASSUME TypeOK, TypeOK', NEW r \in Rules, NEW CONSTANT now \in Nat, NEW s \in DueOf(r, now),
           \A u \in DueOf(r, now) : u = s \/ Earlier(tracker[r], Durations[r], s, u),
           tracker'[r] = [tracker[r] EXCEPT ![s] = Committed(tracker[r][s])],
           NEW CONSTANT x,
           x = Reducer(r)!TransitionOf(s, tracker[r][s], DueAt(tracker[r][s], Durations[r]), now),
           journal'[r] = Append(journal[r], x)
    PROVE  /\ DueOf(r, now)' = DueOf(r, now) \ {s}
           /\ journal[r] \o Reducer(r)!Drained(now) = journal'[r] \o Reducer(r)!Drained(now)'
<1> DEFINE D == DueOf(r, now)
           n == Cardinality(D)
           R == EarlierIn(tracker[r], Durations[r])
           E == DueOf(r, now)'
           RE == EarlierIn(tracker'[r], Durations[r])
<1>1. D \in SUBSET Subjects /\ s \in Subjects /\ tracker[r] \in [Subjects -> Tracker]
  BY DEF DueOf, TypeOK
<1>2. ~Pending(Committed(tracker[r][s]))
  BY <1>1, CommittedType
<1>3. tracker'[r][s] = Committed(tracker[r][s])
      /\ \A u \in Subjects : u # s => tracker'[r][u] = tracker[r][u]
  BY <1>1
<1>4. E = D \ {s}
  BY <1>1, <1>2, <1>3 DEF DueOf
<1>5. IsFiniteSet(D) /\ Linear(R, D)
  BY <1>1, TimersAreOrdered
<1>6. n \in Nat /\ n > 0 /\ Cardinality(E) = n - 1
  <2>1. n \in Nat /\ n # 0
    BY <1>5, FS_CardinalityType, FS_EmptySet
  <2>2. Cardinality(D \ {s}) = n - 1
    BY <1>5, FS_RemoveElement
  <2> HIDE DEF n
  <2>3. QED BY <1>4, <2>1, <2>2
<1>7. PICK q : Lists(q, n, D, R) /\ Reducer(r)!Drained(now) = Journalled(r, q, n, tracker[r], now)
  BY DrainedLists
<1>8. PICK p : /\ Lists(p, n - 1, E, RE)
               /\ Reducer(r)!Drained(now)' = Journalled(r, p, n - 1, tracker'[r], now)
  BY <1>6, DrainedListsAfter
<1> DEFINE c == [i \in 1 .. n |-> IF i = 1 THEN s ELSE p[i - 1]]
<1>9. p \in [1 .. n - 1 -> D \ {s}] /\ \A i, j \in 1 .. n - 1 : i < j => <<p[i], p[j]>> \in RE
  BY <1>4, <1>8 DEF Lists, Sorting!Lists
<1>10. \A a, b \in D \ {s} : <<a, b>> \in RE => <<a, b>> \in R
  BY <1>1, <1>3 DEF EarlierIn, Earlier
<1>11. \A u \in D \ {s} : <<s, u>> \in R
  BY <1>1 DEF EarlierIn
<1> HIDE DEF D, n, R, E, RE
<1>12. c \in [1 .. n -> D]
  <2>1. ASSUME NEW i \in 1 .. n PROVE (IF i = 1 THEN s ELSE p[i - 1]) \in D
    <3>1. s \in D
      BY DEF D
    <3>2. i # 1 => i - 1 \in 1 .. n - 1
      BY <1>6
    <3>3. QED BY <1>9, <3>1, <3>2
  <2>2. QED BY <2>1
<1>13. ASSUME NEW i \in 1 .. n, NEW j \in 1 .. n, i < j PROVE <<c[i], c[j]>> \in R
  <2>1. j - 1 \in 1 .. n - 1 /\ c[j] = p[j - 1] /\ p[j - 1] \in D \ {s}
    BY <1>6, <1>9, <1>13
  <2>2. CASE i = 1
    BY <1>11, <2>1, <2>2
  <2>3. CASE i # 1
    <3>1. i - 1 \in 1 .. n - 1 /\ i - 1 < j - 1 /\ c[i] = p[i - 1] /\ p[i - 1] \in D \ {s}
      BY <1>6, <1>9, <1>13, <2>3
    <3>2. QED BY <1>9, <1>10, <2>1, <3>1
  <2>4. QED BY <2>2, <2>3
<1>14. c = q
  <2>1. Lists(c, n, D, R)
    BY <1>12, <1>13 DEF Lists, Sorting!Lists
  <2> HIDE DEF c
  <2>2. QED BY <1>5, <1>7, <2>1, OrderIsUnique DEF n
<1>15. \A i \in 1 .. n - 1 : q[i + 1] = p[i] /\ p[i] \in Subjects /\ p[i] # s
  BY <1>1, <1>6, <1>9, <1>14 DEF D
<1>16. q[1] = s
  BY <1>6, <1>14
<1> DEFINE d == Reducer(r)!Drained(now)
           e == Reducer(r)!Drained(now)'
<1>17. d[1] = x /\ DOMAIN d = 1 .. n
  BY <1>6, <1>7, <1>16 DEF Journalled
<1>18. DOMAIN e = 1 .. n - 1 /\ \A i \in 1 .. n - 1 : e[i] = d[i + 1]
  <2>1. ASSUME NEW i \in 1 .. n - 1 PROVE e[i] = d[i + 1]
    <3>1. i + 1 \in 1 .. n
      BY <1>6
    <3>2. /\ e[i] = Reducer(r)!TransitionOf(p[i], tracker'[r][p[i]],
                                            DueAt(tracker'[r][p[i]], Durations[r]), now)
          /\ d[i + 1] = Reducer(r)!TransitionOf(q[i + 1], tracker[r][q[i + 1]],
                                                DueAt(tracker[r][q[i + 1]], Durations[r]), now)
      BY <1>7, <1>8, <3>1 DEF Journalled
    <3>3. q[i + 1] = p[i] /\ tracker'[r][p[i]] = tracker[r][p[i]]
      BY <1>3, <1>15
    <3>4. QED BY <3>2, <3>3
  <2>2. QED BY <1>8, <2>1 DEF Journalled
<1>19. d \in Seq(Reducer(r)!Transition) /\ e \in Seq(Reducer(r)!Transition) /\ Len(d) = n
       /\ Len(e) = n - 1 /\ x \in Reducer(r)!Transition
  <2>1. ASSUME NEW i \in 1 .. n PROVE d[i] \in Reducer(r)!Transition
    <3>1. q[i] \in Subjects
      BY <1>1, <1>7 DEF Lists, Sorting!Lists, D
    <3>2. tracker[r][q[i]] \in Tracker
      BY <1>1, <3>1
    <3>3. DueAt(tracker[r][q[i]], Durations[r]) \in Nat
      BY <3>2, DueTimeType
    <3>4. d[i] = Reducer(r)!TransitionOf(q[i], tracker[r][q[i]],
                                         DueAt(tracker[r][q[i]], Durations[r]), now)
      BY <1>7 DEF Journalled
    <3>5. QED BY <3>1, <3>2, <3>3, <3>4, TransitionType
  <2>2. d = [i \in 1 .. n |-> d[i]] /\ e = [i \in 1 .. n - 1 |-> e[i]]
    BY <1>7, <1>8 DEF Journalled
  <2> HIDE DEF d, e
  <2>3. d \in [1 .. n -> Reducer(r)!Transition]
    BY <2>1, <2>2
  <2>4. e \in [1 .. n - 1 -> Reducer(r)!Transition]
    <3>1. \A i \in 1 .. n - 1 : e[i] \in Reducer(r)!Transition
      BY <1>6, <1>18, <2>1
    <3>2. QED BY <2>2, <3>1
  <2>5. n - 1 \in Nat
    BY <1>6
  <2>6. QED BY <1>6, <1>17, <2>1, <2>3, <2>4, <2>5, FunctionIsSeq
<1>20. journal[r] \o d = Append(journal[r], x) \o e
  <2>1. journal[r] \in Seq(Reducer(r)!Transition)
    BY DEF TypeOK
  <2> HIDE DEF d, e
  <2>2. Len(d) = Len(e) + 1 /\ d[1] = x /\ \A i \in 1 .. Len(e) : e[i] = d[i + 1]
    BY <1>6, <1>17, <1>18, <1>19
  <2>3. d \in Seq(Reducer(r)!Transition) /\ e \in Seq(Reducer(r)!Transition)
    BY <1>19
  <2>4. \A before, full, rest \in Seq(Reducer(r)!Transition) :
          \A first \in Reducer(r)!Transition :
            /\ Len(full) = Len(rest) + 1 /\ full[1] = first
            /\ \A i \in 1 .. Len(rest) : rest[i] = full[i + 1]
            => before \o full = Append(before, first) \o rest
    BY TransitionMovesOver, Zenon
  <2>5. \A first \in Reducer(r)!Transition :
            /\ Len(d) = Len(e) + 1 /\ d[1] = first
            /\ \A i \in 1 .. Len(e) : e[i] = d[i + 1]
            => journal[r] \o d = Append(journal[r], first) \o e
    BY <2>1, <2>3, <2>4, Zenon
  <2>6. x \in Reducer(r)!Transition
    BY <1>19
  <2>7. QED BY <2>2, <2>5, <2>6, Zenon
<1>21. QED BY <1>4, <1>20 DEF D, E

\* What reducer r drains to, in trackers, episodes and journal, is not changed by its own
\* first timer firing.
LEMMA FiringKeepsOutcome ==
    ASSUME TypeOK, TypeOK', target # Unset, NEW r \in Rules, NEW s \in DueOf(r, target),
           \A u \in DueOf(r, target) : u = s \/ Earlier(tracker[r], Durations[r], s, u),
           Fires(r, s)
    PROVE  /\ Reducer(r)!DrainedTracker(target)' = Reducer(r)!DrainedTracker(target)
           /\ Reducer(r)!DrainedEpisodes(target)' = Reducer(r)!DrainedEpisodes(target)
           /\ journal'[r] \o Reducer(r)!Drained(target)' = journal[r] \o Reducer(r)!Drained(target)
<1> DEFINE t == tracker[r][s]
           due == DueAt(t, Durations[r])
<1>1. PICK now \in Nat : now = target
  BY DEF TypeOK
<1>2. s \in Subjects /\ t \in Tracker /\ target' = now
  BY <1>1 DEF DueOf, TypeOK, Fires
<1>3. PICK x : x = Reducer(r)!TransitionOf(s, t, due, now)
  OBVIOUS
<1>4. /\ tracker'[r] = [tracker[r] EXCEPT ![s] = Committed(t)]
      /\ episodes'[r] = [episodes[r] EXCEPT ![s] = Reducer(r)!EpisodesAfter(@, t, due)]
      /\ journal'[r] = Append(journal[r], x)
  BY <1>1, <1>3 DEF Fires, TypeOK
<1>5. s \in DueOf(r, now) /\
      \A u \in DueOf(r, now) : u = s \/ Earlier(tracker[r], Durations[r], s, u)
  BY <1>1
<1>6. /\ DueOf(r, now)' = DueOf(r, now) \ {s}
      /\ journal[r] \o Reducer(r)!Drained(now) = journal'[r] \o Reducer(r)!Drained(now)'
  BY <1>3, <1>4, <1>5, FiringShiftsDrain
<1>7. Reducer(r)!DueBy(now) = DueOf(r, now) /\ Reducer(r)!DueBy(now)' = DueOf(r, now) \ {s}
  BY <1>6, DueIsDue, DueIsDueAfter
<1>8. /\ \A u \in Subjects : u # s => tracker'[r][u] = tracker[r][u]
      /\ \A u \in Subjects : u # s => episodes'[r][u] = episodes[r][u]
      /\ tracker'[r][s] = Committed(t)
      /\ episodes'[r][s] = Reducer(r)!EpisodesAfter(episodes[r][s], t, due)
  BY <1>2, <1>4 DEF TypeOK
<1>9. Reducer(r)!DueAt(t, Reducer(r)!Duration) = due /\ Reducer(r)!Committed(t) = Committed(t)
  <2>1. Reducer(r)!Duration = Durations[r]
    BY DurationType
  <2>2. \A d : Reducer(r)!DueAt(t, d) = DueAt(t, d)
    BY SameTrackers
  <2>3. QED BY <2>1, <2>2, SameTrackers
<1> HIDE DEF due
<1>10. Reducer(r)!DrainedTracker(now)' = Reducer(r)!DrainedTracker(now)
  <2>1. Reducer(r)!DrainedTracker(now)' =
          [u \in Subjects |-> IF u \in DueOf(r, now) \ {s} THEN Reducer(r)!Committed(tracker'[r][u])
                                                          ELSE tracker'[r][u]]
    BY <1>7 DEF Reducer!DrainedTracker
  <2>2. Reducer(r)!DrainedTracker(now) =
          [u \in Subjects |-> IF u \in DueOf(r, now) THEN Reducer(r)!Committed(tracker[r][u])
                                                    ELSE tracker[r][u]]
    BY <1>7 DEF Reducer!DrainedTracker
  <2>3. QED BY <1>5, <1>8, <1>9, <2>1, <2>2
<1>11. Reducer(r)!DrainedEpisodes(now)' = Reducer(r)!DrainedEpisodes(now)
  <2> DEFINE after(u) == Reducer(r)!EpisodesAfter(episodes[r][u], tracker[r][u],
                                         Reducer(r)!DueAt(tracker[r][u], Reducer(r)!Duration))
             after2(u) == Reducer(r)!EpisodesAfter(episodes'[r][u], tracker'[r][u],
                                         Reducer(r)!DueAt(tracker'[r][u], Reducer(r)!Duration))
  <2>1. Reducer(r)!DrainedEpisodes(now)' =
          [u \in Subjects |-> IF u \in DueOf(r, now) \ {s} THEN after2(u) ELSE episodes'[r][u]]
    BY <1>7 DEF Reducer!DrainedEpisodes
  <2>2. Reducer(r)!DrainedEpisodes(now) =
          [u \in Subjects |-> IF u \in DueOf(r, now) THEN after(u) ELSE episodes[r][u]]
    BY <1>7 DEF Reducer!DrainedEpisodes
  <2>3. \A u \in Subjects : u # s => after2(u) = after(u) /\ episodes'[r][u] = episodes[r][u]
    BY <1>8
  <2>4. after(s) = episodes'[r][s]
    BY <1>8, <1>9
  <2> HIDE DEF after, after2
  <2>5. QED BY <1>5, <2>1, <2>2, <2>3, <2>4
<1>12. /\ Reducer(r)!DrainedTracker(target)' = Reducer(r)!DrainedTracker(now)'
       /\ Reducer(r)!DrainedEpisodes(target)' = Reducer(r)!DrainedEpisodes(now)'
       /\ Reducer(r)!Drained(target)' = Reducer(r)!Drained(now)'
  BY <1>2 DEF Reducer!DrainedTracker, Reducer!DrainedEpisodes, Reducer!Drained, Reducer!DueBy
<1>13. QED BY <1>1, <1>6, <1>10, <1>11, <1>12

\* A reducer no variable of which changes drains to the same.
LEMMA UntouchedKeepsOutcome ==
    ASSUME NEW r \in Rules, tracker'[r] = tracker[r], episodes'[r] = episodes[r],
           NEW CONSTANT now
    PROVE  /\ Reducer(r)!DrainedTracker(now)' = Reducer(r)!DrainedTracker(now)
           /\ Reducer(r)!DrainedEpisodes(now)' = Reducer(r)!DrainedEpisodes(now)
           /\ Reducer(r)!Drained(now)' = Reducer(r)!Drained(now)
<1>1. DueOf(r, now)' = DueOf(r, now)
  BY DEF DueOf
<1>2. Reducer(r)!DueBy(now)' = Reducer(r)!DueBy(now)
  BY <1>1, DueIsDue, DueIsDueAfter
<1>3. \A a, b \in Subjects : Reducer(r)!Before(a, b)' <=> Reducer(r)!Before(a, b)
  BY DEF Reducer!Before
<1>4. Reducer(r)!InTimerOrder(Reducer(r)!DueBy(now))' =
        Reducer(r)!InTimerOrder(Reducer(r)!DueBy(now))
  BY <1>2 DEF Reducer!InTimerOrder, Reducer!Before
<1>5. Reducer(r)!DrainedTracker(now)' = Reducer(r)!DrainedTracker(now)
  BY <1>2 DEF Reducer!DrainedTracker
<1>6. Reducer(r)!DrainedEpisodes(now)' = Reducer(r)!DrainedEpisodes(now)
  BY <1>2 DEF Reducer!DrainedEpisodes
<1>7. Reducer(r)!Drained(now)' = Reducer(r)!Drained(now)
  BY <1>2, <1>4 DEF Reducer!Drained
<1>8. QED BY <1>5, <1>6, <1>7

\* What DrainOutcome says of one reducer.
OutcomeAt(r, now) ==
    <<Reducer(r)!DrainedTracker(now), Reducer(r)!DrainedEpisodes(now),
      journal[r] \o Reducer(r)!Drained(now)>>

LEMMA OutcomeByReducer ==
    ASSUME NEW CONSTANT now, now = IF target # Unset THEN target ELSE logical
    PROVE  DrainOutcome = [r \in Rules |-> OutcomeAt(r, now)]
BY DEF DrainOutcome, OutcomeAt

LEMMA OutcomeByReducerAfter ==
    ASSUME NEW CONSTANT now, now = IF target' # Unset THEN target' ELSE logical'
    PROVE  DrainOutcome' = [r \in Rules |-> OutcomeAt(r, now)']
BY DEF DrainOutcome, OutcomeAt, Reducer!DrainedTracker, Reducer!DrainedEpisodes,
       Reducer!Drained, Reducer!DueBy

LEMMA FireNextKeepsOutcome ==
    ASSUME RuntimeInv, RuntimeInv', FireNext
    PROVE  DrainOutcome' = DrainOutcome
<1>1. TypeOK /\ TypeOK'
  BY DEF RuntimeInv
<1>2. target # Unset
  BY DEF FireNext
<1>3. PICK r \in Rules, s \in Subjects :
        /\ s \in DueOf(r, target)
        /\ \A q \in Rules : \A u \in DueOf(q, target) :
             <<q, u>> = <<r, s>> \/ LessTimer(<<r, s>>, <<q, u>>)
        /\ Fires(r, s)
  BY <1>1, FireNextFires
<1>4. PICK now \in Nat : now = target
  BY <1>1 DEF TypeOK
<1>5. target' = now /\ target' # Unset
  BY <1>2, <1>3, <1>4 DEF Fires
<1>6. OutcomeAt(r, now)' = OutcomeAt(r, now)
  <2>1. ASSUME NEW u \in DueOf(r, target) PROVE u = s \/ Earlier(tracker[r], Durations[r], s, u)
    <3>1. <<r, u>> = <<r, s>> \/ LessTimer(<<r, s>>, <<r, u>>)
      BY <1>3
    <3>2. r \in Nat
      BY RulesAssumption
    <3>3. QED BY <3>1, <3>2 DEF LessTimer, DueTime, Earlier
  <2>2. /\ Reducer(r)!DrainedTracker(target)' = Reducer(r)!DrainedTracker(target)
        /\ Reducer(r)!DrainedEpisodes(target)' = Reducer(r)!DrainedEpisodes(target)
        /\ journal'[r] \o Reducer(r)!Drained(target)' = journal[r] \o Reducer(r)!Drained(target)
    BY <1>1, <1>2, <1>3, <2>1, FiringKeepsOutcome
  <2>3. /\ Reducer(r)!DrainedTracker(target)' = Reducer(r)!DrainedTracker(now)'
        /\ Reducer(r)!DrainedEpisodes(target)' = Reducer(r)!DrainedEpisodes(now)'
        /\ Reducer(r)!Drained(target)' = Reducer(r)!Drained(now)'
    BY <1>5 DEF Reducer!DrainedTracker, Reducer!DrainedEpisodes, Reducer!Drained, Reducer!DueBy
  <2>4. QED BY <1>4, <2>2, <2>3 DEF OutcomeAt
<1>7. ASSUME NEW q \in Rules, q # r PROVE OutcomeAt(q, now)' = OutcomeAt(q, now)
  <2>1. tracker'[q] = tracker[q] /\ episodes'[q] = episodes[q] /\ journal'[q] = journal[q]
    BY <1>1, <1>3, <1>7 DEF Fires, TypeOK
  <2>2. QED BY <2>1, UntouchedKeepsOutcome DEF OutcomeAt
<1>8. \A q \in Rules : OutcomeAt(q, now)' = OutcomeAt(q, now)
  BY <1>6, <1>7
<1>9. DrainOutcome = [q \in Rules |-> OutcomeAt(q, now)]
  BY <1>2, <1>4, OutcomeByReducer
<1>10. DrainOutcome' = [q \in Rules |-> OutcomeAt(q, now)']
  BY <1>5, OutcomeByReducerAfter
<1>11. QED BY <1>8, <1>9, <1>10

LEMMA FinishKeepsOutcome ==
    ASSUME RuntimeInv, FinishAdvance
    PROVE  DrainOutcome' = DrainOutcome
<1>1. TypeOK
  BY DEF RuntimeInv
<1>2. /\ target # Unset /\ target' = Unset /\ logical' = target
      /\ UNCHANGED <<tracker, episodes, journal>>
  BY DEF FinishAdvance
<1>3. PICK now \in Nat : now = target
  BY <1>1 DEF TypeOK
<1>4. \A q \in Rules : OutcomeAt(q, now)' = OutcomeAt(q, now)
  BY <1>2, UntouchedKeepsOutcome DEF OutcomeAt
<1>5. DrainOutcome = [q \in Rules |-> OutcomeAt(q, now)]
  BY <1>2, <1>3, OutcomeByReducer
<1>6. DrainOutcome' = [q \in Rules |-> OutcomeAt(q, now)']
  BY <1>2, <1>3, OutcomeByReducerAfter
<1>7. QED BY <1>4, <1>5, <1>6

\* While an Advance runs only its two steps can happen.
LEMMA StepsKeepOutcome ==
    RuntimeInv /\ RuntimeInv' /\ [Next]_vars => [target # Unset => DrainOutcome' = DrainOutcome]_vars
<1> SUFFICES ASSUME RuntimeInv, RuntimeInv', Next, target # Unset
             PROVE  DrainOutcome' = DrainOutcome
  OBVIOUS
<1>1. ~Idle
  BY DEF Idle
<1>2. queue = <<>>
  BY DEF RuntimeInv, OneCallRuns
<1>3. FireNext \/ FinishAdvance
  BY <1>1, <1>2 DEF Next, BeginAdvance, Evaluate, BeginApply, ApplyNext
<1>4. QED BY <1>3, FireNextKeepsOutcome, FinishKeepsOutcome

\* Runtime.Advance: which of the due timers fires first makes no difference to what every
\* reducer has arrived at when the clock is set.
THEOREM DrainOutcomeStays == Spec => DrainOutcomeIsFixed
<1>1. RuntimeInv /\ RuntimeInv' /\ [Next]_vars
        => [target # Unset => DrainOutcome' = DrainOutcome]_vars
  BY StepsKeepOutcome
<1>2. QED BY <1>1, InitRuntimeInv, NextRuntimeInv, PTL DEF Spec, DrainOutcomeIsFixed

-----------------------------------------------------------------------------
(* What ConditionsProofs shows of a reducer by itself holds of each reducer *)
(* the runtime uses.                                                       *)

\* The reducer of AnyRule, with the theorems about it.  Its operators are those of
\* Reducer(AnyRule), which the next lemmas say one by one.
One == INSTANCE ConditionsProofs WITH
    TriggerDuration <- Durations[AnyRule].trigger, ClearDuration <- Durations[AnyRule].clear,
    ObservationIds <- Occurrences \X Directions, Inputs <- {}, Instants <- 0 .. MaxTime,
    MaxClaims <- 0, logical <- clock[AnyRule], tracker <- tracker[AnyRule],
    seen <- seen[AnyRule], episodes <- episodes[AnyRule], journal <- journal[AnyRule],
    claimed <- {}, heldSince <- heldSince[AnyRule]

LEMMA SameTimer ==
    /\ \A t : One!DueAt(t, One!Duration) = Reducer(AnyRule)!DueAt(t, Reducer(AnyRule)!Duration)
    /\ \A s : One!TimerOf(s) = Reducer(AnyRule)!TimerOf(s)
    /\ \A now : One!DueBy(now) = Reducer(AnyRule)!DueBy(now)
    /\ \A a, b : One!Before(a, b) <=> Reducer(AnyRule)!Before(a, b)
<1> USE DEF One!DueAt, Reducer!DueAt, One!DirectionFor, Reducer!DirectionFor,
            One!Duration, Reducer!Duration
<1>1. \A t : One!DueAt(t, One!Duration) = Reducer(AnyRule)!DueAt(t, Reducer(AnyRule)!Duration)
  BY Zenon
<1>2. \A s : One!TimerOf(s) = Reducer(AnyRule)!TimerOf(s)
  BY Zenon DEF One!TimerOf, Reducer!TimerOf
<1>3. \A now : One!DueBy(now) = Reducer(AnyRule)!DueBy(now)
  BY Zenon DEF One!DueBy, Reducer!DueBy, One!Pending, Reducer!Pending
<1>4. \A a, b : One!Before(a, b) <=> Reducer(AnyRule)!Before(a, b)
  BY Zenon DEF One!Before, Reducer!Before
<1>5. QED BY <1>1, <1>2, <1>3, <1>4

LEMMA SameOrder ==
    \A S : /\ One!Cardinality(S) = Reducer(AnyRule)!Cardinality(S)
           /\ One!InTimerOrder(S) = Reducer(AnyRule)!InTimerOrder(S)
<1>1. \A S : /\ One!Cardinality(S) = Cardinality(S)
             /\ Reducer(AnyRule)!Cardinality(S) = Cardinality(S)
  BY DEF One!Cardinality, Cardinality, Reducer!Cardinality,
         One!IsFiniteSet, IsFiniteSet, Reducer!IsFiniteSet
<1>2. \A S, R : One!SortedBy(S, R) = SortedBy(S, R)
  BY <1>1 DEF One!SortedBy, SortedBy
<1>3. \A S, R : Reducer(AnyRule)!SortedBy(S, R) = SortedBy(S, R)
  BY <1>1 DEF Reducer!SortedBy, SortedBy
<1>4. \A S : {p \in S \X S : One!Before(p[1], p[2])}
               = {p \in S \X S : Reducer(AnyRule)!Before(p[1], p[2])}
  BY SameTimer
<1>5. \A S : One!InTimerOrder(S) = Reducer(AnyRule)!InTimerOrder(S)
  BY <1>2, <1>3, <1>4, Zenon DEF One!InTimerOrder, Reducer!InTimerOrder
<1>6. QED BY <1>1, <1>5

LEMMA SameCommit ==
    /\ \A t : One!Committed(t) = Reducer(AnyRule)!Committed(t)
    /\ \A eps, t, at : One!EpisodesAfter(eps, t, at) = Reducer(AnyRule)!EpisodesAfter(eps, t, at)
    /\ \A s, t, at, now :
          One!TransitionOf(s, t, at, now) = Reducer(AnyRule)!TransitionOf(s, t, at, now)
<1> USE DEF One!NoEpisode, Reducer!NoEpisode, One!DirectionFor, Reducer!DirectionFor
<1>1. \A t : One!Committed(t) = Reducer(AnyRule)!Committed(t)
  BY Zenon DEF One!Committed, Reducer!Committed, One!RestingAfter, Reducer!RestingAfter
<1>2. \A eps, t, at :
         One!EpisodesAfter(eps, t, at) = Reducer(AnyRule)!EpisodesAfter(eps, t, at)
  BY Zenon DEF One!EpisodesAfter, Reducer!EpisodesAfter, One!Unset, Reducer!Unset
<1>3. \A s, t, at, now :
         One!TransitionOf(s, t, at, now) = Reducer(AnyRule)!TransitionOf(s, t, at, now)
  BY SameTimer, Zenon DEF One!TransitionOf, Reducer!TransitionOf
<1>4. QED BY <1>1, <1>2, <1>3

LEMMA SameDrain ==
    \A now : /\ One!DrainedTracker(now) = Reducer(AnyRule)!DrainedTracker(now)
             /\ One!DrainedEpisodes(now) = Reducer(AnyRule)!DrainedEpisodes(now)
             /\ One!Drained(now) = Reducer(AnyRule)!Drained(now)
<1>1. \A now : One!DrainedTracker(now) = Reducer(AnyRule)!DrainedTracker(now)
  BY SameTimer, SameCommit DEF One!DrainedTracker, Reducer!DrainedTracker
<1>2. \A now : One!DrainedEpisodes(now) = Reducer(AnyRule)!DrainedEpisodes(now)
  BY SameTimer, SameCommit DEF One!DrainedEpisodes, Reducer!DrainedEpisodes
<1>3. \A now : One!Drained(now) = Reducer(AnyRule)!Drained(now)
  BY SameTimer, SameCommit, SameOrder DEF One!Drained, Reducer!Drained
<1>4. QED BY <1>1, <1>2, <1>3

LEMMA SameObserved ==
    /\ \A o : One!Processing(o) = Reducer(AnyRule)!Processing(o)
    /\ \A t, o : One!OpenedBy(t, o) = Reducer(AnyRule)!OpenedBy(t, o)
    /\ \A t, o, now : One!CommitsAtOnce(t, o, now) <=> Reducer(AnyRule)!CommitsAtOnce(t, o, now)
    /\ \A t, now : One!CommitAt(t, now) = Reducer(AnyRule)!CommitAt(t, now)
    /\ \A t, o, now : One!Observed(t, o, now) = Reducer(AnyRule)!Observed(t, o, now)
    /\ \A held, o, now : One!HeldAfter(held, o, now) = Reducer(AnyRule)!HeldAfter(held, o, now)
    /\ \A now, at : One!Later(now, at) = Reducer(AnyRule)!Later(now, at)
<1> USE DEF One!Unset, Reducer!Unset, One!PhaseFor, Reducer!PhaseFor,
            One!RestingBefore, Reducer!RestingBefore, One!Later, Reducer!Later
<1>1. /\ \A o : One!Processing(o) = Reducer(AnyRule)!Processing(o)
      /\ \A o : One!Effective(o) = Reducer(AnyRule)!Effective(o)
  BY Zenon DEF One!Processing, Reducer!Processing, One!Effective, Reducer!Effective
<1>2. \A t, o : One!OpenedBy(t, o) = Reducer(AnyRule)!OpenedBy(t, o)
  BY <1>1, Zenon DEF One!OpenedBy, Reducer!OpenedBy, One!Started, Reducer!Started,
                     One!OnsetOf, Reducer!OnsetOf
<1>3. \A t, o : One!Starts(t, o) <=> Reducer(AnyRule)!Starts(t, o)
  BY Zenon DEF One!Starts, Reducer!Starts
<1>4. \A t, o, now : One!CommitsAtOnce(t, o, now) <=> Reducer(AnyRule)!CommitsAtOnce(t, o, now)
  BY <1>2, <1>3, SameTimer, Zenon
  DEF One!CommitsAtOnce, Reducer!CommitsAtOnce, One!QualifiesAtOnce, Reducer!QualifiesAtOnce
<1>5. \A t, now : One!CommitAt(t, now) = Reducer(AnyRule)!CommitAt(t, now)
  BY SameTimer, Zenon DEF One!CommitAt, Reducer!CommitAt
<1>6. \A t : One!Cancelled(t) = Reducer(AnyRule)!Cancelled(t)
  BY Zenon DEF One!Cancelled, Reducer!Cancelled, One!DirectionFor, Reducer!DirectionFor
<1>7. \A t, o, now : One!Observed(t, o, now) = Reducer(AnyRule)!Observed(t, o, now)
  BY <1>2, <1>3, <1>4, <1>6, SameCommit, Zenon
  DEF One!Observed, Reducer!Observed, One!Interrupts, Reducer!Interrupts
<1>8. /\ \A held, o, now : One!HeldAfter(held, o, now) = Reducer(AnyRule)!HeldAfter(held, o, now)
      /\ \A now, at : One!Later(now, at) = Reducer(AnyRule)!Later(now, at)
  BY Zenon DEF One!HeldAfter, Reducer!HeldAfter
<1>9. QED BY <1>1, <1>2, <1>4, <1>5, <1>7, <1>8, Zenon

LEMMA SameOperations ==
    /\ \A now : One!Advance(now) <=> Reducer(AnyRule)!Advance(now)
    /\ \A o, id : One!Apply(o, id) <=> Reducer(AnyRule)!Apply(o, id)
    /\ \A timer, now : One!Fire(timer, now) <=> Reducer(AnyRule)!Fire(timer, now)
<1> USE DEF One!Unset, Reducer!Unset
<1>1. \A now : One!Advance(now) <=> Reducer(AnyRule)!Advance(now)
  BY SameDrain, SameObserved, Zenon DEF One!Advance, Reducer!Advance
<1>2. \A o, id : One!Apply(o, id) <=> Reducer(AnyRule)!Apply(o, id)
  BY SameDrain, SameObserved, SameCommit, Zenon
  DEF One!Apply, Reducer!Apply, One!SeenAfter, Reducer!SeenAfter
<1>3. \A timer, now : One!Fire(timer, now) <=> Reducer(AnyRule)!Fire(timer, now)
  BY SameTimer, SameCommit, SameObserved, Zenon
  DEF One!Fire, Reducer!Fire, One!Accepted, Reducer!Accepted, One!PhaseFor, Reducer!PhaseFor
<1>4. QED BY <1>1, <1>2, <1>3

\* The assumptions of Conditions hold of it.
OneAssumptions ==
    /\ Subjects \subseteq Nat /\ One!IsFiniteSet(Subjects)
    /\ Durations[AnyRule].trigger \in Nat /\ Durations[AnyRule].clear \in Nat
    /\ 0 .. MaxTime \subseteq Nat

LEMMA OneIsAssumed ==
    ASSUME AnyRule \in Rules
    PROVE  OneAssumptions
<1>1. Durations[AnyRule].trigger \in Nat /\ Durations[AnyRule].clear \in Nat
  BY DurationsAssumption DEF Directions
<1>2. Subjects \subseteq Nat /\ One!IsFiniteSet(Subjects)
  BY EvaluationSubjects DEF One!IsFiniteSet, IsFiniteSet
<1>3. QED BY <1>1, <1>2, MaxTimeAssumption DEF OneAssumptions

OneInv == One!JournalInv /\ One!HeldInv /\ One!AttemptInv

\* A step of the runtime uses the reducer in one of the ways it can be used.
LEMMA OneIsUsed ==
    ASSUME AnyRule \in Rules, RuntimeInv, One!TypeOK, [Next]_vars
    PROVE  One!Uses \/ UNCHANGED One!vars
<1>1. ReducerStep(AnyRule) \/ UNCHANGED Reducer(AnyRule)!vars
  BY StepsFollow
<1>2. /\ TypeOK /\ target \in Nat /\ OneAssumptions
  BY OneIsAssumed DEF RuntimeInv, TypeOK
<1>3. CASE UNCHANGED Reducer(AnyRule)!vars
  BY <1>3 DEF One!vars, Reducer!vars
<1>4. CASE Reducer(AnyRule)!Advance(target)
  BY <1>2, <1>4, SameOperations DEF One!Uses
<1>5. ASSUME NEW s \in Subjects, Reducer(AnyRule)!Fire(Reducer(AnyRule)!TimerOf(s), target)
      PROVE  One!Uses
  <2>1. One!TimerOf(s) \in One!Timer
    BY <1>2, One!TimerType, SMT DEF OneAssumptions
  <2>2. One!Fire(One!TimerOf(s), target)
    BY <1>5, SameTimer, SameOperations
  <2>3. QED BY <1>2, <2>1, <2>2 DEF One!Uses
<1>6. CASE queue # <<>> /\ Reducer(AnyRule)!Apply(Head(queue).observation, Head(queue).id)
  <2>1. Head(queue) \in Queued
    BY <1>2, <1>6, HeadTailProperties DEF TypeOK
  <2>2. /\ Head(queue).observation \in One!Observation
        /\ Head(queue).id \in Occurrences \X Directions
    BY <2>1 DEF Queued, Observation, One!Observation, One!Directions, Directions,
                One!Results, Results
  <2>3. One!Apply(Head(queue).observation, Head(queue).id)
    BY <1>6, SameOperations
  <2>4. QED BY <2>2, <2>3 DEF One!Uses
<1>7. QED BY <1>1, <1>3, <1>4, <1>5, <1>6 DEF ReducerStep

LEMMA InitOneInv ==
    ASSUME AnyRule \in Rules, Init
    PROVE  OneInv
<1>1. One!NewTracker = NewTracker /\ One!Unset = Unset
  BY DEF One!NewTracker, NewTracker, One!Unset, Unset, One!NoEpisode, NoEpisode
<1>2. [dir \in Directions |-> Unset] = [trigger |-> Unset, clear |-> Unset]
  BY DEF Directions
<1>3. One!Init
  BY <1>1, <1>2 DEF Init, One!Init
<1>4. OneAssumptions
  BY OneIsAssumed
<1>5. QED BY <1>3, <1>4, One!InitJournalInv, One!InitHeld, One!InitAttemptInv, SMT
          DEF OneAssumptions, OneInv

LEMMA NextOneInv ==
    ASSUME AnyRule \in Rules, RuntimeInv, OneInv, [Next]_vars
    PROVE  OneInv'
<1>1. OneAssumptions
  BY OneIsAssumed
<1>2. One!TypeOK
  BY DEF OneInv, One!HeldInv
<1>3. One!Uses \/ UNCHANGED One!vars
  BY <1>2, OneIsUsed
<1>4. One!JournalInv'
  BY <1>1, <1>3, One!UseJournalInv, SMT DEF OneAssumptions, OneInv
<1>5. One!HeldInv'
  BY <1>1, <1>3, One!UseHeld, SMT DEF OneAssumptions, OneInv
<1>6. One!AttemptInv'
  BY <1>1, <1>3, One!UseAttemptInv, SMT DEF OneAssumptions, OneInv
<1>7. QED BY <1>4, <1>5, <1>6 DEF OneInv

\* Behind the runtime too, whatever results are held, applied late or repeated: a reducer's
\* trackers, episodes and journal agree, its episodes follow one another, an interval is
\* pending over unbroken evidence only and is journalled once.
THEOREM EachReducerIsSound ==
    ASSUME AnyRule \in Rules
    PROVE  Spec => [](/\ One!EpisodeMatchesPhase /\ One!JournalTellsEpisodes
                      /\ One!EpisodesDoNotOverlap /\ One!PendingIsHeld
                      /\ One!OneCommitPerAttempt)
<1> DEFINE Sound == /\ One!EpisodeMatchesPhase /\ One!JournalTellsEpisodes
                    /\ One!EpisodesDoNotOverlap /\ One!PendingIsHeld
                    /\ One!OneCommitPerAttempt
<1>1. OneInv => Sound
  <2>1. OneAssumptions
    BY OneIsAssumed
  <2>2. OneInv => One!JournalTellsEpisodes
    BY <2>1, One!TellsIsJournalTells, SMT
    DEF OneAssumptions, OneInv, One!JournalInv, One!EpisodeInv
  <2>3. OneInv => One!EpisodeMatchesPhase /\ One!EpisodesDoNotOverlap
    BY DEF OneInv, One!JournalInv, One!EpisodeInv, One!SubjectInv, One!EpisodeMatchesPhase,
           One!EpisodesDoNotOverlap
  <2>4. OneInv => One!PendingIsHeld /\ One!OneCommitPerAttempt
    BY DEF OneInv, One!HeldInv, One!AttemptInv
  <2>5. QED BY <2>2, <2>3, <2>4
<1>2. Init => OneInv
  BY InitOneInv
<1>3. RuntimeInv /\ OneInv /\ [Next]_vars => OneInv'
  BY NextOneInv
<1> HIDE DEF Sound
<1>4. Spec => []Sound
  BY <1>1, <1>2, <1>3, InitRuntimeInv, NextRuntimeInv, PTL DEF Spec
<1>5. QED BY <1>4 DEF Sound

\* Nor does the runtime lose an interval of any reducer: one that is due by the time a
\* step reaches is journalled by that step or kept.
THEOREM EachReducerKeepsDueIntervals ==
    ASSUME AnyRule \in Rules
    PROVE  Spec => One!DueIntervalIsNotLost
<1>1. Init => OneInv
  BY InitOneInv
<1>2. RuntimeInv /\ OneInv /\ [Next]_vars => OneInv'
  BY NextOneInv
<1>3. RuntimeInv /\ OneInv /\ OneInv' /\ [Next]_vars
        => [\A s \in Subjects : One!KeepsDueInterval(s)]_(One!vars)
  <2> SUFFICES ASSUME RuntimeInv, OneInv, OneInv', [Next]_vars, ~ UNCHANGED One!vars,
                      NEW s \in Subjects
               PROVE  One!KeepsDueInterval(s)
    OBVIOUS
  <2>1. One!TypeOK /\ One!TypeOK' /\ OneAssumptions
    BY OneIsAssumed DEF OneInv, One!HeldInv
  <2>2. One!Uses
    BY <2>1, OneIsUsed
  <2>3. QED BY <2>1, <2>2, One!StepKeepsDueIntervals, SMT DEF OneAssumptions
<1>4. QED BY <1>1, <1>2, <1>3, InitRuntimeInv, NextRuntimeInv, PTL
          DEF Spec, One!DueIntervalIsNotLost

=============================================================================
