---------------------------- MODULE ReplayProofs ----------------------------
(***************************************************************************)
(* Theorems about the replay, for every set of rules, subjects, policies   *)
(* and events, every length of file and any number of runs.                *)
(***************************************************************************)
EXTENDS Preview, SequenceTheorems, FiniteSetTheorems, TLAPS

-----------------------------------------------------------------------------
(* What makes the properties of the replay inductive.                      *)

Series == Rules \X Subjects
EpisodeId == Rules \X Subjects \X Nat
AlertRow == Series \X Nat \X Kinds

ConditionTransition ==
    [rule : Rules, subject : Subjects, direction : Directions, at : Nat, episode : EpisodeId]

Memory ==
    [view : [Views!Kinds -> [Subjects -> Views!View]],
     tracker : [Rules -> [Subjects -> Tracker]],
     alerts : [series : [Series -> [generation : Nat, open : BOOLEAN,
                                    contributors : SUBSET EpisodeId]],
               closed : SUBSET EpisodeId],
     planned : SUBSET AlertRow]

GenerationRow == [status : {"open", "recovered"}, openedAt : Nat, recoveredAt : Nat]

IsTables(T) ==
    /\ T \in [lines : SUBSET Nat, processed : SUBSET Nat,
              pointer : [Views!Kinds -> [Subjects -> [row : Nat, at : Nat]]],
              generations : [DOMAIN T.generations -> GenerationRow],
              transitions : SUBSET AlertRow,
              intents : [DOMAIN T.intents -> {"pending", "delivered"}]]
    /\ DOMAIN T.generations \subseteq Series \X Nat
    /\ DOMAIN T.intents \subseteq AlertRow

\* Every variable keeps the shape of what it stands for.
TypeOK ==
    /\ file \in Seq(Evidence \cup {Malformed})
    /\ mode \in {"stopped", "running", "ended"}
    /\ runs \in Nat
    /\ line \in Nat \ {0}
    /\ stage \in {"none", "admitted", "advanced", "built", "applied"}
    /\ emitting \in Seq(ConditionTransition)
    /\ logical \in Nat
    /\ mem \in Memory
    /\ IsTables(work)
    /\ IsTables(db)

\* A transaction is open only while a run works on a line it has inserted, one of the
\* lines read; the tables are the committed ones otherwise, and nothing waits to be stored.
TransactionInv ==
    /\ TypeOK
    /\ line <= Len(file) + 1
    /\ mode # "running" => stage = "none"
    /\ stage = "none" => work = db /\ emitting = <<>>
    /\ stage # "none" =>
         /\ line \in DOMAIN file /\ file[line] \in Evidence
         /\ line \notin db.lines
         /\ work.lines = db.lines \cup {line}
         /\ work.processed = db.processed

\* The tables are whole after every turn of emit's loop, in an open transaction too, and
\* what the planner remembers is stored; the transaction only adds to what stands.
WholeInv ==
    /\ TransactionInv
    /\ db.processed = db.lines
    /\ Whole(work) /\ Whole(db)
    /\ mem.planned \subseteq DOMAIN work.intents
    /\ Keeps(db, work)

\* The lines in the tables are the first of the file, and those before Run's are in;
\* while Run skips stored lines nothing has happened in its memory, and from the firing
\* of due timers on nothing more is due.
ProgressInv ==
    /\ TransactionInv
    /\ 1 .. line - 1 \subseteq db.lines
    /\ \A i \in db.lines : i > 0 /\ 1 .. i \subseteq db.lines
    /\ line \in db.lines => \A r \in Rules, s \in Subjects : ~Pending(mem.tracker[r][s])
    /\ stage # "admitted" => DueBy(mem.tracker, logical) = {}

\* The first run finds empty tables, and its tables follow its memory in an open
\* transaction too.  Its views come from earlier lines.
FollowInv ==
    /\ ProgressInv
    /\ runs = 0 => db = EmptyTables /\ mode = "stopped"
    /\ runs = 1 /\ mode = "running" =>
         /\ db.lines = 1 .. line - 1
         /\ Follows(work)
         /\ \A k \in Views!Kinds, s \in Subjects :
              /\ mem.view[k][s].position <= line
              /\ stage \notin {"built", "applied"} => mem.view[k][s].position < line
         /\ \A s \in Series :
              mem.alerts.series[s].open => mem.alerts.series[s].generation > 0

-----------------------------------------------------------------------------
(* Sorting and flattening.                                                 *)

Sorting == INSTANCE ConditionsProofs WITH
    TriggerDuration <- 0, ClearDuration <- 0, ObservationIds <- {}, Inputs <- {},
    Instants <- {}, MaxClaims <- 0, logical <- Unset, tracker <- <<>>, seen <- {},
    episodes <- <<>>, journal <- <<>>, claimed <- {}, heldSince <- <<>>

LEMMA LeastNatural ==
    ASSUME NEW S \in SUBSET Nat, S # {}
    PROVE  \E m \in S : \A x \in S : m <= x
BY ReplaySubjects, Sorting!LeastNatural, SMT DEF Sorting!IsFiniteSet, IsFiniteSet

LEMMA SameCounting ==
    \A S : Sorting!Cardinality(S) = Cardinality(S) /\ (Sorting!IsFiniteSet(S) <=> IsFiniteSet(S))
BY DEF Sorting!Cardinality, Cardinality, Sorting!IsFiniteSet, IsFiniteSet

\* What the relation orders strictly is listed by SortedBy, each member once.
LEMMA SortedByLists ==
    ASSUME NEW S, IsFiniteSet(S), NEW R, Sorting!Linear(R, S)
    PROVE  /\ Cardinality(S) \in Nat
           /\ SortedBy(S, R) \in [1 .. Cardinality(S) -> S]
           /\ \A i, j \in 1 .. Cardinality(S) : SortedBy(S, R)[i] = SortedBy(S, R)[j] => i = j
           /\ \A s \in S : \E i \in 1 .. Cardinality(S) : SortedBy(S, R)[i] = s
<1>1. Sorting!IsFiniteSet(S)
  BY SameCounting
<1>2. Sorting!IsFiniteSet(Subjects) /\ Subjects \subseteq Nat
  BY SameCounting, ReplaySubjects
<1>3. \E q : Sorting!Lists(q, Sorting!Cardinality(S), S, R)
  BY <1>1, <1>2, Sorting!OrderExists, SMT
<1>4. \E q \in [1 .. Cardinality(S) -> S] :
         \A i, j \in 1 .. Cardinality(S) : i < j => <<q[i], q[j]>> \in R
  BY <1>3, SameCounting DEF Sorting!Lists
<1> DEFINE sorted == SortedBy(S, R)
<1>5. /\ sorted \in [1 .. Cardinality(S) -> S]
      /\ \A i, j \in 1 .. Cardinality(S) : i < j => <<sorted[i], sorted[j]>> \in R
  BY <1>4 DEF SortedBy
<1> HIDE DEF sorted
<1>6. Sorting!Lists(sorted, Sorting!Cardinality(S), S, R)
  BY <1>5, SameCounting DEF Sorting!Lists
<1>7. /\ \A i, j \in 1 .. Sorting!Cardinality(S) : sorted[i] = sorted[j] => i = j
      /\ \A s \in S : \E i \in 1 .. Sorting!Cardinality(S) : sorted[i] = s
  BY <1>1, <1>2, <1>6, Sorting!OrderIsOnto, SMT
<1>8. QED BY <1>5, <1>7, SameCounting, FS_CardinalityType DEF sorted

LEMMA FunctionIsSeq ==
    ASSUME NEW S, NEW n \in Nat, NEW f \in [1 .. n -> S]
    PROVE  f \in Seq(S) /\ Len(f) = n
<1>1. f \in Seq(S)
  BY SeqDef, Zenon
<1>2. QED BY <1>1, LenProperties


\* A recursion along 1 .. k has a solution.
LEMMA FlatteningExists ==
    ASSUME NEW q, NEW k \in Nat
    PROVE  \E f : f = [i \in 1 .. k |-> IF i = 1 THEN q[i] ELSE f[i - 1] \o q[i]]
<1> DEFINE Solves(f, n) == f = [i \in 1 .. n |-> IF i = 1 THEN q[i] ELSE f[i - 1] \o q[i]]
           Bad == {n \in Nat : ~ \E f : Solves(f, n)}
<1>1. SUFFICES ASSUME Bad # {} PROVE FALSE
  OBVIOUS
<1>2. PICK n \in Bad : \A m \in Bad : n <= m
  BY <1>1, LeastNatural
<1>3. n # 0
  <2>1. Solves([i \in 1 .. 0 |-> 0], 0)
    OBVIOUS
  <2>2. QED BY <1>2, <2>1
<1>4. n \in Nat /\ n - 1 \in Nat /\ ~(n <= n - 1)
  <2>1. n \in Nat
    BY <1>2
  <2>2. QED BY <1>3, <2>1
<1>5. PICK f : Solves(f, n - 1)
  <2>1. n - 1 \notin Bad
    <3> HIDE DEF Bad
    <3>1. QED BY <1>2, <1>4
  <2> HIDE DEF Solves
  <2>2. QED BY <1>4, <2>1
<1> DEFINE g == [i \in 1 .. n |-> IF i < n THEN f[i]
                                  ELSE IF n = 1 THEN q[n] ELSE f[n - 1] \o q[n]]
<1>6. ASSUME NEW i \in 1 .. n
      PROVE  g[i] = IF i = 1 THEN q[i] ELSE g[i - 1] \o q[i]
  <2>1. i # 1 => g[i - 1] = f[i - 1]
    BY <1>4
  <2>2. CASE i < n
    <3>1. i \in 1 .. n - 1
      BY <1>4, <2>2
    <3>2. f[i] = IF i = 1 THEN q[i] ELSE f[i - 1] \o q[i]
      BY <1>5, <3>1
    <3>3. QED BY <2>1, <2>2, <3>2
  <2>3. CASE i = n
    BY <2>1, <2>3
  <2>4. QED BY <1>4, <2>2, <2>3
<1>7. Solves(g, n)
  BY <1>6
<1>8. QED BY <1>2, <1>7

LEMMA FlattenedType ==
    ASSUME NEW S, NEW q \in Seq(Seq(S))
    PROVE  Seqs!FlattenSeq(q) \in Seq(S)
<1> DEFINE n == Len(q)
           Body(f, i) == IF i = 1 THEN q[i] ELSE f[i - 1] \o q[i]
           flatten == CHOOSE f : f = [i \in 1 .. n |-> Body(f, i)]
           Bad == {i \in 1 .. n : flatten[i] \notin Seq(S)}
<1>1. n \in Nat /\ DOMAIN q = 1 .. n /\ \A i \in 1 .. n : q[i] \in Seq(S)
  BY LenProperties, ElementOfSeq
<1>2. flatten = [i \in 1 .. n |-> Body(flatten, i)]
  BY <1>1, FlatteningExists
<1>3. \A i \in 1 .. n : flatten[i] = Body(flatten, i)
  BY <1>2
<1> HIDE DEF flatten
<1>4. Bad = {}
  <2>1. SUFFICES ASSUME Bad # {} PROVE FALSE
    OBVIOUS
  <2>2. PICK i \in Bad : \A j \in Bad : i <= j
    <3>1. Bad \in SUBSET Nat
      BY <1>1
    <3> HIDE DEF Bad
    <3>2. QED BY <2>1, <3>1, LeastNatural
  <2>3. flatten[i] = Body(flatten, i) /\ i \in 1 .. n /\ q[i] \in Seq(S)
    BY <1>1, <1>3, <2>2
  <2>4. CASE i = 1
    BY <2>2, <2>3, <2>4
  <2>5. CASE i # 1
    <3>1. i - 1 \in 1 .. n /\ i - 1 \notin Bad
      BY <1>1, <2>2, <2>3, <2>5
    <3>2. flatten[i - 1] \in Seq(S)
      BY <3>1
    <3>3. flatten[i - 1] \o q[i] \in Seq(S)
      BY <2>3, <3>2, ConcatProperties
    <3>4. QED BY <2>2, <2>3, <2>5, <3>3
  <2>6. QED BY <2>4, <2>5
<1>5. n # 0 => flatten[n] \in Seq(S)
  <2>1. n # 0 => n \in 1 .. n
    BY <1>1
  <2>2. \A i \in 1 .. n : flatten[i] \in Seq(S)
    BY <1>4
  <2> HIDE DEF n
  <2>3. QED BY <2>1, <2>2
<1>6. n = 0 => q \in Seq(S)
  BY EmptySeq, Zenon
<1>7. Seqs!FlattenSeq(q) = IF n = 0 THEN q ELSE flatten[n]
  BY DEF Seqs!FlattenSeq, flatten
<1>8. QED BY <1>5, <1>6, <1>7

-----------------------------------------------------------------------------
(* Trackers and the condition transitions they emit.                       *)

LEMMA SameTrackers ==
    ASSUME NEW r \in Rules
    PROVE  /\ Reducer(r)!Unset = Unset
           /\ Reducer(r)!Duration = Durations[r]
           /\ \A t : /\ Reducer(r)!Committed(t) = Committed(t)
                    /\ Reducer(r)!Cancelled(t) = Cancelled(t)
                    /\ \A d : Reducer(r)!DueAt(t, d) = DueAt(t, d)
                    /\ \A dir, onset : Reducer(r)!Started(t, dir, onset) = Started(t, dir, onset)
<1>1. \A t : Reducer(r)!Committed(t) = Committed(t)
  BY DEF Reducer!Committed, Committed, Reducer!DirectionFor, DirectionFor,
         Reducer!RestingAfter, RestingAfter, Reducer!NoEpisode, NoEpisode
<1>2. \A t : Reducer(r)!Cancelled(t) = Cancelled(t)
  BY DEF Reducer!Cancelled, Cancelled, Reducer!DirectionFor, DirectionFor,
         Reducer!RestingBefore, RestingBefore
<1>3. \A t : \A dir, onset : Reducer(r)!Started(t, dir, onset) = Started(t, dir, onset)
  BY DEF Reducer!Started, Started, Reducer!PhaseFor, PhaseFor
<1>4. \A t : \A d : Reducer(r)!DueAt(t, d) = DueAt(t, d)
  BY DEF Reducer!DueAt, DueAt, Reducer!DirectionFor, DirectionFor
<1>5. Reducer(r)!Unset = Unset
  BY DEF Reducer!Unset, Unset
<1>6. Durations[r] \in [Directions -> Nat]
  BY ReplayDurations
<1>7. Reducer(r)!Duration = Durations[r]
  BY <1>6 DEF Reducer!Duration, Directions
<1>8. QED BY <1>1, <1>2, <1>3, <1>4, <1>5, <1>7

LEMMA DirectionType == \A phase : DirectionFor(phase) \in Directions
BY DEF DirectionFor, Directions

LEMMA DueTimeType ==
    ASSUME NEW r \in Rules, NEW t \in Tracker
    PROVE  DueAt(t, Durations[r]) \in Nat
BY ReplayDurations, DirectionType DEF DueAt, Tracker

LEMMA NewTrackerType == NewTracker \in Tracker /\ ~Pending(NewTracker)
BY DEF NewTracker, Tracker, Phases, Unset, NoEpisode, Pending

LEMMA CommittedType ==
    ASSUME NEW t \in Tracker
    PROVE  Committed(t) \in Tracker /\ ~Pending(Committed(t))
<1> DEFINE e == IF DirectionFor(t.phase) = "trigger" THEN t.sequence + 1 ELSE NoEpisode
<1>1. /\ RestingAfter(DirectionFor(t.phase)) \in Phases
      /\ t.sequence + 1 \in Nat /\ e \in Nat
  BY DEF RestingAfter, Phases, Tracker, NoEpisode
<1>2. Committed(t) = [t EXCEPT !.phase = RestingAfter(DirectionFor(t.phase)),
                               !.sequence = t.sequence + 1,
                               !.episode = e]
  BY DEF Committed, Tracker
<1> HIDE DEF e
<1>3. Committed(t) \in Tracker
  BY <1>1, <1>2, Zenon DEF Tracker
<1>4. Committed(t).phase = RestingAfter(DirectionFor(t.phase))
  BY <1>2, <1>3 DEF Tracker
<1>5. QED BY <1>3, <1>4 DEF Pending, RestingAfter

LEMMA TransitionType ==
    ASSUME NEW r \in Rules, NEW s \in Subjects, NEW t \in Tracker, NEW at \in Nat
    PROVE  TransitionOf(r, s, t, at) \in ConditionTransition
<1>1. t.sequence + 1 \in Nat /\ t.episode \in Nat
  BY DEF Tracker
<1>2. (IF t.phase = "triggering" THEN t.sequence + 1 ELSE t.episode) \in Nat
  BY <1>1
<1>3. QED BY <1>2, DirectionType DEF TransitionOf, ConditionTransition, EpisodeId

\* The observations Evaluate makes.
Observation == [subject : Subjects, direction : Directions, result : Results,
                effectiveAt : Nat, processingAt : Nat, trueSince : Nat]

LEMMA OpenedType ==
    ASSUME NEW r \in Rules, NEW t \in Tracker, NEW o \in Observation
    PROVE  /\ Reducer(r)!OpenedBy(t, o) \in Tracker
           /\ DueAt(Reducer(r)!OpenedBy(t, o), Durations[r]) \in Nat
<1> DEFINE onset == Reducer(r)!OnsetOf(Reducer(r)!Effective(o), o.trueSince)
<1>1. /\ o.processingAt \in Nat /\ o.effectiveAt \in Nat /\ o.trueSince \in Nat
      /\ o.direction \in Directions
  BY DEF Observation
<1>2. onset \in Nat
  BY <1>1 DEF Reducer!OnsetOf, Reducer!Effective, Reducer!Processing
<1>3. PhaseFor(o.direction) \in Phases /\ t.attempt + 1 \in Nat
  BY DEF PhaseFor, Phases, Tracker
<1>4. Reducer(r)!OpenedBy(t, o) = Started(t, o.direction, onset)
  BY SameTrackers DEF Reducer!OpenedBy
<1> HIDE DEF onset
<1>5. Started(t, o.direction, onset) \in Tracker
  BY <1>2, <1>3, Zenon DEF Started, Tracker
<1>6. QED BY <1>4, <1>5, DueTimeType

\* What an observation makes of a tracker: a tracker, and one that is pending only when
\* it was, unchanged, or with an interval that is not due yet; what it emits is dated.
LEMMA ObservedType ==
    ASSUME NEW r \in Rules, NEW t \in Tracker, NEW o \in Observation, NEW now \in Nat
    PROVE  /\ Reducer(r)!Observed(t, o, now) \in Tracker
           /\ Pending(Reducer(r)!Observed(t, o, now))
                => \/ Reducer(r)!Observed(t, o, now) = t
                   \/ DueAt(Reducer(r)!Observed(t, o, now), Durations[r]) > now
           /\ Reducer(r)!CommitAt(Reducer(r)!OpenedBy(t, o), now) \in Nat
<1> DEFINE opened == Reducer(r)!OpenedBy(t, o)
           u == Reducer(r)!Observed(t, o, now)
<1>1. opened \in Tracker /\ DueAt(opened, Durations[r]) \in Nat
  BY OpenedType
<1>2. Cancelled(t) \in Tracker /\ ~Pending(Cancelled(t))
  <2>1. RestingBefore(DirectionFor(t.phase)) \in Phases /\ t.attempt + 1 \in Nat
    BY DEF RestingBefore, Phases, Tracker
  <2>2. Cancelled(t) \in Tracker
    BY <2>1, Zenon DEF Cancelled, Tracker
  <2>3. Cancelled(t).phase = RestingBefore(DirectionFor(t.phase))
    BY <2>2 DEF Cancelled, Tracker
  <2>4. QED BY <2>2, <2>3 DEF Pending, RestingBefore
<1>3. Committed(opened) \in Tracker /\ ~Pending(Committed(opened))
  BY <1>1, CommittedType
<1>4. \/ Reducer(r)!CommitsAtOnce(t, o, now) /\ u = Committed(opened)
      \/ ~Reducer(r)!CommitsAtOnce(t, o, now) /\ Reducer(r)!Starts(t, o) /\ u = opened
      \/ u = Cancelled(t)
      \/ u = t
  BY SameTrackers DEF Reducer!Observed
<1>5. Reducer(r)!CommitsAtOnce(t, o, now) <=>
        Reducer(r)!Starts(t, o) /\ DueAt(opened, Durations[r]) <= now
  BY SameTrackers DEF Reducer!CommitsAtOnce, Reducer!QualifiesAtOnce
<1>6. Reducer(r)!CommitAt(opened, now) \in Nat
  BY <1>1, SameTrackers DEF Reducer!CommitAt, Reducer!Later
<1> HIDE DEF opened, u
<1>7. u \in Tracker /\ (Pending(u) => u = t \/ DueAt(u, Durations[r]) > now)
  BY <1>1, <1>2, <1>3, <1>4, <1>5
<1>8. QED BY <1>6, <1>7 DEF u, opened

LEMMA ObserveType ==
    ASSUME NEW r \in Rules, NEW t \in Tracker, NEW o \in Observation, NEW now \in Nat
    PROVE  /\ Observe(r, t, o, now).tracker = Reducer(r)!Observed(t, o, now)
           /\ Observe(r, t, o, now).tracker \in Tracker
           /\ Observe(r, t, o, now).fired \in Seq(ConditionTransition)
<1> DEFINE opened == Reducer(r)!OpenedBy(t, o)
           at == Reducer(r)!CommitAt(opened, now)
           fired == IF Reducer(r)!CommitsAtOnce(t, o, now)
                      THEN <<TransitionOf(r, o.subject, opened, at)>> ELSE <<>>
<1>1. opened \in Tracker /\ at \in Nat /\ o.subject \in Subjects
  BY OpenedType, ObservedType DEF Observation
<1>2. Observe(r, t, o, now) = [tracker |-> Reducer(r)!Observed(t, o, now), fired |-> fired]
  BY DEF Observe
<1> HIDE DEF opened, at
<1>3. TransitionOf(r, o.subject, opened, at) \in ConditionTransition
  BY <1>1, TransitionType
<1>4. fired \in Seq(ConditionTransition)
  BY <1>3
<1> HIDE DEF fired
<1>5. QED BY <1>2, <1>4, ObservedType

-----------------------------------------------------------------------------
(* The memory of a run, and the two calls into the evaluation runtime.     *)

LEMMA MemoryFields ==
    ASSUME NEW m \in Memory
    PROVE  /\ m.view \in [Views!Kinds -> [Subjects -> Views!View]]
           /\ m.tracker \in [Rules -> [Subjects -> Tracker]]
           /\ m.alerts \in [series : [Series -> [generation : Nat, open : BOOLEAN,
                                                 contributors : SUBSET EpisodeId]],
                            closed : SUBSET EpisodeId]
           /\ m.planned \subseteq AlertRow
           /\ m = [view |-> m.view, tracker |-> m.tracker, alerts |-> m.alerts,
                   planned |-> m.planned]
BY DEF Memory

LEMMA EmptyMemoryType == EmptyMemory \in Memory
<1>1. Views!NoView \in Views!View
  BY DEF Views!NoView, Views!View, Views!Unset
<1>2. NewSeries \in [generation : Nat, open : BOOLEAN, contributors : SUBSET EpisodeId]
  BY DEF NewSeries
<1>3. [k \in Views!Kinds |-> [s \in Subjects |-> Views!NoView]]
        \in [Views!Kinds -> [Subjects -> Views!View]]
  BY <1>1
<1>4. [r \in Rules |-> [s \in Subjects |-> NewTracker]] \in [Rules -> [Subjects -> Tracker]]
  BY NewTrackerType
<1>5. [s \in Rules \X Subjects |-> NewSeries]
        \in [Series -> [generation : Nat, open : BOOLEAN, contributors : SUBSET EpisodeId]]
  BY <1>2 DEF Series
<1>6. QED BY <1>3, <1>4, <1>5 DEF EmptyMemory, Memory

LEMMA DrainedType ==
    ASSUME NEW trackers \in [Rules -> [Subjects -> Tracker]], NEW now \in Nat
    PROVE  /\ Drained(trackers, now) \in [Rules -> [Subjects -> Tracker]]
           /\ DueBy(Drained(trackers, now), now) = {}
<1> DEFINE after == Drained(trackers, now)
<1>1. ASSUME NEW r \in Rules, NEW s \in Subjects
      PROVE  /\ trackers[r][s] \in Tracker
             /\ Committed(trackers[r][s]) \in Tracker /\ ~Pending(Committed(trackers[r][s]))
  <2>1. trackers[r][s] \in Tracker
    OBVIOUS
  <2>2. QED BY <2>1, CommittedType
<1>2. after \in [Rules -> [Subjects -> Tracker]]
  BY <1>1 DEF Drained
<1>3. ASSUME NEW r \in Rules, NEW s \in Subjects
      PROVE  ~ (Pending(after[r][s]) /\ DueAt(after[r][s], Durations[r]) <= now)
  <2>1. after[r][s] = IF <<r, s>> \in DueBy(trackers, now) THEN Committed(trackers[r][s])
                                                          ELSE trackers[r][s]
    BY DEF Drained
  <2>2. <<r, s>> \in DueBy(trackers, now) <=>
          Pending(trackers[r][s]) /\ DueAt(trackers[r][s], Durations[r]) <= now
    BY DEF DueBy
  <2> HIDE DEF after
  <2>3. QED BY <1>1, <2>1, <2>2
<1>4. DueBy(after, now) = {}
  <2> HIDE DEF after
  <2>1. QED BY <1>3 DEF DueBy
<1>5. QED BY <1>2, <1>4

\* Nothing due: nothing changes.
LEMMA DrainedOfNone ==
    ASSUME NEW trackers \in [Rules -> [Subjects -> Tracker]], NEW now,
           DueBy(trackers, now) = {}
    PROVE  Drained(trackers, now) = trackers
BY DEF Drained

\* What the firing of a timer emits.
FiredTimer(trackers, x) == TransitionOf(x[1], x[2], trackers[x[1]][x[2]], Due(trackers, x))

\* What fires is listed in an order the relation Less gives, each due timer once.
ListsDue(q, n, trackers, now) ==
    /\ n \in Nat /\ q \in [1 .. n -> DueBy(trackers, now)]
    /\ \A i, j \in 1 .. n : q[i] = q[j] => i = j
    /\ \A x \in DueBy(trackers, now) : \E i \in 1 .. n : q[i] = x
    /\ FiredBy(trackers, now) = [i \in 1 .. n |-> FiredTimer(trackers, q[i])]

LEMMA FiredByLists ==
    ASSUME NEW trackers \in [Rules -> [Subjects -> Tracker]], NEW now \in Nat
    PROVE  \E q, n : ListsDue(q, n, trackers, now)
<1> DEFINE due == DueBy(trackers, now)
           R == {p \in due \X due : Less(trackers, p[1], p[2])}
           q == SortedBy(due, R)
           n == Cardinality(due)
<1>1. due \in SUBSET (Rules \X Subjects)
  BY DEF DueBy
<1>2. IsFiniteSet(due)
  BY <1>1, ReplayRules, ReplaySubjects, FS_Product, FS_Subset
<1>3. \A a \in due : /\ a[1] \in Rules /\ a[2] \in Subjects /\ a = <<a[1], a[2]>>
                     /\ a[1] \in Nat /\ a[2] \in Nat /\ Due(trackers, a) \in Nat
  <2>1. TAKE a \in due
  <2>2. a[1] \in Rules /\ a[2] \in Subjects /\ a = <<a[1], a[2]>>
    BY <1>1
  <2>3. trackers[a[1]][a[2]] \in Tracker
    BY <2>2
  <2>4. QED BY <2>2, <2>3, DueTimeType, ReplayRules, ReplaySubjects DEF Due
<1>4. \A a, b \in due : <<a, b>> \in R <=> Less(trackers, a, b)
  OBVIOUS
<1> HIDE DEF due, R
<1>5. Sorting!Linear(R, due)
  <2>1. \A a \in due : ~Less(trackers, a, a)
    BY <1>3 DEF Less
  <2>2. \A a, b \in due : a # b => Less(trackers, a, b) \/ Less(trackers, b, a)
    BY <1>3 DEF Less
  <2>3. \A a, b, c \in due : Less(trackers, a, b) /\ Less(trackers, b, c) => Less(trackers, a, c)
    BY <1>3 DEF Less
  <2>4. QED BY <1>4, <2>1, <2>2, <2>3 DEF Sorting!Linear
<1>6. /\ n \in Nat /\ q \in [1 .. n -> due]
      /\ \A i, j \in 1 .. n : q[i] = q[j] => i = j
      /\ \A x \in due : \E i \in 1 .. n : q[i] = x
  BY <1>2, <1>5, SortedByLists
<1>7. FiredBy(trackers, now) = [i \in 1 .. n |-> FiredTimer(trackers, q[i])]
  <2>1. FiredBy(trackers, now) = [i \in DOMAIN q |-> FiredTimer(trackers, q[i])]
    BY DEF FiredBy, FiredTimer, due, R
  <2>2. DOMAIN q = 1 .. n
    BY <1>6
  <2>3. QED BY <2>1, <2>2
<1> HIDE DEF q, n
<1>8. ListsDue(q, n, trackers, now)
  BY <1>6, <1>7 DEF ListsDue, due
<1>9. QED BY <1>8

LEMMA FiredByType ==
    ASSUME NEW trackers \in [Rules -> [Subjects -> Tracker]], NEW now \in Nat
    PROVE  FiredBy(trackers, now) \in Seq(ConditionTransition)
<1>1. PICK q, n : ListsDue(q, n, trackers, now)
  BY FiredByLists
<1>2. ASSUME NEW x \in DueBy(trackers, now)
      PROVE  FiredTimer(trackers, x) \in ConditionTransition
  <2>1. x[1] \in Rules /\ x[2] \in Subjects
    BY DEF DueBy
  <2>2. trackers[x[1]][x[2]] \in Tracker
    BY <2>1
  <2>3. Due(trackers, x) \in Nat
    BY <2>1, <2>2, DueTimeType DEF Due
  <2>4. QED BY <2>1, <2>2, <2>3, TransitionType DEF FiredTimer
<1>3. [i \in 1 .. n |-> FiredTimer(trackers, q[i])] \in [1 .. n -> ConditionTransition]
  BY <1>1, <1>2 DEF ListsDue
<1>4. QED BY <1>1, <1>3, FunctionIsSeq DEF ListsDue

LEMMA ObservationType ==
    ASSUME NEW m \in Memory, NEW r \in Rules, NEW e \in Evidence,
           NEW dir \in Directions, NEW now \in Nat
    PROVE  ObservationOf(m.view, r, e, dir, now) \in Observation
<1>1. e.subject \in Subjects /\ e.at \in Nat
  BY ReplayEvidence
<1>2. m.view["adherence"][e.subject] \in Views!View
  BY <1>1, MemoryFields DEF Views!Kinds
<1>3. m.view["adherence"][e.subject].since \in Nat
  BY <1>2 DEF Views!View
<1>4. TrueSince(m.view, e.subject, dir) \in Nat
  BY <1>3 DEF TrueSince, Unset
<1>5. ResultOf(m.view, r, e.subject, dir) \in Results
  BY DEF ResultOf, Results
<1>6. QED BY <1>1, <1>4, <1>5 DEF ObservationOf, Observation

\* Both observations of a line: the tracker they leave is not due, if it was not before.
LEMMA ObserveBothType ==
    ASSUME NEW m \in Memory, NEW r \in Rules, NEW e \in Evidence, NEW now \in Nat
    PROVE  LET t == m.tracker[r][e.subject]
               u == ObserveBoth(m, r, e, now).tracker
           IN
           /\ u \in Tracker
           /\ ObserveBoth(m, r, e, now).fired \in Seq(ConditionTransition)
           /\ Pending(u) => u = t \/ DueAt(u, Durations[r]) > now
<1> DEFINE t == m.tracker[r][e.subject]
           o1 == ObservationOf(m.view, r, e, "trigger", now)
           o2 == ObservationOf(m.view, r, e, "clear", now)
           up == Observe(r, t, o1, now)
           down == Observe(r, up.tracker, o2, now)
<1>1. o1 \in Observation /\ o2 \in Observation
  BY ObservationType DEF Directions
<1>2. t \in Tracker
  BY MemoryFields, ReplayEvidence
<1>3. ObserveBoth(m, r, e, now) = [tracker |-> down.tracker, fired |-> up.fired \o down.fired]
  BY DEF ObserveBoth
<1> HIDE DEF o1, o2, t
<1>4. /\ up.tracker \in Tracker /\ up.fired \in Seq(ConditionTransition)
      /\ up.tracker = Reducer(r)!Observed(t, o1, now)
  BY <1>1, <1>2, ObserveType
<1> HIDE DEF up
<1>5. /\ down.tracker \in Tracker /\ down.fired \in Seq(ConditionTransition)
      /\ down.tracker = Reducer(r)!Observed(up.tracker, o2, now)
  BY <1>1, <1>4, ObserveType
<1> HIDE DEF down
<1>6. Pending(up.tracker) => up.tracker = t \/ DueAt(up.tracker, Durations[r]) > now
  BY <1>1, <1>2, <1>4, ObservedType
<1>7. Pending(down.tracker)
        => down.tracker = up.tracker \/ DueAt(down.tracker, Durations[r]) > now
  BY <1>1, <1>4, <1>5, ObservedType
<1>8. Pending(down.tracker)
        => down.tracker = t \/ DueAt(down.tracker, Durations[r]) > now
  BY <1>6, <1>7
<1>9. up.fired \o down.fired \in Seq(ConditionTransition)
  BY <1>4, <1>5, ConcatProperties
<1>10. /\ ObserveBoth(m, r, e, now).tracker = down.tracker
       /\ ObserveBoth(m, r, e, now).fired \in Seq(ConditionTransition)
  BY <1>3, <1>9
<1>11. QED BY <1>5, <1>8, <1>10 DEF t

LEMMA AppliedType ==
    ASSUME NEW m \in Memory, NEW e \in Evidence, NEW now \in Nat, NEW r \in Rules
    PROVE  LET t == m.tracker[r][e.subject]
               u == Applied(m, e, now)[r].tracker
           IN
           /\ u \in Tracker
           /\ Applied(m, e, now)[r].fired \in Seq(ConditionTransition)
           /\ Pending(u) => u = t \/ DueAt(u, Durations[r]) > now
<1>1. CASE e.subject \in Targets[r]
  <2>1. Applied(m, e, now)[r] = ObserveBoth(m, r, e, now)
    BY <1>1 DEF Applied
  <2>2. QED BY <2>1, ObserveBothType
<1>2. CASE e.subject \notin Targets[r]
  <2>1. /\ Applied(m, e, now)[r].tracker = m.tracker[r][e.subject]
        /\ Applied(m, e, now)[r].fired = <<>>
    BY <1>2 DEF Applied
  <2>2. m.tracker[r][e.subject] \in Tracker
    BY MemoryFields, ReplayEvidence
  <2>3. QED BY <2>1, <2>2
<1>3. QED BY <1>1, <1>2

LEMMA RuleOrderType ==
    /\ Cardinality(Rules) \in Nat
    /\ RuleOrder \in [1 .. Cardinality(Rules) -> Rules]
    /\ \A i, j \in 1 .. Cardinality(Rules) : RuleOrder[i] = RuleOrder[j] => i = j
    /\ \A r \in Rules : \E i \in 1 .. Cardinality(Rules) : RuleOrder[i] = r
<1> DEFINE R == {p \in Rules \X Rules : p[1] < p[2]}
<1>1. \A a, b \in Rules : <<a, b>> \in R <=> a < b
  OBVIOUS
<1>2. RuleOrder = SortedBy(Rules, R)
  BY DEF RuleOrder
<1> HIDE DEF R
<1>3. Sorting!Linear(R, Rules)
  BY <1>1, ReplayRules DEF Sorting!Linear
<1>4. QED BY <1>2, <1>3, ReplayRules, SortedByLists

LEMMA EvaluatedType ==
    ASSUME NEW m \in Memory, NEW e \in Evidence, NEW now \in Nat
    PROVE  Seqs!FlattenSeq([i \in DOMAIN RuleOrder |-> Applied(m, e, now)[RuleOrder[i]].fired])
             \in Seq(ConditionTransition)
<1> DEFINE n == Cardinality(Rules)
           f(i) == Applied(m, e, now)[RuleOrder[i]].fired
           q == [i \in 1 .. n |-> f(i)]
<1>1. n \in Nat /\ DOMAIN RuleOrder = 1 .. n /\ \A i \in 1 .. n : RuleOrder[i] \in Rules
  BY RuleOrderType
<1>2. ASSUME NEW i \in 1 .. n
      PROVE  f(i) \in Seq(ConditionTransition)
  BY <1>1, AppliedType
<1> HIDE DEF f, n
<1>3. q \in [1 .. n -> Seq(ConditionTransition)]
  BY <1>2
<1>4. q \in Seq(Seq(ConditionTransition))
  BY <1>1, <1>3, FunctionIsSeq
<1>5. Seqs!FlattenSeq(q) \in Seq(ConditionTransition)
  BY <1>4, FlattenedType
<1>6. QED BY <1>1, <1>5 DEF f

-----------------------------------------------------------------------------
(* One turn of emit's loop.                                                *)

AlertTransition == [series : Series, generation : Nat, kind : Kinds, episode : EpisodeId]
AlertMemory == [series : [Series -> [generation : Nat, open : BOOLEAN,
                                     contributors : SUBSET EpisodeId]],
                closed : SUBSET EpisodeId]

\* A condition transition t brings the opening of its series or its recovery.
BringsOpening(alerts, t, a) ==
    /\ t.direction = "trigger"
    /\ Opens(alerts, <<t.rule, t.subject>>, t.episode)
    /\ a = [series |-> <<t.rule, t.subject>>, kind |-> "open", episode |-> t.episode,
            generation |-> alerts.series[<<t.rule, t.subject>>].generation + 1]

BringsRecovery(alerts, t, a) ==
    /\ t.direction # "trigger"
    /\ Recovers(alerts, <<t.rule, t.subject>>, t.episode)
    /\ a = [series |-> <<t.rule, t.subject>>, kind |-> "recovery", episode |-> t.episode,
            generation |-> alerts.series[<<t.rule, t.subject>>].generation]

LEMMA SeriesFields ==
    ASSUME NEW m \in Memory, NEW s \in Series
    PROVE  /\ m.alerts.series[s].generation \in Nat
           /\ m.alerts.series[s].open \in BOOLEAN
           /\ m.alerts.series[s].contributors \subseteq EpisodeId
           /\ m.alerts.series \in [Series -> [generation : Nat, open : BOOLEAN,
                                                contributors : SUBSET EpisodeId]]
           /\ m.alerts.closed \subseteq EpisodeId
<1>1. m.alerts.series \in [Series -> [generation : Nat, open : BOOLEAN,
                                        contributors : SUBSET EpisodeId]]
  BY MemoryFields
<1>2. m.alerts.series[s] \in [generation : Nat, open : BOOLEAN,
                                contributors : SUBSET EpisodeId]
  BY <1>1
<1>3. m.alerts.closed \subseteq EpisodeId
  BY MemoryFields
<1>4. QED BY <1>1, <1>2, <1>3

LEMMA Brought ==
    ASSUME NEW m \in Memory, NEW t \in ConditionTransition
    PROVE  /\ <<t.rule, t.subject>> \in Series /\ t.episode \in EpisodeId
           /\ t.rule \in Rules /\ t.at \in Nat
           /\ \/ AlertTransitions(m.alerts, t) = <<>> /\ \A a : ~BringsOpening(m.alerts, t, a) /\ ~BringsRecovery(m.alerts, t, a)
              \/ \E a \in AlertTransition :
                   /\ AlertTransitions(m.alerts, t) = <<a>>
                   /\ BringsOpening(m.alerts, t, a) \/ BringsRecovery(m.alerts, t, a)
<1> DEFINE s == <<t.rule, t.subject>>
           up == [series |-> s, kind |-> "open", episode |-> t.episode,
                  generation |-> m.alerts.series[s].generation + 1]
           down == [series |-> s, kind |-> "recovery", episode |-> t.episode,
                    generation |-> m.alerts.series[s].generation]
<1>1. /\ t.rule \in Rules /\ t.subject \in Subjects /\ t.at \in Nat /\ t.episode \in EpisodeId
      /\ t.direction \in Directions
  BY DEF ConditionTransition
<1>2. s \in Series
  BY <1>1 DEF Series
<1>3. m.alerts.series[s].generation \in Nat
  BY <1>2, SeriesFields
<1>4. up \in AlertTransition /\ down \in AlertTransition
  BY <1>1, <1>2, <1>3 DEF AlertTransition, Kinds
<1>5. AlertTransitions(m.alerts, t) =
        IF t.direction = "trigger" THEN (IF Opens(m.alerts, s, t.episode) THEN <<up>> ELSE <<>>)
                                   ELSE (IF Recovers(m.alerts, s, t.episode) THEN <<down>> ELSE <<>>)
  BY DEF AlertTransitions, OpenTransition, RecoveryTransition
<1>6. /\ \A a : BringsOpening(m.alerts, t, a) <=>
            t.direction = "trigger" /\ Opens(m.alerts, s, t.episode) /\ a = up
      /\ \A a : BringsRecovery(m.alerts, t, a) <=>
            t.direction # "trigger" /\ Recovers(m.alerts, s, t.episode) /\ a = down
  BY DEF BringsOpening, BringsRecovery
<1> HIDE DEF up, down
<1>7. \/ AlertTransitions(m.alerts, t) = <<>> /\ \A a : ~BringsOpening(m.alerts, t, a) /\ ~BringsRecovery(m.alerts, t, a)
      \/ \E a \in AlertTransition :
           AlertTransitions(m.alerts, t) = <<a>> /\ (BringsOpening(m.alerts, t, a) \/ BringsRecovery(m.alerts, t, a))
  BY <1>4, <1>5, <1>6
<1> HIDE DEF s
<1>8. QED BY <1>1, <1>2, <1>7 DEF s

LEMMA AlertsAfterType ==
    ASSUME NEW m \in Memory, NEW t \in ConditionTransition
    PROVE  AlertsAfter(m.alerts, t) \in AlertMemory
<1> DEFINE s == <<t.rule, t.subject>>
           e == t.episode
           al == m.alerts
<1>1. s \in Series /\ e \in EpisodeId
  BY Brought
<1>2. /\ al.series[s].generation \in Nat /\ al.series[s].open \in BOOLEAN
      /\ al.series[s].contributors \subseteq EpisodeId
      /\ al.series \in [Series -> [generation : Nat, open : BOOLEAN,
                                  contributors : SUBSET EpisodeId]]
      /\ al.closed \subseteq EpisodeId
      /\ al \in AlertMemory
  BY <1>1, SeriesFields, MemoryFields DEF AlertMemory
<1>3. AlertsAfter(m.alerts, t) = IF t.direction = "trigger" THEN AfterStart(al, s, e) ELSE AfterClear(al, s, e)
  BY DEF AlertsAfter
<1> HIDE DEF s, e, al
<1>4. StartedSeries(al.series[s], e)
        \in [generation : Nat, open : BOOLEAN, contributors : SUBSET EpisodeId]
  BY <1>1, <1>2 DEF StartedSeries
<1>5. AfterStart(al, s, e) \in AlertMemory
  BY <1>1, <1>2, <1>4 DEF AfterStart, AlertMemory
<1>6. ClearedSeries(al, s, e)
        \in [generation : Nat, open : BOOLEAN, contributors : SUBSET EpisodeId]
  BY <1>1, <1>2 DEF ClearedSeries
<1>7. AfterClear(al, s, e) \in AlertMemory
  BY <1>1, <1>2, <1>6 DEF AfterClear, AlertMemory
<1>8. QED BY <1>3, <1>5, <1>7


LEMMA TablesFields ==
    ASSUME NEW T, IsTables(T)
    PROVE  /\ T.lines \subseteq Nat /\ T.processed \subseteq Nat
           /\ T.pointer \in [Views!Kinds -> [Subjects -> [row : Nat, at : Nat]]]
           /\ T.generations \in [DOMAIN T.generations -> GenerationRow]
           /\ T.transitions \subseteq AlertRow
           /\ T.intents \in [DOMAIN T.intents -> {"pending", "delivered"}]
           /\ DOMAIN T.generations \subseteq Series \X Nat
           /\ DOMAIN T.intents \subseteq AlertRow
           /\ T = [lines |-> T.lines, processed |-> T.processed, pointer |-> T.pointer,
                   generations |-> T.generations, transitions |-> T.transitions,
                   intents |-> T.intents]
BY DEF IsTables

LEMMA TablesMade ==
    ASSUME NEW L \in SUBSET Nat, NEW P \in SUBSET Nat,
           NEW pt \in [Views!Kinds -> [Subjects -> [row : Nat, at : Nat]]],
           NEW G, G \in [DOMAIN G -> GenerationRow], DOMAIN G \subseteq Series \X Nat,
           NEW R \in SUBSET AlertRow,
           NEW I, I \in [DOMAIN I -> {"pending", "delivered"}], DOMAIN I \subseteq AlertRow
    PROVE  IsTables([lines |-> L, processed |-> P, pointer |-> pt, generations |-> G,
                     transitions |-> R, intents |-> I])
BY DEF IsTables

\* What a turn that brings a stores: the rest of the tables stays.
Stores(a, r, at) ==
    /\ ~Fails(a, r)
    /\ work' = [lines |-> work.lines, processed |-> work.processed, pointer |-> work.pointer,
                generations |-> GenerationsAfter(a, at),
                transitions |-> work.transitions \cup {Row(a)},
                intents |-> IntentsAfter(Planned(mem.planned, a, r))]

LEMMA EmitSteps ==
    ASSUME TypeOK, EmitStored
    PROVE  \E t \in ConditionTransition :
             /\ mem' = [view |-> mem.view, tracker |-> mem.tracker, alerts |-> AlertsAfter(mem.alerts, t),
                        planned |-> mem'.planned]
             /\ emitting \in Seq(ConditionTransition) /\ emitting # <<>>
             /\ t = Head(emitting) /\ emitting' = Tail(emitting)
             /\ emitting' \in Seq(ConditionTransition)
             /\ mem'.planned = mem.planned \cup PlannedFor(mem, t)
             /\ UNCHANGED <<file, mode, runs, line, stage, logical, db>>
             /\ \/ /\ \A a : ~BringsOpening(mem.alerts, t, a) /\ ~BringsRecovery(mem.alerts, t, a)
                   /\ work' = work /\ mem'.planned = mem.planned /\ PlannedFor(mem, t) = {}
                \/ \E a \in AlertTransition :
                     /\ BringsOpening(mem.alerts, t, a) \/ BringsRecovery(mem.alerts, t, a)
                     /\ Stores(a, t.rule, t.at)
                     /\ mem'.planned = mem.planned \cup Planned(mem.planned, a, t.rule)
                     /\ PlannedFor(mem, t) = Planned(mem.planned, a, t.rule)
<1> DEFINE t == Head(emitting)
           rows == PlannedFor(mem, t)
<1>1. mem \in Memory /\ emitting \in Seq(ConditionTransition) /\ emitting # <<>> /\ IsTables(work)
  BY DEF TypeOK, EmitStored, Emitting
<1>2. t \in ConditionTransition /\ emitting' \in Seq(ConditionTransition)
  BY <1>1, HeadTailProperties DEF EmitStored
<1>3. /\ ~EmissionFails(t)
      /\ mem' = [mem EXCEPT !.alerts = AlertsAfter(mem.alerts, t), !.planned = mem.planned \cup rows]
      /\ work' = StoredFor(t)
  BY <1>1, MemoryFields DEF EmitStored
<1> HIDE DEF t
<1>4. /\ mem' = [view |-> mem.view, tracker |-> mem.tracker, alerts |-> AlertsAfter(mem.alerts, t),
                 planned |-> mem.planned \cup rows]
  <2> HIDE DEF rows
  <2>1. mem = [view |-> mem.view, tracker |-> mem.tracker, alerts |-> mem.alerts,
                planned |-> mem.planned]
    BY <1>1, MemoryFields
  <2>2. QED BY <1>3, <2>1
<1>5. /\ mem'.planned = mem.planned \cup rows
      /\ mem' = [view |-> mem.view, tracker |-> mem.tracker, alerts |-> AlertsAfter(mem.alerts, t),
                 planned |-> mem'.planned]
  <2> HIDE DEF rows
  <2>1. QED BY <1>4
<1>8. UNCHANGED <<file, mode, runs, line, stage, logical, db>>
  BY DEF EmitStored
<1>9. t = Head(emitting) /\ emitting' = Tail(emitting)
  BY DEF EmitStored, t
<1>10. /\ emitting \in Seq(ConditionTransition) /\ emitting # <<>>
       /\ mem'.planned = mem.planned \cup PlannedFor(mem, t)
  BY <1>1, <1>5
<1>6. CASE AlertTransitions(mem.alerts, t) = <<>>
  <2>1. rows = {}
    BY <1>6 DEF PlannedFor
  <2>2. work' = work
    BY <1>3, <1>6 DEF StoredFor
  <2>3. \A a : ~BringsOpening(mem.alerts, t, a) /\ ~BringsRecovery(mem.alerts, t, a)
    <3>1. \A a : AlertTransitions(mem.alerts, t) # <<a>>
      BY <1>6
    <3>2. QED BY <1>1, <1>2, <3>1, Brought
  <2>4. mem'.planned = mem.planned
    <3> HIDE DEF rows
    <3>1. QED BY <1>5, <2>1
  <2>5. QED BY <1>2, <1>5, <1>8, <1>9, <1>10, <2>1, <2>2, <2>3, <2>4
<1>7. ASSUME NEW a \in AlertTransition, AlertTransitions(mem.alerts, t) = <<a>>,
             BringsOpening(mem.alerts, t, a) \/ BringsRecovery(mem.alerts, t, a)
      PROVE  /\ Stores(a, t.rule, t.at) /\ rows = Planned(mem.planned, a, t.rule)
             /\ mem'.planned = mem.planned \cup Planned(mem.planned, a, t.rule)
  <2>1. rows = Planned(mem.planned, a, t.rule)
    BY <1>7 DEF PlannedFor
  <2>2. ~Fails(a, t.rule)
    BY <1>3, <1>7 DEF EmissionFails
  <2>3. work' = [work EXCEPT !.generations = GenerationsAfter(a, t.at),
                             !.transitions = work.transitions \cup {Row(a)},
                             !.intents = IntentsAfter(Planned(mem.planned, a, t.rule))]
    <3>1. Head(AlertTransitions(mem.alerts, t)) = a /\ AlertTransitions(mem.alerts, t) # <<>>
      BY <1>7
    <3>2. QED BY <1>3, <3>1 DEF StoredFor
  <2>4. work = [lines |-> work.lines, processed |-> work.processed, pointer |-> work.pointer,
                generations |-> work.generations, transitions |-> work.transitions,
                intents |-> work.intents]
    BY <1>1, TablesFields
  <2>5. QED BY <1>5, <2>1, <2>2, <2>3, <2>4 DEF Stores
<1> HIDE DEF rows
<1>11. rows = PlannedFor(mem, t)
  BY DEF rows
<1>12. QED BY <1>1, <1>2, <1>5, <1>6, <1>7, <1>8, <1>9, <1>10, <1>11, Brought

LEMMA StoresType ==
    ASSUME IsTables(work), NEW a \in AlertTransition, NEW r, NEW at \in Nat, Stores(a, r, at)
    PROVE  IsTables(work)'
<1> DEFINE G == GenerationsAfter(a, at)
           g == Generation(a)
           I == IntentsAfter(Planned(mem.planned, a, r))
<1>1. /\ a.series \in Series /\ a.generation \in Nat /\ a.kind \in {"open", "recovery"}
  BY DEF AlertTransition, Kinds
<1>2. g \in Series \X Nat /\ Row(a) \in AlertRow
  BY <1>1 DEF Generation, Row, AlertRow, Kinds
<1>3. a.kind = "recovery" => g \in DOMAIN work.generations
  BY DEF Stores, Fails, Conflicts
<1>4. /\ DOMAIN G = DOMAIN work.generations \cup {g}
      /\ \A h \in DOMAIN G : h # g => G[h] = work.generations[h]
      /\ a.kind = "open" => G[g] = [status |-> "open", openedAt |-> at, recoveredAt |-> Unset]
      /\ a.kind # "open" => G[g] = [work.generations[g] EXCEPT !.status = "recovered",
                                                               !.recoveredAt = at]
  BY DEF GenerationsAfter
<1>5. /\ work.generations \in [DOMAIN work.generations -> GenerationRow]
      /\ DOMAIN work.generations \subseteq Series \X Nat
  BY TablesFields
<1>6. G[g] \in GenerationRow
  <2>1. a.kind = "open" => G[g] \in GenerationRow
    BY <1>4 DEF GenerationRow, Unset
  <2>2. a.kind # "open" => work.generations[g] \in GenerationRow
    BY <1>1, <1>3, <1>5
  <2>3. \A x \in GenerationRow :
           [x EXCEPT !.status = "recovered", !.recoveredAt = at] \in GenerationRow
    BY DEF GenerationRow
  <2>4. QED BY <1>4, <2>1, <2>2, <2>3
<1>7. G = [h \in DOMAIN G |-> G[h]]
  BY DEF GenerationsAfter
<1> HIDE DEF G, g
<1>8. G \in [DOMAIN G -> GenerationRow] /\ DOMAIN G \subseteq Series \X Nat
  BY <1>2, <1>4, <1>5, <1>6, <1>7
<1>9. Planned(mem.planned, a, r) \subseteq AlertRow
  BY <1>2 DEF Planned
<1>10. /\ work.intents \in [DOMAIN work.intents -> {"pending", "delivered"}]
       /\ DOMAIN work.intents \subseteq AlertRow
  BY TablesFields
<1>11. I \in [DOMAIN I -> {"pending", "delivered"}] /\ DOMAIN I \subseteq AlertRow
  <2>1. DOMAIN I = DOMAIN work.intents \cup Planned(mem.planned, a, r)
    BY DEF IntentsAfter
  <2>2. I \in [DOMAIN work.intents \cup Planned(mem.planned, a, r) -> {"pending", "delivered"}]
    BY <1>10 DEF IntentsAfter, StateAfterDelivery
  <2> HIDE DEF I
  <2>3. QED BY <1>9, <1>10, <2>1, <2>2
<1>12. /\ work.lines \in SUBSET Nat /\ work.processed \in SUBSET Nat
       /\ work.pointer \in [Views!Kinds -> [Subjects -> [row : Nat, at : Nat]]]
       /\ work.transitions \cup {Row(a)} \in SUBSET AlertRow
  BY <1>2, TablesFields
<1> HIDE DEF I
<1>13. IsTables([lines |-> work.lines, processed |-> work.processed, pointer |-> work.pointer,
                 generations |-> G, transitions |-> work.transitions \cup {Row(a)}, intents |-> I])
  BY <1>8, <1>11, <1>12, TablesMade
<1>14. work' = [lines |-> work.lines, processed |-> work.processed, pointer |-> work.pointer,
                generations |-> G, transitions |-> work.transitions \cup {Row(a)}, intents |-> I]
  BY DEF Stores, G, I
<1>15. QED BY <1>13, <1>14 DEF IsTables

-----------------------------------------------------------------------------
(* Types, and where the open transaction stands.                           *)

LEMMA EmptyTablesType == IsTables(EmptyTables)
<1> DEFINE pt == [k \in Views!Kinds |-> [s \in Subjects |-> Views!NoRow]]
<1>1. pt \in [Views!Kinds -> [Subjects -> [row : Nat, at : Nat]]]
  BY DEF Views!NoRow, Views!Unset
<1>2. \A S, T : << >> \in [DOMAIN << >> -> T] /\ DOMAIN << >> \subseteq S
  OBVIOUS
<1> HIDE DEF pt
<1>3. IsTables([lines |-> {}, processed |-> {}, pointer |-> pt, generations |-> << >>,
                transitions |-> {}, intents |-> << >>])
  BY <1>1, <1>2 DEF IsTables
<1>4. QED BY <1>3 DEF EmptyTables, pt

LEMMA InitTransactionInv == Init => TransactionInv
<1>1. SUFFICES ASSUME Init PROVE TransactionInv
  OBVIOUS
<1>2. /\ mem = EmptyMemory /\ work = EmptyTables /\ db = EmptyTables /\ file = <<>> /\ emitting = <<>>
      /\ mode = "stopped" /\ runs = 0 /\ line = 1 /\ stage = "none" /\ logical = 0
  BY <1>1 DEF Init, Unset
<1>3. mem \in Memory /\ IsTables(work) /\ IsTables(db)
  BY <1>2, EmptyMemoryType, EmptyTablesType, Zenon
<1>4. /\ file \in Seq(Evidence \cup {Malformed}) /\ emitting \in Seq(ConditionTransition)
  BY <1>2, EmptySeq, Zenon
<1>5. line <= Len(file) + 1
  BY <1>2
<1>6. TypeOK
  BY <1>2, <1>3, <1>4 DEF TypeOK
<1>7. QED BY <1>2, <1>5, <1>6 DEF TransactionInv

LEMMA StartTransactionInv ==
    ASSUME TransactionInv, Start
    PROVE  TransactionInv'
<1>1. stage = "none" /\ file \in Seq(Evidence \cup {Malformed})
  BY DEF TransactionInv, TypeOK, Start
<1>2. Len(file) \in Nat
  BY <1>1, LenProperties
<1>3. mem' \in Memory /\ IsTables(work)' /\ IsTables(db)'
  BY EmptyMemoryType DEF Start, TransactionInv, TypeOK, IsTables
<1>4. TypeOK'
  BY <1>3 DEF Start, TransactionInv, TypeOK, Unset
<1>5. QED BY <1>1, <1>2, <1>4 DEF Start, TransactionInv

\* Whatever ends a run leaves the committed tables.
LEMMA StoppedTransactionInv ==
    ASSUME TransactionInv, Stopped, file' \in Seq(Evidence \cup {Malformed}),
           Len(file) <= Len(file')
    PROVE  TransactionInv'
<1>1. mem' \in Memory /\ IsTables(work)' /\ IsTables(db)'
  BY EmptyMemoryType DEF Stopped, TransactionInv, TypeOK, IsTables
<1>2. emitting' \in Seq(ConditionTransition)
  BY EmptySeq DEF Stopped
<1>3. TypeOK'
  BY <1>1, <1>2 DEF Stopped, TransactionInv, TypeOK
<1>4. Len(file) \in Nat /\ Len(file') \in Nat /\ line \in Nat
  BY LenProperties DEF TransactionInv, TypeOK
<1>5. line' <= Len(file') + 1
  BY <1>4 DEF Stopped, TransactionInv
<1>6. QED BY <1>3, <1>5 DEF Stopped, TransactionInv

LEMMA DecodeFailsKeepsFile ==
    ASSUME TransactionInv, DecodeFails
    PROVE  file' \in Seq(Evidence \cup {Malformed}) /\ Len(file) <= Len(file')
<1>1. file \in Seq(Evidence \cup {Malformed}) /\ Len(file) \in Nat
  BY LenProperties DEF TransactionInv, TypeOK
<1>2. file' = file \/ file' = Append(file, Malformed)
  BY DEF DecodeFails
<1>3. QED BY <1>1, <1>2, AppendProperties

\* The line an admission reads is one of the file, and it is left in the file.
LEMMA AdmitReads ==
    ASSUME TransactionInv, NEW e \in Evidence, Admit(e)
    PROVE  /\ file' \in Seq(Evidence \cup {Malformed})
           /\ line \in DOMAIN file' /\ line <= Len(file') /\ file'[line] = e
           /\ Len(file') \in Nat
<1>1. file \in Seq(Evidence \cup {Malformed}) /\ Len(file) \in Nat /\ DOMAIN file = 1 .. Len(file)
  BY LenProperties DEF TransactionInv, TypeOK
<1>2. line \in Nat \ {0} /\ line <= Len(file) + 1
  BY DEF TransactionInv, TypeOK
<1>3. CASE line <= Len(file)
  BY <1>1, <1>2, <1>3 DEF Admit
<1>4. CASE ~(line <= Len(file))
  <2>1. file' = Append(file, e) /\ line = Len(file) + 1 /\ e \in Evidence \cup {Malformed}
    BY <1>1, <1>2, <1>4 DEF Admit
  <2>2. /\ file' \in Seq(Evidence \cup {Malformed}) /\ Len(file') = Len(file) + 1
        /\ file'[Len(file) + 1] = e
    BY <1>1, <2>1, AppendProperties
  <2>3. DOMAIN file' = 1 .. Len(file')
    BY <2>2, LenProperties
  <2>4. QED BY <1>1, <2>1, <2>2, <2>3
<1>5. QED BY <1>3, <1>4

LEMMA AdmitTransactionInv ==
    ASSUME TransactionInv, NEW e \in Evidence, Admit(e)
    PROVE  TransactionInv'
<1>1. /\ stage = "none" /\ work = db /\ emitting = <<>> /\ mode = "running"
      /\ UNCHANGED <<mode, runs, emitting, mem, db>>
  BY DEF Admit, At, TransactionInv
<1>2. e.at \in Nat
  BY ReplayEvidence
<1>3. /\ logical' \in Nat /\ runs' \in Nat /\ mem' \in Memory
      /\ mode' \in {"stopped", "running", "ended"} /\ emitting' \in Seq(ConditionTransition)
  BY <1>1, <1>2 DEF Admit, TransactionInv, TypeOK
<1>4. IsTables(db) /\ IsTables(db)'
  BY <1>1 DEF TransactionInv, TypeOK, IsTables
<1>5. line \in Nat \ {0}
  BY DEF TransactionInv, TypeOK
<1>6. CASE Inserted(line)
  <2>1. /\ stage' = "admitted" /\ line' = line
        /\ work' = [db EXCEPT !.lines = db.lines \cup {line}]
    BY <1>6 DEF Admit
  <2>2. work' = [lines |-> db.lines \cup {line}, processed |-> db.processed,
                 pointer |-> db.pointer, generations |-> db.generations,
                 transitions |-> db.transitions, intents |-> db.intents]
    <3>1. db = [lines |-> db.lines, processed |-> db.processed,
                 pointer |-> db.pointer, generations |-> db.generations,
                 transitions |-> db.transitions, intents |-> db.intents]
      BY <1>4, TablesFields
    <3>2. QED BY <2>1, <3>1
  <2>3. IsTables([lines |-> db.lines \cup {line}, processed |-> db.processed,
                 pointer |-> db.pointer, generations |-> db.generations,
                 transitions |-> db.transitions, intents |-> db.intents])
    BY <1>4, <1>5, TablesFields, TablesMade
  <2>4. IsTables(work)'
    BY <2>2, <2>3 DEF IsTables
  <2>5. TypeOK'
    BY <1>3, <1>4, <1>5, <2>1, <2>4, AdmitReads DEF TypeOK
  <2>6. work'.lines = db.lines \cup {line} /\ work'.processed = db.processed
    BY <2>2
  <2>7. line' <= Len(file') + 1
    BY <1>5, <2>1, AdmitReads
  <2>8. QED BY <1>1, <1>6, <2>1, <2>5, <2>6, <2>7, AdmitReads DEF TransactionInv, Inserted
<1>7. CASE ~Inserted(line)
  <2>1. stage' = stage /\ line' = line + 1 /\ work' = work
    BY <1>7 DEF Admit, NextLine
  <2>2. IsTables(work)'
    BY <1>1, <1>4, <2>1 DEF IsTables
  <2>3. TypeOK'
    BY <1>1, <1>3, <1>4, <1>5, <2>1, <2>2, AdmitReads DEF TypeOK
  <2>4. line' <= Len(file') + 1
    BY <1>5, <2>1, AdmitReads
  <2>5. QED BY <1>1, <2>1, <2>3, <2>4 DEF TransactionInv
<1>8. QED BY <1>6, <1>7


\* A step inside an open transaction that leaves the file, the committed tables, the
\* lines of the work and the run's place, and types what it changes.
LEMMA InsideTransactionInv ==
    ASSUME TransactionInv, mode = "running", stage # "none", stage' # "none",
           UNCHANGED <<file, mode, runs, line, logical, db>>,
           stage' \in {"none", "admitted", "advanced", "built", "applied"},
           emitting' \in Seq(ConditionTransition), mem' \in Memory, IsTables(work)',
           work'.lines = work.lines, work'.processed = work.processed
    PROVE  TransactionInv'
<1>1. IsTables(db)'
  BY DEF TransactionInv, TypeOK, IsTables
<1>2. TypeOK'
  BY <1>1 DEF TransactionInv, TypeOK
<1>3. QED BY <1>2 DEF TransactionInv

LEMMA FireDueTransactionInv ==
    ASSUME TransactionInv, FireDue
    PROVE  TransactionInv'
<1>1. mem \in Memory /\ logical \in Nat /\ IsTables(work)
  BY DEF TransactionInv, TypeOK
<1>2. mem.tracker \in [Rules -> [Subjects -> Tracker]]
  BY <1>1, MemoryFields
<1>3. mem' = [mem EXCEPT !.tracker = Drained(mem.tracker, logical)]
  BY <1>1, MemoryFields DEF FireDue
<1>4. Drained(mem.tracker, logical) \in [Rules -> [Subjects -> Tracker]]
  BY <1>1, <1>2, DrainedType
<1>5. mem' \in Memory
  BY <1>1, <1>3, <1>4, Zenon DEF Memory
<1>6. emitting' \in Seq(ConditionTransition)
  BY <1>1, <1>2, FiredByType DEF FireDue
<1>7. IsTables(work)' /\ work' = work
  BY <1>1 DEF FireDue, IsTables
<1>8. QED BY <1>5, <1>6, <1>7, InsideTransactionInv DEF FireDue, At

LEMMA EmitStoredMemory ==
    ASSUME TypeOK, EmitStored
    PROVE  mem' \in Memory /\ emitting' \in Seq(ConditionTransition) /\ IsTables(work)'
<1>1. PICK t \in ConditionTransition :
             /\ mem' = [view |-> mem.view, tracker |-> mem.tracker, alerts |-> AlertsAfter(mem.alerts, t),
                        planned |-> mem'.planned]
             /\ emitting' \in Seq(ConditionTransition)
             /\ \/ work' = work /\ mem'.planned = mem.planned
                \/ \E a \in AlertTransition :
                     /\ Stores(a, t.rule, t.at)
                     /\ mem'.planned = mem.planned \cup Planned(mem.planned, a, t.rule)
  BY EmitSteps
<1>2. mem \in Memory /\ IsTables(work)
  BY DEF TypeOK
<1>3. AlertsAfter(mem.alerts, t) \in AlertMemory
  BY <1>2, AlertsAfterType
<1>4. t.at \in Nat
  BY DEF ConditionTransition
<1>5. ASSUME NEW a \in AlertTransition, Stores(a, t.rule, t.at),
             mem'.planned = mem.planned \cup Planned(mem.planned, a, t.rule)
      PROVE  IsTables(work)' /\ mem'.planned \subseteq AlertRow
  <2>1. Row(a) \in AlertRow
    BY DEF Row, AlertRow, AlertTransition
  <2>2. mem'.planned \subseteq AlertRow
    BY <1>2, <1>5, <2>1, MemoryFields DEF Planned
  <2>3. QED BY <1>2, <1>4, <1>5, <2>2, StoresType
<1>6. work' = work => IsTables(work)'
  BY <1>2 DEF IsTables
<1>7. IsTables(work)' /\ mem'.planned \subseteq AlertRow
  BY <1>1, <1>2, <1>5, <1>6, MemoryFields
<1>8. mem.view \in [Views!Kinds -> [Subjects -> Views!View]]
      /\ mem.tracker \in [Rules -> [Subjects -> Tracker]]
  BY <1>2, MemoryFields
<1>9. [view |-> mem.view, tracker |-> mem.tracker, alerts |-> AlertsAfter(mem.alerts, t),
       planned |-> mem'.planned] \in Memory
  BY <1>3, <1>7, <1>8 DEF Memory, AlertMemory
<1>10. mem' \in Memory
  BY <1>1, <1>9
<1>11. QED BY <1>1, <1>7, <1>10

\* emit never runs outside a transaction, nor touches the lines.
LEMMA EmitStoredInside ==
    ASSUME TransactionInv, EmitStored
    PROVE  /\ mode = "running" /\ stage # "none"
           /\ work'.lines = work.lines /\ work'.processed = work.processed
           /\ work'.pointer = work.pointer
<1>1. mode = "running" /\ stage # "none"
  BY DEF TransactionInv, EmitStored, Emitting
<1>2. TypeOK
  BY DEF TransactionInv
<1>3. work' = work \/ \E a, r, at : Stores(a, r, at)
  BY <1>2, EmitSteps
<1>4. QED BY <1>1, <1>3 DEF Stores

LEMMA EmitStoredTransactionInv ==
    ASSUME TransactionInv, EmitStored
    PROVE  TransactionInv'
<1>1. TypeOK
  BY DEF TransactionInv
<1>2. mem' \in Memory /\ emitting' \in Seq(ConditionTransition) /\ IsTables(work)'
  BY <1>1, EmitStoredMemory
<1>3. /\ UNCHANGED <<file, mode, runs, line, stage, logical, db>>
  BY DEF EmitStored
<1>4. stage' \in {"none", "admitted", "advanced", "built", "applied"}
  BY <1>1, <1>3 DEF TypeOK
<1>5. QED BY <1>2, <1>3, <1>4, EmitStoredInside, InsideTransactionInv

\* The event a transaction is about.
LEMMA LineRead ==
    ASSUME TransactionInv, stage # "none"
    PROVE  /\ file[line] \in Evidence /\ file[line].kind \in Views!Kinds
           /\ file[line].subject \in Subjects /\ file[line].at \in Nat
           /\ file[line].since \in Nat /\ file[line].holds \in BOOLEAN
BY ReplayEvidence DEF TransactionInv

LEMMA BuiltType ==
    ASSUME NEW v \in Views!View, NEW e \in Evidence, NEW n \in Nat
    PROVE  Views!Built(v, e, n) \in Views!View
<1>1. v.since \in Nat
  BY DEF Views!View
<1>2. e.at \in Nat /\ e.holds \in BOOLEAN /\ e.since \in Nat
  BY ReplayEvidence
<1>3. Views!Candidate(v, e, n) \in Views!View
  BY <1>1, <1>2 DEF Views!Candidate, Views!KnownViolationSince, Views!View, Views!Unset
<1>4. QED BY <1>3 DEF Views!Built

\* What BuildView changes, one view and one row.
LEMMA BuildSteps ==
    ASSUME TransactionInv, BuildView
    PROVE  LET e == file[line] IN
           /\ mem' = [mem EXCEPT !.view =
                        [mem.view EXCEPT ![e.kind] = [mem.view[e.kind] EXCEPT ![e.subject] =
                           Views!Built(mem.view[e.kind][e.subject], e, line)]]]
           /\ work' = [work EXCEPT !.pointer =
                        [work.pointer EXCEPT ![e.kind] = [work.pointer[e.kind] EXCEPT ![e.subject] =
                           Views!Moved(work.pointer[e.kind][e.subject], line, e.at)]]]
<1>1. mem \in Memory /\ IsTables(work) /\ stage # "none"
  BY DEF TransactionInv, TypeOK, BuildView, At
<1>2. file[line].kind \in Views!Kinds /\ file[line].subject \in Subjects
  BY <1>1, LineRead
<1>3. /\ mem = [view |-> mem.view, tracker |-> mem.tracker, alerts |-> mem.alerts,
                planned |-> mem.planned]
      /\ mem.view \in [Views!Kinds -> [Subjects -> Views!View]]
  BY <1>1, MemoryFields
<1>4. /\ work.pointer \in [Views!Kinds -> [Subjects -> [row : Nat, at : Nat]]]
      /\ work = [lines |-> work.lines, processed |-> work.processed, pointer |-> work.pointer,
                generations |-> work.generations, transitions |-> work.transitions,
                intents |-> work.intents]
  BY <1>1, TablesFields
<1>5. QED BY <1>2, <1>3, <1>4 DEF BuildView

LEMMA BuildViewTransactionInv ==
    ASSUME TransactionInv, BuildView
    PROVE  TransactionInv'
<1> DEFINE e == file[line]
           v == Views!Built(mem.view[e.kind][e.subject], e, line)
           p == Views!Moved(work.pointer[e.kind][e.subject], line, e.at)
           views == [mem.view EXCEPT ![e.kind] = [mem.view[e.kind] EXCEPT ![e.subject] = v]]
           pointers == [work.pointer EXCEPT ![e.kind] =
                          [work.pointer[e.kind] EXCEPT ![e.subject] = p]]
<1>1. mem \in Memory /\ IsTables(work) /\ stage # "none" /\ line \in Nat
  BY DEF TransactionInv, TypeOK, BuildView, At
<1>2. e \in Evidence /\ e.kind \in Views!Kinds /\ e.subject \in Subjects /\ e.at \in Nat
  BY <1>1, LineRead
<1>3. mem' = [mem EXCEPT !.view = views] /\ work' = [work EXCEPT !.pointer = pointers]
  BY BuildSteps
<1>4. /\ mem.view \in [Views!Kinds -> [Subjects -> Views!View]]
      /\ work.pointer \in [Views!Kinds -> [Subjects -> [row : Nat, at : Nat]]]
  BY <1>1, MemoryFields, TablesFields
<1>5. v \in Views!View
  <2>1. mem.view[e.kind][e.subject] \in Views!View
    BY <1>2, <1>4
  <2>2. QED BY <1>1, <1>2, <2>1, BuiltType
<1>6. p \in [row : Nat, at : Nat]
  <2>1. work.pointer[e.kind][e.subject] \in [row : Nat, at : Nat]
    BY <1>2, <1>4
  <2>2. QED BY <1>1, <1>2, <2>1 DEF Views!Moved
<1> HIDE DEF e, v, p
<1>7. views \in [Views!Kinds -> [Subjects -> Views!View]]
  BY <1>2, <1>4, <1>5
<1>8. pointers \in [Views!Kinds -> [Subjects -> [row : Nat, at : Nat]]]
  BY <1>2, <1>4, <1>6
<1> HIDE DEF views, pointers
<1>9. mem' \in Memory
  BY <1>1, <1>3, <1>7, Zenon DEF Memory
<1>10. work' = [lines |-> work.lines, processed |-> work.processed, pointer |-> pointers,
                generations |-> work.generations, transitions |-> work.transitions,
                intents |-> work.intents]
  <2>1. work = [lines |-> work.lines, processed |-> work.processed, pointer |-> work.pointer,
                generations |-> work.generations, transitions |-> work.transitions,
                intents |-> work.intents]
    BY <1>1, TablesFields
  <2>2. QED BY <1>3, <2>1
<1>11. IsTables([lines |-> work.lines, processed |-> work.processed, pointer |-> pointers,
                generations |-> work.generations, transitions |-> work.transitions,
                intents |-> work.intents])
  BY <1>1, <1>8, TablesFields, TablesMade
<1>12. IsTables(work)'
  BY <1>10, <1>11 DEF IsTables
<1>13. emitting' \in Seq(ConditionTransition)
  BY DEF BuildView, TransactionInv, TypeOK
<1>14. work'.lines = work.lines /\ work'.processed = work.processed
  BY <1>10
<1>15. QED BY <1>9, <1>12, <1>13, <1>14, InsideTransactionInv DEF BuildView, At


\* What the line's observations change: the trackers of its subject.
LEMMA EvaluateSteps ==
    ASSUME TransactionInv, EvaluateAndApply
    PROVE  LET e == file[line] IN
           /\ mem' = [mem EXCEPT !.tracker = [r \in Rules |->
                        [mem.tracker[r] EXCEPT ![e.subject] = Applied(mem, e, logical)[r].tracker]]]
           /\ emitting' = Seqs!FlattenSeq([i \in DOMAIN RuleOrder |->
                             Applied(mem, e, logical)[RuleOrder[i]].fired])
<1>1. mem \in Memory
  BY DEF TransactionInv, TypeOK
<1>2. mem = [view |-> mem.view, tracker |-> mem.tracker, alerts |-> mem.alerts,
             planned |-> mem.planned]
  BY <1>1, MemoryFields
<1>3. QED BY <1>2 DEF EvaluateAndApply

LEMMA EvaluateTransactionInv ==
    ASSUME TransactionInv, EvaluateAndApply
    PROVE  TransactionInv'
<1> DEFINE e == file[line]
           trackers == [r \in Rules |->
                          [mem.tracker[r] EXCEPT ![e.subject] = Applied(mem, e, logical)[r].tracker]]
<1>1. mem \in Memory /\ logical \in Nat /\ IsTables(work) /\ stage # "none"
  BY DEF TransactionInv, TypeOK, EvaluateAndApply, At
<1>2. e \in Evidence /\ e.subject \in Subjects
  BY <1>1, LineRead
<1>3. mem' = [mem EXCEPT !.tracker = trackers]
  BY EvaluateSteps
<1>4. emitting' \in Seq(ConditionTransition)
  BY <1>1, <1>2, EvaluateSteps, EvaluatedType
<1>5. mem.tracker \in [Rules -> [Subjects -> Tracker]]
  BY <1>1, MemoryFields
<1> HIDE DEF e
<1>6. trackers \in [Rules -> [Subjects -> Tracker]]
  <2>1. ASSUME NEW r \in Rules
        PROVE  [mem.tracker[r] EXCEPT ![e.subject] = Applied(mem, e, logical)[r].tracker]
                 \in [Subjects -> Tracker]
    <3>1. Applied(mem, e, logical)[r].tracker \in Tracker
      BY <1>1, <1>2, AppliedType
    <3>2. mem.tracker[r] \in [Subjects -> Tracker]
      BY <1>5
    <3>3. QED BY <1>2, <3>1, <3>2
  <2>2. QED BY <2>1
<1> HIDE DEF trackers
<1>7. mem' \in Memory
  BY <1>1, <1>3, <1>6, Zenon DEF Memory
<1>8. IsTables(work)' /\ work' = work
  BY <1>1 DEF EvaluateAndApply, IsTables
<1>9. QED BY <1>4, <1>7, <1>8, InsideTransactionInv DEF EvaluateAndApply, At

LEMMA CommitSteps ==
    ASSUME TransactionInv, Commit
    PROVE  /\ db' = [lines |-> work.lines, processed |-> work.processed \cup {line},
                     pointer |-> work.pointer, generations |-> work.generations,
                     transitions |-> work.transitions, intents |-> work.intents]
           /\ work' = db' /\ IsTables(db)' /\ IsTables(work)'
           /\ work.lines = db.lines \cup {line} /\ line \notin db.lines
           /\ work.processed = db.processed
<1>1. IsTables(work) /\ line \in Nat /\ stage # "none"
  BY DEF TransactionInv, TypeOK, Commit, At
<1>2. work = [lines |-> work.lines, processed |-> work.processed, pointer |-> work.pointer,
                generations |-> work.generations, transitions |-> work.transitions,
                intents |-> work.intents]
  BY <1>1, TablesFields
<1>3. db' = [lines |-> work.lines, processed |-> work.processed \cup {line},
             pointer |-> work.pointer, generations |-> work.generations,
             transitions |-> work.transitions, intents |-> work.intents] /\ work' = db'
  BY <1>2 DEF Commit
<1>4. IsTables([lines |-> work.lines, processed |-> work.processed \cup {line},
             pointer |-> work.pointer, generations |-> work.generations,
             transitions |-> work.transitions, intents |-> work.intents])
  <2>1. work.processed \cup {line} \in SUBSET Nat
    BY <1>1, TablesFields
  <2>2. QED BY <1>1, <2>1, TablesFields, TablesMade
<1>5. IsTables(db)' /\ IsTables(work)'
  BY <1>3, <1>4 DEF IsTables
<1>6. QED BY <1>1, <1>3, <1>5 DEF TransactionInv

LEMMA CommitTransactionInv ==
    ASSUME TransactionInv, Commit
    PROVE  TransactionInv'
<1>1. file \in Seq(Evidence \cup {Malformed}) /\ line \in Nat /\ line \in DOMAIN file
  BY DEF TransactionInv, TypeOK, Commit, At
<1>2. Len(file) \in Nat /\ line <= Len(file)
  BY <1>1, LenProperties
<1>3. /\ UNCHANGED <<file, mode, runs, emitting, logical, mem>>
      /\ stage' = "none" /\ line' = line + 1 /\ emitting = <<>> /\ mode = "running"
  BY DEF Commit, NextLine, At
<1>4. TypeOK'
  BY <1>1, <1>3, CommitSteps DEF TransactionInv, TypeOK
<1>5. line' <= Len(file') + 1
  BY <1>1, <1>2, <1>3
<1>6. QED BY <1>3, <1>4, <1>5, CommitSteps DEF TransactionInv

LEMMA EndOfFileTransactionInv ==
    ASSUME TransactionInv, EndOfFile
    PROVE  TransactionInv'
<1>1. mem \in Memory /\ logical \in Nat /\ IsTables(work) /\ IsTables(db)
  BY DEF TransactionInv, TypeOK
<1>2. mem.tracker \in [Rules -> [Subjects -> Tracker]]
  BY <1>1, MemoryFields
<1>3. mem' = [mem EXCEPT !.tracker = Drained(mem.tracker, logical)]
  BY <1>1, MemoryFields DEF EndOfFile
<1>4. Drained(mem.tracker, logical) \in [Rules -> [Subjects -> Tracker]]
  BY <1>1, <1>2, DrainedType
<1>5. mem' \in Memory
  BY <1>1, <1>3, <1>4, Zenon DEF Memory
<1>6. IsTables(work)' /\ IsTables(db)'
  BY <1>1 DEF EndOfFile, IsTables
<1>7. TypeOK'
  BY <1>5, <1>6 DEF EndOfFile, TransactionInv, TypeOK
<1>8. QED BY <1>7 DEF EndOfFile, At, TransactionInv

LEMMA UnchangedTransactionInv ==
    ASSUME TransactionInv, UNCHANGED vars
    PROVE  TransactionInv'
<1>1. IsTables(work)' /\ IsTables(db)'
  BY DEF TransactionInv, TypeOK, IsTables, vars
<1>2. TypeOK'
  BY <1>1 DEF TransactionInv, TypeOK, vars
<1>3. QED BY <1>2 DEF TransactionInv, vars

\* Stop and the two failures end the run in the same way.
LEMMA StopsTransactionInv ==
    ASSUME TransactionInv, Stop \/ DecodeFails \/ EmitFails
    PROVE  TransactionInv' /\ Stopped
<1>1. file \in Seq(Evidence \cup {Malformed}) /\ Len(file) <= Len(file)
  BY LenProperties DEF TransactionInv, TypeOK
<1>2. Stopped
  BY DEF Stop, DecodeFails, EmitFails
<1>3. file' \in Seq(Evidence \cup {Malformed}) /\ Len(file) <= Len(file')
  BY <1>1, DecodeFailsKeepsFile DEF Stop, EmitFails
<1>4. QED BY <1>2, <1>3, StoppedTransactionInv

LEMMA NextTransactionInv == TransactionInv /\ [Next]_vars => TransactionInv'
<1>1. SUFFICES ASSUME TransactionInv, [Next]_vars PROVE TransactionInv'
  OBVIOUS
<1>2. CASE Start
  BY <1>1, <1>2, StartTransactionInv
<1>3. CASE Stop \/ DecodeFails \/ EmitFails
  BY <1>1, <1>3, StopsTransactionInv
<1>4. ASSUME NEW e \in Evidence, Admit(e) PROVE TransactionInv'
  BY <1>1, <1>4, AdmitTransactionInv
<1>5. CASE FireDue
  BY <1>1, <1>5, FireDueTransactionInv
<1>6. CASE EmitStored
  BY <1>1, <1>6, EmitStoredTransactionInv
<1>7. CASE BuildView
  BY <1>1, <1>7, BuildViewTransactionInv
<1>8. CASE EvaluateAndApply
  BY <1>1, <1>8, EvaluateTransactionInv
<1>9. CASE Commit
  BY <1>1, <1>9, CommitTransactionInv
<1>10. CASE EndOfFile
  BY <1>1, <1>10, EndOfFileTransactionInv
<1>11. CASE UNCHANGED vars
  BY <1>1, <1>11, UnchangedTransactionInv
<1>12. QED
  BY <1>1, <1>2, <1>3, <1>4, <1>5, <1>6, <1>7, <1>8, <1>9, <1>10, <1>11 DEF Next, RunStep

\* Every variable of the replay keeps the shape of what it stands for, so every condition
\* transition that emit stores is one of a rule, a subject and an episode of the two.
THEOREM TypeCorrect == Spec => []TypeOK
<1>1. TransactionInv => TypeOK
  BY DEF TransactionInv
<1>2. QED BY <1>1, InitTransactionInv, NextTransactionInv, PTL DEF Spec

-----------------------------------------------------------------------------
(* Lines are stored whole.                                                 *)

\* Whole, row by row.
WholeRows(T) ==
    /\ \A s \in Series, n \in Nat, k \in Kinds :
         <<s, n, k>> \in T.transitions <=>
            <<s, n>> \in DOMAIN T.generations /\ (k = "open" \/ T.generations[<<s, n>>].status # "open")
    /\ \A s \in Series, n \in Nat, k \in Kinds :
         <<s, n, k>> \in DOMAIN T.intents <=> <<s, n, k>> \in T.transitions /\ k \in NotifyOn[s[1]]
    /\ \A i \in DOMAIN T.intents : T.intents[i] = "delivered"

LEMMA WholeByRows ==
    ASSUME NEW T, IsTables(T)
    PROVE  Whole(T) <=> WholeRows(T)
<1> DEFINE rowsOf(g) == {<<g[1], g[2], "open">>}
                  \cup (IF T.generations[g].status = "open"
                          THEN {} ELSE {<<g[1], g[2], "recovery">>})
           rows == UNION {rowsOf(g) : g \in DOMAIN T.generations}
           asked == {t \in T.transitions : t[3] \in NotifyOn[t[1][1]]}
<1>1. /\ T.transitions \subseteq AlertRow /\ DOMAIN T.intents \subseteq AlertRow
      /\ DOMAIN T.generations \subseteq Series \X Nat
  BY TablesFields
<1>2. \A s \in Series, n \in Nat, k \in Kinds :
         <<s, n, k>> \in rows <=>
            <<s, n>> \in DOMAIN T.generations /\ (k = "open" \/ T.generations[<<s, n>>].status # "open")
  <2>1. TAKE s \in Series, n \in Nat, k \in Kinds
  <2>2. \A g \in DOMAIN T.generations : g = <<g[1], g[2]>>
    BY <1>1
  <2>3. \A g \in DOMAIN T.generations :
           <<s, n, k>> \in rowsOf(g) <=>
              g = <<s, n>> /\ (k = "open" \/ T.generations[<<s, n>>].status # "open")
    BY <2>2 DEF Kinds
  <2> HIDE DEF rowsOf
  <2>4. QED BY <2>3
<1>3. rows \subseteq AlertRow
  <2>1. \A g \in DOMAIN T.generations : rowsOf(g) \subseteq AlertRow
    BY <1>1 DEF AlertRow, Kinds
  <2> HIDE DEF rowsOf
  <2>2. QED BY <2>1
<1>4. \A X, Y \in SUBSET AlertRow :
         X = Y <=> \A s \in Series, n \in Nat, k \in Kinds : <<s, n, k>> \in X <=> <<s, n, k>> \in Y
  <2>1. TAKE X, Y \in SUBSET AlertRow
  <2>2. ASSUME \A s \in Series, n \in Nat, k \in Kinds : <<s, n, k>> \in X <=> <<s, n, k>> \in Y
        PROVE  X = Y
    <3>1. \A x \in AlertRow : x \in X <=> x \in Y
      <4>1. TAKE x \in AlertRow
      <4>2. PICK s \in Series, n \in Nat, k \in Kinds : x = <<s, n, k>>
        BY DEF AlertRow
      <4>3. QED BY <2>2, <4>2
    <3>2. QED BY <3>1
  <2>3. QED BY <2>2
<1>5. asked \subseteq AlertRow
  BY <1>1
<1>6. \A s \in Series, n \in Nat, k \in Kinds :
         <<s, n, k>> \in asked <=> <<s, n, k>> \in T.transitions /\ k \in NotifyOn[s[1]]
  OBVIOUS
<1>7. Undelivered(T) = {} <=> \A i \in DOMAIN T.intents : T.intents[i] = "delivered"
  BY DEF Undelivered
<1>8. Whole(T) <=> T.transitions = rows /\ DOMAIN T.intents = asked /\ Undelivered(T) = {}
  BY DEF Whole
<1> HIDE DEF rows, asked
<1>9. T.transitions = rows <=> \A s \in Series, n \in Nat, k \in Kinds :
         <<s, n, k>> \in T.transitions <=> <<s, n, k>> \in rows
  BY <1>1, <1>3, <1>4
<1>10. DOMAIN T.intents = asked <=> \A s \in Series, n \in Nat, k \in Kinds :
         <<s, n, k>> \in DOMAIN T.intents <=> <<s, n, k>> \in asked
  BY <1>1, <1>4, <1>5
<1>11. QED BY <1>2, <1>6, <1>7, <1>8, <1>9, <1>10 DEF WholeRows

\* A generation's row before and after a turn that brings a.
LEMMA StoresRows ==
    ASSUME TypeOK, WholeRows(work), mem.planned \subseteq DOMAIN work.intents,
           NEW t \in ConditionTransition, NEW a \in AlertTransition,
           BringsOpening(mem.alerts, t, a) \/ BringsRecovery(mem.alerts, t, a), Stores(a, t.rule, t.at),
           mem'.planned = mem.planned \cup Planned(mem.planned, a, t.rule)
    PROVE  /\ WholeRows(work') /\ mem'.planned \subseteq DOMAIN work'.intents
           /\ Keeps(work, work')
<1> DEFINE g == <<a.series, a.generation>>
           row == <<a.series, a.generation, a.kind>>
           G == work.generations
           H == GenerationsAfter(a, t.at)
           planned == Planned(mem.planned, a, t.rule)
           I == IntentsAfter(planned)
<1>1. /\ a.series \in Series /\ a.generation \in Nat /\ a.kind \in Kinds
      /\ a.series[1] = t.rule
  BY DEF AlertTransition, BringsOpening, BringsRecovery
<1>2. /\ a.kind = "open" => g \notin DOMAIN G
      /\ a.kind = "recovery" => g \in DOMAIN G
      /\ row \notin work.transitions
  BY DEF Stores, Fails, Conflicts, Generation, Row
<1>3. IsTables(work) /\ G \in [DOMAIN G -> GenerationRow] /\ DOMAIN G \subseteq Series \X Nat
  BY TablesFields DEF TypeOK
<1>4. a.kind = "recovery" => G[g].status = "open" /\ G[g] \in GenerationRow
  BY <1>1, <1>2, <1>3 DEF WholeRows
<1>5. /\ DOMAIN H = DOMAIN G \cup {g}
      /\ \A h \in DOMAIN H : h # g => H[h] = G[h]
      /\ a.kind = "open" => H[g] = [status |-> "open", openedAt |-> t.at, recoveredAt |-> Unset]
      /\ a.kind # "open" => H[g] = [G[g] EXCEPT !.status = "recovered", !.recoveredAt = t.at]
  BY DEF GenerationsAfter, Generation
<1>6. /\ a.kind = "open" => H[g].status = "open"
      /\ a.kind = "recovery" => H[g].status = "recovered" /\ H[g].openedAt = G[g].openedAt
  <2> HIDE DEF H
  <2>1. \A x \in GenerationRow :
           /\ [x EXCEPT !.status = "recovered", !.recoveredAt = t.at].status = "recovered"
           /\ [x EXCEPT !.status = "recovered", !.recoveredAt = t.at].openedAt = x.openedAt
    BY DEF GenerationRow
  <2>2. a.kind = "recovery" => H[g] = [G[g] EXCEPT !.status = "recovered", !.recoveredAt = t.at]
    BY <1>5
  <2>3. a.kind = "open" => H[g].status = "open"
    BY <1>5
  <2> HIDE DEF g
  <2>4. QED BY <1>4, <2>1, <2>2, <2>3
<1>7. row \notin DOMAIN work.intents
  BY <1>1, <1>2 DEF WholeRows
<1>8. planned = IF a.kind \in NotifyOn[a.series[1]] THEN {row} ELSE {}
  BY <1>1, <1>7 DEF Planned, Row
<1>9. /\ DOMAIN I = DOMAIN work.intents \cup planned
      /\ \A i \in DOMAIN I : I[i] = IF i \in DOMAIN work.intents THEN work.intents[i] ELSE "delivered"
  BY DEF IntentsAfter, StateAfterDelivery
<1>10. work' = [lines |-> work.lines, processed |-> work.processed, pointer |-> work.pointer,
                generations |-> H, transitions |-> work.transitions \cup {row}, intents |-> I]
  BY DEF Stores, Row
<1> HIDE DEF H, I, planned
<1>11. /\ work'.generations = H /\ work'.transitions = work.transitions \cup {row}
       /\ work'.intents = I /\ work'.lines = work.lines
  BY <1>10
<1>12. ASSUME NEW s \in Series, NEW n \in Nat, NEW k \in Kinds
       PROVE  <<s, n, k>> \in work'.transitions <=>
                <<s, n>> \in DOMAIN H /\ (k = "open" \/ H[<<s, n>>].status # "open")
  <2>1. <<s, n, k>> \in work.transitions <=>
            <<s, n>> \in DOMAIN G /\ (k = "open" \/ G[<<s, n>>].status # "open")
    BY DEF WholeRows
  <2>2. CASE <<s, n>> = g
    <3>1. s = a.series /\ n = a.generation
      BY <2>2
    <3>2. <<s, n, k>> = row <=> k = a.kind
      BY <3>1
    <3>3. CASE a.kind = "open"
      BY <1>2, <1>5, <1>6, <1>11, <2>1, <2>2, <3>2, <3>3 DEF Kinds
    <3>4. CASE a.kind = "recovery"
      BY <1>2, <1>4, <1>5, <1>6, <1>11, <2>1, <2>2, <3>2, <3>4 DEF Kinds
    <3>5. QED BY <1>1, <3>3, <3>4 DEF Kinds
  <2>3. CASE <<s, n>> # g
    <3>1. <<s, n, k>> # row
      BY <2>3
    <3>2. QED BY <1>5, <1>11, <2>1, <2>3, <3>1
  <2>4. QED BY <2>2, <2>3
<1>13. ASSUME NEW s \in Series, NEW n \in Nat, NEW k \in Kinds
       PROVE  <<s, n, k>> \in DOMAIN I <=> <<s, n, k>> \in work'.transitions /\ k \in NotifyOn[s[1]]
  <2>1. <<s, n, k>> \in DOMAIN work.intents <=> <<s, n, k>> \in work.transitions /\ k \in NotifyOn[s[1]]
    BY DEF WholeRows
  <2>2. <<s, n, k>> = row => s = a.series /\ k = a.kind
    OBVIOUS
  <2>3. QED BY <1>8, <1>9, <1>11, <2>1, <2>2
<1>14. \A i \in DOMAIN I : I[i] = "delivered"
  BY <1>9 DEF WholeRows
<1>15. WholeRows(work')
  BY <1>11, <1>12, <1>13, <1>14 DEF WholeRows
<1>16. mem'.planned \subseteq DOMAIN work'.intents
  BY <1>9, <1>11 DEF planned
<1>17. Keeps(work, work')
  <2>1. \A h \in DOMAIN G : /\ h \in DOMAIN H
                            /\ H[h].openedAt = G[h].openedAt
                            /\ G[h].status = "recovered" => H[h] = G[h]
    BY <1>1, <1>2, <1>4, <1>5, <1>6 DEF Kinds
  <2>2. \A i \in DOMAIN work.intents : i \in DOMAIN I /\ I[i] = work.intents[i]
    BY <1>9
  <2> HIDE DEF g, row
  <2>3. QED BY <1>11, <2>1, <2>2 DEF Keeps
<1>18. QED BY <1>15, <1>16, <1>17


\* What Whole looks at.
SameAlerts(T, U) ==
    T.generations = U.generations /\ T.transitions = U.transitions /\ T.intents = U.intents

LEMMA WholeOfSame ==
    ASSUME NEW T, NEW U, SameAlerts(T, U)
    PROVE  Whole(T) => Whole(U)
BY DEF SameAlerts, Whole, Undelivered

LEMMA KeepsOfSame ==
    ASSUME NEW S, NEW T, NEW U, SameAlerts(T, U), T.lines \subseteq U.lines
    PROVE  Keeps(S, T) => Keeps(S, U)
BY DEF SameAlerts, Keeps

LEMMA KeepsOnward ==
    ASSUME NEW S, NEW T, NEW U, Keeps(S, T), Keeps(T, U)
    PROVE  Keeps(S, U)
<1>1. S.lines \subseteq U.lines /\ S.transitions \subseteq U.transitions
  BY DEF Keeps
<1>2. \A i \in DOMAIN S.intents : i \in DOMAIN U.intents /\ U.intents[i] = S.intents[i]
  BY DEF Keeps
<1>3. \A g \in DOMAIN S.generations :
         /\ g \in DOMAIN U.generations
         /\ U.generations[g].openedAt = S.generations[g].openedAt
         /\ S.generations[g].status = "recovered" => U.generations[g] = S.generations[g]
  <2>1. TAKE g \in DOMAIN S.generations
  <2>2. /\ g \in DOMAIN T.generations
        /\ T.generations[g].openedAt = S.generations[g].openedAt
        /\ S.generations[g].status = "recovered" => T.generations[g] = S.generations[g]
    BY DEF Keeps
  <2>3. /\ g \in DOMAIN U.generations
        /\ U.generations[g].openedAt = T.generations[g].openedAt
        /\ T.generations[g].status = "recovered" => U.generations[g] = T.generations[g]
    BY <2>2 DEF Keeps
  <2>4. QED BY <2>2, <2>3
<1>4. QED BY <1>1, <1>2, <1>3 DEF Keeps

LEMMA KeepsItself == \A T : Keeps(T, T)
BY DEF Keeps

LEMMA InitWhole == Init => WholeInv
<1>1. SUFFICES ASSUME Init PROVE WholeInv
  OBVIOUS
<1>2. /\ mem = EmptyMemory /\ work = EmptyTables /\ db = EmptyTables
  BY <1>1 DEF Init
<1>3. /\ EmptyTables.generations = << >> /\ EmptyTables.transitions = {}
      /\ EmptyTables.intents = << >> /\ EmptyTables.lines = {} /\ EmptyTables.processed = {}
  BY DEF EmptyTables
<1>4. Whole(EmptyTables)
  BY <1>3 DEF Whole, Undelivered
<1>5. EmptyMemory.planned = {}
  BY DEF EmptyMemory
<1>6. TransactionInv
  BY <1>1, InitTransactionInv
<1>7. Whole(work) /\ Whole(db) /\ Keeps(db, work)
  BY <1>2, <1>4, KeepsItself
<1>8. QED BY <1>2, <1>3, <1>5, <1>6, <1>7 DEF WholeInv

\* Memory and tables begin a run, or are left by one, in this way.
LEMMA EndsWhole ==
    ASSUME WholeInv, TransactionInv', mem' = EmptyMemory, db' = db, work' = db
    PROVE  WholeInv'
<1>1. mem'.planned = {}
  BY DEF EmptyMemory
<1>2. Whole(db') /\ Whole(work') /\ Keeps(db', work') /\ db'.processed = db'.lines
  BY KeepsItself DEF WholeInv
<1>3. Whole(db)' /\ Whole(work)' /\ Keeps(db, work)'
  BY <1>2 DEF Whole, Undelivered, Keeps
<1>4. QED BY <1>1, <1>2, <1>3 DEF WholeInv

\* A step that stores no alert.
LEMMA QuietWhole ==
    ASSUME WholeInv, TransactionInv', mem'.planned = mem.planned, db' = db,
           SameAlerts(work, work'), work.lines \subseteq work'.lines
    PROVE  WholeInv'
<1>1. Whole(db') /\ Whole(work') /\ Keeps(db', work') /\ db'.processed = db'.lines
  BY WholeOfSame, KeepsOfSame DEF WholeInv
<1>2. Whole(db)' /\ Whole(work)' /\ Keeps(db, work)'
  BY <1>1 DEF Whole, Undelivered, Keeps
<1>3. mem'.planned \subseteq DOMAIN work'.intents
  BY DEF WholeInv, SameAlerts
<1>4. QED BY <1>1, <1>2, <1>3 DEF WholeInv

LEMMA EmitWhole ==
    ASSUME WholeInv, EmitStored
    PROVE  WholeInv'
<1>1. TransactionInv /\ TransactionInv' /\ TypeOK
  BY EmitStoredTransactionInv DEF WholeInv, TransactionInv
<1>2. db' = db
  BY DEF EmitStored
<1>3. IsTables(work) /\ IsTables(work')
  BY <1>1 DEF TransactionInv, TypeOK, IsTables
<1>4. WholeRows(work) /\ mem.planned \subseteq DOMAIN work.intents
  BY <1>3, WholeByRows DEF WholeInv
<1>5. \/ work' = work /\ mem'.planned = mem.planned
      \/ \E t \in ConditionTransition, a \in AlertTransition :
           /\ BringsOpening(mem.alerts, t, a) \/ BringsRecovery(mem.alerts, t, a)
           /\ Stores(a, t.rule, t.at)
           /\ mem'.planned = mem.planned \cup Planned(mem.planned, a, t.rule)
  BY <1>1, EmitSteps
<1>6. CASE work' = work /\ mem'.planned = mem.planned
  BY <1>1, <1>2, <1>6, QuietWhole DEF SameAlerts
<1>7. ASSUME NEW t \in ConditionTransition, NEW a \in AlertTransition,
             BringsOpening(mem.alerts, t, a) \/ BringsRecovery(mem.alerts, t, a), Stores(a, t.rule, t.at),
             mem'.planned = mem.planned \cup Planned(mem.planned, a, t.rule)
      PROVE  WholeInv'
  <2>1. /\ WholeRows(work') /\ mem'.planned \subseteq DOMAIN work'.intents
        /\ Keeps(work, work')
    BY <1>1, <1>4, <1>7, StoresRows
  <2>2. Whole(work') /\ Keeps(db, work')
    BY <1>3, <2>1, WholeByRows, KeepsOnward DEF WholeInv
  <2>3. Whole(db') /\ Keeps(db', work')
    BY <1>2, <2>2 DEF WholeInv
  <2>4. Whole(db)' /\ Whole(work)' /\ Keeps(db, work)'
    BY <2>2, <2>3 DEF Whole, Undelivered, Keeps
  <2>5. QED BY <1>1, <1>2, <2>1, <2>4 DEF WholeInv
<1>8. QED BY <1>5, <1>6, <1>7

\* What a commit makes stand is what the transaction held.
LEMMA CommitWhole ==
    ASSUME WholeInv, Commit
    PROVE  WholeInv' /\ Keeps(db, db')
<1>1. TransactionInv /\ TransactionInv'
  BY CommitTransactionInv DEF WholeInv
<1>2. /\ SameAlerts(work, db') /\ SameAlerts(work, work')
      /\ db'.lines = work.lines /\ work' = db' /\ db'.processed = db'.lines
  BY <1>1, CommitSteps DEF SameAlerts, WholeInv
<1>3. Whole(db') /\ Whole(work') /\ Keeps(db', work') /\ Keeps(db, db')
  BY <1>2, WholeOfSame, KeepsOfSame, KeepsItself DEF WholeInv
<1>4. Whole(db)' /\ Whole(work)' /\ Keeps(db, work)'
  BY <1>3 DEF Whole, Undelivered, Keeps
<1>5. mem' = mem
  BY DEF Commit
<1>6. QED BY <1>1, <1>2, <1>3, <1>4, <1>5 DEF WholeInv, SameAlerts

\* The steps that neither end a run nor store an alert.
LEMMA QuietSteps ==
    ASSUME TransactionInv,
           \/ \E e \in Evidence : Admit(e)
           \/ FireDue \/ BuildView \/ EvaluateAndApply \/ EndOfFile \/ UNCHANGED vars
    PROVE  /\ mem'.planned = mem.planned /\ mem'.alerts = mem.alerts /\ db' = db
           /\ SameAlerts(work, work') /\ work.lines \subseteq work'.lines
<1>1. mem \in Memory /\ IsTables(work)
  BY DEF TransactionInv, TypeOK
<1>2. mem = [view |-> mem.view, tracker |-> mem.tracker, alerts |-> mem.alerts,
             planned |-> mem.planned]
  BY <1>1, MemoryFields
<1>3. work = [lines |-> work.lines, processed |-> work.processed, pointer |-> work.pointer,
                generations |-> work.generations, transitions |-> work.transitions,
                intents |-> work.intents]
  BY <1>1, TablesFields
<1>4. ASSUME NEW e \in Evidence, Admit(e)
      PROVE  /\ mem'.planned = mem.planned /\ mem'.alerts = mem.alerts /\ db' = db
             /\ SameAlerts(work, work') /\ work.lines \subseteq work'.lines
  <2>1. mem' = mem /\ db' = db /\ work = db
    BY <1>4 DEF Admit, At, TransactionInv
  <2>2. work' = work \/ work' = [work EXCEPT !.lines = work.lines \cup {line}]
    BY <1>4, <2>1 DEF Admit
  <2>3. SameAlerts(work, work') /\ work.lines \subseteq work'.lines
    BY <1>3, <2>2 DEF SameAlerts
  <2>4. QED BY <2>1, <2>3
<1>5. CASE FireDue \/ EndOfFile
  <2>1. mem' = [mem EXCEPT !.tracker = Drained(mem.tracker, logical)]
    BY <1>2, <1>5 DEF FireDue, EndOfFile
  <2>2. mem'.planned = mem.planned /\ mem'.alerts = mem.alerts
    BY <1>2, <2>1
  <2>3. db' = db /\ work' = work
    BY <1>5 DEF FireDue, EndOfFile
  <2>4. QED BY <2>2, <2>3 DEF SameAlerts
<1>6. CASE BuildView
  <2>1. \E v, p : mem' = [mem EXCEPT !.view = v] /\ work' = [work EXCEPT !.pointer = p]
    BY <1>6, BuildSteps
  <2>2. mem'.planned = mem.planned /\ mem'.alerts = mem.alerts
    BY <1>2, <2>1
  <2>3. SameAlerts(work, work') /\ work.lines = work'.lines
    BY <1>3, <2>1 DEF SameAlerts
  <2>4. QED BY <1>6, <2>2, <2>3 DEF BuildView
<1>7. CASE EvaluateAndApply
  <2>1. \E t : mem' = [mem EXCEPT !.tracker = t]
    BY <1>7, EvaluateSteps
  <2>2. mem'.planned = mem.planned /\ mem'.alerts = mem.alerts
    BY <1>2, <2>1
  <2>3. QED BY <1>7, <2>2 DEF EvaluateAndApply, SameAlerts
<1>8. CASE UNCHANGED vars
  BY <1>8 DEF vars, SameAlerts
<1>9. QED BY <1>4, <1>5, <1>6, <1>7, <1>8

LEMMA NextWhole == WholeInv /\ [Next]_vars => WholeInv' /\ Keeps(db, db')
<1>1. SUFFICES ASSUME WholeInv, [Next]_vars PROVE WholeInv' /\ Keeps(db, db')
  OBVIOUS
<1>2. TransactionInv /\ TransactionInv'
  BY <1>1, NextTransactionInv DEF WholeInv
<1>3. CASE Start
  <2>1. mem' = EmptyMemory /\ db' = db /\ work' = db
    BY <1>2, <1>3 DEF Start, TransactionInv
  <2>2. QED BY <1>1, <1>2, <2>1, EndsWhole, KeepsItself
<1>4. CASE Stop \/ DecodeFails \/ EmitFails
  <2>1. mem' = EmptyMemory /\ db' = db /\ work' = db
    BY <1>2, <1>4, StopsTransactionInv DEF Stopped
  <2>2. QED BY <1>1, <1>2, <2>1, EndsWhole, KeepsItself
<1>5. CASE \/ \E e \in Evidence : Admit(e)
           \/ FireDue \/ BuildView \/ EvaluateAndApply \/ EndOfFile \/ UNCHANGED vars
  BY <1>1, <1>2, <1>5, QuietSteps, QuietWhole, KeepsItself
<1>6. CASE EmitStored
  <2>1. db' = db
    BY <1>6 DEF EmitStored
  <2>2. QED BY <1>1, <1>6, <2>1, EmitWhole, KeepsItself
<1>7. CASE Commit
  BY <1>1, <1>7, CommitWhole
<1>8. QED BY <1>1, <1>3, <1>4, <1>5, <1>6, <1>7 DEF Next, RunStep

\* Wherever runs stop, every committed line is processed and has its generations,
\* transitions and delivered intents: none is half there, and none is there twice.
THEOREM LinesAreWhole == Spec => []CommittedLinesAreWhole
<1>1. WholeInv => CommittedLinesAreWhole
  BY DEF WholeInv, CommittedLinesAreWhole
<1>2. QED BY <1>1, InitWhole, NextWhole, PTL DEF Spec

\* No later line and no later run rewrites a committed alert.
THEOREM AlertsStand == Spec => CommittedAlertsStand
<1>1. WholeInv /\ [Next]_vars => [Keeps(db, db')]_vars
  BY NextWhole
<1>2. QED BY <1>1, InitWhole, NextWhole, PTL DEF Spec, CommittedAlertsStand

-----------------------------------------------------------------------------
(* Nothing due is lost at the end of the file.                             *)

NonePending(trackers) == \A r \in Rules, s \in Subjects : ~Pending(trackers[r][s])

LEMMA NonePendingNoneDue ==
    ASSUME NEW trackers, NonePending(trackers)
    PROVE  \A now : DueBy(trackers, now) = {}
BY DEF NonePending, DueBy

LEMMA EmptyMemoryIdle ==
    NonePending(EmptyMemory.tracker) /\ \A now : DueBy(EmptyMemory.tracker, now) = {}
<1>1. \A r \in Rules, s \in Subjects : EmptyMemory.tracker[r][s] = NewTracker
  BY DEF EmptyMemory
<1>2. NonePending(EmptyMemory.tracker)
  BY <1>1, NewTrackerType DEF NonePending
<1>3. QED BY <1>2, NonePendingNoneDue

\* The lines of the tables are the first of the file.
FirstLines(lines, n) ==
    /\ 1 .. n - 1 \subseteq lines
    /\ \A i \in lines : i > 0 /\ 1 .. i \subseteq lines

LEMMA ProgressMeans ==
    ProgressInv <=> /\ TransactionInv /\ FirstLines(db.lines, line)
                    /\ line \in db.lines => NonePending(mem.tracker)
                    /\ stage # "admitted" => DueBy(mem.tracker, logical) = {}
BY DEF ProgressInv, FirstLines, NonePending

LEMMA ProgressMeansAfter ==
    ProgressInv' <=> /\ TransactionInv' /\ FirstLines(db'.lines, line')
                     /\ line' \in db'.lines => NonePending(mem'.tracker)
                     /\ stage' # "admitted" => DueBy(mem'.tracker, logical') = {}
BY DEF ProgressInv, FirstLines, NonePending, DueBy

LEMMA InitProgress == Init => ProgressInv
<1>1. SUFFICES ASSUME Init PROVE ProgressInv
  OBVIOUS
<1>2. mem = EmptyMemory /\ db = EmptyTables /\ line = 1
  BY <1>1 DEF Init
<1>3. db.lines = {}
  BY <1>2 DEF EmptyTables
<1>4. FirstLines(db.lines, line)
  BY <1>2, <1>3 DEF FirstLines
<1>5. QED BY <1>1, <1>2, <1>4, EmptyMemoryIdle, InitTransactionInv, ProgressMeans

LEMMA ReachedLine ==
    ASSUME TransactionInv, FirstLines(db.lines, line)
    PROVE  /\ line \in Nat \ {0}
           /\ FirstLines(db.lines, 1)
           /\ line \in db.lines => FirstLines(db.lines, line + 1)
           /\ line \notin db.lines => /\ FirstLines(db.lines \cup {line}, line + 1)
                                      /\ line + 1 \notin db.lines \cup {line}
                                      /\ db.lines = 1 .. line - 1
<1>1. line \in Nat \ {0} /\ db.lines \subseteq Nat
  BY TablesFields DEF TransactionInv, TypeOK
<1>2. /\ 1 .. line - 1 \subseteq db.lines
      /\ \A i \in db.lines : i > 0 /\ 1 .. i \subseteq db.lines
  BY DEF FirstLines
<1>3. FirstLines(db.lines, 1)
  BY <1>2 DEF FirstLines
<1>4. line \in db.lines => FirstLines(db.lines, line + 1)
  BY <1>1, <1>2 DEF FirstLines
<1>5. ASSUME line \notin db.lines
      PROVE  db.lines = 1 .. line - 1
  <2>1. \A i \in db.lines : i <= line - 1
    <3>1. TAKE i \in db.lines
    <3>2. ~(line <= i)
      <4>1. line <= i => line \in 1 .. i
        BY <1>1
      <4>2. QED BY <1>2, <1>5, <4>1
    <3>3. QED BY <1>1, <3>2
  <2>2. \A i \in db.lines : i \in 1 .. line - 1
    BY <1>1, <1>2, <2>1
  <2>3. QED BY <1>2, <2>2
<1>6. ASSUME line \notin db.lines
      PROVE  /\ FirstLines(db.lines \cup {line}, line + 1)
             /\ line + 1 \notin db.lines \cup {line}
  <2>1. db.lines \cup {line} = 1 .. line
    BY <1>1, <1>5, <1>6
  <2>2. QED BY <1>1, <2>1 DEF FirstLines
<1>7. QED BY <1>1, <1>3, <1>4, <1>5, <1>6

LEMMA AdmitProgress ==
    ASSUME ProgressInv, NEW e \in Evidence, Admit(e)
    PROVE  ProgressInv'
<1>1. /\ TransactionInv /\ FirstLines(db.lines, line)
      /\ line \in db.lines => NonePending(mem.tracker)
  BY ProgressMeans
<1>2. TransactionInv' /\ mem' = mem /\ db' = db
  BY <1>1, AdmitTransactionInv DEF Admit
<1>3. CASE Inserted(line)
  <2>1. stage' = "admitted" /\ line' = line /\ line \notin db.lines
    BY <1>3 DEF Admit, Inserted
  <2>2. QED BY <1>1, <1>2, <2>1, ProgressMeansAfter
<1>4. CASE ~Inserted(line)
  <2>1. line' = line + 1 /\ line \in db.lines
    BY <1>4 DEF Admit, Inserted, NextLine
  <2>2. QED BY <1>1, <1>2, <2>1, ReachedLine, NonePendingNoneDue, ProgressMeansAfter
<1>5. QED BY <1>3, <1>4

LEMMA FireDueProgress ==
    ASSUME ProgressInv, FireDue
    PROVE  ProgressInv'
<1>1. TransactionInv /\ FirstLines(db.lines, line) /\ TransactionInv'
  BY ProgressMeans, FireDueTransactionInv
<1>2. mem \in Memory /\ logical \in Nat /\ stage # "none"
  BY <1>1 DEF TransactionInv, TypeOK, FireDue, At
<1>3. mem.tracker \in [Rules -> [Subjects -> Tracker]]
  BY <1>2, MemoryFields
<1>4. mem'.tracker = Drained(mem.tracker, logical)
  BY <1>2, MemoryFields DEF FireDue
<1>5. DueBy(mem'.tracker, logical) = {}
  BY <1>2, <1>3, <1>4, DrainedType
<1>6. line' = line /\ db' = db /\ logical' = logical
  BY DEF FireDue
<1>7. line \notin db.lines
  BY <1>1, <1>2 DEF TransactionInv
<1>8. QED BY <1>1, <1>5, <1>6, <1>7, ProgressMeansAfter

\* What a line's observations start is not due yet: it would have been committed at once.
LEMMA EvaluateProgress ==
    ASSUME ProgressInv, EvaluateAndApply
    PROVE  ProgressInv'
<1> DEFINE e == file[line]
<1>1. TransactionInv /\ FirstLines(db.lines, line) /\ TransactionInv'
  BY ProgressMeans, EvaluateTransactionInv
<1>2. mem \in Memory /\ logical \in Nat /\ stage # "none" /\ stage # "admitted"
  BY <1>1 DEF TransactionInv, TypeOK, EvaluateAndApply, At
<1>3. e \in Evidence /\ e.subject \in Subjects
  BY <1>1, <1>2, LineRead
<1>4. mem' = [mem EXCEPT !.tracker = [r \in Rules |->
                 [mem.tracker[r] EXCEPT ![e.subject] = Applied(mem, e, logical)[r].tracker]]]
  BY <1>1, EvaluateSteps
<1>5. mem.tracker \in [Rules -> [Subjects -> Tracker]]
  BY <1>2, MemoryFields
<1> HIDE DEF e
<1>6. mem'.tracker = [r \in Rules |->
                 [mem.tracker[r] EXCEPT ![e.subject] = Applied(mem, e, logical)[r].tracker]]
  BY <1>2, <1>4, MemoryFields
<1>7. DueBy(mem.tracker, logical) = {}
  BY <1>2, ProgressMeans
<1>8. ASSUME NEW r \in Rules, NEW s \in Subjects
      PROVE  ~ (Pending(mem'.tracker[r][s]) /\ DueAt(mem'.tracker[r][s], Durations[r]) <= logical)
  <2>1. ~ (Pending(mem.tracker[r][s]) /\ DueAt(mem.tracker[r][s], Durations[r]) <= logical)
    <3>1. <<r, s>> \notin DueBy(mem.tracker, logical) /\ <<r, s>> \in Rules \X Subjects
      BY <1>7
    <3>2. QED BY <3>1 DEF DueBy
  <2>2. CASE s # e.subject
    <3>1. mem'.tracker[r][s] = mem.tracker[r][s]
      BY <1>5, <1>6, <2>2
    <3>2. QED BY <2>1, <3>1
  <2>3. CASE s = e.subject
    <3>1. mem'.tracker[r][s] = Applied(mem, e, logical)[r].tracker
      BY <1>3, <1>5, <1>6, <2>3
    <3>2. /\ Applied(mem, e, logical)[r].tracker \in Tracker
          /\ Pending(Applied(mem, e, logical)[r].tracker)
              => \/ Applied(mem, e, logical)[r].tracker = mem.tracker[r][s]
                 \/ DueAt(Applied(mem, e, logical)[r].tracker, Durations[r]) > logical
      BY <1>2, <1>3, <2>3, AppliedType
    <3>3. DueAt(Applied(mem, e, logical)[r].tracker, Durations[r]) \in Nat
      BY <3>2, DueTimeType
    <3>4. QED BY <1>2, <2>1, <3>1, <3>2, <3>3
  <2>4. QED BY <2>2, <2>3
<1>9. DueBy(mem'.tracker, logical) = {}
  BY <1>8 DEF DueBy
<1>10. line' = line /\ db' = db /\ logical' = logical
  BY DEF EvaluateAndApply
<1>11. line \notin db.lines
  BY <1>1, <1>2 DEF TransactionInv
<1>12. QED BY <1>1, <1>9, <1>10, <1>11, ProgressMeansAfter

LEMMA CommitProgress ==
    ASSUME ProgressInv, Commit
    PROVE  ProgressInv'
<1>1. TransactionInv /\ FirstLines(db.lines, line) /\ TransactionInv'
  BY ProgressMeans, CommitTransactionInv
<1>2. db'.lines = db.lines \cup {line} /\ line \notin db.lines
  BY <1>1, CommitSteps
<1>3. line' = line + 1 /\ mem' = mem /\ logical' = logical /\ stage = "applied"
  BY DEF Commit, NextLine, At
<1>4. DueBy(mem.tracker, logical) = {}
  BY <1>3, ProgressMeans
<1>5. QED BY <1>1, <1>2, <1>3, <1>4, ReachedLine, ProgressMeansAfter

\* The last Advance finds nothing due.
LEMMA EndDropsNothing ==
    ASSUME ProgressInv, EndOfFile
    PROVE  mem'.tracker = mem.tracker
<1>1. mem \in Memory /\ stage = "none"
  BY DEF ProgressInv, TransactionInv, TypeOK, EndOfFile, At
<1>2. mem.tracker \in [Rules -> [Subjects -> Tracker]] /\ DueBy(mem.tracker, logical) = {}
  BY <1>1, MemoryFields, ProgressMeans
<1>3. mem'.tracker = Drained(mem.tracker, logical)
  BY <1>1, MemoryFields DEF EndOfFile
<1>4. QED BY <1>2, <1>3, DrainedOfNone

\* A step that leaves the trackers, the committed lines and the times alone.
LEMMA QuietProgress ==
    ASSUME ProgressInv, TransactionInv', mem'.tracker = mem.tracker,
           UNCHANGED <<line, logical, db>>,
           stage' # "admitted" => stage # "admitted"
    PROVE  ProgressInv'
BY ProgressMeans, ProgressMeansAfter

LEMMA NextProgress == ProgressInv /\ [Next]_vars => ProgressInv'
<1>1. SUFFICES ASSUME ProgressInv, [Next]_vars PROVE ProgressInv'
  OBVIOUS
<1>2. TransactionInv /\ TransactionInv' /\ FirstLines(db.lines, line)
  BY <1>1, NextTransactionInv, ProgressMeans
<1>3. CASE Start
  <2>1. mem' = EmptyMemory /\ db' = db /\ line' = 1
    BY <1>3 DEF Start
  <2>2. QED BY <1>2, <2>1, ReachedLine, EmptyMemoryIdle, ProgressMeansAfter
<1>4. CASE Stop \/ DecodeFails \/ EmitFails
  <2>1. mem' = EmptyMemory /\ db' = db /\ line' = line
    BY <1>2, <1>4, StopsTransactionInv DEF Stopped
  <2>2. QED BY <1>2, <2>1, EmptyMemoryIdle, ProgressMeansAfter
<1>5. ASSUME NEW e \in Evidence, Admit(e) PROVE ProgressInv'
  BY <1>1, <1>5, AdmitProgress
<1>6. CASE FireDue
  BY <1>1, <1>6, FireDueProgress
<1>7. CASE EmitStored
  <2>1. mem'.tracker = mem.tracker
    <3>1. TypeOK
      BY <1>2 DEF TransactionInv
    <3>2. QED BY <1>7, <3>1, EmitSteps
  <2>2. UNCHANGED <<line, logical, db, stage>>
    BY <1>7 DEF EmitStored
  <2>3. QED BY <1>1, <1>2, <2>1, <2>2, QuietProgress
<1>8. CASE BuildView
  <2>1. \E v : mem' = [mem EXCEPT !.view = v]
    BY <1>2, <1>8, BuildSteps
  <2>2. mem \in Memory
    BY <1>2 DEF TransactionInv, TypeOK
  <2>3. mem'.tracker = mem.tracker
    BY <2>1, <2>2, MemoryFields
  <2>4. stage = "advanced" /\ UNCHANGED <<line, logical, db>>
    BY <1>8 DEF BuildView, At
  <2>5. QED BY <1>1, <1>2, <2>3, <2>4, QuietProgress
<1>9. CASE EvaluateAndApply
  BY <1>1, <1>9, EvaluateProgress
<1>10. CASE Commit
  BY <1>1, <1>10, CommitProgress
<1>11. CASE EndOfFile
  <2>1. mem'.tracker = mem.tracker
    BY <1>1, <1>11, EndDropsNothing
  <2>2. UNCHANGED <<line, logical, db, stage>>
    BY <1>11 DEF EndOfFile
  <2>3. QED BY <1>1, <1>2, <2>1, <2>2, QuietProgress
<1>12. CASE UNCHANGED vars
  <2>1. mem' = mem /\ UNCHANGED <<line, logical, db, stage>>
    BY <1>12 DEF vars
  <2>2. QED BY <1>1, <1>2, <2>1, QuietProgress
<1>13. QED
  BY <1>1, <1>3, <1>4, <1>5, <1>6, <1>7, <1>8, <1>9, <1>10, <1>11, <1>12 DEF Next, RunStep

\* Only the end of the file ends a run that was not stopped.
LEMMA EndingStep ==
    ASSUME TransactionInv, [Next]_vars, mode = "running", mode' = "ended"
    PROVE  EndOfFile
<1>1. ~UNCHANGED vars /\ ~Start
  BY DEF vars, Start
<1>2. ~(Stop \/ DecodeFails \/ EmitFails)
  BY StopsTransactionInv DEF Stopped
<1>3. \A e \in Evidence : ~Admit(e)
  BY DEF Admit
<1>4. ~FireDue /\ ~EmitStored /\ ~BuildView /\ ~EvaluateAndApply /\ ~Commit
  BY DEF FireDue, EmitStored, BuildView, EvaluateAndApply, Commit
<1>5. QED BY <1>1, <1>2, <1>3, <1>4 DEF Next, RunStep

\* What the last Advance of a run returns, and drops, is nothing: all that is due by the
\* latest time seen was fired and stored with the lines, whichever run stored them.
THEOREM NothingIsDropped == Spec => NothingDroppedAtEnd
<1>1. ProgressInv /\ [Next]_vars
        => [mode = "running" /\ mode' = "ended" => mem'.tracker = mem.tracker]_vars
  BY EndingStep, EndDropsNothing DEF ProgressInv
<1>2. QED BY <1>1, InitProgress, NextProgress, PTL DEF Spec, NothingDroppedAtEnd

-----------------------------------------------------------------------------
(* The tables of the first run follow its memory.                          *)

ViewsFollow(pointer, view) ==
    \A k \in Views!Kinds, s \in Subjects :
        pointer[k][s].row = view[k][s].position /\ pointer[k][s].at = view[k][s].at

GenerationsFollow(G, series) ==
    \A s \in Series :
        /\ series[s].open => series[s].generation > 0
        /\ \A n \in Nat :
             /\ <<s, n>> \in DOMAIN G <=> n \in 1 .. series[s].generation
             /\ <<s, n>> \in DOMAIN G =>
                  (G[<<s, n>>].status = "open" <=>
                     series[s].open /\ n = series[s].generation)

LEMMA FollowsByParts ==
    ASSUME NEW T, IsTables(T), mem \in Memory
    PROVE  (/\ Follows(T)
            /\ \A s \in Series : mem.alerts.series[s].open => mem.alerts.series[s].generation > 0)
             <=> (/\ ViewsFollow(T.pointer, mem.view)
                  /\ GenerationsFollow(T.generations, mem.alerts.series))
<1> DEFINE counted == UNION {{s} \X (1 .. mem.alerts.series[s].generation) : s \in Rules \X Subjects}
<1>1. DOMAIN T.generations \subseteq Series \X Nat
  BY TablesFields
<1>2. \A s \in Series : mem.alerts.series[s].generation \in Nat
  BY SeriesFields
<1>3. counted \subseteq Series \X Nat
  BY <1>2 DEF Series
<1>4. \A s \in Series, n \in Nat :
         <<s, n>> \in counted <=> n \in 1 .. mem.alerts.series[s].generation
  BY DEF Series
<1> HIDE DEF counted
<1>5. DOMAIN T.generations = counted <=>
        \A s \in Series, n \in Nat : <<s, n>> \in DOMAIN T.generations <=> <<s, n>> \in counted
  <2>1. ASSUME \A s \in Series, n \in Nat :
                 <<s, n>> \in DOMAIN T.generations <=> <<s, n>> \in counted
        PROVE  DOMAIN T.generations = counted
    <3>1. \A x \in Series \X Nat : x \in DOMAIN T.generations <=> x \in counted
      BY <2>1
    <3>2. QED BY <1>1, <1>3, <3>1
  <2>2. QED BY <2>1
<1>6. (\A g \in DOMAIN T.generations :
         T.generations[g].status = "open" <=>
             /\ mem.alerts.series[g[1]].open
             /\ g[2] = mem.alerts.series[g[1]].generation)
      <=> \A s \in Series, n \in Nat : <<s, n>> \in DOMAIN T.generations =>
            (T.generations[<<s, n>>].status = "open" <=>
               mem.alerts.series[s].open /\ n = mem.alerts.series[s].generation)
  <2>1. \A g \in DOMAIN T.generations : g[1] \in Series /\ g[2] \in Nat /\ g = <<g[1], g[2]>>
    BY <1>1
  <2>2. QED BY <2>1
<1>7. Follows(T) <=>
        /\ ViewsFollow(T.pointer, mem.view)
        /\ DOMAIN T.generations = counted
        /\ \A g \in DOMAIN T.generations :
             T.generations[g].status = "open" <=>
                 /\ mem.alerts.series[g[1]].open
                 /\ g[2] = mem.alerts.series[g[1]].generation
  BY DEF Follows, ViewsFollow, counted
<1>8. GenerationsFollow(T.generations, mem.alerts.series) <=>
        /\ \A s \in Series : mem.alerts.series[s].open => mem.alerts.series[s].generation > 0
        /\ \A s \in Series, n \in Nat : <<s, n>> \in DOMAIN T.generations <=> <<s, n>> \in counted
        /\ \A s \in Series, n \in Nat : <<s, n>> \in DOMAIN T.generations =>
            (T.generations[<<s, n>>].status = "open" <=>
               mem.alerts.series[s].open /\ n = mem.alerts.series[s].generation)
  BY <1>4 DEF GenerationsFollow
<1>9. QED BY <1>5, <1>6, <1>7, <1>8

\* What a condition transition makes of a series' count.
LEMMA CountsAfter ==
    ASSUME mem \in Memory, NEW t \in ConditionTransition, NEW s \in Series
    PROVE  LET before == mem.alerts.series[s]
               after == AlertsAfter(mem.alerts, t).series[s]
           IN
           /\ (\A a : ~BringsOpening(mem.alerts, t, a) /\ ~BringsRecovery(mem.alerts, t, a)) \/ s # <<t.rule, t.subject>>
                => after.generation = before.generation /\ after.open = before.open
           /\ \A a : BringsOpening(mem.alerts, t, a) /\ s = <<t.rule, t.subject>>
                => ~before.open /\ after.open /\ after.generation = before.generation + 1
           /\ \A a : BringsRecovery(mem.alerts, t, a) /\ s = <<t.rule, t.subject>>
                => before.open /\ ~after.open /\ after.generation = before.generation
<1> DEFINE own == <<t.rule, t.subject>>
           e == t.episode
           m == mem.alerts
           up == t.direction = "trigger"
<1>1. own \in Series
  BY Brought
<1>2. /\ \A u \in Series : /\ m.series[u].generation \in Nat /\ m.series[u].open \in BOOLEAN
                           /\ m.series[u] = [generation |-> m.series[u].generation,
                                             open |-> m.series[u].open,
                                             contributors |-> m.series[u].contributors]
      /\ m = [series |-> m.series, closed |-> m.closed]
      /\ DOMAIN m.series = Series
  <2>1. m.series \in [Series -> [generation : Nat, open : BOOLEAN, contributors : SUBSET EpisodeId]]
    BY MemoryFields
  <2>2. m = [series |-> m.series, closed |-> m.closed]
    BY MemoryFields
  <2>3. QED BY <2>1, <2>2
<1>3. /\ (\E a : BringsOpening(mem.alerts, t, a)) <=> up /\ Opens(m, own, e)
      /\ (\E a : BringsRecovery(mem.alerts, t, a)) <=> ~up /\ Recovers(m, own, e)
  BY DEF BringsOpening, BringsRecovery
<1>4. AlertsAfter(mem.alerts, t) = IF up THEN AfterStart(m, own, e) ELSE AfterClear(m, own, e)
  BY DEF AlertsAfter
<1> HIDE DEF own, e, m, up
<1>5. CASE up
  <2>1. CASE ~Starting(m, own, e)
    BY <1>3, <1>4, <1>5, <2>1 DEF AfterStart, Opens, own, m
  <2>2. CASE Starting(m, own, e)
    <3>1. AlertsAfter(mem.alerts, t).series = [m.series EXCEPT ![own] = StartedSeries(m.series[own], e)]
      BY <1>2, <1>4, <1>5, <2>2 DEF AfterStart
    <3>2. /\ StartedSeries(m.series[own], e).open = TRUE
          /\ StartedSeries(m.series[own], e).generation =
               IF m.series[own].open THEN m.series[own].generation
                                     ELSE m.series[own].generation + 1
      BY DEF StartedSeries
    <3>3. AlertsAfter(mem.alerts, t).series[s] = IF s = own THEN StartedSeries(m.series[own], e) ELSE m.series[s]
      BY <1>2, <3>1
    <3>4. Opens(m, own, e) <=> ~m.series[own].open
      BY <2>2 DEF Opens
    <3>5. m.series[own].open \in BOOLEAN
      BY <1>1, <1>2
    <3>6. QED BY <1>3, <1>5, <3>2, <3>3, <3>4, <3>5 DEF own, m
  <2>3. QED BY <2>1, <2>2
<1>6. CASE ~up
  <2>1. CASE ~Clearing(m, own, e)
    BY <1>3, <1>4, <1>6, <2>1 DEF AfterClear, Recovers, own, m
  <2>2. CASE Clearing(m, own, e)
    <3>1. AlertsAfter(mem.alerts, t).series = [m.series EXCEPT ![own] = ClearedSeries(m, own, e)]
      BY <1>4, <1>6, <2>2 DEF AfterClear
    <3>2. /\ ClearedSeries(m, own, e).open = (m.series[own].open /\ ~Recovers(m, own, e))
          /\ ClearedSeries(m, own, e).generation = m.series[own].generation
      BY <1>1, <1>2 DEF ClearedSeries
    <3>3. AlertsAfter(mem.alerts, t).series[s] = IF s = own THEN ClearedSeries(m, own, e) ELSE m.series[s]
      BY <1>2, <3>1
    <3>4. Recovers(m, own, e) => m.series[own].open
      BY DEF Recovers
    <3>5. m.series[own].open \in BOOLEAN
      BY <1>1, <1>2
    <3>6. QED BY <1>3, <1>6, <3>2, <3>3, <3>4, <3>5 DEF own, m
  <2>3. QED BY <2>1, <2>2
<1>7. QED BY <1>5, <1>6


\* What the first run's tables and memory have in common inside and between transactions.
FirstRunFollows ==
    /\ db.lines = 1 .. line - 1
    /\ ViewsFollow(work.pointer, mem.view)
    /\ GenerationsFollow(work.generations, mem.alerts.series)
    /\ \A k \in Views!Kinds, s \in Subjects :
         /\ mem.view[k][s].position <= line
         /\ stage \notin {"built", "applied"} => mem.view[k][s].position < line

LEMMA FollowMeans ==
    FollowInv <=> /\ ProgressInv
                  /\ runs = 0 => db = EmptyTables /\ mode = "stopped"
                  /\ runs = 1 /\ mode = "running" => FirstRunFollows
<1>1. ASSUME ProgressInv
      PROVE  (/\ Follows(work)
              /\ \A s \in Series : mem.alerts.series[s].open => mem.alerts.series[s].generation > 0)
             <=> (/\ ViewsFollow(work.pointer, mem.view)
                  /\ GenerationsFollow(work.generations, mem.alerts.series))
  <2>1. IsTables(work) /\ mem \in Memory
    BY <1>1 DEF ProgressInv, TransactionInv, TypeOK
  <2>2. QED BY <2>1, FollowsByParts
<1>2. QED BY <1>1 DEF FollowInv, FirstRunFollows

LEMMA FollowMeansAfter ==
    FollowInv' <=> /\ ProgressInv'
                   /\ runs' = 0 => db' = EmptyTables /\ mode' = "stopped"
                   /\ runs' = 1 /\ mode' = "running" => FirstRunFollows'
<1>1. (FollowInv <=> /\ ProgressInv
                     /\ runs = 0 => db = EmptyTables /\ mode = "stopped"
                     /\ runs = 1 /\ mode = "running" => FirstRunFollows)'
  BY FollowMeans, PTL
<1>2. QED BY <1>1


LEMMA FirstRunAfter ==
    FirstRunFollows' <=>
        /\ db'.lines = 1 .. line' - 1
        /\ ViewsFollow(work'.pointer, mem'.view)
        /\ GenerationsFollow(work'.generations, mem'.alerts.series)
        /\ \A k \in Views!Kinds, s \in Subjects :
             /\ mem'.view[k][s].position <= line'
             /\ stage' \notin {"built", "applied"} => mem'.view[k][s].position < line'
BY DEF FirstRunFollows, ViewsFollow, GenerationsFollow

LEMMA EmptyFollows ==
    /\ ViewsFollow(EmptyTables.pointer, EmptyMemory.view)
    /\ GenerationsFollow(EmptyTables.generations, EmptyMemory.alerts.series)
    /\ \A k \in Views!Kinds, s \in Subjects : EmptyMemory.view[k][s].position = 0
    /\ EmptyTables.lines = {}
<1>1. \A k \in Views!Kinds, s \in Subjects :
         EmptyTables.pointer[k][s] = Views!NoRow /\ EmptyMemory.view[k][s] = Views!NoView
  BY DEF EmptyTables, EmptyMemory
<1>2. /\ Views!NoView.position = 0 /\ Views!NoView.at = Views!Unset
      /\ Views!NoRow.row = 0 /\ Views!NoRow.at = Views!Unset
  BY DEF Views!NoView, Views!NoRow
<1>3. ViewsFollow(EmptyTables.pointer, EmptyMemory.view)
  BY <1>1, <1>2 DEF ViewsFollow
<1>4. /\ \A s \in Series : EmptyMemory.alerts.series[s] = NewSeries
      /\ EmptyTables.generations = << >> /\ EmptyTables.lines = {}
  BY DEF EmptyTables, EmptyMemory, Series
<1>5. NewSeries.generation = 0 /\ NewSeries.open = FALSE
  BY DEF NewSeries
<1>6. GenerationsFollow(EmptyTables.generations, EmptyMemory.alerts.series)
  BY <1>4, <1>5 DEF GenerationsFollow
<1>7. QED BY <1>1, <1>2, <1>3, <1>4, <1>6

\* What a turn that brings a makes of the generations.
LEMMA GenerationsStored ==
    ASSUME IsTables(work), NEW a \in AlertTransition, NEW r, NEW at, Stores(a, r, at)
    PROVE  LET g == <<a.series, a.generation>>
               G == work.generations
               H == work'.generations
           IN
           /\ DOMAIN H = DOMAIN G \cup {g}
           /\ \A h \in DOMAIN G : h # g => H[h] = G[h]
           /\ a.kind = "open" => H[g].status = "open" /\ g \notin DOMAIN G
           /\ a.kind = "recovery" => H[g].status = "recovered" /\ g \in DOMAIN G
           /\ work'.pointer = work.pointer
<1> DEFINE g == <<a.series, a.generation>>
           G == work.generations
           H == GenerationsAfter(a, at)
<1>1. G \in [DOMAIN G -> GenerationRow]
  BY TablesFields
<1>2. /\ a.kind = "open" => g \notin DOMAIN G
      /\ a.kind = "recovery" => g \in DOMAIN G
  BY DEF Stores, Fails, Conflicts, Generation
<1>3. /\ DOMAIN H = DOMAIN G \cup {g}
      /\ \A h \in DOMAIN H : h # g => H[h] = G[h]
      /\ a.kind = "open" => H[g] = [status |-> "open", openedAt |-> at, recoveredAt |-> Unset]
      /\ a.kind = "recovery" => H[g] = [G[g] EXCEPT !.status = "recovered", !.recoveredAt = at]
  BY DEF GenerationsAfter, Generation
<1>4. work'.generations = H /\ work'.pointer = work.pointer
  BY DEF Stores
<1> HIDE DEF g, H, G
<1>5. a.kind = "open" => H[g].status = "open"
  BY <1>3
<1>6. a.kind = "recovery" => H[g].status = "recovered"
  <2>1. \A x \in GenerationRow :
           [x EXCEPT !.status = "recovered", !.recoveredAt = at].status = "recovered"
    BY DEF GenerationRow
  <2>2. a.kind = "recovery" => G[g] \in GenerationRow
    BY <1>1, <1>2
  <2>3. a.kind = "recovery" => [G[g] EXCEPT !.status = "recovered", !.recoveredAt = at].status = "recovered"
    BY <2>1, <2>2
  <2>4. a.kind = "recovery" => H[g] = [G[g] EXCEPT !.status = "recovered", !.recoveredAt = at]
    BY <1>3
  <2>5. SUFFICES ASSUME a.kind = "recovery" PROVE H[g].status = "recovered"
    OBVIOUS
  <2>6. QED BY <2>3, <2>4, <2>5, Zenon
<1>7. QED BY <1>2, <1>3, <1>4, <1>5, <1>6 DEF g, G

LEMMA EmitFollows ==
    ASSUME TypeOK, EmitStored, GenerationsFollow(work.generations, mem.alerts.series)
    PROVE  /\ GenerationsFollow(work'.generations, mem'.alerts.series)
           /\ mem'.view = mem.view /\ work'.pointer = work.pointer
<1>1. mem \in Memory /\ IsTables(work)
  BY DEF TypeOK
<1>2. PICK t \in ConditionTransition :
        /\ mem'.view = mem.view /\ mem'.alerts = AlertsAfter(mem.alerts, t)
        /\ \/ /\ \A a : ~BringsOpening(mem.alerts, t, a) /\ ~BringsRecovery(mem.alerts, t, a)
              /\ work' = work
           \/ \E a \in AlertTransition :
                /\ BringsOpening(mem.alerts, t, a) \/ BringsRecovery(mem.alerts, t, a)
                /\ Stores(a, t.rule, t.at)
  BY EmitSteps
<1> DEFINE own == <<t.rule, t.subject>>
           before == mem.alerts.series
           after == AlertsAfter(mem.alerts, t).series
           G == work.generations
           H == work'.generations
<1>3. own \in Series /\ \A s \in Series : before[s].generation \in Nat /\ before[s].open \in BOOLEAN
  BY <1>1, Brought, SeriesFields
<1>4. \A s \in Series :
        /\ (\A a : ~BringsOpening(mem.alerts, t, a) /\ ~BringsRecovery(mem.alerts, t, a)) \/ s # own
             => after[s].generation = before[s].generation /\ after[s].open = before[s].open
        /\ \A a : BringsOpening(mem.alerts, t, a) /\ s = own
             => ~before[s].open /\ after[s].open /\ after[s].generation = before[s].generation + 1
        /\ \A a : BringsRecovery(mem.alerts, t, a) /\ s = own
             => before[s].open /\ ~after[s].open /\ after[s].generation = before[s].generation
  BY <1>1, CountsAfter
<1>5. GenerationsFollow(G, before)
  OBVIOUS
<1> HIDE DEF after, before, G, own
<1>6. CASE work' = work /\ \A a : ~BringsOpening(mem.alerts, t, a) /\ ~BringsRecovery(mem.alerts, t, a)
  <2>1. H = G /\ work'.pointer = work.pointer
    BY <1>6 DEF G
  <2>2. \A s \in Series : after[s].generation = before[s].generation /\ after[s].open = before[s].open
    BY <1>4, <1>6
  <2>3. GenerationsFollow(G, after)
    BY <1>5, <2>2 DEF GenerationsFollow
  <2>4. QED BY <1>2, <2>1, <2>3 DEF after
<1>7. ASSUME NEW a \in AlertTransition, BringsOpening(mem.alerts, t, a) \/ BringsRecovery(mem.alerts, t, a),
             Stores(a, t.rule, t.at)
      PROVE  GenerationsFollow(H, after) /\ work'.pointer = work.pointer
  <2> DEFINE g == <<a.series, a.generation>>
  <2>1. /\ DOMAIN H = DOMAIN G \cup {g}
        /\ \A h \in DOMAIN G : h # g => H[h] = G[h]
        /\ a.kind = "open" => H[g].status = "open" /\ g \notin DOMAIN G
        /\ a.kind = "recovery" => H[g].status = "recovered" /\ g \in DOMAIN G
        /\ work'.pointer = work.pointer
    BY <1>1, <1>7, GenerationsStored DEF G
  <2>2. /\ a.series = own
        /\ BringsOpening(mem.alerts, t, a) => a.kind = "open" /\ a.generation = before[own].generation + 1
        /\ BringsRecovery(mem.alerts, t, a) => a.kind = "recovery" /\ a.generation = before[own].generation
    BY <1>7 DEF BringsOpening, BringsRecovery, own, before
  <2>3. ASSUME NEW s \in Series, s # own
        PROVE  /\ after[s].open => after[s].generation > 0
               /\ \A n \in Nat :
                    /\ <<s, n>> \in DOMAIN H <=> n \in 1 .. after[s].generation
                    /\ <<s, n>> \in DOMAIN H =>
                         (H[<<s, n>>].status = "open" <=> after[s].open /\ n = after[s].generation)
    <3>1. after[s].generation = before[s].generation /\ after[s].open = before[s].open
      BY <1>4, <2>3
    <3>2. \A n \in Nat : /\ <<s, n>> # g
                         /\ <<s, n>> \in DOMAIN H <=> <<s, n>> \in DOMAIN G
                         /\ <<s, n>> \in DOMAIN G => H[<<s, n>>] = G[<<s, n>>]
      BY <2>1, <2>2, <2>3
    <3>3. QED BY <1>5, <3>1, <3>2 DEF GenerationsFollow
  <2>4. CASE BringsOpening(mem.alerts, t, a)
    <3>1. /\ a.kind = "open" /\ g = <<own, before[own].generation + 1>>
          /\ ~before[own].open /\ after[own].open
          /\ after[own].generation = before[own].generation + 1
      BY <1>3, <1>4, <2>2, <2>4
    <3>2. \A n \in Nat :
             /\ <<own, n>> \in DOMAIN H <=> n \in 1 .. before[own].generation + 1
             /\ n \in 1 .. before[own].generation =>
                  H[<<own, n>>] = G[<<own, n>>] /\ G[<<own, n>>].status # "open"
      <4>1. TAKE n \in Nat
      <4>2. <<own, n>> = g <=> n = before[own].generation + 1
        BY <3>1
      <4>3. <<own, n>> \in DOMAIN G <=> n \in 1 .. before[own].generation
        BY <1>3, <1>5 DEF GenerationsFollow
      <4>4. <<own, n>> \in DOMAIN G => G[<<own, n>>].status # "open"
        BY <1>3, <1>5, <3>1 DEF GenerationsFollow
      <4> HIDE DEF g
      <4>5. <<own, n>> \in DOMAIN H <=> n \in 1 .. before[own].generation + 1
        BY <1>3, <2>1, <4>2, <4>3
      <4>6. n \in 1 .. before[own].generation =>
              H[<<own, n>>] = G[<<own, n>>] /\ G[<<own, n>>].status # "open"
        BY <1>3, <2>1, <4>2, <4>3, <4>4
      <4>7. QED BY <4>5, <4>6
    <3>3. H[<<own, before[own].generation + 1>>].status = "open"
      BY <2>1, <3>1
    <3>4. /\ after[own].open => after[own].generation > 0
          /\ \A n \in Nat :
               /\ <<own, n>> \in DOMAIN H <=> n \in 1 .. after[own].generation
               /\ <<own, n>> \in DOMAIN H =>
                    (H[<<own, n>>].status = "open" <=> after[own].open /\ n = after[own].generation)
      <4>1. \A n \in 1 .. before[own].generation + 1 :
               n \in 1 .. before[own].generation \/ n = before[own].generation + 1
        BY <1>3
      <4>2. \A n \in 1 .. before[own].generation : n # before[own].generation + 1
        BY <1>3
      <4> HIDE DEF g, H
      <4>3. QED BY <1>3, <3>1, <3>2, <3>3, <4>1, <4>2
    <3>5. QED BY <2>1, <2>3, <3>4 DEF GenerationsFollow
  <2>5. CASE BringsRecovery(mem.alerts, t, a)
    <3>1. /\ a.kind = "recovery" /\ g = <<own, before[own].generation>>
          /\ before[own].open /\ ~after[own].open
          /\ after[own].generation = before[own].generation
      BY <1>3, <1>4, <2>2, <2>5
    <3>2. DOMAIN H = DOMAIN G
      BY <2>1, <3>1
    <3>3. ASSUME NEW n \in Nat
          PROVE  /\ <<own, n>> \in DOMAIN H <=> n \in 1 .. after[own].generation
                 /\ <<own, n>> \in DOMAIN H => H[<<own, n>>].status # "open"
      <4>1. /\ <<own, n>> \in DOMAIN G <=> n \in 1 .. before[own].generation
            /\ <<own, n>> \in DOMAIN G =>
                 (G[<<own, n>>].status = "open" <=> before[own].open /\ n = before[own].generation)
        BY <1>3, <1>5 DEF GenerationsFollow
      <4>2. <<own, n>> = g <=> n = before[own].generation
        BY <3>1
      <4>3. H[g].status = "recovered"
        BY <2>1, <3>1
      <4> HIDE DEF g, H
      <4>4. QED BY <2>1, <3>1, <3>2, <4>1, <4>2, <4>3
    <3>4. QED BY <2>1, <2>3, <3>1, <3>3 DEF GenerationsFollow
  <2>6. QED BY <1>7, <2>4, <2>5
<1>8. QED BY <1>2, <1>6, <1>7 DEF after


\* A view and its row accept the same evidence: later by time, or of a later line.
LEMMA SameEvidenceAccepted ==
    ASSUME NEW v \in Views!View, NEW p \in [row : Nat, at : Nat], NEW e \in Evidence,
           NEW n \in Nat, v.position < n, p.row = v.position, p.at = v.at
    PROVE  /\ Views!Moved(p, n, e.at).row = Views!Built(v, e, n).position
           /\ Views!Moved(p, n, e.at).at = Views!Built(v, e, n).at
           /\ Views!Built(v, e, n).position <= n
<1>1. /\ v.position \in Nat /\ v.at \in Nat /\ p.row \in Nat /\ p.at \in Nat /\ e.at \in Nat
  BY ReplayEvidence DEF Views!View
<1>2. /\ Views!Candidate(v, e, n).at = e.at /\ Views!Candidate(v, e, n).position = n
  BY DEF Views!Candidate
<1>3. Views!Newer(Views!Candidate(v, e, n), v) <=> v.at < e.at \/ v.at = e.at
  BY <1>1, <1>2 DEF Views!Newer
<1>4. Views!Built(v, e, n) = IF v.at < e.at \/ v.at = e.at THEN Views!Candidate(v, e, n) ELSE v
  BY <1>3 DEF Views!Built
<1>5. Views!Moved(p, n, e.at) = IF v.at < e.at \/ v.at = e.at THEN [row |-> n, at |-> e.at] ELSE p
  BY <1>1 DEF Views!Moved
<1>6. QED BY <1>1, <1>2, <1>4, <1>5

LEMMA BuildFollows ==
    ASSUME TransactionInv, BuildView, FirstRunFollows
    PROVE  FirstRunFollows'
<1> DEFINE e == file[line]
           v == mem.view[e.kind][e.subject]
           p == work.pointer[e.kind][e.subject]
<1>1. /\ mem \in Memory /\ IsTables(work) /\ stage # "none" /\ stage = "advanced" /\ line \in Nat
      /\ stage' = "built" /\ line' = line /\ db' = db
  BY DEF TransactionInv, TypeOK, BuildView, At
<1>2. e \in Evidence /\ e.kind \in Views!Kinds /\ e.subject \in Subjects
  BY <1>1, LineRead
<1>3. /\ mem.view \in [Views!Kinds -> [Subjects -> Views!View]]
      /\ work.pointer \in [Views!Kinds -> [Subjects -> [row : Nat, at : Nat]]]
  BY <1>1, MemoryFields, TablesFields
<1>4. /\ mem' = [mem EXCEPT !.view =
                   [mem.view EXCEPT ![e.kind] = [mem.view[e.kind] EXCEPT ![e.subject] =
                      Views!Built(v, e, line)]]]
      /\ work' = [work EXCEPT !.pointer =
                   [work.pointer EXCEPT ![e.kind] = [work.pointer[e.kind] EXCEPT ![e.subject] =
                      Views!Moved(p, line, e.at)]]]
  BY BuildSteps
<1>5. /\ v \in Views!View /\ p \in [row : Nat, at : Nat]
      /\ v.position < line /\ p.row = v.position /\ p.at = v.at
  BY <1>1, <1>2, <1>3 DEF FirstRunFollows, ViewsFollow
<1>6. /\ Views!Moved(p, line, e.at).row = Views!Built(v, e, line).position
      /\ Views!Moved(p, line, e.at).at = Views!Built(v, e, line).at
      /\ Views!Built(v, e, line).position <= line
  BY <1>1, <1>2, <1>5, SameEvidenceAccepted
<1> HIDE DEF v, p, e
<1>7. /\ mem'.view = [mem.view EXCEPT ![e.kind] = [mem.view[e.kind] EXCEPT ![e.subject] =
                      Views!Built(v, e, line)]]
      /\ mem'.alerts = mem.alerts
  BY <1>1, <1>4, MemoryFields
<1>8. /\ work'.pointer = [work.pointer EXCEPT ![e.kind] =
                           [work.pointer[e.kind] EXCEPT ![e.subject] = Views!Moved(p, line, e.at)]]
      /\ work'.generations = work.generations
  BY <1>1, <1>4, TablesFields
<1>9. ASSUME NEW k \in Views!Kinds, NEW s \in Subjects
      PROVE  /\ work'.pointer[k][s].row = mem'.view[k][s].position
             /\ work'.pointer[k][s].at = mem'.view[k][s].at
             /\ mem'.view[k][s].position <= line
  <2>1. /\ work.pointer[k][s].row = mem.view[k][s].position
        /\ work.pointer[k][s].at = mem.view[k][s].at
        /\ mem.view[k][s].position <= line
    BY DEF FirstRunFollows, ViewsFollow
  <2>2. CASE k = e.kind /\ s = e.subject
    <3>1. mem'.view[k][s] = Views!Built(v, e, line)
      BY <1>2, <1>3, <1>7, <2>2
    <3>2. work'.pointer[k][s] = Views!Moved(p, line, e.at)
      BY <1>2, <1>3, <1>8, <2>2
    <3>3. QED BY <1>6, <3>1, <3>2
  <2>3. CASE ~(k = e.kind /\ s = e.subject)
    <3>1. mem'.view[k][s] = mem.view[k][s]
      BY <1>2, <1>3, <1>7, <2>3
    <3>2. work'.pointer[k][s] = work.pointer[k][s]
      BY <1>2, <1>3, <1>8, <2>3
    <3>3. QED BY <2>1, <3>1, <3>2
  <2>4. QED BY <2>2, <2>3
<1>10. ViewsFollow(work'.pointer, mem'.view)
  BY <1>9 DEF ViewsFollow
<1>11. /\ GenerationsFollow(work'.generations, mem'.alerts.series)
       /\ db'.lines = 1 .. line' - 1
  BY <1>1, <1>7, <1>8 DEF FirstRunFollows
<1>12. QED BY <1>1, <1>9, <1>10, <1>11, FirstRunAfter

\* A step inside a transaction that builds no view and stores no alert.
LEMMA QuietFollows ==
    ASSUME FirstRunFollows, mem'.view = mem.view, mem'.alerts = mem.alerts,
           work'.pointer = work.pointer, work'.generations = work.generations,
           line' = line, db' = db,
           stage' \notin {"built", "applied"} => stage \notin {"built", "applied"}
    PROVE  FirstRunFollows'
BY FirstRunAfter DEF FirstRunFollows

LEMMA CommitFollows ==
    ASSUME TransactionInv, Commit, FirstRunFollows
    PROVE  FirstRunFollows'
<1>1. /\ db'.lines = db.lines \cup {line} /\ work' = db'
      /\ work'.pointer = work.pointer /\ work'.generations = work.generations
  BY CommitSteps
<1>2. line' = line + 1 /\ mem' = mem /\ line \in Nat \ {0} /\ mem \in Memory
  BY DEF Commit, NextLine, TransactionInv, TypeOK
<1>3. db'.lines = 1 .. line' - 1
  BY <1>1, <1>2 DEF FirstRunFollows
<1>4. \A k \in Views!Kinds, s \in Subjects : mem.view[k][s].position < line'
  <2>1. TAKE k \in Views!Kinds, s \in Subjects
  <2>2. mem.view[k][s] \in Views!View
    BY <1>2, MemoryFields
  <2>3. mem.view[k][s].position \in Nat /\ mem.view[k][s].position <= line
    BY <2>2 DEF Views!View, FirstRunFollows
  <2>4. QED BY <1>2, <2>3
<1>5. \A k \in Views!Kinds, s \in Subjects : mem'.view[k][s].position <= line'
  <2>1. TAKE k \in Views!Kinds, s \in Subjects
  <2>2. mem.view[k][s] \in Views!View
    BY <1>2, MemoryFields
  <2>3. mem.view[k][s].position \in Nat
    BY <2>2 DEF Views!View
  <2>4. QED BY <1>2, <1>4, <2>3
<1>6. QED BY <1>1, <1>2, <1>3, <1>4, <1>5, FirstRunAfter DEF FirstRunFollows

LEMMA AdmitFollows ==
    ASSUME ProgressInv, NEW e \in Evidence, Admit(e), FirstRunFollows
    PROVE  FirstRunFollows'
<1>1. TransactionInv /\ work = db /\ stage = "none" /\ line \in Nat /\ IsTables(work)
  BY DEF ProgressInv, TransactionInv, TypeOK, Admit, At
<1>2. line \notin db.lines
  BY <1>1 DEF FirstRunFollows
<1>3. /\ line' = line /\ stage' = "admitted" /\ mem' = mem /\ db' = db
      /\ work' = [work EXCEPT !.lines = work.lines \cup {line}]
  BY <1>1, <1>2 DEF Admit, Inserted
<1>4. work'.pointer = work.pointer /\ work'.generations = work.generations
  BY <1>1, <1>3, TablesFields
<1>5. QED BY <1>1, <1>3, <1>4, QuietFollows

LEMMA InitFollow == Init => FollowInv
<1>1. SUFFICES ASSUME Init PROVE FollowInv
  OBVIOUS
<1>2. ProgressInv
  BY <1>1, InitProgress
<1>3. runs = 0 /\ db = EmptyTables /\ mode = "stopped"
  BY <1>1 DEF Init
<1>4. QED BY <1>2, <1>3, FollowMeans

\* The first run starts on empty tables with an empty memory.
LEMMA StartFollow ==
    ASSUME FollowInv, Start
    PROVE  FollowInv'
<1>1. ProgressInv /\ ProgressInv' /\ (runs = 0 => db = EmptyTables)
  BY FollowMeans, NextProgress DEF Next
<1>2. /\ runs \in Nat /\ stage = "none" /\ work = db
  BY <1>1 DEF ProgressInv, TransactionInv, TypeOK, Start
<1>3. /\ runs' = runs + 1 /\ line' = 1 /\ mem' = EmptyMemory /\ stage' = "none"
      /\ work' = work /\ db' = db
  BY <1>2 DEF Start
<1>4. ASSUME runs = 0
      PROVE  FirstRunFollows'
  <2>1. work' = EmptyTables /\ db' = EmptyTables
    BY <1>1, <1>2, <1>3, <1>4
  <2>2. 1 .. line' - 1 = {} /\ db'.lines = {}
    BY <1>3, <2>1, EmptyFollows
  <2>3. \A k \in Views!Kinds, s \in Subjects :
           mem'.view[k][s].position <= line' /\ mem'.view[k][s].position < line'
    BY <1>3, EmptyFollows
  <2>4. ViewsFollow(work'.pointer, mem'.view) /\ GenerationsFollow(work'.generations, mem'.alerts.series)
    BY <1>3, <2>1, EmptyFollows
  <2>5. QED BY <2>2, <2>3, <2>4, FirstRunAfter
<1>5. runs' # 0 /\ (runs' = 1 => runs = 0)
  BY <1>2, <1>3
<1>6. QED BY <1>1, <1>4, <1>5, FollowMeansAfter

\* A step of the first run, or of a later one.
LEMMA RunningFollow ==
    ASSUME FollowInv, ProgressInv', mode = "running", runs' = runs,
           FirstRunFollows /\ mode' = "running" => FirstRunFollows'
    PROVE  FollowInv'
BY FollowMeans, FollowMeansAfter

LEMMA NextFollow == FollowInv /\ [Next]_vars => FollowInv'
<1>1. SUFFICES ASSUME FollowInv, [Next]_vars PROVE FollowInv'
  OBVIOUS
<1>2. ProgressInv /\ ProgressInv' /\ TransactionInv /\ TypeOK
  BY <1>1, FollowMeans, NextProgress DEF ProgressInv, TransactionInv
<1>3. CASE Start
  BY <1>1, <1>3, StartFollow
<1>4. CASE Stop \/ DecodeFails \/ EmitFails
  <2>1. mode' = "stopped" /\ runs' = runs /\ db' = db
    BY <1>2, <1>4, StopsTransactionInv DEF Stopped
  <2>2. runs = 0 => db = EmptyTables
    BY <1>1, FollowMeans
  <2>3. QED BY <1>2, <2>1, <2>2, FollowMeansAfter
<1>5. ASSUME NEW e \in Evidence, Admit(e) PROVE FollowInv'
  <2>1. mode = "running" /\ runs' = runs
    BY <1>5 DEF Admit, At
  <2>2. FirstRunFollows => FirstRunFollows'
    BY <1>2, <1>5, AdmitFollows
  <2>3. QED BY <1>1, <1>2, <2>1, <2>2, RunningFollow
<1>6. CASE FireDue \/ EvaluateAndApply
  <2>1. /\ mode = "running" /\ runs' = runs /\ line' = line /\ db' = db /\ work' = work
        /\ stage' \notin {"built", "applied"} => stage \notin {"built", "applied"}
    BY <1>6 DEF FireDue, EvaluateAndApply, At
  <2>2. mem \in Memory
    BY <1>2 DEF TypeOK
  <2>3. \E t : mem' = [mem EXCEPT !.tracker = t]
    <3>1. CASE FireDue
      BY <2>2, <3>1, MemoryFields DEF FireDue
    <3>2. CASE EvaluateAndApply
      BY <1>2, <3>2, EvaluateSteps
    <3>3. QED BY <1>6, <3>1, <3>2
  <2>4. mem'.view = mem.view /\ mem'.alerts = mem.alerts
    BY <2>2, <2>3, MemoryFields
  <2>5. FirstRunFollows => FirstRunFollows'
    BY <2>1, <2>4, QuietFollows
  <2>6. QED BY <1>1, <1>2, <2>1, <2>5, RunningFollow
<1>7. CASE EmitStored
  <2>1. mode = "running" /\ runs' = runs /\ line' = line /\ db' = db /\ stage' = stage
    BY <1>7 DEF EmitStored, Emitting
  <2>2. ASSUME FirstRunFollows
        PROVE  FirstRunFollows'
    <3>1. GenerationsFollow(work.generations, mem.alerts.series)
      BY <2>2 DEF FirstRunFollows
    <3>2. /\ GenerationsFollow(work'.generations, mem'.alerts.series)
          /\ mem'.view = mem.view /\ work'.pointer = work.pointer
      BY <1>2, <1>7, <3>1, EmitFollows
    <3>3. QED BY <2>1, <2>2, <3>2, FirstRunAfter DEF FirstRunFollows
  <2>3. QED BY <1>1, <1>2, <2>1, <2>2, RunningFollow
<1>8. CASE BuildView
  <2>1. mode = "running" /\ runs' = runs
    BY <1>8 DEF BuildView, At
  <2>2. FirstRunFollows => FirstRunFollows'
    BY <1>2, <1>8, BuildFollows
  <2>3. QED BY <1>1, <1>2, <2>1, <2>2, RunningFollow
<1>9. CASE Commit
  <2>1. mode = "running" /\ runs' = runs
    BY <1>9 DEF Commit, At
  <2>2. FirstRunFollows => FirstRunFollows'
    BY <1>2, <1>9, CommitFollows
  <2>3. QED BY <1>1, <1>2, <2>1, <2>2, RunningFollow
<1>10. CASE EndOfFile
  <2>1. mode = "running" /\ mode' = "ended" /\ runs' = runs
    BY <1>10 DEF EndOfFile, At
  <2>2. QED BY <1>1, <1>2, <2>1, RunningFollow
<1>11. CASE UNCHANGED vars
  <2>1. /\ runs' = runs /\ line' = line /\ db' = db /\ stage' = stage
        /\ mode' = mode /\ mem' = mem /\ work' = work
    BY <1>11 DEF vars
  <2>2. FirstRunFollows => FirstRunFollows'
    BY <2>1, QuietFollows
  <2>3. QED BY <1>1, <1>2, <2>1, <2>2, FollowMeans, FollowMeansAfter
<1>12. QED
  BY <1>1, <1>3, <1>4, <1>5, <1>6, <1>7, <1>8, <1>9, <1>10, <1>11 DEF Next, RunStep

\* Between two lines of a run on empty tables the tables say what the memory says: the
\* views' rows and the generations never run ahead of the reducers, nor behind them.
THEOREM TablesFollowMemory == Spec => []StoreFollowsMemory
<1>1. FollowInv => StoreFollowsMemory
  <2>1. SUFFICES ASSUME FollowInv, mode = "running", stage = "none", runs = 1
                 PROVE  db.lines = 1 .. line - 1 /\ Follows(db)
    BY DEF StoreFollowsMemory
  <2>2. work = db
    BY <2>1 DEF FollowInv, ProgressInv, TransactionInv
  <2>3. QED BY <2>1, <2>2 DEF FollowInv
<1>2. QED BY <1>1, InitFollow, NextFollow, PTL DEF Spec


-----------------------------------------------------------------------------
(* The recursions of the preview: what Emit makes of a list, and Lines of  *)
(* a file.                                                                 *)

\* Induction up to n, over a set.
LEMMA UpTo ==
    ASSUME NEW n \in Nat, NEW G, 0 \in G, \A i \in 1 .. n : i - 1 \in G => i \in G
    PROVE  \A i \in 0 .. n : i \in G
<1> DEFINE Bad == {i \in 0 .. n : i \notin G}
<1>1. SUFFICES ASSUME Bad # {} PROVE FALSE
  OBVIOUS
<1>2. PICK i \in Bad : \A j \in Bad : i <= j
  <2>1. Bad \in SUBSET Nat
    OBVIOUS
  <2> HIDE DEF Bad
  <2>2. QED BY <1>1, <2>1, LeastNatural
<1>3. i \in 1 .. n /\ i - 1 \in 0 .. n /\ ~(i <= i - 1)
  BY <1>2
<1>4. i - 1 \notin Bad
  BY <1>2, <1>3
<1>5. QED BY <1>2, <1>3, <1>4

\* A state and, for each of n steps, what the step makes of a state: the states passed.
Path(f, S, n, s, step) ==
    /\ f \in [0 .. n -> S]
    /\ f[0] = s
    /\ \A i \in 1 .. n : f[i] = step[i][f[i - 1]]

LEMMA PathExists ==
    ASSUME NEW S, NEW n \in Nat, NEW s \in S, NEW step \in [1 .. n -> [S -> S]]
    PROVE  \E f : Path(f, S, n, s, step)
<1> DEFINE Passes(f, k) == /\ f \in [0 .. k -> S] /\ f[0] = s
                           /\ \A i \in 1 .. k : f[i] = step[i][f[i - 1]]
           G == {k \in 0 .. n : \E f : Passes(f, k)}
<1>1. 0 \in G
  <2>1. Passes([i \in 0 .. 0 |-> s], 0)
    OBVIOUS
  <2>2. 0 \in 0 .. n
    OBVIOUS
  <2> HIDE DEF Passes
  <2>3. QED BY <2>1, <2>2
<1>2. ASSUME NEW k \in 1 .. n, k - 1 \in G
      PROVE  k \in G
  <2>1. PICK f : Passes(f, k - 1)
    BY <1>2
  <2> DEFINE g == [i \in 0 .. k |-> IF i = k THEN step[k][f[k - 1]] ELSE f[i]]
  <2>2. k - 1 \in 0 .. k - 1 /\ f[k - 1] \in S /\ step[k] \in [S -> S]
    BY <2>1
  <2>3. step[k][f[k - 1]] \in S
    BY <2>2
  <2>4. ASSUME NEW i \in 0 .. k
        PROVE  g[i] \in S
    <3>1. i # k => i \in 0 .. k - 1
      OBVIOUS
    <3>2. QED BY <2>1, <2>3, <3>1
  <2>5. ASSUME NEW i \in 1 .. k
        PROVE  g[i] = step[i][g[i - 1]]
    <3>1. g[i - 1] = f[i - 1]
      OBVIOUS
    <3>2. i # k => i \in 1 .. k - 1
      OBVIOUS
    <3>3. QED BY <2>1, <3>1, <3>2
  <2>6. g[0] = s
    BY <2>1
  <2>7. Passes(g, k)
    <3>1. g \in [0 .. k -> S]
      BY <2>4
    <3> HIDE DEF g
    <3>2. QED BY <3>1, <2>5, <2>6
  <2> HIDE DEF Passes
  <2>8. QED BY <2>7
<1> HIDE DEF G
<1>3. \A k \in 0 .. n : k \in G
  BY <1>1, <1>2, UpTo
<1>4. n \in G
  BY <1>3
<1>5. QED BY <1>4 DEF G, Path

PreviewState == [mem : Memory, logical : Nat, output : SUBSET (AlertRow \X Nat)]

LEMMA PlannedForType ==
    ASSUME NEW m \in Memory, NEW t \in ConditionTransition
    PROVE  /\ PlannedFor(m, t) \in SUBSET AlertRow
           /\ \A row \in PlannedFor(m, t) : row[1] = <<t.rule, t.subject>>
<1>1. \/ AlertTransitions(m.alerts, t) = <<>>
      \/ \E a \in AlertTransition :
            AlertTransitions(m.alerts, t) = <<a>> /\ a.series = <<t.rule, t.subject>>
  <2>1. \A a : BringsOpening(m.alerts, t, a) \/ BringsRecovery(m.alerts, t, a)
                 => a.series = <<t.rule, t.subject>>
    BY DEF BringsOpening, BringsRecovery
  <2>2. QED BY <2>1, Brought
<1>2. CASE AlertTransitions(m.alerts, t) = <<>>
  <2>1. PlannedFor(m, t) = {}
    BY <1>2 DEF PlannedFor
  <2>2. QED BY <2>1
<1>3. ASSUME NEW a \in AlertTransition, AlertTransitions(m.alerts, t) = <<a>>,
             a.series = <<t.rule, t.subject>>
      PROVE  /\ PlannedFor(m, t) \in SUBSET AlertRow
             /\ \A row \in PlannedFor(m, t) : row[1] = <<t.rule, t.subject>>
  <2>1. PlannedFor(m, t) = Planned(m.planned, a, t.rule)
    BY <1>3 DEF PlannedFor
  <2>2. Planned(m.planned, a, t.rule) \subseteq {Row(a)}
    BY DEF Planned
  <2>3. Row(a) \in AlertRow /\ Row(a)[1] = <<t.rule, t.subject>>
    BY <1>3 DEF Row, AlertRow, AlertTransition
  <2>4. QED BY <2>1, <2>2, <2>3
<1>4. QED BY <1>1, <1>2, <1>3

LEMMA EmitOneType ==
    ASSUME NEW p \in PreviewState, NEW t \in ConditionTransition
    PROVE  /\ EmitOne(p, t) \in PreviewState
           /\ EmitOne(p, t) =
                [mem |-> [view |-> p.mem.view, tracker |-> p.mem.tracker,
                          alerts |-> AlertsAfter(p.mem.alerts, t),
                          planned |-> p.mem.planned \cup PlannedFor(p.mem, t)],
                 logical |-> p.logical,
                 output |-> p.output \cup {<<row, t.at>> : row \in PlannedFor(p.mem, t)}]
<1> DEFINE rows == PlannedFor(p.mem, t)
           dated == {<<row, t.at>> : row \in rows}
           alerts == AlertsAfter(p.mem.alerts, t)
<1>1. /\ p.mem \in Memory /\ p.logical \in Nat /\ p.output \in SUBSET (AlertRow \X Nat)
      /\ p = [mem |-> p.mem, logical |-> p.logical, output |-> p.output]
  BY DEF PreviewState
<1>2. /\ p.mem = [view |-> p.mem.view, tracker |-> p.mem.tracker, alerts |-> p.mem.alerts,
                  planned |-> p.mem.planned]
      /\ p.mem.planned \subseteq AlertRow
      /\ p.mem.view \in [Views!Kinds -> [Subjects -> Views!View]]
      /\ p.mem.tracker \in [Rules -> [Subjects -> Tracker]]
  BY <1>1, MemoryFields
<1>3. rows \subseteq AlertRow /\ alerts \in AlertMemory
  BY <1>1, PlannedForType, AlertsAfterType
<1>4. t.at \in Nat
  BY DEF ConditionTransition
<1>5. dated \subseteq AlertRow \X Nat
  BY <1>3, <1>4
<1>6. EmitOne(p, t) = [p EXCEPT !.mem.alerts = alerts, !.mem.planned = p.mem.planned \cup rows,
                                !.output = p.output \cup dated]
  BY <1>1, <1>2 DEF EmitOne
<1> HIDE DEF rows, dated, alerts
<1>7. EmitOne(p, t) =
        [mem |-> [view |-> p.mem.view, tracker |-> p.mem.tracker, alerts |-> alerts,
                  planned |-> p.mem.planned \cup rows],
         logical |-> p.logical, output |-> p.output \cup dated]
  BY <1>1, <1>2, <1>6
<1>8. [view |-> p.mem.view, tracker |-> p.mem.tracker, alerts |-> alerts,
       planned |-> p.mem.planned \cup rows] \in Memory
  BY <1>2, <1>3 DEF Memory, AlertMemory
<1>9. EmitOne(p, t) \in PreviewState
  BY <1>1, <1>5, <1>7, <1>8 DEF PreviewState
<1>10. QED BY <1>7, <1>9 DEF rows, dated, alerts

\* The states a list of transitions is emitted through.
EmitPath(f, p, q) ==
    /\ f \in [0 .. Len(q) -> PreviewState]
    /\ f[0] = p
    /\ \A i \in 1 .. Len(q) : f[i] = EmitOne(f[i - 1], q[i])

LEMMA EmitFollowsPath ==
    ASSUME NEW p \in PreviewState, NEW q \in Seq(ConditionTransition)
    PROVE  \E f : EmitPath(f, p, q) /\ Emit(p, q) = f[Len(q)]
<1> DEFINE n == Len(q)
           Body(f, i) == IF i = 0 THEN p ELSE EmitOne(f[i - 1], q[i])
           after == CHOOSE f : f = [i \in 0 .. n |-> Body(f, i)]
           step == [i \in 1 .. n |-> [s \in PreviewState |-> EmitOne(s, q[i])]]
<1>1. n \in Nat /\ \A i \in 1 .. n : q[i] \in ConditionTransition
  BY LenProperties, ElementOfSeq
<1>2. step \in [1 .. n -> [PreviewState -> PreviewState]]
  BY <1>1, EmitOneType
<1>3. \A i \in 1 .. n : \A s \in PreviewState : step[i][s] = EmitOne(s, q[i])
  OBVIOUS
<1> HIDE DEF n, step
<1>4. PICK f \in [0 .. n -> PreviewState] :
        f[0] = p /\ \A i \in 1 .. n : f[i] = step[i][f[i - 1]]
  <2>1. \E f : Path(f, PreviewState, n, p, step)
    BY <1>1, <1>2, PathExists
  <2>2. QED BY <2>1 DEF Path
<1>5. \A i \in 1 .. n : i - 1 \in 0 .. n
  BY <1>1
<1>6. \A i \in 1 .. n : f[i] = EmitOne(f[i - 1], q[i])
  BY <1>3, <1>4, <1>5
<1>7. \A i \in 0 .. n : i # 0 => i \in 1 .. n
  BY <1>1
<1>8. f = [i \in 0 .. n |-> Body(f, i)]
  BY <1>4, <1>6, <1>7
<1>9. after = [i \in 0 .. n |-> Body(after, i)]
  BY <1>8
<1>10. Emit(p, q) = after[n]
  BY DEF Emit, after, n
<1>11. \A i \in 0 .. n : after[i] = Body(after, i)
  BY <1>9
<1>12. \A i \in 1 .. n : i \in 0 .. n /\ i # 0
  BY <1>1
<1>13. 0 \in 0 .. n /\ DOMAIN after = 0 .. n
  BY <1>1, <1>9
<1> HIDE DEF after
<1>14. after[0] = p /\ \A i \in 1 .. n : after[i] = EmitOne(after[i - 1], q[i])
  BY <1>11, <1>12, <1>13
<1>15. \A i \in 0 .. n : i \in {j \in 0 .. n : after[j] = f[j]}
  <2> DEFINE G == {j \in 0 .. n : after[j] = f[j]}
  <2>1. 0 \in G
    BY <1>4, <1>13, <1>14
  <2>2. \A i \in 1 .. n : i - 1 \in G => i \in G
    BY <1>6, <1>12, <1>14
  <2> HIDE DEF G
  <2>3. \A i \in 0 .. n : i \in G
    BY <1>1, <2>1, <2>2, UpTo
  <2>4. QED BY <2>3 DEF G
<1>16. \A i \in 0 .. n : after[i] \in PreviewState
  BY <1>4, <1>15
<1>17. after \in [0 .. n -> PreviewState]
  BY <1>9, <1>16 DEF after
<1>18. EmitPath(after, p, q)
  BY <1>14, <1>17 DEF EmitPath, n
<1>19. QED BY <1>10, <1>18 DEF n

\* There is one.
LEMMA OneEmitPath ==
    ASSUME NEW p \in PreviewState, NEW q \in Seq(ConditionTransition), NEW f, EmitPath(f, p, q)
    PROVE  Emit(p, q) = f[Len(q)] /\ Emit(p, q) \in PreviewState
<1> DEFINE n == Len(q)
<1>1. n \in Nat
  BY LenProperties
<1>2. PICK g : EmitPath(g, p, q) /\ Emit(p, q) = g[n]
  BY EmitFollowsPath
<1> DEFINE G == {j \in 0 .. n : g[j] = f[j]}
<1>3. 0 \in G
  BY <1>1, <1>2 DEF EmitPath
<1>4. \A i \in 1 .. n : i - 1 \in G => i \in G
  BY <1>1, <1>2 DEF EmitPath
<1>5. n \in 0 .. n
  BY <1>1
<1>6. g[n] \in PreviewState
  BY <1>2, <1>5 DEF EmitPath
<1>7. \A i \in 0 .. n : i \in G
  <2> HIDE DEF n, G
  <2>1. QED BY <1>1, <1>3, <1>4, UpTo
<1>8. g[n] = f[n]
  BY <1>5, <1>7
<1>9. QED BY <1>2, <1>6, <1>8

LEMMA EmitNothing ==
    ASSUME NEW p \in PreviewState
    PROVE  Emit(p, <<>>) = p
<1>1. <<>> \in Seq(ConditionTransition) /\ Len(<<>>) = 0
  OBVIOUS
<1>2. EmitPath([i \in 0 .. 0 |-> p], p, <<>>)
  BY DEF EmitPath
<1>3. [i \in 0 .. 0 |-> p][0] = p
  OBVIOUS
<1>4. QED BY <1>1, <1>2, <1>3, OneEmitPath

\* Emitting the first and then the others is emitting them all.
LEMMA EmitFirst ==
    ASSUME NEW p \in PreviewState, NEW q \in Seq(ConditionTransition), q # <<>>
    PROVE  Emit(EmitOne(p, Head(q)), Tail(q)) = Emit(p, q)
<1> DEFINE n == Len(q)
           g(f) == [i \in 0 .. n - 1 |-> f[i + 1]]
<1>1. /\ n \in Nat \ {0} /\ Tail(q) \in Seq(ConditionTransition) /\ Len(Tail(q)) = n - 1
      /\ Head(q) \in ConditionTransition /\ Head(q) = q[1]
      /\ \A i \in 1 .. n - 1 : Tail(q)[i] = q[i + 1]
  BY HeadTailProperties, EmptySeq, LenProperties, ElementOfSeq
<1>2. PICK f : EmitPath(f, p, q) /\ Emit(p, q) = f[n]
  BY EmitFollowsPath
<1>3. f \in [0 .. n -> PreviewState] /\ f[0] = p
  BY <1>2 DEF EmitPath
<1>4. \A i \in 1 .. n : f[i] = EmitOne(f[i - 1], q[i])
  BY <1>2 DEF EmitPath
<1>5. f[1] = EmitOne(p, Head(q)) /\ f[1] \in PreviewState
  BY <1>1, <1>3, <1>4
<1>6. \A i \in 0 .. n - 1 : i + 1 \in 0 .. n
  BY <1>1
<1>7. g(f) \in [0 .. n - 1 -> PreviewState]
  BY <1>3, <1>6
<1>8. g(f)[0] = f[1] /\ g(f)[n - 1] = f[n]
  BY <1>1
<1>9. ASSUME NEW i \in 1 .. n - 1
      PROVE  g(f)[i] = EmitOne(g(f)[i - 1], Tail(q)[i])
  <2>1. i + 1 \in 1 .. n /\ i \in 0 .. n - 1 /\ i - 1 \in 0 .. n - 1 /\ (i + 1) - 1 = i
        /\ (i - 1) + 1 = i
    BY <1>1
  <2>2. g(f)[i] = f[i + 1] /\ g(f)[i - 1] = f[i]
    BY <2>1
  <2>3. f[i + 1] = EmitOne(f[i], q[i + 1])
    BY <1>4, <2>1
  <2>4. QED BY <1>1, <2>2, <2>3
<1> HIDE DEF g, n
<1>10. EmitPath(g(f), f[1], Tail(q))
  BY <1>1, <1>7, <1>8, <1>9 DEF EmitPath
<1>11. Emit(f[1], Tail(q)) = g(f)[Len(Tail(q))]
  BY <1>1, <1>5, <1>10, OneEmitPath, Zenon
<1>12. QED BY <1>1, <1>2, <1>5, <1>8, <1>11

-----------------------------------------------------------------------------
(* The parts of a line, each on a state of the preview.                    *)

\* p at another time, with other trackers and views.
With(p, now, trackers, views) ==
    [mem |-> [view |-> views, tracker |-> trackers, alerts |-> p.mem.alerts,
              planned |-> p.mem.planned],
     logical |-> now, output |-> p.output]

LEMMA StateFields ==
    ASSUME NEW p \in PreviewState
    PROVE  /\ p.mem \in Memory /\ p.logical \in Nat /\ p.output \in SUBSET (AlertRow \X Nat)
           /\ p.mem.tracker \in [Rules -> [Subjects -> Tracker]]
           /\ p.mem.view \in [Views!Kinds -> [Subjects -> Views!View]]
           /\ p.mem.planned \in SUBSET AlertRow
           /\ p.mem.alerts \in AlertMemory
           /\ p = With(p, p.logical, p.mem.tracker, p.mem.view)
<1>1. /\ p.mem \in Memory /\ p.logical \in Nat /\ p.output \in SUBSET (AlertRow \X Nat)
      /\ p = [mem |-> p.mem, logical |-> p.logical, output |-> p.output]
  BY DEF PreviewState
<1>2. /\ p.mem.tracker \in [Rules -> [Subjects -> Tracker]]
      /\ p.mem.view \in [Views!Kinds -> [Subjects -> Views!View]]
      /\ p.mem.planned \in SUBSET AlertRow
      /\ p.mem.alerts \in AlertMemory
      /\ p.mem = [view |-> p.mem.view, tracker |-> p.mem.tracker, alerts |-> p.mem.alerts,
                  planned |-> p.mem.planned]
  BY <1>1, MemoryFields DEF AlertMemory
<1>3. QED BY <1>1, <1>2 DEF With

LEMMA WithType ==
    ASSUME NEW p \in PreviewState, NEW now \in Nat,
           NEW trackers \in [Rules -> [Subjects -> Tracker]],
           NEW views \in [Views!Kinds -> [Subjects -> Views!View]]
    PROVE  /\ With(p, now, trackers, views) \in PreviewState
           /\ With(p, now, trackers, views).mem.tracker = trackers
           /\ With(p, now, trackers, views).mem.view = views
           /\ With(p, now, trackers, views).mem.alerts = p.mem.alerts
           /\ With(p, now, trackers, views).mem.planned = p.mem.planned
           /\ With(p, now, trackers, views).logical = now
           /\ With(p, now, trackers, views).output = p.output
<1>1. p.mem.alerts \in AlertMemory /\ p.mem.planned \in SUBSET AlertRow
      /\ p.output \in SUBSET (AlertRow \X Nat)
  BY StateFields
<1>2. [view |-> views, tracker |-> trackers, alerts |-> p.mem.alerts,
       planned |-> p.mem.planned] \in Memory
  BY <1>1 DEF Memory, AlertMemory
<1>3. QED BY <1>1, <1>2 DEF With, PreviewState

LEMMA AdvanceSteps ==
    ASSUME NEW p \in PreviewState, NEW now \in Nat
    PROVE  /\ Drained(p.mem.tracker, now) \in [Rules -> [Subjects -> Tracker]]
           /\ FiredBy(p.mem.tracker, now) \in Seq(ConditionTransition)
           /\ With(p, now, Drained(p.mem.tracker, now), p.mem.view) \in PreviewState
           /\ AdvanceTo(p, now) = Emit(With(p, now, Drained(p.mem.tracker, now), p.mem.view),
                                       FiredBy(p.mem.tracker, now))
<1>1. /\ Drained(p.mem.tracker, now) \in [Rules -> [Subjects -> Tracker]]
      /\ FiredBy(p.mem.tracker, now) \in Seq(ConditionTransition)
  BY StateFields, DrainedType, FiredByType
<1>2. With(p, now, Drained(p.mem.tracker, now), p.mem.view) \in PreviewState
  BY <1>1, StateFields, WithType
<1> DEFINE trackers == Drained(p.mem.tracker, now)
<1>3. AdvanceTo(p, now) =
        Emit([p EXCEPT !.logical = now, !.mem.tracker = trackers], FiredBy(p.mem.tracker, now))
  BY DEF AdvanceTo
<1> HIDE DEF trackers
<1>4. [p EXCEPT !.logical = now, !.mem.tracker = trackers] = With(p, now, trackers, p.mem.view)
  <2>1. p = [mem |-> p.mem, logical |-> p.logical, output |-> p.output]
    BY DEF PreviewState
  <2>2. ASSUME NEW u, u = [p EXCEPT !.logical = now, !.mem.tracker = trackers]
        PROVE  u = [mem |-> [p.mem EXCEPT !.tracker = trackers], logical |-> now,
                    output |-> p.output]
    BY <2>1, <2>2
  <2>3. p.mem = [view |-> p.mem.view, tracker |-> p.mem.tracker, alerts |-> p.mem.alerts,
                 planned |-> p.mem.planned]
    BY StateFields, MemoryFields
  <2>4. [p.mem EXCEPT !.tracker = trackers]
          = [view |-> p.mem.view, tracker |-> trackers, alerts |-> p.mem.alerts,
             planned |-> p.mem.planned]
    BY <2>3
  <2> HIDE DEF trackers
  <2>5. [p EXCEPT !.logical = now, !.mem.tracker = trackers]
          = [mem |-> [p.mem EXCEPT !.tracker = trackers], logical |-> now, output |-> p.output]
    BY <2>2, Zenon
  <2>6. QED BY <2>4, <2>5 DEF With
<1>5. QED BY <1>1, <1>2, <1>3, <1>4 DEF trackers

LEMMA BuildKeptSteps ==
    ASSUME NEW p \in PreviewState, NEW e \in Evidence, NEW n \in Nat
    PROVE  LET views == [p.mem.view EXCEPT ![e.kind] = [p.mem.view[e.kind] EXCEPT
                           ![e.subject] = Kept(p.mem.view[e.kind][e.subject], e, n)]]
           IN /\ views \in [Views!Kinds -> [Subjects -> Views!View]]
              /\ BuildKept(p, e, n) = With(p, p.logical, p.mem.tracker, views)
              /\ BuildKept(p, e, n) \in PreviewState
<1> DEFINE v == Kept(p.mem.view[e.kind][e.subject], e, n)
           views == [p.mem.view EXCEPT ![e.kind] = [p.mem.view[e.kind] EXCEPT ![e.subject] = v]]
<1>1. /\ e.kind \in Views!Kinds /\ e.subject \in Subjects /\ e.at \in Nat
      /\ e.holds \in BOOLEAN /\ e.since \in Nat
  BY ReplayEvidence
<1>2. p.mem.view \in [Views!Kinds -> [Subjects -> Views!View]]
  BY StateFields
<1>3. v \in Views!View
  <2>1. p.mem.view[e.kind][e.subject] \in Views!View
    BY <1>1, <1>2
  <2>2. QED BY <1>1, <2>1 DEF Kept, Views!View
<1>4. BuildKept(p, e, n) = [p EXCEPT !.mem.view[e.kind][e.subject] = v]
  BY DEF BuildKept
<1> HIDE DEF v
<1>5. views \in [Views!Kinds -> [Subjects -> Views!View]]
  BY <1>1, <1>2, <1>3
<1>6. [p EXCEPT !.mem.view[e.kind][e.subject] = v]
        = With(p, p.logical, p.mem.tracker, views)
  <2>1. [p EXCEPT !.mem.view[e.kind][e.subject] = v] = [p EXCEPT !.mem.view = views]
    BY <1>1, StateFields, Zenon
  <2> HIDE DEF views
  <2>2. [p EXCEPT !.mem.view = views] = With(p, p.logical, p.mem.tracker, views)
    BY StateFields DEF With
  <2>3. QED BY <2>1, <2>2
<1> HIDE DEF views
<1>7. With(p, p.logical, p.mem.tracker, views) \in PreviewState
  BY <1>5, StateFields, WithType
<1>8. QED BY <1>4, <1>5, <1>6, <1>7 DEF views, v

\* The trackers after an evaluation, and what it emits.
Evaluated(m, e, now) ==
    [r \in Rules |-> [m.tracker[r] EXCEPT ![e.subject] = Applied(m, e, now)[r].tracker]]
FiredAt(m, e, now) ==
    Seqs!FlattenSeq([i \in DOMAIN RuleOrder |-> Applied(m, e, now)[RuleOrder[i]].fired])

LEMMA EvaluateLineSteps ==
    ASSUME NEW p \in PreviewState, NEW e \in Evidence
    PROVE  /\ Evaluated(p.mem, e, p.logical) \in [Rules -> [Subjects -> Tracker]]
           /\ FiredAt(p.mem, e, p.logical) \in Seq(ConditionTransition)
           /\ With(p, p.logical, Evaluated(p.mem, e, p.logical), p.mem.view) \in PreviewState
           /\ EvaluateLine(p, e) =
                Emit(With(p, p.logical, Evaluated(p.mem, e, p.logical), p.mem.view),
                     FiredAt(p.mem, e, p.logical))
<1> DEFINE trackers == Evaluated(p.mem, e, p.logical)
           fired == FiredAt(p.mem, e, p.logical)
<1>1. p.mem \in Memory /\ p.logical \in Nat /\ e.subject \in Subjects
      /\ p.mem.tracker \in [Rules -> [Subjects -> Tracker]]
      /\ p.mem.view \in [Views!Kinds -> [Subjects -> Views!View]]
  BY StateFields, ReplayEvidence
<1>2. fired \in Seq(ConditionTransition)
  BY <1>1, EvaluatedType DEF FiredAt
<1>3. trackers \in [Rules -> [Subjects -> Tracker]]
  <2>1. ASSUME NEW r \in Rules
        PROVE  [p.mem.tracker[r] EXCEPT ![e.subject] = Applied(p.mem, e, p.logical)[r].tracker]
                 \in [Subjects -> Tracker]
    <3>1. Applied(p.mem, e, p.logical)[r].tracker \in Tracker
      BY <1>1, AppliedType
    <3>2. p.mem.tracker[r] \in [Subjects -> Tracker]
      BY <1>1
    <3>3. QED BY <1>1, <3>1, <3>2
  <2>2. QED BY <2>1 DEF Evaluated
<1>4. EvaluateLine(p, e) = Emit([p EXCEPT !.mem.tracker = trackers], fired)
  BY DEF EvaluateLine, Evaluated, FiredAt
<1> HIDE DEF trackers, fired
<1>5. [p EXCEPT !.mem.tracker = trackers] = With(p, p.logical, trackers, p.mem.view)
  BY StateFields DEF With
<1>6. With(p, p.logical, trackers, p.mem.view) \in PreviewState
  BY <1>1, <1>3, WithType
<1>7. QED BY <1>2, <1>3, <1>4, <1>5, <1>6 DEF trackers, fired

LEMMA EmitType ==
    ASSUME NEW p \in PreviewState, NEW q \in Seq(ConditionTransition)
    PROVE  Emit(p, q) \in PreviewState
BY EmitFollowsPath, OneEmitPath

\* Logical time at event e.
TimeAt(p, e) == IF e.at > p.logical THEN e.at ELSE p.logical

LEMMA ProcessSteps ==
    ASSUME NEW p \in PreviewState, NEW e \in Evidence, NEW n \in Nat
    PROVE  /\ TimeAt(p, e) \in Nat
           /\ AdvanceTo(p, TimeAt(p, e)) \in PreviewState
           /\ BuildKept(AdvanceTo(p, TimeAt(p, e)), e, n) \in PreviewState
           /\ EvaluateLine(BuildKept(AdvanceTo(p, TimeAt(p, e)), e, n), e) \in PreviewState
           /\ Process(p, e, n)
                = EvaluateLine(BuildKept(AdvanceTo(p, TimeAt(p, e)), e, n), e)
<1> DEFINE now == TimeAt(p, e)
           a == AdvanceTo(p, now)
           b == BuildKept(a, e, n)
<1>1. now \in Nat
  BY StateFields, ReplayEvidence DEF TimeAt
<1>2. Process(p, e, n) = EvaluateLine(b, e)
  BY DEF Process, TimeAt
<1> HIDE DEF now
<1>3. a \in PreviewState
  BY <1>1, AdvanceSteps, EmitType
<1> HIDE DEF a
<1>4. b \in PreviewState
  BY <1>3, BuildKeptSteps
<1> HIDE DEF b
<1>5. EvaluateLine(b, e) \in PreviewState
  BY <1>4, EvaluateLineSteps, EmitType
<1>6. QED BY <1>1, <1>2, <1>3, <1>4, <1>5 DEF b, a, now

LEMMA EmptyPreviewType == EmptyPreview \in PreviewState
<1>1. Unset \in Nat
  BY DEF Unset
<1>2. QED BY <1>1, EmptyMemoryType DEF EmptyPreview, PreviewState

\* The states the first n lines pass through.
LinePath(f, events, n) ==
    /\ f \in [0 .. n -> PreviewState]
    /\ f[0] = EmptyPreview
    /\ \A i \in 1 .. n : f[i] = Process(f[i - 1], events[i], i)

LEMMA LinesFollowPath ==
    ASSUME NEW events, NEW n \in Nat, \A i \in 1 .. n : events[i] \in Evidence
    PROVE  \E f : LinePath(f, events, n) /\ Lines(events, n) = f[n]
<1> DEFINE Body(f, i) == IF i = 0 THEN EmptyPreview ELSE Process(f[i - 1], events[i], i)
           after == CHOOSE f : f = [i \in 0 .. n |-> Body(f, i)]
           step == [i \in 1 .. n |-> [s \in PreviewState |-> Process(s, events[i], i)]]
<1>1. \A i \in 1 .. n : i \in Nat /\ i \in 0 .. n /\ i # 0 /\ i - 1 \in 0 .. n
  OBVIOUS
<1>2. step \in [1 .. n -> [PreviewState -> PreviewState]]
  <2>1. ASSUME NEW i \in 1 .. n, NEW s \in PreviewState
        PROVE  Process(s, events[i], i) \in PreviewState
    BY <1>1, ProcessSteps
  <2>2. QED BY <2>1
<1>3. \A i \in 1 .. n : \A s \in PreviewState : step[i][s] = Process(s, events[i], i)
  OBVIOUS
<1> HIDE DEF step
<1>4. PICK f \in [0 .. n -> PreviewState] :
        f[0] = EmptyPreview /\ \A i \in 1 .. n : f[i] = step[i][f[i - 1]]
  <2>1. \E f : Path(f, PreviewState, n, EmptyPreview, step)
    BY <1>2, EmptyPreviewType, PathExists
  <2>2. QED BY <2>1 DEF Path
<1>5. \A i \in 1 .. n : f[i] = Process(f[i - 1], events[i], i)
  BY <1>1, <1>3, <1>4
<1>6. \A i \in 0 .. n : i # 0 => i \in 1 .. n
  OBVIOUS
<1>7. f = [i \in 0 .. n |-> Body(f, i)]
  BY <1>4, <1>5, <1>6
<1>8. after = [i \in 0 .. n |-> Body(after, i)]
  BY <1>7
<1>9. Lines(events, n) = after[n]
  BY DEF Lines, after
<1>10. \A i \in 0 .. n : after[i] = Body(after, i)
  BY <1>8
<1>11. 0 \in 0 .. n
  OBVIOUS
<1> HIDE DEF after
<1>12. after[0] = EmptyPreview /\ \A i \in 1 .. n : after[i] = Process(after[i - 1], events[i], i)
  BY <1>1, <1>10, <1>11
<1>13. \A i \in 0 .. n : after[i] = f[i]
  <2> DEFINE G == {j \in 0 .. n : after[j] = f[j]}
  <2>1. 0 \in G
    BY <1>4, <1>11, <1>12
  <2>2. \A i \in 1 .. n : i - 1 \in G => i \in G
    BY <1>1, <1>5, <1>12
  <2> HIDE DEF G
  <2>3. \A i \in 0 .. n : i \in G
    BY <2>1, <2>2, UpTo
  <2>4. QED BY <2>3 DEF G
<1>14. \A i \in 0 .. n : after[i] \in PreviewState
  BY <1>4, <1>13
<1>15. after \in [0 .. n -> PreviewState]
  BY <1>8, <1>14 DEF after
<1>16. QED BY <1>9, <1>12, <1>15 DEF LinePath

\* Two files with the same first k events have the same states up to k.
SameFirst(events, others, k) == \A i \in 1 .. k : events[i] = others[i]

LEMMA SamePath ==
    ASSUME NEW events, NEW others, NEW n \in Nat, NEW m \in Nat, NEW k \in Nat, k <= n, k <= m,
           NEW f, LinePath(f, events, n), NEW g, LinePath(g, others, m),
           SameFirst(events, others, k)
    PROVE  f[k] = g[k]
<1> DEFINE G == {j \in 0 .. k : f[j] = g[j]}
<1>1. 0 \in G
  BY DEF LinePath
<1>2. ASSUME NEW i \in 1 .. k, i - 1 \in G
      PROVE  i \in G
  <2>1. i \in 1 .. n /\ i \in 1 .. m /\ i \in 0 .. k
    OBVIOUS
  <2>2. f[i - 1] = g[i - 1] /\ events[i] = others[i]
    BY <1>2 DEF SameFirst
  <2>3. f[i] = Process(f[i - 1], events[i], i) /\ g[i] = Process(g[i - 1], others[i], i)
    BY <2>1 DEF LinePath
  <2>4. QED BY <2>1, <2>2, <2>3
<1>3. \A i \in 0 .. k : i \in G
  <2> HIDE DEF G
  <2>1. QED BY <1>1, <1>2, UpTo
<1>4. k \in 0 .. k
  OBVIOUS
<1>5. QED BY <1>3, <1>4

LEMMA LinesBegin == \A events : Lines(events, 0) = EmptyPreview
<1>1. TAKE events
<1>2. \A i \in 1 .. 0 : events[i] \in Evidence
  OBVIOUS
<1>3. \E f : LinePath(f, events, 0) /\ Lines(events, 0) = f[0]
  BY <1>2, LinesFollowPath
<1>4. QED BY <1>3 DEF LinePath

LEMMA LinesType ==
    ASSUME NEW events, NEW n \in Nat, \A i \in 1 .. n : events[i] \in Evidence
    PROVE  Lines(events, n) \in PreviewState
<1>1. PICK f : LinePath(f, events, n) /\ Lines(events, n) = f[n]
  BY LinesFollowPath
<1>2. n \in 0 .. n
  OBVIOUS
<1>3. QED BY <1>1, <1>2 DEF LinePath

\* One line more.
LEMMA LinesOnward ==
    ASSUME NEW events, NEW n \in Nat \ {0}, \A i \in 1 .. n : events[i] \in Evidence
    PROVE  Lines(events, n) = Process(Lines(events, n - 1), events[n], n)
<1>1. n - 1 \in Nat /\ n \in 1 .. n /\ n - 1 <= n /\ n \in Nat
      /\ \A i \in 1 .. n - 1 : events[i] \in Evidence
  OBVIOUS
<1>2. PICK f : LinePath(f, events, n) /\ Lines(events, n) = f[n]
  BY <1>1, LinesFollowPath
<1>3. PICK g : LinePath(g, events, n - 1) /\ Lines(events, n - 1) = g[n - 1]
  BY <1>1, LinesFollowPath
<1>4. f[n - 1] = g[n - 1]
  <2>1. SameFirst(events, events, n - 1)
    BY DEF SameFirst
  <2>2. QED BY <1>1, <1>2, <1>3, <2>1, SamePath
<1>5. f[n] = Process(f[n - 1], events[n], n)
  BY <1>1, <1>2 DEF LinePath
<1>6. QED BY <1>2, <1>3, <1>4, <1>5

\* Lines that come later do not matter.
LEMMA LinesOfLonger ==
    ASSUME NEW events, NEW others, NEW n \in Nat,
           \A i \in 1 .. n : events[i] \in Evidence /\ events[i] = others[i]
    PROVE  Lines(events, n) = Lines(others, n)
<1>1. PICK f : LinePath(f, events, n) /\ Lines(events, n) = f[n]
  BY LinesFollowPath
<1>2. PICK g : LinePath(g, others, n) /\ Lines(others, n) = g[n]
  BY LinesFollowPath
<1>3. n <= n /\ SameFirst(events, others, n)
  BY DEF SameFirst
<1>4. LinePath(f, events, n) /\ LinePath(g, others, n)
  BY <1>1, <1>2
<1>5. f[n] = g[n]
  BY <1>3, <1>4, SamePath
<1>6. QED BY <1>1, <1>2, <1>5

-----------------------------------------------------------------------------
(* Of one alert series, and of the others, what emitting a transition      *)
(* looks at and changes.                                                   *)

\* A transition's episode is one of its own series.
SeriesOf(t) == <<t.rule, t.subject>>
OwnTransition == {t \in ConditionTransition : <<t.episode[1], t.episode[2]>> = SeriesOf(t)}

ClosedAt(alerts, x) == {c \in alerts.closed : <<c[1], c[2]>> = x}

LEMMA OwnFields ==
    ASSUME NEW t \in OwnTransition
    PROVE  /\ t \in ConditionTransition /\ t.episode \in EpisodeId /\ SeriesOf(t) \in Series
           /\ <<t.episode[1], t.episode[2]>> = SeriesOf(t)
BY DEF OwnTransition, ConditionTransition, SeriesOf, Series

LEMMA AlertFields ==
    ASSUME NEW alerts \in AlertMemory, NEW x \in Series
    PROVE  /\ alerts.series[x].generation \in Nat
           /\ alerts.series[x].open \in BOOLEAN
           /\ alerts.series[x].contributors \subseteq EpisodeId
           /\ alerts.series \in [Series -> [generation : Nat, open : BOOLEAN,
                                            contributors : SUBSET EpisodeId]]
           /\ alerts.closed \subseteq EpisodeId
           /\ alerts = [series |-> alerts.series, closed |-> alerts.closed]
<1>1. alerts.series \in [Series -> [generation : Nat, open : BOOLEAN,
                                    contributors : SUBSET EpisodeId]]
  BY DEF AlertMemory
<1>2. alerts.series[x] \in [generation : Nat, open : BOOLEAN, contributors : SUBSET EpisodeId]
  BY <1>1
<1>3. alerts.closed \subseteq EpisodeId
      /\ alerts = [series |-> alerts.series, closed |-> alerts.closed]
  BY DEF AlertMemory
<1>4. QED BY <1>1, <1>2, <1>3

\* What the alert reducer makes of its memory, series by series.
LEMMA AlertsAfterAt ==
    ASSUME NEW alerts \in AlertMemory, NEW t \in OwnTransition
    PROVE  LET x == SeriesOf(t)
               e == t.episode
               after == AlertsAfter(alerts, t)
               starts == t.direction = "trigger" /\ Starting(alerts, x, e)
               clears == t.direction # "trigger" /\ Clearing(alerts, x, e)
           IN
           /\ after.series[x] = IF starts THEN StartedSeries(alerts.series[x], e)
                                ELSE IF clears THEN ClearedSeries(alerts, x, e)
                                ELSE alerts.series[x]
           /\ \A y \in Series : y # x => after.series[y] = alerts.series[y]
           /\ after.closed = IF clears THEN alerts.closed \cup {e} ELSE alerts.closed
<1> DEFINE x == SeriesOf(t)
           e == t.episode
           after == AlertsAfter(alerts, t)
           starts == t.direction = "trigger" /\ Starting(alerts, x, e)
           clears == t.direction # "trigger" /\ Clearing(alerts, x, e)
           Right == /\ after.series[x] = IF starts THEN StartedSeries(alerts.series[x], e)
                                         ELSE IF clears THEN ClearedSeries(alerts, x, e)
                                         ELSE alerts.series[x]
                    /\ \A y \in Series : y # x => after.series[y] = alerts.series[y]
                    /\ after.closed = IF clears THEN alerts.closed \cup {e} ELSE alerts.closed
<1>1. x \in Series /\ e \in EpisodeId
  BY OwnFields
<1>2. /\ alerts.series \in [Series -> [generation : Nat, open : BOOLEAN,
                                       contributors : SUBSET EpisodeId]]
      /\ alerts = [series |-> alerts.series, closed |-> alerts.closed]
  BY <1>1, AlertFields
<1>3. after = IF t.direction = "trigger" THEN AfterStart(alerts, x, e) ELSE AfterClear(alerts, x, e)
  BY DEF AlertsAfter, SeriesOf
<1> HIDE DEF x, e, after
<1>4. ASSUME starts PROVE Right
  <2> DEFINE u == StartedSeries(alerts.series[x], e)
  <2>1. after = [alerts EXCEPT !.series[x] = u]
    BY <1>3, <1>4 DEF AfterStart
  <2> HIDE DEF u
  <2>2. after = [series |-> [alerts.series EXCEPT ![x] = u], closed |-> alerts.closed]
    BY <1>2, <2>1
  <2>3. QED BY <1>1, <1>2, <1>4, <2>2 DEF u
<1>5. ASSUME clears PROVE Right
  <2> DEFINE u == ClearedSeries(alerts, x, e)
  <2>1. after = [closed |-> alerts.closed \cup {e}, series |-> [alerts.series EXCEPT ![x] = u]]
    BY <1>3, <1>5 DEF AfterClear
  <2> HIDE DEF u
  <2>2. QED BY <1>1, <1>2, <1>5, <2>1 DEF u
<1>6. ASSUME ~starts, ~clears PROVE Right
  <2>1. after = alerts
    BY <1>3, <1>6 DEF AfterStart, AfterClear
  <2>2. QED BY <1>6, <2>1
<1>7. Right
  BY <1>4, <1>5, <1>6
<1>8. QED BY <1>7 DEF x, e, after

\* A transition leaves every other series as it is.
LEMMA AlertsOfOthers ==
    ASSUME NEW alerts \in AlertMemory, NEW t \in OwnTransition, NEW y \in Series, y # SeriesOf(t)
    PROVE  /\ AlertsAfter(alerts, t).series[y] = alerts.series[y]
           /\ ClosedAt(AlertsAfter(alerts, t), y) = ClosedAt(alerts, y)
<1>1. \/ AlertsAfter(alerts, t).closed = alerts.closed
      \/ AlertsAfter(alerts, t).closed = alerts.closed \cup {t.episode}
  BY AlertsAfterAt
<1>2. <<t.episode[1], t.episode[2]>> # y
  BY OwnFields
<1>3. AlertsAfter(alerts, t).series[y] = alerts.series[y]
  BY AlertsAfterAt
<1>4. ClosedAt(AlertsAfter(alerts, t), y) = ClosedAt(alerts, y)
  BY <1>1, <1>2 DEF ClosedAt
<1>5. QED BY <1>3, <1>4

\* Of its own series it looks at nothing but what the reducer has of it.
LEMMA AlertsOfOwn ==
    ASSUME NEW alerts \in AlertMemory, NEW others \in AlertMemory, NEW t \in OwnTransition,
           alerts.series[SeriesOf(t)] = others.series[SeriesOf(t)],
           ClosedAt(alerts, SeriesOf(t)) = ClosedAt(others, SeriesOf(t))
    PROVE  /\ AlertTransitions(alerts, t) = AlertTransitions(others, t)
           /\ AlertsAfter(alerts, t).series[SeriesOf(t)] = AlertsAfter(others, t).series[SeriesOf(t)]
           /\ ClosedAt(AlertsAfter(alerts, t), SeriesOf(t))
                = ClosedAt(AlertsAfter(others, t), SeriesOf(t))
<1> DEFINE x == SeriesOf(t)
           e == t.episode
<1>1. x \in Series /\ e \in EpisodeId /\ <<e[1], e[2]>> = x
  BY OwnFields
<1>2. e \in alerts.closed <=> e \in others.closed
  BY <1>1 DEF ClosedAt
<1>3. /\ Starting(alerts, x, e) <=> Starting(others, x, e)
      /\ Clearing(alerts, x, e) <=> Clearing(others, x, e)
      /\ Opens(alerts, x, e) <=> Opens(others, x, e)
      /\ Recovers(alerts, x, e) <=> Recovers(others, x, e)
  BY <1>2 DEF Starting, Clearing, Opens, Recovers, Contributes
<1>4. ClearedSeries(alerts, x, e) = ClearedSeries(others, x, e)
  BY <1>3 DEF ClearedSeries
<1>5. AlertTransitions(alerts, t) = AlertTransitions(others, t)
  <2>1. OpenTransition(alerts, x, e) = OpenTransition(others, x, e)
    BY <1>3 DEF OpenTransition
  <2>2. RecoveryTransition(alerts, x, e) = RecoveryTransition(others, x, e)
    BY <1>3 DEF RecoveryTransition
  <2>3. QED BY <2>1, <2>2 DEF AlertTransitions, SeriesOf
<1>6. AlertsAfter(alerts, t).series[x] = AlertsAfter(others, t).series[x]
  <2>1. \A a \in AlertMemory :
          AlertsAfter(a, t).series[x] =
            IF t.direction = "trigger" /\ Starting(a, x, e) THEN StartedSeries(a.series[x], e)
            ELSE IF t.direction # "trigger" /\ Clearing(a, x, e) THEN ClearedSeries(a, x, e)
            ELSE a.series[x]
    BY AlertsAfterAt
  <2> HIDE DEF x, e
  <2>2. alerts.series[x] = others.series[x]
    BY DEF x
  <2>3. QED BY <1>3, <1>4, <2>1, <2>2
<1>7. ClosedAt(AlertsAfter(alerts, t), x) = ClosedAt(AlertsAfter(others, t), x)
  <2>1. \/ /\ AlertsAfter(alerts, t).closed = alerts.closed
           /\ AlertsAfter(others, t).closed = others.closed
        \/ /\ AlertsAfter(alerts, t).closed = alerts.closed \cup {e}
           /\ AlertsAfter(others, t).closed = others.closed \cup {e}
    BY <1>3, AlertsAfterAt
  <2>2. \A C : {c \in C \cup {e} : <<c[1], c[2]>> = x} = {c \in C : <<c[1], c[2]>> = x} \cup {e}
    BY <1>1
  <2>3. QED BY <2>1, <2>2 DEF ClosedAt
<1>8. QED BY <1>5, <1>6, <1>7

\* What a state has of one series, but for its tracker.
Slice(p, x) ==
    [series |-> p.mem.alerts.series[x], closed |-> ClosedAt(p.mem.alerts, x),
     planned |-> {row \in p.mem.planned : row[1] = x},
     output |-> {o \in p.output : o[1][1] = x}]

LEMMA EmitOneElsewhere ==
    ASSUME NEW p \in PreviewState, NEW t \in OwnTransition, NEW y \in Series, y # SeriesOf(t)
    PROVE  Slice(EmitOne(p, t), y) = Slice(p, y)
<1> DEFINE u == EmitOne(p, t)
           rows == PlannedFor(p.mem, t)
<1>1. t \in ConditionTransition
  BY OwnFields
<1>2. /\ u.mem.alerts = AlertsAfter(p.mem.alerts, t)
      /\ u.mem.planned = p.mem.planned \cup rows
      /\ u.output = p.output \cup {<<row, t.at>> : row \in rows}
  BY <1>1, EmitOneType
<1>3. \A row \in rows : row[1] # y
  BY <1>1, StateFields, PlannedForType DEF SeriesOf
<1>4. u.mem.alerts.series[y] = p.mem.alerts.series[y]
      /\ ClosedAt(u.mem.alerts, y) = ClosedAt(p.mem.alerts, y)
  BY <1>2, StateFields, AlertsOfOthers
<1> HIDE DEF u, rows
<1>5. {row \in u.mem.planned : row[1] = y} = {row \in p.mem.planned : row[1] = y}
  BY <1>2, <1>3
<1>6. {o \in u.output : o[1][1] = y} = {o \in p.output : o[1][1] = y}
  BY <1>2, <1>3
<1>7. Slice(u, y) = Slice(p, y)
  BY <1>4, <1>5, <1>6 DEF Slice
<1>8. QED BY <1>7 DEF u

LEMMA EmitOneAlike ==
    ASSUME NEW p \in PreviewState, NEW q \in PreviewState, NEW t \in OwnTransition,
           Slice(p, SeriesOf(t)) = Slice(q, SeriesOf(t))
    PROVE  Slice(EmitOne(p, t), SeriesOf(t)) = Slice(EmitOne(q, t), SeriesOf(t))
<1> DEFINE x == SeriesOf(t)
           u == EmitOne(p, t)
           v == EmitOne(q, t)
           rows == PlannedFor(p.mem, t)
<1>1. t \in ConditionTransition
  BY OwnFields
<1>2. /\ p.mem.alerts.series[x] = q.mem.alerts.series[x]
      /\ ClosedAt(p.mem.alerts, x) = ClosedAt(q.mem.alerts, x)
      /\ {row \in p.mem.planned : row[1] = x} = {row \in q.mem.planned : row[1] = x}
      /\ {o \in p.output : o[1][1] = x} = {o \in q.output : o[1][1] = x}
  BY DEF Slice
<1>3. /\ AlertTransitions(p.mem.alerts, t) = AlertTransitions(q.mem.alerts, t)
      /\ AlertsAfter(p.mem.alerts, t).series[x] = AlertsAfter(q.mem.alerts, t).series[x]
      /\ ClosedAt(AlertsAfter(p.mem.alerts, t), x) = ClosedAt(AlertsAfter(q.mem.alerts, t), x)
  BY <1>2, StateFields, AlertsOfOwn
<1>4. PlannedFor(p.mem, t) = PlannedFor(q.mem, t)
  <2> DEFINE made == AlertTransitions(p.mem.alerts, t)
  <2>1. ASSUME NEW i \in DOMAIN made
        PROVE  Planned(p.mem.planned, made[i], t.rule) = Planned(q.mem.planned, made[i], t.rule)
    <3>1. Row(made[i])[1] = x
      <4>1. \/ made = <<>>
            \/ \E a \in AlertTransition :
                 made = <<a>> /\ (BringsOpening(p.mem.alerts, t, a)
                                    \/ BringsRecovery(p.mem.alerts, t, a))
        BY <1>1, StateFields, Brought
      <4>2. \A a : BringsOpening(p.mem.alerts, t, a) \/ BringsRecovery(p.mem.alerts, t, a)
                     => Row(a)[1] = x
        BY DEF BringsOpening, BringsRecovery, Row, SeriesOf
      <4> HIDE DEF made
      <4>3. QED BY <2>1, <4>1, <4>2
    <3>2. Row(made[i]) \in p.mem.planned <=> Row(made[i]) \in q.mem.planned
      <4> HIDE DEF made
      <4>1. QED BY <1>2, <3>1
    <3> HIDE DEF made
    <3>3. QED BY <3>2 DEF Planned
  <2>2. made = AlertTransitions(q.mem.alerts, t)
    BY <1>3
  <2>3. /\ PlannedFor(p.mem, t) = UNION {Planned(p.mem.planned, made[i], t.rule) : i \in DOMAIN made}
        /\ PlannedFor(q.mem, t) = UNION {Planned(q.mem.planned, made[i], t.rule) : i \in DOMAIN made}
    BY <2>2 DEF PlannedFor
  <2> HIDE DEF made
  <2>4. {Planned(p.mem.planned, made[i], t.rule) : i \in DOMAIN made}
          = {Planned(q.mem.planned, made[i], t.rule) : i \in DOMAIN made}
    BY <2>1
  <2>5. QED BY <2>3, <2>4
<1>5. /\ u.mem.alerts = AlertsAfter(p.mem.alerts, t) /\ v.mem.alerts = AlertsAfter(q.mem.alerts, t)
      /\ u.mem.planned = p.mem.planned \cup rows /\ v.mem.planned = q.mem.planned \cup rows
      /\ u.output = p.output \cup {<<row, t.at>> : row \in rows}
      /\ v.output = q.output \cup {<<row, t.at>> : row \in rows}
  BY <1>1, <1>4, EmitOneType
<1>6. \A row \in rows : row[1] = x
  BY <1>1, StateFields, PlannedForType DEF SeriesOf
<1> HIDE DEF u, v, rows, x
<1>7. {row \in u.mem.planned : row[1] = x} = {row \in v.mem.planned : row[1] = x}
  <2>1. {row \in u.mem.planned : row[1] = x} = {row \in p.mem.planned : row[1] = x} \cup rows
    BY <1>5, <1>6
  <2>2. {row \in v.mem.planned : row[1] = x} = {row \in q.mem.planned : row[1] = x} \cup rows
    BY <1>5, <1>6
  <2>3. QED BY <1>2, <2>1, <2>2
<1>8. {o \in u.output : o[1][1] = x} = {o \in v.output : o[1][1] = x}
  <2> DEFINE dated == {<<row, t.at>> : row \in rows}
  <2>1. \A o \in dated : o[1][1] = x
    BY <1>6
  <2>2. u.output = p.output \cup dated /\ v.output = q.output \cup dated
    BY <1>5
  <2> HIDE DEF dated
  <2>3. {o \in u.output : o[1][1] = x} = {o \in p.output : o[1][1] = x} \cup dated
    BY <2>1, <2>2
  <2>4. {o \in v.output : o[1][1] = x} = {o \in q.output : o[1][1] = x} \cup dated
    BY <2>1, <2>2
  <2>5. QED BY <1>2, <2>3, <2>4
<1>9. Slice(u, x) = Slice(v, x)
  BY <1>3, <1>5, <1>7, <1>8 DEF Slice
<1>10. QED BY <1>9 DEF u, v, x

\* In a list of transitions: none of series x, or t alone.
NoneAt(q, x) == \A i \in 1 .. Len(q) : SeriesOf(q[i]) # x

OnlyAt(q, x, t) ==
    /\ SeriesOf(t) = x
    /\ \E n \in 1 .. Len(q) : q[n] = t /\ \A i \in 1 .. Len(q) : i # n => SeriesOf(q[i]) # x

LEMMA EmitElsewhere ==
    ASSUME NEW p \in PreviewState, NEW q \in Seq(OwnTransition), NEW x \in Series, NoneAt(q, x)
    PROVE  Slice(Emit(p, q), x) = Slice(p, x)
<1> DEFINE n == Len(q)
<1>1. /\ n \in Nat /\ q \in Seq(ConditionTransition)
      /\ \A i \in 1 .. n : q[i] \in OwnTransition /\ SeriesOf(q[i]) # x
  <2>1. OwnTransition \subseteq ConditionTransition
    BY DEF OwnTransition
  <2>2. QED BY <2>1, LenProperties, ElementOfSeq DEF NoneAt
<1>2. PICK f : EmitPath(f, p, q) /\ Emit(p, q) = f[n]
  BY <1>1, EmitFollowsPath
<1>3. /\ f \in [0 .. n -> PreviewState] /\ f[0] = p
      /\ \A i \in 1 .. n : f[i] = EmitOne(f[i - 1], q[i])
  BY <1>2 DEF EmitPath
<1> DEFINE G == {j \in 0 .. n : Slice(f[j], x) = Slice(p, x)}
<1> HIDE DEF n
<1>4. 0 \in G
  BY <1>1, <1>3
<1>5. ASSUME NEW i \in 1 .. n, i - 1 \in G
      PROVE  i \in G
  <2>1. i \in 0 .. n /\ f[i - 1] \in PreviewState /\ Slice(f[i - 1], x) = Slice(p, x)
    BY <1>1, <1>3, <1>5
  <2>2. Slice(f[i], x) = Slice(f[i - 1], x)
    BY <1>1, <1>3, <2>1, EmitOneElsewhere
  <2>3. QED BY <2>1, <2>2
<1>6. \A i \in 0 .. n : i \in G
  <2> HIDE DEF G
  <2>1. QED BY <1>1, <1>4, <1>5, UpTo
<1>7. n \in 0 .. n
  BY <1>1
<1>8. QED BY <1>2, <1>6, <1>7

LEMMA EmitOnly ==
    ASSUME NEW p \in PreviewState, NEW q \in Seq(OwnTransition), NEW x \in Series,
           NEW t \in OwnTransition, OnlyAt(q, x, t)
    PROVE  Slice(Emit(p, q), x) = Slice(EmitOne(p, t), x)
<1> DEFINE n == Len(q)
<1>1. /\ n \in Nat /\ q \in Seq(ConditionTransition)
      /\ \A i \in 1 .. n : q[i] \in OwnTransition
  <2>1. OwnTransition \subseteq ConditionTransition
    BY DEF OwnTransition
  <2>2. QED BY <2>1, LenProperties, ElementOfSeq
<1>2. PICK k \in 1 .. n : q[k] = t /\ \A i \in 1 .. n : i # k => SeriesOf(q[i]) # x
  BY DEF OnlyAt
<1>3. PICK f : EmitPath(f, p, q) /\ Emit(p, q) = f[n]
  BY <1>1, EmitFollowsPath
<1>4. /\ f \in [0 .. n -> PreviewState] /\ f[0] = p
      /\ \A i \in 1 .. n : f[i] = EmitOne(f[i - 1], q[i])
  BY <1>3 DEF EmitPath
<1>5. SeriesOf(t) = x
  BY DEF OnlyAt
<1> DEFINE want(j) == IF j < k THEN Slice(p, x) ELSE Slice(EmitOne(p, t), x)
           G == {j \in 0 .. n : Slice(f[j], x) = want(j)}
<1> HIDE DEF n
<1>6. 0 \in G
  BY <1>1, <1>4
<1>7. ASSUME NEW i \in 1 .. n, i - 1 \in G
      PROVE  i \in G
  <2>1. i \in 0 .. n /\ f[i - 1] \in PreviewState /\ Slice(f[i - 1], x) = want(i - 1)
        /\ f[i] = EmitOne(f[i - 1], q[i])
    BY <1>1, <1>4, <1>7
  <2>2. CASE i = k
    <3>1. Slice(f[i - 1], x) = Slice(p, x)
      BY <1>1, <2>1, <2>2
    <3>2. Slice(EmitOne(f[i - 1], t), x) = Slice(EmitOne(p, t), x)
      BY <1>5, <2>1, <3>1, EmitOneAlike
    <3>3. f[i] = EmitOne(f[i - 1], t)
      BY <1>2, <2>1, <2>2
    <3>4. QED BY <2>1, <2>2, <3>2, <3>3
  <2>3. CASE i # k
    <3>1. SeriesOf(q[i]) # x /\ q[i] \in OwnTransition
      BY <1>1, <1>2, <2>3
    <3>2. Slice(f[i], x) = Slice(f[i - 1], x)
      BY <2>1, <3>1, EmitOneElsewhere
    <3>3. want(i) = want(i - 1)
      BY <1>1, <2>3
    <3> HIDE DEF want
    <3>4. QED BY <2>1, <3>2, <3>3
  <2>4. QED BY <2>2, <2>3
<1>8. \A i \in 0 .. n : i \in G
  <2> HIDE DEF G
  <2>1. QED BY <1>1, <1>6, <1>7, UpTo
<1>9. n \in 0 .. n /\ ~(n < k)
  BY <1>1
<1>10. QED BY <1>3, <1>8, <1>9

\* Lists that say the same of a series make the same of it.
SameAt(a, b, x) == (NoneAt(a, x) /\ NoneAt(b, x))
                     \/ \E t \in OwnTransition : OnlyAt(a, x, t) /\ OnlyAt(b, x, t)

LEMMA EmitAlike ==
    ASSUME NEW p \in PreviewState, NEW q \in PreviewState, NEW x \in Series,
           NEW a \in Seq(OwnTransition), NEW b \in Seq(OwnTransition),
           Slice(p, x) = Slice(q, x), SameAt(a, b, x)
    PROVE  Slice(Emit(p, a), x) = Slice(Emit(q, b), x)
<1>1. CASE NoneAt(a, x) /\ NoneAt(b, x)
  BY <1>1, EmitElsewhere
<1>2. ASSUME NEW t \in OwnTransition, OnlyAt(a, x, t), OnlyAt(b, x, t)
      PROVE  Slice(Emit(p, a), x) = Slice(Emit(q, b), x)
  <2>1. SeriesOf(t) = x
    BY <1>2 DEF OnlyAt
  <2>2. Slice(EmitOne(p, t), x) = Slice(EmitOne(q, t), x)
    BY <2>1, EmitOneAlike
  <2>3. QED BY <1>2, <2>2, EmitOnly
<1>3. QED BY <1>1, <1>2 DEF SameAt

\* Emitting leaves time, trackers and views as they are.
LEMMA EmitKeeps ==
    ASSUME NEW p \in PreviewState, NEW q \in Seq(ConditionTransition)
    PROVE  /\ Emit(p, q).logical = p.logical
           /\ Emit(p, q).mem.tracker = p.mem.tracker
           /\ Emit(p, q).mem.view = p.mem.view
<1> DEFINE n == Len(q)
           kept(u) == u.logical = p.logical /\ u.mem.tracker = p.mem.tracker
                        /\ u.mem.view = p.mem.view
<1>1. n \in Nat /\ \A i \in 1 .. n : q[i] \in ConditionTransition
  BY LenProperties, ElementOfSeq
<1>2. PICK f : EmitPath(f, p, q) /\ Emit(p, q) = f[n]
  BY EmitFollowsPath
<1>3. /\ f \in [0 .. n -> PreviewState] /\ f[0] = p
      /\ \A i \in 1 .. n : f[i] = EmitOne(f[i - 1], q[i])
  BY <1>2 DEF EmitPath
<1> DEFINE G == {j \in 0 .. n : kept(f[j])}
<1> HIDE DEF n
<1>4. 0 \in G
  BY <1>1, <1>3
<1>5. ASSUME NEW i \in 1 .. n, i - 1 \in G
      PROVE  i \in G
  <2>1. i \in 0 .. n /\ f[i - 1] \in PreviewState /\ kept(f[i - 1])
    BY <1>1, <1>3, <1>5
  <2>2. kept(f[i])
    BY <1>1, <1>3, <2>1, EmitOneType
  <2>3. QED BY <2>1, <2>2
<1>6. \A i \in 0 .. n : i \in G
  <2> HIDE DEF G
  <2>1. QED BY <1>1, <1>4, <1>5, UpTo
<1>7. n \in 0 .. n
  BY <1>1
<1>8. kept(f[n])
  BY <1>6, <1>7
<1>9. QED BY <1>2, <1>8

-----------------------------------------------------------------------------
(* Of one series, what Advance fires.                                      *)

LEMMA OwnTransitionType ==
    ASSUME NEW r \in Rules, NEW s \in Subjects, NEW t \in Tracker, NEW at \in Nat
    PROVE  /\ TransitionOf(r, s, t, at) \in OwnTransition
           /\ SeriesOf(TransitionOf(r, s, t, at)) = <<r, s>>
<1> DEFINE u == TransitionOf(r, s, t, at)
<1>1. u \in ConditionTransition
  BY TransitionType
<1>2. u.rule = r /\ u.subject = s /\ u.episode[1] = r /\ u.episode[2] = s
  BY DEF TransitionOf
<1> HIDE DEF u
<1>3. u \in OwnTransition /\ SeriesOf(u) = <<r, s>>
  BY <1>1, <1>2 DEF OwnTransition, SeriesOf
<1>4. QED BY <1>3 DEF u

LEMMA FiredTimerType ==
    ASSUME NEW trackers \in [Rules -> [Subjects -> Tracker]], NEW now \in Nat,
           NEW x \in DueBy(trackers, now)
    PROVE  /\ FiredTimer(trackers, x) \in OwnTransition
           /\ SeriesOf(FiredTimer(trackers, x)) = x
<1>1. x[1] \in Rules /\ x[2] \in Subjects /\ x = <<x[1], x[2]>>
  BY DEF DueBy
<1>2. trackers[x[1]][x[2]] \in Tracker
  BY <1>1
<1>3. Due(trackers, x) \in Nat
  BY <1>1, <1>2, DueTimeType DEF Due
<1>4. QED BY <1>1, <1>2, <1>3, OwnTransitionType DEF FiredTimer

LEMMA FiredByAt ==
    ASSUME NEW trackers \in [Rules -> [Subjects -> Tracker]], NEW now \in Nat
    PROVE  /\ FiredBy(trackers, now) \in Seq(OwnTransition)
           /\ \A x \in DueBy(trackers, now) :
                OnlyAt(FiredBy(trackers, now), x, FiredTimer(trackers, x))
           /\ \A x : x \notin DueBy(trackers, now) => NoneAt(FiredBy(trackers, now), x)
<1> DEFINE due == DueBy(trackers, now)
           fired == FiredBy(trackers, now)
<1>1. PICK q, n : ListsDue(q, n, trackers, now)
  BY FiredByLists
<1>2. /\ n \in Nat /\ q \in [1 .. n -> due]
      /\ \A i, j \in 1 .. n : q[i] = q[j] => i = j
      /\ \A y \in due : \E i \in 1 .. n : q[i] = y
      /\ fired = [i \in 1 .. n |-> FiredTimer(trackers, q[i])]
  BY <1>1 DEF ListsDue
<1>3. \A y \in due : /\ FiredTimer(trackers, y) \in OwnTransition
                     /\ SeriesOf(FiredTimer(trackers, y)) = y
  BY FiredTimerType
<1> HIDE DEF due, fired
<1>4. fired \in [1 .. n -> OwnTransition]
  BY <1>2, <1>3
<1>5. fired \in Seq(OwnTransition) /\ Len(fired) = n
  BY <1>2, <1>4, FunctionIsSeq
<1>6. \A i \in 1 .. n : q[i] \in due /\ fired[i] = FiredTimer(trackers, q[i])
                          /\ SeriesOf(fired[i]) = q[i]
  BY <1>2, <1>3
<1>7. ASSUME NEW x \in due
      PROVE  OnlyAt(fired, x, FiredTimer(trackers, x))
  <2>1. PICK k \in 1 .. n : q[k] = x
    BY <1>2, <1>7
  <2>2. fired[k] = FiredTimer(trackers, x) /\ SeriesOf(FiredTimer(trackers, x)) = x
    BY <1>6, <2>1
  <2>3. \A i \in 1 .. n : i # k => SeriesOf(fired[i]) # x
    BY <1>2, <1>6, <2>1
  <2>4. QED BY <1>5, <2>2, <2>3 DEF OnlyAt
<1>8. ASSUME NEW x, x \notin due
      PROVE  NoneAt(fired, x)
  BY <1>5, <1>6, <1>8 DEF NoneAt
<1>9. QED BY <1>5, <1>7, <1>8 DEF due, fired

\* Of two memories with the same tracker of a series, the same fires of it.
LEMMA FiredByAlike ==
    ASSUME NEW trackers \in [Rules -> [Subjects -> Tracker]],
           NEW others \in [Rules -> [Subjects -> Tracker]], NEW now \in Nat,
           NEW r \in Rules, NEW s \in Subjects, trackers[r][s] = others[r][s]
    PROVE  /\ SameAt(FiredBy(trackers, now), FiredBy(others, now), <<r, s>>)
           /\ Drained(trackers, now)[r][s] = Drained(others, now)[r][s]
<1> DEFINE x == <<r, s>>
<1>1. x \in Series
  BY DEF Series
<1>2. /\ x \in DueBy(trackers, now) <=> x \in DueBy(others, now)
      /\ FiredTimer(trackers, x) = FiredTimer(others, x)
  BY DEF DueBy, FiredTimer, Due
<1>3. Drained(trackers, now)[r][s] = Drained(others, now)[r][s]
  BY <1>2 DEF Drained
<1>4. x \in DueBy(trackers, now) => FiredTimer(trackers, x) \in OwnTransition
  BY FiredTimerType
<1> HIDE DEF x
<1>5. SameAt(FiredBy(trackers, now), FiredBy(others, now), x)
  BY <1>1, <1>2, <1>4, FiredByAt DEF SameAt
<1>6. QED BY <1>3, <1>5 DEF x

-----------------------------------------------------------------------------
(* Of one series, what an evaluation fires.                                *)

\* An observation starts an interval, interrupts one, or does nothing.
Begins(t, o) == o.result = "true" /\ t.phase = RestingBefore(o.direction)
Breaks(t, o) == o.result # "true" /\ t.phase = PhaseFor(o.direction)

LEMMA ObserveSteps ==
    ASSUME NEW r \in Rules, NEW t \in Tracker, NEW o \in Observation, NEW now \in Nat
    PROVE  LET u == Observe(r, t, o, now) IN
           /\ u.tracker \in Tracker
           /\ Begins(t, o) => u.tracker.phase \in {PhaseFor(o.direction), RestingAfter(o.direction)}
           /\ Breaks(t, o) => u.tracker.phase = RestingBefore(o.direction)
           /\ ~Begins(t, o) /\ ~Breaks(t, o) => u.tracker = t
           /\ ~Begins(t, o) => u.fired = <<>>
           /\ \/ u.fired = <<>>
              \/ \E v \in OwnTransition : u.fired = <<v>> /\ SeriesOf(v) = <<r, o.subject>>
<1> DEFINE u == Observe(r, t, o, now)
           opened == Reducer(r)!OpenedBy(t, o)
           at == Reducer(r)!CommitAt(opened, now)
           atOnce == Reducer(r)!CommitsAtOnce(t, o, now)
           v == TransitionOf(r, o.subject, opened, at)
<1>1. opened \in Tracker /\ at \in Nat /\ o.subject \in Subjects /\ o.direction \in Directions
  BY OpenedType, ObservedType DEF Observation
<1>2. /\ Reducer(r)!Starts(t, o) <=> Begins(t, o)
      /\ Reducer(r)!Interrupts(t, o) <=> Breaks(t, o)
      /\ atOnce => Begins(t, o)
  BY DEF Reducer!Starts, Reducer!Interrupts, Reducer!CommitsAtOnce, Begins, Breaks,
         Reducer!RestingBefore, RestingBefore, Reducer!PhaseFor, PhaseFor
<1>3. /\ u.tracker = IF atOnce THEN Committed(opened)
                     ELSE IF Begins(t, o) THEN opened
                     ELSE IF Breaks(t, o) THEN Cancelled(t) ELSE t
      /\ u.fired = IF atOnce THEN <<v>> ELSE <<>>
  BY <1>2, SameTrackers DEF Observe, Reducer!Observed
<1>4. u.tracker \in Tracker
  BY ObserveType
<1>5. opened.phase = PhaseFor(o.direction)
  <2> DEFINE onset == Reducer(r)!OnsetOf(Reducer(r)!Effective(o), o.trueSince)
  <2>1. opened = Started(t, o.direction, onset)
    BY SameTrackers DEF Reducer!OpenedBy
  <2> HIDE DEF onset, opened
  <2>2. QED BY <2>1 DEF Started, Tracker
<1>6. Committed(opened).phase = RestingAfter(o.direction)
  <2>1. DirectionFor(opened.phase) = o.direction
    BY <1>1, <1>5 DEF Directions, DirectionFor, PhaseFor
  <2> HIDE DEF opened
  <2>2. QED BY <1>1, <2>1 DEF Committed, Tracker
<1>7. Breaks(t, o) => Cancelled(t).phase = RestingBefore(o.direction)
  <2>1. Breaks(t, o) => DirectionFor(t.phase) = o.direction
    BY <1>1 DEF Breaks, Directions, DirectionFor, PhaseFor
  <2>2. QED BY <2>1 DEF Cancelled, Tracker
<1>8. Breaks(t, o) => ~Begins(t, o)
  BY DEF Breaks, Begins
<1>9. v \in OwnTransition /\ SeriesOf(v) = <<r, o.subject>>
  BY <1>1, OwnTransitionType
<1> DEFINE Right ==
           /\ u.tracker \in Tracker
           /\ Begins(t, o) => u.tracker.phase \in {PhaseFor(o.direction), RestingAfter(o.direction)}
           /\ Breaks(t, o) => u.tracker.phase = RestingBefore(o.direction)
           /\ ~Begins(t, o) /\ ~Breaks(t, o) => u.tracker = t
           /\ ~Begins(t, o) => u.fired = <<>>
           /\ \/ u.fired = <<>>
              \/ \E w \in OwnTransition : u.fired = <<w>> /\ SeriesOf(w) = <<r, o.subject>>
<1> HIDE DEF u, opened, at, atOnce, v
<1>10. Right
  BY <1>2, <1>3, <1>4, <1>5, <1>6, <1>7, <1>8, <1>9
<1>11. QED BY <1>10 DEF u

\* Two observations that differ only in an onset that does not matter do the same.
LEMMA ObserveAlike ==
    ASSUME NEW r \in Rules, NEW t \in Tracker, NEW o \in Observation, NEW p \in Observation,
           NEW now \in Nat,
           o.subject = p.subject, o.direction = p.direction, o.result = p.result,
           o.effectiveAt = p.effectiveAt, o.effectiveAt # Unset,
           Begins(t, o) =>
             OnsetOf(o.effectiveAt, o.trueSince) = OnsetOf(p.effectiveAt, p.trueSince)
    PROVE  Observe(r, t, o, now) = Observe(r, t, p, now)
<1> DEFINE opened(x) == Reducer(r)!OpenedBy(t, x)
           atOnce(x) == Reducer(r)!CommitsAtOnce(t, x, now)
<1>1. /\ Reducer(r)!Starts(t, o) <=> Begins(t, o)
      /\ Reducer(r)!Starts(t, p) <=> Begins(t, o)
      /\ Reducer(r)!Interrupts(t, o) <=> Reducer(r)!Interrupts(t, p)
  BY DEF Reducer!Starts, Reducer!Interrupts, Begins, Reducer!RestingBefore, RestingBefore,
         Reducer!PhaseFor
<1>2. ASSUME Begins(t, o)
      PROVE  opened(o) = opened(p)
  <2>1. \A x \in {o, p} : Reducer(r)!OnsetOf(Reducer(r)!Effective(x), x.trueSince)
                          = OnsetOf(x.effectiveAt, x.trueSince)
    BY SameTrackers DEF Reducer!OnsetOf, OnsetOf, Reducer!Effective
  <2>2. \A x \in {o, p} : opened(x) = Started(t, x.direction, OnsetOf(x.effectiveAt, x.trueSince))
    BY <2>1, SameTrackers DEF Reducer!OpenedBy
  <2>3. QED BY <1>2, <2>2
<1>3. \A x : atOnce(x) <=> Reducer(r)!Starts(t, x) /\ Reducer(r)!QualifiesAtOnce(opened(x), now)
  BY DEF Reducer!CommitsAtOnce
<1>4. \A x : Observe(r, t, x, now) =
        [tracker |-> IF atOnce(x) THEN Committed(opened(x))
                     ELSE IF Reducer(r)!Starts(t, x) THEN opened(x)
                     ELSE IF Reducer(r)!Interrupts(t, x) THEN Cancelled(t) ELSE t,
         fired |-> IF atOnce(x)
                     THEN <<TransitionOf(r, x.subject, opened(x), Reducer(r)!CommitAt(opened(x), now))>>
                     ELSE <<>>]
  BY SameTrackers DEF Observe, Reducer!Observed
<1> HIDE DEF opened, atOnce
<1>5. CASE Begins(t, o)
  <2>1. atOnce(o) <=> atOnce(p)
    BY <1>1, <1>2, <1>3, <1>5
  <2>2. QED BY <1>1, <1>2, <1>4, <1>5, <2>1
<1>6. CASE ~Begins(t, o)
  <2>1. ~atOnce(o) /\ ~atOnce(p)
    BY <1>1, <1>3, <1>6
  <2>2. QED BY <1>1, <1>4, <1>6, <2>1
<1>7. QED BY <1>5, <1>6

LEMMA AtMostOne ==
    ASSUME NEW S, NEW q, q = <<>> \/ \E x \in S : q = <<x>>
    PROVE  q \in Seq(S)
<1>1. CASE q = <<>>
  BY <1>1
<1>2. ASSUME NEW x \in S, q = <<x>>
      PROVE  q \in Seq(S)
  BY <1>2
<1>3. QED BY <1>1, <1>2

StartedPhase(t) == t.phase \in {"triggering", "active"}

\* Both observations of a line bring one transition at most, and leave the tracker
\* started exactly if the view, where there is one, holds.
LEMMA BothSteps ==
    ASSUME NEW m \in Memory, NEW r \in Rules, NEW e \in Evidence, NEW now \in Nat
    PROVE  LET t == m.tracker[r][e.subject]
               v == m.view[Reads[r]][e.subject]
               u == ObserveBoth(m, r, e, now)
           IN
           /\ \/ u.fired = <<>>
              \/ \E w \in OwnTransition : u.fired = <<w>> /\ SeriesOf(w) = <<r, e.subject>>
           /\ v = Views!NoView /\ t.phase = "inactive" => u.tracker = t
           /\ v # Views!NoView => (v.holds <=> StartedPhase(u.tracker))
<1> DEFINE t == m.tracker[r][e.subject]
           v == m.view[Reads[r]][e.subject]
           o1 == ObservationOf(m.view, r, e, "trigger", now)
           o2 == ObservationOf(m.view, r, e, "clear", now)
           up == Observe(r, t, o1, now)
           down == Observe(r, up.tracker, o2, now)
           u == ObserveBoth(m, r, e, now)
           Right == /\ \/ u.fired = <<>>
                       \/ \E w \in OwnTransition : u.fired = <<w>> /\ SeriesOf(w) = <<r, e.subject>>
                    /\ v = Views!NoView /\ t.phase = "inactive" => u.tracker = t
                    /\ v # Views!NoView => (v.holds <=> StartedPhase(u.tracker))
<1>1. o1 \in Observation /\ o2 \in Observation
  BY ObservationType DEF Directions
<1>2. t \in Tracker
  BY MemoryFields, ReplayEvidence
<1>3. /\ o1.direction = "trigger" /\ o2.direction = "clear"
      /\ o1.subject = e.subject /\ o2.subject = e.subject
      /\ o1.result = IF v = Views!NoView THEN "unknown" ELSE IF v.holds THEN "true" ELSE "false"
      /\ o2.result = IF v = Views!NoView THEN "unknown" ELSE IF v.holds THEN "false" ELSE "true"
  <2>1. v \in Views!View
    BY MemoryFields, ReplayEvidence, ReplayReads
  <2>2. v.holds \in BOOLEAN
    <3> HIDE DEF v
    <3>1. QED BY <2>1 DEF Views!View
  <2>3. /\ ResultOf(m.view, r, e.subject, "trigger")
             = IF v = Views!NoView THEN "unknown" ELSE IF v.holds THEN "true" ELSE "false"
        /\ ResultOf(m.view, r, e.subject, "clear")
             = IF v = Views!NoView THEN "unknown" ELSE IF v.holds THEN "false" ELSE "true"
    <3>1. ResultOf(m.view, r, e.subject, "trigger")
            = IF v = Views!NoView THEN "unknown" ELSE IF v.holds <=> "trigger" = "trigger" THEN "true"
              ELSE "false"
      BY DEF ResultOf
    <3>2. ResultOf(m.view, r, e.subject, "clear")
            = IF v = Views!NoView THEN "unknown" ELSE IF v.holds <=> "clear" = "trigger" THEN "true"
              ELSE "false"
      BY DEF ResultOf
    <3> HIDE DEF v
    <3>3. QED BY <2>2, <3>1, <3>2
  <2> HIDE DEF v
  <2>4. QED BY <2>3 DEF ObservationOf
<1>4. u = [tracker |-> down.tracker, fired |-> up.fired \o down.fired]
  BY DEF ObserveBoth
<1> HIDE DEF o1, o2, t, v, u
<1>5. /\ up.tracker \in Tracker
      /\ Begins(t, o1) => up.tracker.phase \in {PhaseFor("trigger"), RestingAfter("trigger")}
      /\ Breaks(t, o1) => up.tracker.phase = RestingBefore("trigger")
      /\ ~Begins(t, o1) /\ ~Breaks(t, o1) => up.tracker = t
      /\ ~Begins(t, o1) => up.fired = <<>>
      /\ \/ up.fired = <<>>
         \/ \E w \in OwnTransition : up.fired = <<w>> /\ SeriesOf(w) = <<r, e.subject>>
  BY <1>1, <1>2, <1>3, ObserveSteps
<1> HIDE DEF up
<1>6. /\ Begins(up.tracker, o2) => down.tracker.phase \in {PhaseFor("clear"), RestingAfter("clear")}
      /\ Breaks(up.tracker, o2) => down.tracker.phase = RestingBefore("clear")
      /\ ~Begins(up.tracker, o2) /\ ~Breaks(up.tracker, o2) => down.tracker = up.tracker
      /\ ~Begins(up.tracker, o2) => down.fired = <<>>
      /\ \/ down.fired = <<>>
         \/ \E w \in OwnTransition : down.fired = <<w>> /\ SeriesOf(w) = <<r, e.subject>>
  BY <1>1, <1>3, <1>5, ObserveSteps
<1> HIDE DEF down
<1>7. t.phase \in Phases /\ up.tracker.phase \in Phases
  BY <1>2, <1>5 DEF Tracker
<1>8. /\ \/ up.fired = <<>>
         \/ down.fired = <<>>
      /\ v = Views!NoView /\ t.phase = "inactive" => down.tracker = t
      /\ v # Views!NoView => (v.holds <=> StartedPhase(down.tracker))
  BY <1>3, <1>5, <1>6, <1>7
     DEF Begins, Breaks, PhaseFor, RestingAfter, RestingBefore, StartedPhase, Phases
<1>9. \/ up.fired \o down.fired = <<>>
      \/ \E w \in OwnTransition : up.fired \o down.fired = <<w>> /\ SeriesOf(w) = <<r, e.subject>>
  <2>1. CASE up.fired = <<>>
    <3>1. down.fired \in Seq(OwnTransition)
      BY <1>6, AtMostOne
    <3>2. up.fired \o down.fired = down.fired
      BY <2>1, <3>1
    <3>3. QED BY <1>6, <3>2
  <2>2. CASE down.fired = <<>>
    <3>1. up.fired \in Seq(OwnTransition)
      BY <1>5, AtMostOne
    <3>2. up.fired \o down.fired = up.fired
      BY <2>2, <3>1
    <3>3. QED BY <1>5, <3>2
  <2>3. QED BY <1>8, <2>1, <2>2
<1>10. Right
  BY <1>4, <1>8, <1>9
<1>11. QED BY <1>10 DEF t, v, u

\* Of two memories with the same tracker and views that say the same, though not since
\* when, they do the same.
LEMMA BothAlike ==
    ASSUME NEW m \in Memory, NEW n \in Memory, NEW r \in Rules, NEW e \in Evidence,
           NEW now \in Nat, Reads[r] = "adherence",
           m.tracker[r][e.subject] = n.tracker[r][e.subject],
           m.view["adherence"][e.subject] = Views!NoView
             <=> n.view["adherence"][e.subject] = Views!NoView,
           m.view["adherence"][e.subject].holds = n.view["adherence"][e.subject].holds,
           m.view["adherence"][e.subject].holds /\ m.tracker[r][e.subject].phase = "inactive"
             => OnsetOf(e.at, m.view["adherence"][e.subject].since)
                  = OnsetOf(e.at, n.view["adherence"][e.subject].since)
    PROVE  ObserveBoth(m, r, e, now) = ObserveBoth(n, r, e, now)
<1> DEFINE t == m.tracker[r][e.subject]
           o(view, dir) == ObservationOf(view, r, e, dir, now)
           up(view) == Observe(r, t, o(view, "trigger"), now)
<1>1. \A dir \in Directions : o(m.view, dir) \in Observation /\ o(n.view, dir) \in Observation
  BY ObservationType
<1>2. t \in Tracker /\ e.at # Unset
  BY MemoryFields, ReplayEvidence
<1>3. \A dir : ResultOf(m.view, r, e.subject, dir) = ResultOf(n.view, r, e.subject, dir)
  BY DEF ResultOf
<1>4. o(m.view, "clear") = o(n.view, "clear")
  BY <1>3 DEF ObservationOf, TrueSince
<1>5. /\ o(m.view, "trigger").subject = o(n.view, "trigger").subject
      /\ o(m.view, "trigger").direction = "trigger" /\ o(n.view, "trigger").direction = "trigger"
      /\ o(m.view, "trigger").result = o(n.view, "trigger").result
      /\ o(m.view, "trigger").effectiveAt = e.at /\ o(n.view, "trigger").effectiveAt = e.at
      /\ o(m.view, "trigger").trueSince = m.view["adherence"][e.subject].since
      /\ o(n.view, "trigger").trueSince = n.view["adherence"][e.subject].since
      /\ o(m.view, "trigger").result = "true" => m.view["adherence"][e.subject].holds
  <2>1. ResultOf(m.view, r, e.subject, "trigger") = "true" => m.view["adherence"][e.subject].holds
    BY DEF ResultOf
  <2>2. QED BY <1>3, <2>1 DEF ObservationOf, TrueSince
<1>6. Begins(t, o(m.view, "trigger")) =>
        OnsetOf(e.at, m.view["adherence"][e.subject].since)
          = OnsetOf(e.at, n.view["adherence"][e.subject].since)
  BY <1>5 DEF Begins, RestingBefore
<1> DEFINE a == o(m.view, "trigger")
           b == o(n.view, "trigger")
<1>7. a \in Observation /\ b \in Observation
  BY <1>1 DEF Directions
<1> HIDE DEF a, b
<1>8. Observe(r, t, a, now) = Observe(r, t, b, now)
  <2>1. /\ a.subject = b.subject /\ a.direction = b.direction /\ a.result = b.result
        /\ a.effectiveAt = b.effectiveAt /\ a.effectiveAt # Unset
        /\ Begins(t, a) =>
             OnsetOf(a.effectiveAt, a.trueSince) = OnsetOf(b.effectiveAt, b.trueSince)
    BY <1>2, <1>5, <1>6 DEF a, b
  <2> HIDE DEF t, o
  <2>2. QED BY <1>2, <1>7, <2>1, ObserveAlike
<1>9. up(m.view) = up(n.view)
  BY <1>8 DEF a, b
<1>10. QED BY <1>4, <1>9 DEF ObserveBoth

\* A sequence of sequences, joined from the first on.
Joined(f, S, q, n) ==
    /\ f \in [0 .. n -> Seq(S)]
    /\ f[0] = <<>>
    /\ \A i \in 1 .. n : f[i] = f[i - 1] \o q[i]

LEMMA FlattenJoins ==
    ASSUME NEW S, NEW n \in Nat, NEW q \in [1 .. n -> Seq(S)]
    PROVE  \E f : Joined(f, S, q, n) /\ Seqs!FlattenSeq(q) = f[n]
<1> DEFINE Body(f, i) == IF i = 1 THEN q[i] ELSE f[i - 1] \o q[i]
           flatten == CHOOSE f : f = [i \in 1 .. n |-> Body(f, i)]
           step == [i \in 1 .. n |-> [s \in Seq(S) |-> s \o q[i]]]
<1>1. \A i \in 1 .. n : q[i] \in Seq(S) /\ i - 1 \in 0 .. n /\ i \in 0 .. n
  OBVIOUS
<1>2. step \in [1 .. n -> [Seq(S) -> Seq(S)]]
  <2>1. ASSUME NEW i \in 1 .. n, NEW s \in Seq(S)
        PROVE  s \o q[i] \in Seq(S)
    BY <1>1, ConcatProperties
  <2>2. QED BY <2>1
<1>3. \A i \in 1 .. n : \A s \in Seq(S) : step[i][s] = s \o q[i]
  OBVIOUS
<1>4. <<>> \in Seq(S)
  OBVIOUS
<1> HIDE DEF step
<1>5. PICK f : Path(f, Seq(S), n, <<>>, step)
  BY <1>2, <1>4, PathExists
<1>6. /\ f \in [0 .. n -> Seq(S)] /\ f[0] = <<>>
      /\ \A i \in 1 .. n : f[i] = f[i - 1] \o q[i]
  BY <1>1, <1>3, <1>5 DEF Path
<1>7. Joined(f, S, q, n)
  BY <1>6 DEF Joined
<1>8. flatten = [i \in 1 .. n |-> Body(flatten, i)]
  BY FlatteningExists
<1>9. \A i \in 1 .. n : flatten[i] = Body(flatten, i)
  BY <1>8
<1> HIDE DEF flatten
<1> DEFINE G == {j \in 0 .. n : j # 0 => flatten[j] = f[j]}
<1>10. \A i \in 0 .. n : i \in G
  <2>1. 0 \in G
    OBVIOUS
  <2>2. ASSUME NEW i \in 1 .. n, i - 1 \in G
        PROVE  i \in G
    <3>1. CASE i = 1
      <4>1. f[1] = <<>> \o q[1] /\ q[1] \in Seq(S)
        <5>1. 1 \in 1 .. n /\ 1 - 1 = 0
          BY <3>1
        <5>2. f[1] = f[1 - 1] \o q[1]
          BY <1>6, <5>1, Zenon
        <5>3. QED BY <1>1, <1>6, <5>1, <5>2
      <4>2. <<>> \o q[1] = q[1]
        BY <4>1, ConcatEmptySeq
      <4>3. flatten[1] = q[1]
        BY <1>9, <3>1
      <4>4. QED BY <1>1, <3>1, <4>1, <4>2, <4>3
    <3>2. CASE i # 1
      <4>1. flatten[i - 1] = f[i - 1]
        BY <2>2, <3>2
      <4>2. flatten[i] = flatten[i - 1] \o q[i] /\ f[i] = f[i - 1] \o q[i]
        BY <1>6, <1>9, <3>2
      <4>3. QED BY <1>1, <4>1, <4>2
    <3>3. QED BY <3>1, <3>2
  <2> HIDE DEF G
  <2>3. QED BY <2>1, <2>2, UpTo
<1>11. n # 0 => flatten[n] = f[n]
  BY <1>10
<1>12. q \in Seq(Seq(S)) /\ Len(q) = n
  BY FunctionIsSeq
<1>13. Seqs!FlattenSeq(q) = IF n = 0 THEN q ELSE flatten[n]
  BY <1>12 DEF Seqs!FlattenSeq, flatten
<1>14. n = 0 => q = f[0]
  BY <1>6, <1>12, EmptySeq
<1>15. Seqs!FlattenSeq(q) = f[n]
  BY <1>11, <1>13, <1>14
<1>16. QED BY <1>7, <1>15

LEMMA JoinedAt ==
    ASSUME NEW a \in Seq(OwnTransition), NEW b \in Seq(OwnTransition), NEW x
    PROVE  /\ NoneAt(a, x) /\ NoneAt(b, x) => NoneAt(a \o b, x)
           /\ \A t : OnlyAt(a, x, t) /\ NoneAt(b, x) => OnlyAt(a \o b, x, t)
           /\ \A t : NoneAt(a, x) /\ OnlyAt(b, x, t) => OnlyAt(a \o b, x, t)
<1> DEFINE m == Len(a)
           n == Len(b)
           c == a \o b
<1>1. /\ m \in Nat /\ n \in Nat /\ Len(c) = m + n
      /\ \A i \in 1 .. m : c[i] = a[i]
      /\ \A i \in 1 .. m + n : i > m => c[i] = b[i - m]
  <2>1. m \in Nat /\ n \in Nat /\ Len(c) = m + n
        /\ \A i \in 1 .. Len(a) + Len(b) : c[i] = IF i <= Len(a) THEN a[i] ELSE b[i - Len(a)]
    BY LenProperties, ConcatProperties
  <2> HIDE DEF c
  <2>2. QED BY <2>1
<1> HIDE DEF c
<1>2. ASSUME NEW i \in 1 .. m + n
      PROVE  \/ i \in 1 .. m /\ c[i] = a[i]
             \/ i > m /\ i - m \in 1 .. n /\ c[i] = b[i - m]
  <2>1. i \in 1 .. m \/ (i > m /\ i - m \in 1 .. n)
    BY <1>1
  <2>2. QED BY <1>1, <2>1
<1>3. ASSUME NoneAt(a, x), NoneAt(b, x)
      PROVE  NoneAt(c, x)
  BY <1>1, <1>2, <1>3 DEF NoneAt
<1>4. ASSUME NEW t, OnlyAt(a, x, t), NoneAt(b, x)
      PROVE  OnlyAt(c, x, t)
  <2>1. PICK k \in 1 .. m : a[k] = t /\ \A i \in 1 .. m : i # k => SeriesOf(a[i]) # x
    BY <1>4 DEF OnlyAt
  <2>2. k \in 1 .. m + n /\ c[k] = t
    BY <1>1, <2>1
  <2>3. ASSUME NEW i \in 1 .. m + n, i # k
        PROVE  SeriesOf(c[i]) # x
    BY <1>2, <1>4, <2>1, <2>3 DEF NoneAt
  <2>4. SeriesOf(t) = x
    BY <1>4 DEF OnlyAt
  <2>5. QED BY <1>1, <2>2, <2>3, <2>4 DEF OnlyAt
<1>5. ASSUME NEW t, NoneAt(a, x), OnlyAt(b, x, t)
      PROVE  OnlyAt(c, x, t)
  <2>1. PICK k \in 1 .. n : b[k] = t /\ \A i \in 1 .. n : i # k => SeriesOf(b[i]) # x
    BY <1>5 DEF OnlyAt
  <2>2. k + m \in 1 .. m + n /\ c[k + m] = t
    <3>1. k + m \in 1 .. m + n /\ k + m > m /\ (k + m) - m = k
      BY <1>1, <2>1
    <3>2. QED BY <1>1, <2>1, <3>1
  <2>3. ASSUME NEW i \in 1 .. m + n, i # k + m
        PROVE  SeriesOf(c[i]) # x
    <3>1. CASE i \in 1 .. m /\ c[i] = a[i]
      BY <1>5, <3>1 DEF NoneAt
    <3>2. CASE i > m /\ i - m \in 1 .. n /\ c[i] = b[i - m]
      <4>1. i - m # k
        BY <1>1, <2>1, <2>3
      <4>2. QED BY <2>1, <3>2, <4>1
    <3>3. QED BY <1>2, <3>1, <3>2
  <2>4. SeriesOf(t) = x
    BY <1>5 DEF OnlyAt
  <2>5. QED BY <1>1, <2>2, <2>3, <2>4 DEF OnlyAt
<1>6. QED BY <1>3, <1>4, <1>5 DEF c

\* Of parts that each have one transition at most, and of its own rule, the joined list
\* has of rule k's series what part k has.
Parts(q, n, rule, s) ==
    \A i \in 1 .. n :
        \/ q[i] = <<>>
        \/ \E w \in OwnTransition : q[i] = <<w>> /\ SeriesOf(w) = <<rule[i], s>>

\* No part but part k is about x; the parts that are about x are empty.
Elsewhere(n, rule, s, x, k) == \A i \in 1 .. n : i # k => <<rule[i], s>> # x
Silent(q, n, rule, s, x) == \A i \in 1 .. n : <<rule[i], s>> = x => q[i] = <<>>

LEMMA JoinedParts ==
    ASSUME NEW n \in Nat, NEW q \in [1 .. n -> Seq(OwnTransition)], NEW rule, NEW s,
           Parts(q, n, rule, s), NEW x, NEW f, Joined(f, OwnTransition, q, n)
    PROVE  /\ Silent(q, n, rule, s, x) => NoneAt(f[n], x)
           /\ \A k \in 1 .. n : \A w \in OwnTransition :
                q[k] = <<w>> /\ SeriesOf(w) = x /\ Elsewhere(n, rule, s, x, k)
                  => OnlyAt(f[n], x, w)
<1>1. /\ f \in [0 .. n -> Seq(OwnTransition)] /\ f[0] = <<>>
      /\ \A i \in 1 .. n : f[i] = f[i - 1] \o q[i]
      /\ \A i \in 1 .. n : i - 1 \in 0 .. n /\ i \in 0 .. n
  <2>1. \A i \in 1 .. n : i - 1 \in 0 .. n /\ i \in 0 .. n
    OBVIOUS
  <2>2. QED BY <2>1, Zenon DEF Joined
<1>2. NoneAt(<<>>, x)
  BY DEF NoneAt
<1>3. ASSUME NEW i \in 1 .. n, <<rule[i], s>> # x
      PROVE  NoneAt(q[i], x)
  <2>1. CASE q[i] = <<>>
    BY <1>2, <2>1
  <2>2. ASSUME NEW w \in OwnTransition, q[i] = <<w>>, SeriesOf(w) = <<rule[i], s>>
        PROVE  NoneAt(q[i], x)
    BY <1>3, <2>2 DEF NoneAt
  <2>3. QED BY <2>1, <2>2 DEF Parts
<1>4. ASSUME \A i \in 1 .. n : <<rule[i], s>> = x => q[i] = <<>>
      PROVE  NoneAt(f[n], x)
  <2> DEFINE G == {j \in 0 .. n : NoneAt(f[j], x)}
  <2>1. 0 \in G
    BY <1>1, <1>2
  <2>2. ASSUME NEW i \in 1 .. n, i - 1 \in G
        PROVE  i \in G
    <3>1. NoneAt(q[i], x)
      BY <1>2, <1>3, <1>4
    <3>2. f[i - 1] \in Seq(OwnTransition) /\ q[i] \in Seq(OwnTransition) /\ NoneAt(f[i - 1], x)
      BY <1>1, <2>2
    <3>3. NoneAt(f[i - 1] \o q[i], x)
      BY <3>1, <3>2, JoinedAt
    <3>4. QED BY <1>1, <3>3
  <2> HIDE DEF G
  <2>3. \A i \in 0 .. n : i \in G
    BY <2>1, <2>2, UpTo
  <2>4. QED BY <2>3 DEF G
<1>5. ASSUME NEW k \in 1 .. n, NEW w \in OwnTransition, q[k] = <<w>>, SeriesOf(w) = x,
             \A i \in 1 .. n : i # k => <<rule[i], s>> # x
      PROVE  OnlyAt(f[n], x, w)
  <2> DEFINE G == {j \in 0 .. n : IF j < k THEN NoneAt(f[j], x) ELSE OnlyAt(f[j], x, w)}
  <2>1. 0 \in G
    BY <1>1, <1>2
  <2>2. ASSUME NEW i \in 1 .. n, i - 1 \in G
        PROVE  i \in G
    <3>1. f[i - 1] \in Seq(OwnTransition) /\ q[i] \in Seq(OwnTransition)
          /\ f[i] = f[i - 1] \o q[i]
      BY <1>1
    <3>2. CASE i < k
      <4>1. NoneAt(f[i - 1], x) /\ NoneAt(q[i], x)
        BY <1>3, <1>5, <2>2, <3>2
      <4>2. NoneAt(f[i], x)
        BY <3>1, <4>1, JoinedAt
      <4>3. QED BY <3>2, <4>2
    <3>3. CASE i = k
      <4>1. NoneAt(f[i - 1], x)
        BY <2>2, <3>3
      <4>2. OnlyAt(q[i], x, w)
        <5>1. OnlyAt(<<w>>, x, w)
          <6>1. Len(<<w>>) = 1 /\ <<w>>[1] = w
            OBVIOUS
          <6>2. QED BY <1>5, <6>1 DEF OnlyAt
        <5>2. QED BY <1>5, <3>3, <5>1
      <4>3. OnlyAt(f[i], x, w)
        BY <3>1, <4>1, <4>2, JoinedAt
      <4>4. QED BY <3>3, <4>3
    <3>4. CASE i > k
      <4>1. OnlyAt(f[i - 1], x, w) /\ NoneAt(q[i], x)
        BY <1>3, <1>5, <2>2, <3>4
      <4>2. OnlyAt(f[i], x, w)
        BY <3>1, <4>1, JoinedAt
      <4>3. QED BY <3>4, <4>2
    <3>5. QED BY <3>2, <3>3, <3>4
  <2> HIDE DEF G
  <2>3. \A i \in 0 .. n : i \in G
    BY <2>1, <2>2, UpTo
  <2>4. n \in G /\ ~(n < k)
    BY <2>3
  <2>5. QED BY <2>4 DEF G
<1>6. QED BY <1>4, <1>5 DEF Silent, Elsewhere

LEMMA AppliedSteps ==
    ASSUME NEW m \in Memory, NEW e \in Evidence, NEW now \in Nat, NEW r \in Rules
    PROVE  \/ Applied(m, e, now)[r].fired = <<>>
           \/ \E w \in OwnTransition : /\ Applied(m, e, now)[r].fired = <<w>>
                                       /\ SeriesOf(w) = <<r, e.subject>>
<1>1. CASE e.subject \in Targets[r]
  <2>1. Applied(m, e, now)[r] = ObserveBoth(m, r, e, now)
    BY <1>1 DEF Applied
  <2>2. QED BY <2>1, BothSteps
<1>2. CASE e.subject \notin Targets[r]
  BY <1>2 DEF Applied
<1>3. QED BY <1>1, <1>2

\* What an evaluation fires is joined of what its rules fire.
PartOf(m, e, now) == [i \in 1 .. Cardinality(Rules) |-> Applied(m, e, now)[RuleOrder[i]].fired]

LEMMA FiredAtJoins ==
    ASSUME NEW m \in Memory, NEW e \in Evidence, NEW now \in Nat
    PROVE  /\ PartOf(m, e, now) \in [1 .. Cardinality(Rules) -> Seq(OwnTransition)]
           /\ Parts(PartOf(m, e, now), Cardinality(Rules), RuleOrder, e.subject)
           /\ FiredAt(m, e, now) \in Seq(OwnTransition)
           /\ \E f : /\ Joined(f, OwnTransition, PartOf(m, e, now), Cardinality(Rules))
                    /\ FiredAt(m, e, now) = f[Cardinality(Rules)]
<1> DEFINE n == Cardinality(Rules)
           part(i) == Applied(m, e, now)[RuleOrder[i]].fired
           q == [i \in 1 .. n |-> part(i)]
           fired == FiredAt(m, e, now)
<1>1. /\ n \in Nat /\ DOMAIN RuleOrder = 1 .. n /\ \A i \in 1 .. n : RuleOrder[i] \in Rules
  BY RuleOrderType
<1>2. fired = Seqs!FlattenSeq(q)
  BY <1>1 DEF FiredAt
<1>3. ASSUME NEW i \in 1 .. n
      PROVE  \/ part(i) = <<>>
             \/ \E w \in OwnTransition : part(i) = <<w>> /\ SeriesOf(w) = <<RuleOrder[i], e.subject>>
  BY <1>1, AppliedSteps
<1> HIDE DEF part, n, fired
<1>4. \A i \in 1 .. n : part(i) \in Seq(OwnTransition)
  BY <1>3, AtMostOne
<1>5. q \in [1 .. n -> Seq(OwnTransition)] /\ \A i \in 1 .. n : q[i] = part(i)
  BY <1>4
<1> HIDE DEF q
<1>6. Parts(q, n, RuleOrder, e.subject)
  BY <1>3, <1>5 DEF Parts
<1>7. PICK f : Joined(f, OwnTransition, q, n) /\ fired = f[n]
  BY <1>1, <1>2, <1>5, FlattenJoins
<1>8. fired \in Seq(OwnTransition)
  <2>1. n \in 0 .. n
    BY <1>1
  <2>2. QED BY <1>7, <2>1 DEF Joined
<1>9. QED BY <1>5, <1>6, <1>7, <1>8 DEF PartOf, part, n, fired, q

LEMMA FiredAtOf ==
    ASSUME NEW m \in Memory, NEW e \in Evidence, NEW now \in Nat, NEW r \in Rules, NEW s \in Subjects
    PROVE  LET fired == FiredAt(m, e, now) IN
           /\ s # e.subject \/ Applied(m, e, now)[r].fired = <<>> => NoneAt(fired, <<r, s>>)
           /\ \A w \in OwnTransition :
                s = e.subject /\ Applied(m, e, now)[r].fired = <<w>>
                  => OnlyAt(fired, <<r, s>>, w)
<1> DEFINE n == Cardinality(Rules)
           q == PartOf(m, e, now)
           fired == FiredAt(m, e, now)
           x == <<r, s>>
<1>1. /\ n \in Nat
      /\ \A i, j \in 1 .. n : RuleOrder[i] = RuleOrder[j] => i = j
      /\ \E i \in 1 .. n : RuleOrder[i] = r
  BY RuleOrderType
<1>5. /\ q \in [1 .. n -> Seq(OwnTransition)]
      /\ \A i \in 1 .. n : q[i] = Applied(m, e, now)[RuleOrder[i]].fired
  BY FiredAtJoins DEF PartOf
<1>6. Parts(q, n, RuleOrder, e.subject)
  BY FiredAtJoins
<1>7. PICK f : Joined(f, OwnTransition, q, n) /\ fired = f[n]
  BY FiredAtJoins
<1> HIDE DEF n, q, fired
<1>9. /\ Silent(q, n, RuleOrder, e.subject, x) => NoneAt(fired, x)
      /\ \A k \in 1 .. n : \A w \in OwnTransition :
           q[k] = <<w>> /\ SeriesOf(w) = x /\ Elsewhere(n, RuleOrder, e.subject, x, k)
             => OnlyAt(fired, x, w)
  <2> HIDE DEF x
  <2>1. Joined(f, OwnTransition, q, n) /\ n \in Nat /\ q \in [1 .. n -> Seq(OwnTransition)]
    BY <1>1, <1>5, <1>7
  <2>2. /\ Silent(q, n, RuleOrder, e.subject, x) => NoneAt(f[n], x)
        /\ \A k \in 1 .. n : \A w \in OwnTransition :
             q[k] = <<w>> /\ SeriesOf(w) = x /\ Elsewhere(n, RuleOrder, e.subject, x, k)
               => OnlyAt(f[n], x, w)
    BY <1>6, <2>1, JoinedParts
  <2>3. QED BY <1>7, <2>2
<1>10. PICK k \in 1 .. n : RuleOrder[k] = r
  BY <1>1
<1>11. \A i \in 1 .. n : i # k => RuleOrder[i] # r
  BY <1>1, <1>10
<1>12. q[k] = Applied(m, e, now)[r].fired
  BY <1>5, <1>10
<1>13. ASSUME s # e.subject \/ Applied(m, e, now)[r].fired = <<>>
       PROVE  NoneAt(fired, x)
  <2>1. ASSUME NEW i \in 1 .. n, <<RuleOrder[i], e.subject>> = x
        PROVE  q[i] = <<>>
    BY <1>11, <1>12, <1>13, <2>1
  <2>2. QED BY <1>9, <2>1 DEF Silent
<1>14. ASSUME NEW w \in OwnTransition, s = e.subject, Applied(m, e, now)[r].fired = <<w>>
       PROVE  OnlyAt(fired, x, w)
  <2>1. SeriesOf(w) = x
    <3>1. PICK v \in OwnTransition : <<w>> = <<v>> /\ SeriesOf(v) = <<r, e.subject>>
      <4>1. <<w>> # <<>>
        OBVIOUS
      <4>2. QED BY <1>14, <4>1, AppliedSteps
    <3>2. w = v
      BY <3>1
    <3>3. QED BY <1>14, <3>1, <3>2
  <2>2. Elsewhere(n, RuleOrder, e.subject, x, k)
    BY <1>11 DEF Elsewhere
  <2>3. q[k] = <<w>>
    BY <1>12, <1>14
  <2> HIDE DEF x
  <2>4. QED BY <1>9, <2>1, <2>2, <2>3
<1>15. QED BY <1>13, <1>14 DEF fired

\* Of the onsets that matter to an evaluation, both memories say the same.
SameOnset(m, n, r, e) ==
    /\ e.subject \in Targets[r]
    /\ m.view["adherence"][e.subject].holds
    /\ m.tracker[r][e.subject].phase = "inactive"
    => OnsetOf(e.at, m.view["adherence"][e.subject].since)
         = OnsetOf(e.at, n.view["adherence"][e.subject].since)

SameView(v, w) ==
    /\ v = Views!NoView <=> w = Views!NoView
    /\ v.at = w.at
    /\ v.holds = w.holds

LEMMA EvaluatedAlike ==
    ASSUME NEW m \in Memory, NEW n \in Memory, NEW e \in Evidence, NEW now \in Nat,
           NEW r \in Rules, NEW s \in Subjects, Reads[r] = "adherence",
           m.tracker[r][s] = n.tracker[r][s],
           SameView(m.view["adherence"][s], n.view["adherence"][s]), SameOnset(m, n, r, e)
    PROVE  /\ SameAt(FiredAt(m, e, now), FiredAt(n, e, now), <<r, s>>)
           /\ Evaluated(m, e, now)[r][s] = Evaluated(n, e, now)[r][s]
<1>1. ASSUME s = e.subject
      PROVE  Applied(m, e, now)[r] = Applied(n, e, now)[r]
  <2>1. CASE s \in Targets[r]
    <3>1. ObserveBoth(m, r, e, now) = ObserveBoth(n, r, e, now)
      BY <1>1, <2>1, BothAlike DEF SameView, SameOnset
    <3>2. QED BY <1>1, <2>1, <3>1 DEF Applied
  <2>2. CASE s \notin Targets[r]
    BY <1>1, <2>2 DEF Applied
  <2>3. QED BY <2>1, <2>2
<1>2. SameAt(FiredAt(m, e, now), FiredAt(n, e, now), <<r, s>>)
  <2>1. CASE s # e.subject \/ Applied(m, e, now)[r].fired = <<>>
    <3>1. s # e.subject \/ Applied(n, e, now)[r].fired = <<>>
      BY <1>1, <2>1
    <3>2. QED BY <2>1, <3>1, FiredAtOf DEF SameAt
  <2>2. CASE s = e.subject /\ Applied(m, e, now)[r].fired # <<>>
    <3>1. PICK w \in OwnTransition : Applied(m, e, now)[r].fired = <<w>>
      BY <2>2, AppliedSteps
    <3>2. Applied(n, e, now)[r].fired = <<w>>
      BY <1>1, <2>2, <3>1
    <3>3. QED BY <2>2, <3>1, <3>2, FiredAtOf DEF SameAt
  <2>3. QED BY <2>1, <2>2
<1>3. Evaluated(m, e, now)[r][s] = Evaluated(n, e, now)[r][s]
  <2>1. /\ m.tracker[r] \in [Subjects -> Tracker] /\ n.tracker[r] \in [Subjects -> Tracker]
        /\ e.subject \in Subjects
    BY MemoryFields, ReplayEvidence
  <2>2. Evaluated(m, e, now)[r][s]
          = IF s = e.subject THEN Applied(m, e, now)[r].tracker ELSE m.tracker[r][s]
    BY <2>1 DEF Evaluated
  <2>3. Evaluated(n, e, now)[r][s]
          = IF s = e.subject THEN Applied(n, e, now)[r].tracker ELSE n.tracker[r][s]
    BY <2>1 DEF Evaluated
  <2>4. QED BY <1>1, <2>2, <2>3
<1>4. QED BY <1>2, <1>3

-----------------------------------------------------------------------------
(* What a preview and a replay agree on: of the rules that read adherence, *)
(* everything but the onsets of the views.                                 *)

Agree(p, q) ==
    /\ \A s \in Subjects : SameView(p.mem.view["adherence"][s], q.mem.view["adherence"][s])
    /\ \A r \in Rules, s \in Subjects : Reads[r] = "adherence" =>
         /\ p.mem.tracker[r][s] = q.mem.tracker[r][s]
         /\ Slice(p, <<r, s>>) = Slice(q, <<r, s>>)

LEMMA SliceOfWith ==
    ASSUME NEW p \in PreviewState, NEW now \in Nat,
           NEW trackers \in [Rules -> [Subjects -> Tracker]],
           NEW views \in [Views!Kinds -> [Subjects -> Views!View]], NEW x
    PROVE  Slice(With(p, now, trackers, views), x) = Slice(p, x)
<1> DEFINE u == With(p, now, trackers, views)
<1>1. u.mem.alerts = p.mem.alerts /\ u.mem.planned = p.mem.planned /\ u.output = p.output
  BY WithType
<1> HIDE DEF u
<1>2. Slice(u, x) = Slice(p, x)
  BY <1>1 DEF Slice
<1>3. QED BY <1>2 DEF u

\* Of the rules that read adherence, the same trackers and the same transitions.
StepAlike(t, u, a, b) ==
    \A r \in Rules, s \in Subjects : Reads[r] = "adherence" =>
        t[r][s] = u[r][s] /\ SameAt(a, b, <<r, s>>)

\* Emitting on other trackers and views.
LEMMA EmitWithAlike ==
    ASSUME NEW p \in PreviewState, NEW q \in PreviewState, NEW now \in Nat, NEW when \in Nat,
           NEW t \in [Rules -> [Subjects -> Tracker]], NEW u \in [Rules -> [Subjects -> Tracker]],
           NEW a \in Seq(OwnTransition), NEW b \in Seq(OwnTransition),
           Agree(p, q), StepAlike(t, u, a, b)
    PROVE  /\ Agree(Emit(With(p, now, t, p.mem.view), a), Emit(With(q, when, u, q.mem.view), b))
           /\ Emit(With(p, now, t, p.mem.view), a).logical = now
           /\ Emit(With(p, now, t, p.mem.view), a).mem.tracker = t
           /\ Emit(With(p, now, t, p.mem.view), a).mem.view = p.mem.view
<1> DEFINE v == With(p, now, t, p.mem.view)
           w == With(q, when, u, q.mem.view)
<1>1. /\ v \in PreviewState /\ v.mem.tracker = t /\ v.mem.view = p.mem.view /\ v.logical = now
      /\ w \in PreviewState /\ w.mem.tracker = u /\ w.mem.view = q.mem.view
  BY StateFields, WithType
<1>2. ASSUME NEW x
      PROVE  Slice(v, x) = Slice(p, x) /\ Slice(w, x) = Slice(q, x)
  <2>1. /\ p.mem.view \in [Views!Kinds -> [Subjects -> Views!View]]
        /\ q.mem.view \in [Views!Kinds -> [Subjects -> Views!View]]
    BY StateFields
  <2>2. QED BY <2>1, SliceOfWith
<1>3. a \in Seq(ConditionTransition) /\ b \in Seq(ConditionTransition)
  <2>1. OwnTransition \subseteq ConditionTransition
    BY DEF OwnTransition
  <2>2. QED BY <2>1
<1> HIDE DEF v, w
<1>4. /\ Emit(v, a).logical = now /\ Emit(v, a).mem.tracker = t /\ Emit(v, a).mem.view = p.mem.view
      /\ Emit(w, b).mem.tracker = u /\ Emit(w, b).mem.view = q.mem.view
  BY <1>1, <1>3, EmitKeeps
<1>5. ASSUME NEW r \in Rules, NEW s \in Subjects, Reads[r] = "adherence"
      PROVE  Slice(Emit(v, a), <<r, s>>) = Slice(Emit(w, b), <<r, s>>)
  <2>1. <<r, s>> \in Series
    BY DEF Series
  <2>2. Slice(v, <<r, s>>) = Slice(w, <<r, s>>)
    BY <1>2, <1>5 DEF Agree
  <2>3. SameAt(a, b, <<r, s>>)
    BY <1>5 DEF StepAlike
  <2>4. QED BY <1>1, <2>1, <2>2, <2>3, EmitAlike
<1>6. Agree(Emit(v, a), Emit(w, b))
  BY <1>4, <1>5 DEF Agree, StepAlike
<1>7. QED BY <1>4, <1>6 DEF v, w

LEMMA AdvanceAlike ==
    ASSUME NEW p \in PreviewState, NEW q \in PreviewState, NEW now \in Nat, Agree(p, q)
    PROVE  /\ Agree(AdvanceTo(p, now), AdvanceTo(q, now))
           /\ AdvanceTo(p, now) \in PreviewState
           /\ AdvanceTo(p, now).logical = now
           /\ AdvanceTo(p, now).mem.view = p.mem.view
<1> DEFINE t == Drained(p.mem.tracker, now)
           u == Drained(q.mem.tracker, now)
           a == FiredBy(p.mem.tracker, now)
           b == FiredBy(q.mem.tracker, now)
<1>1. /\ t \in [Rules -> [Subjects -> Tracker]] /\ u \in [Rules -> [Subjects -> Tracker]]
      /\ AdvanceTo(p, now) = Emit(With(p, now, t, p.mem.view), a)
      /\ AdvanceTo(q, now) = Emit(With(q, now, u, q.mem.view), b)
      /\ AdvanceTo(p, now) \in PreviewState
  BY AdvanceSteps, EmitType
<1>2. /\ p.mem.tracker \in [Rules -> [Subjects -> Tracker]]
      /\ q.mem.tracker \in [Rules -> [Subjects -> Tracker]]
  BY StateFields
<1>3. ASSUME NEW r \in Rules, NEW s \in Subjects, Reads[r] = "adherence"
      PROVE  t[r][s] = u[r][s] /\ SameAt(a, b, <<r, s>>)
  <2>1. p.mem.tracker[r][s] = q.mem.tracker[r][s]
    BY <1>3 DEF Agree
  <2>2. QED BY <1>2, <2>1, FiredByAlike
<1>4. a \in Seq(OwnTransition) /\ b \in Seq(OwnTransition)
  BY <1>2, FiredByAt
<1> HIDE DEF t, u, a, b
<1>5. StepAlike(t, u, a, b)
  BY <1>3 DEF StepAlike
<1>6. /\ Agree(Emit(With(p, now, t, p.mem.view), a), Emit(With(q, now, u, q.mem.view), b))
      /\ Emit(With(p, now, t, p.mem.view), a).logical = now
      /\ Emit(With(p, now, t, p.mem.view), a).mem.view = p.mem.view
  <2>1. /\ p \in PreviewState /\ q \in PreviewState /\ now \in Nat /\ Agree(p, q)
        /\ t \in [Rules -> [Subjects -> Tracker]] /\ u \in [Rules -> [Subjects -> Tracker]]
    BY <1>1
  <2>2. QED BY <1>4, <1>5, <2>1, EmitWithAlike, SMT
<1>7. QED BY <1>1, <1>6

LEMMA EvaluateAlike ==
    ASSUME NEW p \in PreviewState, NEW q \in PreviewState, NEW e \in Evidence,
           Agree(p, q), p.logical = q.logical,
           \A r \in Rules : Reads[r] = "adherence" => SameOnset(p.mem, q.mem, r, e)
    PROVE  /\ Agree(EvaluateLine(p, e), EvaluateLine(q, e))
           /\ EvaluateLine(p, e).logical = p.logical
<1> DEFINE now == p.logical
           t == Evaluated(p.mem, e, now)
           u == Evaluated(q.mem, e, now)
           a == FiredAt(p.mem, e, now)
           b == FiredAt(q.mem, e, now)
<1>1. /\ t \in [Rules -> [Subjects -> Tracker]] /\ u \in [Rules -> [Subjects -> Tracker]]
      /\ EvaluateLine(p, e) = Emit(With(p, now, t, p.mem.view), a)
      /\ EvaluateLine(q, e) = Emit(With(q, now, u, q.mem.view), b)
  BY EvaluateLineSteps
<1>2. p.mem \in Memory /\ q.mem \in Memory /\ now \in Nat /\ e.subject \in Subjects
  BY StateFields, ReplayEvidence
<1> HIDE DEF now
<1>3. ASSUME NEW r \in Rules, NEW s \in Subjects, Reads[r] = "adherence"
      PROVE  t[r][s] = u[r][s] /\ SameAt(a, b, <<r, s>>)
  <2>1. /\ p.mem.tracker[r][s] = q.mem.tracker[r][s]
        /\ SameView(p.mem.view["adherence"][s], q.mem.view["adherence"][s])
        /\ SameOnset(p.mem, q.mem, r, e)
    BY <1>3 DEF Agree
  <2>2. QED BY <1>2, <1>3, <2>1, EvaluatedAlike
<1>4. a \in Seq(OwnTransition) /\ b \in Seq(OwnTransition)
  BY <1>2, FiredAtJoins
<1> HIDE DEF t, u, a, b
<1>5. StepAlike(t, u, a, b)
  BY <1>3 DEF StepAlike
<1>6. /\ Agree(Emit(With(p, now, t, p.mem.view), a), Emit(With(q, now, u, q.mem.view), b))
      /\ Emit(With(p, now, t, p.mem.view), a).logical = now
  <2>1. /\ p \in PreviewState /\ q \in PreviewState /\ now \in Nat /\ Agree(p, q)
        /\ t \in [Rules -> [Subjects -> Tracker]] /\ u \in [Rules -> [Subjects -> Tracker]]
    BY <1>1, <1>2
  <2>2. QED BY <1>4, <1>5, <2>1, EmitWithAlike, SMT
<1>7. QED BY <1>1, <1>6 DEF now

-----------------------------------------------------------------------------
(* The replay as a state of the preview: its memory, its time, and what    *)
(* its tables hold.                                                        *)

Replayed == [mem |-> mem, logical |-> logical, output |-> NotedIn(work)]

LEMMA NotedType ==
    ASSUME NEW T, IsTables(T), WholeRows(T)
    PROVE  /\ NotedIn(T) \in SUBSET (AlertRow \X Nat)
           /\ \A i \in DOMAIN T.intents : TimeIn(T, i) \in Nat
<1>1. /\ T.generations \in [DOMAIN T.generations -> GenerationRow]
      /\ DOMAIN T.intents \subseteq AlertRow
  BY TablesFields
<1>2. ASSUME NEW i \in DOMAIN T.intents
      PROVE  TimeIn(T, i) \in Nat
  <2>1. PICK s \in Series, n \in Nat, k \in Kinds : i = <<s, n, k>>
    BY <1>1 DEF AlertRow
  <2>2. <<s, n, k>> \in DOMAIN T.intents
    BY <2>1
  <2>3. <<s, n>> \in DOMAIN T.generations
    BY <2>2 DEF WholeRows
  <2>4. T.generations[<<s, n>>] \in GenerationRow
    BY <1>1, <2>3
  <2>5. TimeIn(T, i) = IF k = "open" THEN T.generations[<<s, n>>].openedAt
                       ELSE T.generations[<<s, n>>].recoveredAt
    BY <2>1 DEF TimeIn
  <2>6. QED BY <2>4, <2>5 DEF GenerationRow
<1>3. QED BY <1>1, <1>2 DEF NotedIn

\* A turn that brings a notes what is planned for it, and moves no time.
LEMMA StoresNoted ==
    ASSUME TypeOK, WholeRows(work), NEW t \in ConditionTransition, NEW a \in AlertTransition,
           BringsOpening(mem.alerts, t, a) \/ BringsRecovery(mem.alerts, t, a),
           Stores(a, t.rule, t.at)
    PROVE  NotedIn(work') = NotedIn(work)
             \cup {<<row, t.at>> : row \in Planned(mem.planned, a, t.rule)}
<1> DEFINE g == <<a.series, a.generation>>
           own == <<a.series, a.generation, a.kind>>
           G == work.generations
           H == GenerationsAfter(a, t.at)
           planned == Planned(mem.planned, a, t.rule)
           I == IntentsAfter(planned)
<1>1. a.series \in Series /\ a.generation \in Nat /\ a.kind \in Kinds
  BY DEF AlertTransition
<1>2. /\ a.kind = "open" => g \notin DOMAIN G
      /\ a.kind = "recovery" => g \in DOMAIN G
      /\ own \notin work.transitions
  BY DEF Stores, Fails, Conflicts, Generation, Row
<1>3. /\ G \in [DOMAIN G -> GenerationRow] /\ DOMAIN work.intents \subseteq AlertRow
  BY TablesFields DEF TypeOK
<1>4. a.kind = "recovery" => G[g].status = "open" /\ G[g] \in GenerationRow
  BY <1>1, <1>2, <1>3 DEF WholeRows
<1>5. /\ DOMAIN H = DOMAIN G \cup {g}
      /\ \A h \in DOMAIN H : h # g => H[h] = G[h]
      /\ a.kind = "open" => H[g] = [status |-> "open", openedAt |-> t.at, recoveredAt |-> Unset]
      /\ a.kind # "open" => H[g] = [G[g] EXCEPT !.status = "recovered", !.recoveredAt = t.at]
  BY DEF GenerationsAfter, Generation
<1>6. /\ a.kind = "open" => H[g].openedAt = t.at
      /\ a.kind = "recovery" => H[g].recoveredAt = t.at /\ H[g].openedAt = G[g].openedAt
  <2> HIDE DEF H
  <2>1. \A x \in GenerationRow :
           /\ [x EXCEPT !.status = "recovered", !.recoveredAt = t.at].recoveredAt = t.at
           /\ [x EXCEPT !.status = "recovered", !.recoveredAt = t.at].openedAt = x.openedAt
    BY DEF GenerationRow
  <2>2. a.kind = "recovery" => H[g] = [G[g] EXCEPT !.status = "recovered", !.recoveredAt = t.at]
    BY <1>5
  <2>3. a.kind = "open" => H[g].openedAt = t.at
    BY <1>5
  <2> HIDE DEF g
  <2>4. QED BY <1>4, <2>1, <2>2, <2>3
<1>7. planned \subseteq {own}
  BY DEF Planned, Row
<1>8. DOMAIN I = DOMAIN work.intents \cup planned
  BY DEF IntentsAfter
<1>9. work'.generations = H /\ work'.intents = I
  BY DEF Stores
<1> HIDE DEF H, I, planned
<1>10. ASSUME NEW i \in DOMAIN work.intents
       PROVE  TimeIn(work', i) = TimeIn(work, i)
  <2>1. PICK s \in Series, n \in Nat, k \in Kinds : i = <<s, n, k>>
    BY <1>3 DEF AlertRow
  <2>2. <<s, n, k>> \in DOMAIN work.intents
    BY <2>1
  <2>3. <<s, n>> \in DOMAIN G /\ (k = "open" \/ G[<<s, n>>].status # "open")
    BY <2>2 DEF WholeRows
  <2>4. \A T : TimeIn(T, i) = IF k = "open" THEN T.generations[<<s, n>>].openedAt
                              ELSE T.generations[<<s, n>>].recoveredAt
    BY <2>1 DEF TimeIn
  <2>5. CASE <<s, n>> = g
    <3>1. a.kind = "recovery" /\ k = "open"
      BY <1>1, <1>2, <1>4, <2>3, <2>5 DEF Kinds
    <3>2. H[<<s, n>>].openedAt = G[<<s, n>>].openedAt
      BY <1>6, <2>5, <3>1
    <3>3. QED BY <1>9, <2>4, <3>1, <3>2
  <2>6. CASE <<s, n>> # g
    <3>1. H[<<s, n>>] = G[<<s, n>>]
      BY <1>5, <2>3, <2>6
    <3>2. QED BY <1>9, <2>4, <3>1
  <2>7. QED BY <2>5, <2>6
<1>11. TimeIn(work', own) = t.at
  <2>1. TimeIn(work', own) = IF a.kind = "open" THEN H[g].openedAt ELSE H[g].recoveredAt
    BY <1>9 DEF TimeIn
  <2>2. QED BY <1>1, <1>6, <2>1 DEF Kinds
<1>12. NotedIn(work') = {<<i, TimeIn(work', i)>> : i \in DOMAIN work.intents}
                          \cup {<<i, TimeIn(work', i)>> : i \in planned}
  BY <1>8, <1>9 DEF NotedIn
<1>13. {<<i, TimeIn(work', i)>> : i \in DOMAIN work.intents} = NotedIn(work)
  BY <1>10 DEF NotedIn
<1>14. {<<i, TimeIn(work', i)>> : i \in planned} = {<<row, t.at>> : row \in planned}
  BY <1>7, <1>11
<1>15. QED BY <1>12, <1>13, <1>14 DEF planned

LEMMA ReplayedType ==
    WholeInv => Replayed \in PreviewState /\ emitting \in Seq(ConditionTransition)
<1>1. SUFFICES ASSUME WholeInv
               PROVE  Replayed \in PreviewState /\ emitting \in Seq(ConditionTransition)
  OBVIOUS
<1>2. /\ mem \in Memory /\ logical \in Nat /\ IsTables(work) /\ Whole(work)
      /\ emitting \in Seq(ConditionTransition)
  BY <1>1 DEF WholeInv, TransactionInv, TypeOK
<1>3. NotedIn(work) \in SUBSET (AlertRow \X Nat)
  BY <1>2, WholeByRows, NotedType
<1>4. QED BY <1>2, <1>3 DEF Replayed, PreviewState

\* A turn of emit's loop is the preview's.
LEMMA EmitReplayed ==
    ASSUME WholeInv, EmitStored
    PROVE  Emit(Replayed', emitting') = Emit(Replayed, emitting)
<1>1. /\ TypeOK /\ IsTables(work) /\ WholeRows(work) /\ Replayed \in PreviewState
  BY ReplayedType, WholeByRows DEF WholeInv, TransactionInv, TypeOK
<1>2. PICK t \in ConditionTransition :
        /\ mem' = [view |-> mem.view, tracker |-> mem.tracker, alerts |-> AlertsAfter(mem.alerts, t),
                   planned |-> mem'.planned]
        /\ emitting \in Seq(ConditionTransition) /\ emitting # <<>>
        /\ t = Head(emitting) /\ emitting' = Tail(emitting)
        /\ mem'.planned = mem.planned \cup PlannedFor(mem, t)
        /\ logical' = logical
        /\ \/ work' = work /\ PlannedFor(mem, t) = {}
           \/ \E a \in AlertTransition :
                /\ BringsOpening(mem.alerts, t, a) \/ BringsRecovery(mem.alerts, t, a)
                /\ Stores(a, t.rule, t.at)
                /\ PlannedFor(mem, t) = Planned(mem.planned, a, t.rule)
  BY <1>1, EmitSteps
<1> DEFINE rows == PlannedFor(mem, t)
<1>3. NotedIn(work') = NotedIn(work) \cup {<<row, t.at>> : row \in rows}
  <2>1. CASE work' = work /\ rows = {}
    BY <2>1
  <2>2. ASSUME NEW a \in AlertTransition,
               BringsOpening(mem.alerts, t, a) \/ BringsRecovery(mem.alerts, t, a),
               Stores(a, t.rule, t.at), rows = Planned(mem.planned, a, t.rule)
        PROVE  NotedIn(work') = NotedIn(work) \cup {<<row, t.at>> : row \in rows}
    BY <1>1, <2>2, StoresNoted
  <2>3. QED BY <1>2, <2>1, <2>2
<1>4. EmitOne(Replayed, t) =
        [mem |-> [view |-> mem.view, tracker |-> mem.tracker, alerts |-> AlertsAfter(mem.alerts, t),
                  planned |-> mem.planned \cup rows],
         logical |-> logical, output |-> NotedIn(work) \cup {<<row, t.at>> : row \in rows}]
  <2>1. Replayed.mem = mem /\ Replayed.logical = logical /\ Replayed.output = NotedIn(work)
    BY DEF Replayed
  <2>2. QED BY <1>1, <2>1, EmitOneType
<1>5. Replayed' = [mem |-> mem', logical |-> logical, output |-> NotedIn(work')]
  BY <1>2 DEF Replayed, NotedIn, TimeIn
<1>6. Replayed' = EmitOne(Replayed, t)
  <2> HIDE DEF rows
  <2>1. mem' = [view |-> mem.view, tracker |-> mem.tracker, alerts |-> AlertsAfter(mem.alerts, t),
                planned |-> mem.planned \cup rows]
    BY <1>2 DEF rows
  <2>2. QED BY <1>3, <1>4, <1>5, <2>1
<1>7. Emit(EmitOne(Replayed, Head(emitting)), Tail(emitting)) = Emit(Replayed, emitting)
  BY <1>1, <1>2, EmitFirst
<1>8. QED BY <1>2, <1>6, <1>7

-----------------------------------------------------------------------------
(* How far the preview of the first run's lines has come.                  *)

Before == Lines(file, line - 1)
Time == TimeAt(Before, file[line])
Told == AdvanceTo(Before, Time)
Held == BuildKept(Told, file[line], line)

Ahead == CASE stage \in {"none", "admitted"} -> Before
           [] stage = "advanced" -> Told
           [] stage = "built" -> Held
           [] stage = "applied" -> EvaluateLine(Held, file[line])

\* A rule that reads adherence has started on a subject, or is active, if and only if the
\* last check shown is a violation, but between the view's building and the evaluation;
\* before any check it has not.
PhasesFollow ==
    \A r \in Rules : Reads[r] = "adherence" =>
      \A s \in Targets[r] :
        LET v == mem.view["adherence"][s]
            t == mem.tracker[r][s]
        IN /\ v = Views!NoView => t.phase = "inactive"
           /\ ~(stage = "built" /\ s = file[line].subject) => (v.holds <=> StartedPhase(t))

OnsetsAgree ==
    stage = "built" =>
      \A r \in Rules : Reads[r] = "adherence" => SameOnset(mem, Ahead.mem, r, file[line])

FirstRunAgrees ==
    /\ \A i \in 1 .. line - 1 : file[i] \in Evidence
    /\ logical = IF stage = "none" THEN Before.logical ELSE Time
    /\ Agree(Emit(Replayed, emitting), Ahead)
    /\ OnsetsAgree

AgreeInv ==
    /\ WholeInv
    /\ FollowInv
    /\ PhasesFollow
    /\ mode = "running" /\ runs = 1 => FirstRunAgrees

LEMMA AgreeItself == \A p : Agree(p, p)
BY DEF Agree, SameView

\* The steps of a line, and their times.
LEMMA LineSteps ==
    ASSUME NEW p \in PreviewState, NEW e \in Evidence, NEW n \in Nat
    PROVE  LET now == TimeAt(p, e)
               told == AdvanceTo(p, now)
               held == BuildKept(told, e, n)
           IN
           /\ now \in Nat
           /\ told \in PreviewState /\ told.logical = now /\ told.mem.view = p.mem.view
           /\ held \in PreviewState /\ held.logical = now
           /\ EvaluateLine(held, e) \in PreviewState /\ EvaluateLine(held, e).logical = now
           /\ Process(p, e, n) = EvaluateLine(held, e)
<1> DEFINE now == TimeAt(p, e)
           told == AdvanceTo(p, now)
           held == BuildKept(told, e, n)
<1>1. /\ now \in Nat /\ told \in PreviewState /\ held \in PreviewState
      /\ EvaluateLine(held, e) \in PreviewState
      /\ Process(p, e, n) = EvaluateLine(held, e)
  BY ProcessSteps
<1>2. told.logical = now /\ told.mem.view = p.mem.view
  BY <1>1, AgreeItself, AdvanceAlike
<1> HIDE DEF told
<1>3. held.logical = now
  <2> DEFINE views == [told.mem.view EXCEPT ![e.kind] = [told.mem.view[e.kind] EXCEPT
                         ![e.subject] = Kept(told.mem.view[e.kind][e.subject], e, n)]]
  <2>1. held = With(told, told.logical, told.mem.tracker, views)
    BY <1>1, BuildKeptSteps
  <2> HIDE DEF views, held
  <2>2. QED BY <1>2, <2>1 DEF With
<1> HIDE DEF held
<1>4. EvaluateLine(held, e).logical = held.logical
  <2>1. Agree(held, held) /\ \A r \in Rules : SameOnset(held.mem, held.mem, r, e)
    BY AgreeItself DEF SameOnset
  <2>2. QED BY <1>1, <2>1, EvaluateAlike
<1>5. QED BY <1>1, <1>2, <1>3, <1>4 DEF told, held

\* The replay's view, and the preview's, of one newer check, or of one that is not.
LEMMA BuiltAlike ==
    ASSUME NEW v \in Views!View, NEW w \in Views!View, NEW e \in Evidence, NEW n \in Nat,
           SameView(v, w), v.position < n
    PROVE  SameView(Views!Built(v, e, n), Kept(w, e, n))
<1>1. e.at \in Nat \ {0} /\ e.holds \in BOOLEAN /\ e.since \in Nat
  BY ReplayEvidence DEF Unset
<1>2. v.at \in Nat /\ v.position \in Nat /\ w.at = v.at
  BY DEF Views!View, SameView
<1> DEFINE c == Views!Candidate(v, e, n)
<1>3. c.at = e.at /\ c.position = n /\ c.holds = e.holds
  BY DEF Views!Candidate
<1>4. Views!Newer(c, v) <=> Shown(w, e)
  BY <1>1, <1>2, <1>3 DEF Views!Newer, Shown
<1>5. c.at # Views!NoView.at
  BY <1>1, <1>3 DEF Views!NoView, Views!Unset
<1> HIDE DEF c
<1>6. CASE Shown(w, e)
  <2> DEFINE k == [at |-> e.at, position |-> n, holds |-> e.holds, since |-> e.since]
  <2>1. Views!Built(v, e, n) = c /\ Kept(w, e, n) = k
    BY <1>4, <1>6 DEF Views!Built, Kept, c
  <2>2. k.at = e.at /\ k.holds = e.holds
    OBVIOUS
  <2> HIDE DEF k
  <2>3. QED BY <1>3, <1>5, <2>1, <2>2 DEF SameView
<1>7. CASE ~Shown(w, e)
  BY <1>4, <1>7 DEF Views!Built, Kept, c
<1>8. QED BY <1>6, <1>7

\* What the building of e's view makes of a memory's views.
ViewsBuilt(views, e, n) ==
    [views EXCEPT ![e.kind] = [views[e.kind] EXCEPT
       ![e.subject] = Views!Built(views[e.kind][e.subject], e, n)]]

LEMMA BuildAlike ==
    ASSUME NEW p \in PreviewState, NEW q \in PreviewState, NEW e \in Evidence, NEW n \in Nat,
           Agree(p, q),
           \A s \in Subjects : p.mem.view["adherence"][s].position < n
    PROVE  /\ ViewsBuilt(p.mem.view, e, n) \in [Views!Kinds -> [Subjects -> Views!View]]
           /\ Agree(With(p, p.logical, p.mem.tracker, ViewsBuilt(p.mem.view, e, n)),
                    BuildKept(q, e, n))
<1> DEFINE V == p.mem.view
           W == q.mem.view
           b == Views!Built(V[e.kind][e.subject], e, n)
           k == Kept(W[e.kind][e.subject], e, n)
           vs == [V EXCEPT ![e.kind] = [V[e.kind] EXCEPT ![e.subject] = b]]
           ws == [W EXCEPT ![e.kind] = [W[e.kind] EXCEPT ![e.subject] = k]]
           u == With(p, p.logical, p.mem.tracker, vs)
           w == With(q, q.logical, q.mem.tracker, ws)
<1>1. e.kind \in Views!Kinds /\ e.subject \in Subjects /\ "adherence" \in Views!Kinds
  BY ReplayEvidence DEF Views!Kinds
<1>2. /\ V \in [Views!Kinds -> [Subjects -> Views!View]]
      /\ W \in [Views!Kinds -> [Subjects -> Views!View]]
  BY StateFields
<1>3. b \in Views!View
  <2>1. V[e.kind][e.subject] \in Views!View
    BY <1>1, <1>2
  <2>2. QED BY <2>1, BuiltType
<1>4. ws \in [Views!Kinds -> [Subjects -> Views!View]] /\ BuildKept(q, e, n) = w
  BY BuildKeptSteps
<1>5. ASSUME NEW s \in Subjects
      PROVE  SameView(vs["adherence"][s], ws["adherence"][s])
  <2>1. /\ V["adherence"][s] \in Views!View /\ W["adherence"][s] \in Views!View
        /\ SameView(V["adherence"][s], W["adherence"][s]) /\ V["adherence"][s].position < n
    BY <1>1, <1>2 DEF Agree
  <2>2. CASE e.kind = "adherence" /\ e.subject = s
    <3>1. SameView(b, k)
      BY <2>1, <2>2, BuiltAlike
    <3> HIDE DEF b, k
    <3>2. vs["adherence"][s] = b /\ ws["adherence"][s] = k
      BY <1>1, <1>2, <2>2
    <3>3. QED BY <3>1, <3>2
  <2>3. CASE ~(e.kind = "adherence" /\ e.subject = s)
    <3> HIDE DEF b, k
    <3>1. vs["adherence"][s] = V["adherence"][s] /\ ws["adherence"][s] = W["adherence"][s]
      BY <1>1, <1>2, <2>3
    <3>2. QED BY <2>1, <3>1
  <2>4. QED BY <2>2, <2>3
<1> HIDE DEF b
<1>6. vs \in [Views!Kinds -> [Subjects -> Views!View]]
  BY <1>1, <1>2, <1>3
<1> HIDE DEF vs, ws
<1>7. /\ u.mem.tracker = p.mem.tracker /\ u.mem.view = vs
      /\ w.mem.tracker = q.mem.tracker /\ w.mem.view = ws
      /\ \A x : Slice(u, x) = Slice(p, x) /\ Slice(w, x) = Slice(q, x)
  <2>1. p.logical \in Nat /\ p.mem.tracker \in [Rules -> [Subjects -> Tracker]]
        /\ q.logical \in Nat /\ q.mem.tracker \in [Rules -> [Subjects -> Tracker]]
    BY StateFields
  <2>2. u.mem.tracker = p.mem.tracker /\ u.mem.view = vs /\ \A x : Slice(u, x) = Slice(p, x)
    <3>1. u.mem.tracker = p.mem.tracker /\ u.mem.view = vs
      <4>1. /\ p \in PreviewState /\ p.logical \in Nat
            /\ p.mem.tracker \in [Rules -> [Subjects -> Tracker]]
            /\ vs \in [Views!Kinds -> [Subjects -> Views!View]]
        BY <1>6, <2>1
      <4>2. QED BY <4>1, WithType
    <3>2. \A x : Slice(u, x) = Slice(p, x)
      BY <1>6, <2>1, SliceOfWith
    <3>3. QED BY <3>1, <3>2
  <2>3. w.mem.tracker = q.mem.tracker /\ w.mem.view = ws /\ \A x : Slice(w, x) = Slice(q, x)
    BY <1>4, <2>1, WithType, SliceOfWith
  <2>4. QED BY <2>2, <2>3
<1> HIDE DEF u, w
<1>8. Agree(u, w)
  BY <1>5, <1>7 DEF Agree
<1>9. QED BY <1>4, <1>6, <1>8 DEF u, w, vs, b, ViewsBuilt

-----------------------------------------------------------------------------
(* The phases of the rules that read adherence follow the last check.      *)

\* As PhasesFollow, of the state after a step.
LEMMA PhasesFollowAfter ==
    ASSUME \A r \in Rules : Reads[r] = "adherence" =>
             \A s \in Targets[r] :
               LET v == mem'.view["adherence"][s]
                   t == mem'.tracker[r][s]
               IN /\ v = Views!NoView => t.phase = "inactive"
                  /\ ~(stage' = "built" /\ s = file'[line'].subject)
                       => (v.holds <=> StartedPhase(t))
    PROVE  PhasesFollow'
BY DEF PhasesFollow, StartedPhase

LEMMA PhasesStay ==
    ASSUME PhasesFollow, mem'.view = mem.view, mem'.tracker = mem.tracker,
           \/ stage # "built" /\ stage' # "built"
           \/ UNCHANGED <<stage, file, line>>
    PROVE  PhasesFollow'
BY PhasesFollowAfter DEF PhasesFollow

LEMMA PhasesOfEmpty ==
    ASSUME mem' = EmptyMemory, stage' = "none"
    PROVE  PhasesFollow'
<1>1. ASSUME NEW r \in Rules, NEW s \in Targets[r]
      PROVE  mem'.view["adherence"][s] = Views!NoView /\ mem'.tracker[r][s] = NewTracker
  <2>1. s \in Subjects /\ "adherence" \in Views!Kinds
    BY <1>1, ReplayTargets DEF Views!Kinds
  <2>2. QED BY <2>1 DEF EmptyMemory
<1>2. Views!NoView.holds = FALSE /\ NewTracker.phase = "inactive" /\ ~StartedPhase(NewTracker)
  BY DEF Views!NoView, NewTracker, StartedPhase
<1>3. QED BY <1>1, <1>2, PhasesFollowAfter

LEMMA InitPhases == Init => PhasesFollow
<1>1. SUFFICES ASSUME Init PROVE PhasesFollow
  OBVIOUS
<1>2. ASSUME NEW r \in Rules, NEW s \in Targets[r]
      PROVE  mem.view["adherence"][s] = Views!NoView /\ mem.tracker[r][s] = NewTracker
  <2>1. s \in Subjects /\ "adherence" \in Views!Kinds
    BY <1>2, ReplayTargets DEF Views!Kinds
  <2>2. QED BY <1>1, <2>1 DEF EmptyMemory, Init
<1>3. Views!NoView.holds = FALSE /\ NewTracker.phase = "inactive" /\ ~StartedPhase(NewTracker)
  BY DEF Views!NoView, NewTracker, StartedPhase
<1>4. QED BY <1>2, <1>3 DEF PhasesFollow

\* A timer that fires starts nothing and ends nothing.
LEMMA CommittedPhase ==
    ASSUME NEW t \in Tracker, Pending(t)
    PROVE  t.phase # "inactive" /\ (StartedPhase(Committed(t)) <=> StartedPhase(t))
BY DEF Tracker, Pending, Committed, DirectionFor, RestingAfter, StartedPhase

LEMMA FireDuePhases ==
    ASSUME TransactionInv, FireDue, PhasesFollow
    PROVE  PhasesFollow'
<1>1. mem \in Memory /\ logical \in Nat
  BY DEF TransactionInv, TypeOK
<1>2. mem.tracker \in [Rules -> [Subjects -> Tracker]]
  BY <1>1, MemoryFields
<1>3. /\ mem'.view = mem.view /\ mem'.tracker = Drained(mem.tracker, logical)
      /\ stage = "admitted" /\ stage' = "advanced"
  BY <1>1, MemoryFields DEF FireDue, At
<1>4. ASSUME NEW r \in Rules, Reads[r] = "adherence", NEW s \in Targets[r]
      PROVE  LET v == mem'.view["adherence"][s]
                 t == mem'.tracker[r][s]
             IN /\ v = Views!NoView => t.phase = "inactive"
                /\ v.holds <=> StartedPhase(t)
  <2>1. s \in Subjects
    BY <1>4, ReplayTargets
  <2> DEFINE v == mem.view["adherence"][s]
             t == mem.tracker[r][s]
  <2>2. (v = Views!NoView => t.phase = "inactive") /\ (v.holds <=> StartedPhase(t))
    BY <1>3, <1>4 DEF PhasesFollow
  <2>3. t \in Tracker
    BY <1>2, <2>1
  <2>4. mem'.tracker[r][s] = IF <<r, s>> \in DueBy(mem.tracker, logical) THEN Committed(t) ELSE t
    BY <1>3, <2>1 DEF Drained
  <2>5. <<r, s>> \in DueBy(mem.tracker, logical) => Pending(t)
    BY DEF DueBy
  <2>6. mem'.view["adherence"][s] = v
    BY <1>3
  <2> HIDE DEF v, t
  <2>7. QED BY <2>2, <2>3, <2>4, <2>5, <2>6, CommittedPhase
<1>5. QED BY <1>3, <1>4, PhasesFollowAfter

\* What BuildView does to the memory.
LEMMA BuildMemory ==
    ASSUME TransactionInv, BuildView
    PROVE  /\ mem'.view = ViewsBuilt(mem.view, file[line], line)
           /\ mem'.tracker = mem.tracker /\ mem'.alerts = mem.alerts /\ mem'.planned = mem.planned
           /\ stage = "advanced" /\ stage' = "built" /\ emitting = <<>> /\ emitting' = <<>>
           /\ mode = "running" /\ UNCHANGED <<file, mode, runs, line, logical, db>>
           /\ work'.generations = work.generations /\ work'.intents = work.intents
           /\ file[line] \in Evidence /\ line \in Nat
           /\ mem \in Memory /\ mem' \in Memory
<1>1. mem \in Memory /\ IsTables(work) /\ stage # "none" /\ line \in Nat /\ TransactionInv'
  BY BuildViewTransactionInv DEF TransactionInv, TypeOK, BuildView, At
<1>2. file[line] \in Evidence /\ mem' \in Memory
  BY <1>1, LineRead DEF TransactionInv, TypeOK
<1>3. /\ mem' = [mem EXCEPT !.view = ViewsBuilt(mem.view, file[line], line)]
      /\ \E ps : work' = [work EXCEPT !.pointer = ps]
  BY BuildSteps DEF ViewsBuilt
<1>4. /\ mem'.view = ViewsBuilt(mem.view, file[line], line)
      /\ mem'.tracker = mem.tracker /\ mem'.alerts = mem.alerts /\ mem'.planned = mem.planned
  BY <1>1, <1>3, MemoryFields
<1>5. work'.generations = work.generations /\ work'.intents = work.intents
  BY <1>1, <1>3, TablesFields
<1>6. QED BY <1>1, <1>2, <1>4, <1>5 DEF BuildView, At

\* Once built, a view is no longer none, and only one view is.
LEMMA ViewBuilt ==
    ASSUME NEW views \in [Views!Kinds -> [Subjects -> Views!View]], NEW e \in Evidence,
           NEW n \in Nat, NEW k \in Views!Kinds, NEW s \in Subjects
    PROVE  /\ k = e.kind /\ s = e.subject
                => /\ ViewsBuilt(views, e, n)[k][s] = Views!Built(views[k][s], e, n)
                   /\ ViewsBuilt(views, e, n)[k][s] # Views!NoView
           /\ ~(k = e.kind /\ s = e.subject) => ViewsBuilt(views, e, n)[k][s] = views[k][s]
<1>1. e.kind \in Views!Kinds /\ e.subject \in Subjects /\ e.at \in Nat \ {0}
  BY ReplayEvidence DEF Unset
<1> DEFINE b == Views!Built(views[e.kind][e.subject], e, n)
<1>2. b # Views!NoView
  <2>1. views[e.kind][e.subject] \in Views!View
    BY <1>1
  <2> DEFINE v == views[e.kind][e.subject]
  <2>2. v.at \in Nat
    BY <2>1 DEF Views!View
  <2> HIDE DEF v
  <2>3. v = Views!NoView => v.at = 0
    BY DEF Views!NoView, Views!Unset
  <2>4. Views!NoView.at = 0 /\ Views!Candidate(v, e, n).at = e.at
    BY DEF Views!NoView, Views!Unset, Views!Candidate
  <2>5. Views!Built(v, e, n).at # 0
    <3>1. CASE Views!Newer(Views!Candidate(v, e, n), v)
      BY <1>1, <2>4, <3>1 DEF Views!Built
    <3>2. CASE ~Views!Newer(Views!Candidate(v, e, n), v)
      <4>1. Views!Built(v, e, n) = v /\ ~(e.at > v.at)
        BY <2>4, <3>2 DEF Views!Built, Views!Newer
      <4>2. QED BY <1>1, <2>2, <4>1
    <3>3. QED BY <3>1, <3>2
  <2>6. QED BY <2>4, <2>5 DEF v
<1>3. ViewsBuilt(views, e, n) = [views EXCEPT ![e.kind] = [views[e.kind] EXCEPT ![e.subject] = b]]
  BY DEF ViewsBuilt
<1>4. k = e.kind /\ s = e.subject => Views!Built(views[k][s], e, n) = b
  OBVIOUS
<1> HIDE DEF b
<1>5. QED BY <1>1, <1>2, <1>3, <1>4

LEMMA BuildPhases ==
    ASSUME TransactionInv, BuildView, PhasesFollow
    PROVE  PhasesFollow'
<1> DEFINE e == file[line]
<1>1. /\ mem'.view = ViewsBuilt(mem.view, e, line) /\ mem'.tracker = mem.tracker
      /\ stage = "advanced" /\ stage' = "built" /\ file' = file /\ line' = line
      /\ e \in Evidence /\ line \in Nat /\ mem \in Memory
  BY BuildMemory
<1>2. mem.view \in [Views!Kinds -> [Subjects -> Views!View]]
  BY <1>1, MemoryFields
<1> HIDE DEF e
<1>3. ASSUME NEW r \in Rules, Reads[r] = "adherence", NEW s \in Targets[r]
      PROVE  LET v == mem'.view["adherence"][s]
                 t == mem'.tracker[r][s]
             IN /\ v = Views!NoView => t.phase = "inactive"
                /\ s # e.subject => (v.holds <=> StartedPhase(t))
  <2>1. s \in Subjects /\ "adherence" \in Views!Kinds
    BY <1>3, ReplayTargets DEF Views!Kinds
  <2> DEFINE v == mem.view["adherence"][s]
             w == mem'.view["adherence"][s]
             t == mem.tracker[r][s]
  <2>2. (v = Views!NoView => t.phase = "inactive") /\ (v.holds <=> StartedPhase(t))
    BY <1>1, <1>3 DEF PhasesFollow
  <2>3. mem'.tracker[r][s] = t
    BY <1>1
  <2>4. (s # e.subject => w = v) /\ (w = Views!NoView => w = v)
    BY <1>1, <1>2, <2>1, ViewBuilt
  <2> HIDE DEF v, w, t
  <2>5. w = Views!NoView => t.phase = "inactive"
    BY <2>2, <2>4
  <2>6. s # e.subject => (w.holds <=> StartedPhase(t))
    BY <2>2, <2>4, Zenon
  <2>7. mem'.tracker[r][s].phase = t.phase /\ (StartedPhase(mem'.tracker[r][s]) <=> StartedPhase(t))
    BY <2>3
  <2>8. QED BY <2>5, <2>6, <2>7 DEF w
<1>4. file'[line'].subject = e.subject /\ stage' = "built"
  BY <1>1 DEF e
<1>5. QED BY <1>3, <1>4, PhasesFollowAfter

\* What EvaluateAndApply does to the memory, and what it leaves to emit.
LEMMA EvaluateMemory ==
    ASSUME TransactionInv, EvaluateAndApply
    PROVE  /\ mem'.tracker = Evaluated(mem, file[line], logical)
           /\ emitting' = FiredAt(mem, file[line], logical)
           /\ mem'.view = mem.view /\ mem'.alerts = mem.alerts /\ mem'.planned = mem.planned
           /\ stage = "built" /\ stage' = "applied" /\ emitting = <<>>
           /\ mode = "running" /\ UNCHANGED <<file, mode, runs, line, logical, work, db>>
           /\ file[line] \in Evidence /\ mem \in Memory /\ logical \in Nat /\ line \in Nat
<1>1. mem \in Memory /\ logical \in Nat /\ line \in Nat /\ stage # "none"
  BY DEF TransactionInv, TypeOK, EvaluateAndApply, At
<1>2. file[line] \in Evidence
  BY <1>1, LineRead
<1>3. /\ mem' = [mem EXCEPT !.tracker = Evaluated(mem, file[line], logical)]
      /\ emitting' = FiredAt(mem, file[line], logical)
  BY EvaluateSteps DEF Evaluated, FiredAt
<1>4. /\ mem'.tracker = Evaluated(mem, file[line], logical)
      /\ mem'.view = mem.view /\ mem'.alerts = mem.alerts /\ mem'.planned = mem.planned
  BY <1>1, <1>3, MemoryFields
<1>5. QED BY <1>1, <1>2, <1>3, <1>4 DEF EvaluateAndApply, At

LEMMA EvaluatePhases ==
    ASSUME TransactionInv, EvaluateAndApply, PhasesFollow
    PROVE  PhasesFollow'
<1> DEFINE e == file[line]
<1>1. /\ mem'.tracker = Evaluated(mem, e, logical) /\ mem'.view = mem.view
      /\ e \in Evidence /\ mem \in Memory /\ logical \in Nat
  BY EvaluateMemory
<1>2. mem.tracker \in [Rules -> [Subjects -> Tracker]] /\ e.subject \in Subjects
  BY <1>1, MemoryFields, ReplayEvidence
<1>3. PhasesFollow
  OBVIOUS
<1>4. ASSUME NEW r \in Rules, Reads[r] = "adherence", NEW s \in Targets[r]
      PROVE  LET v == mem.view["adherence"][s]
                 t == mem.tracker[r][s]
             IN /\ v = Views!NoView => t.phase = "inactive"
                /\ s # e.subject => (v.holds <=> StartedPhase(t))
  BY <1>3, <1>4 DEF PhasesFollow
<1> HIDE DEF e
<1>5. ASSUME NEW r \in Rules, Reads[r] = "adherence", NEW s \in Targets[r]
      PROVE  LET v == mem'.view["adherence"][s]
                 t == mem'.tracker[r][s]
             IN /\ v = Views!NoView => t.phase = "inactive"
                /\ v.holds <=> StartedPhase(t)
  <2> DEFINE v == mem.view["adherence"][s]
             t == mem.tracker[r][s]
             after == mem'.tracker[r][s]
  <2>1. s \in Subjects
    BY <1>5, ReplayTargets
  <2>2. (v = Views!NoView => t.phase = "inactive") /\ (s # e.subject => (v.holds <=> StartedPhase(t)))
    BY <1>4, <1>5
  <2>3. s # e.subject => after = t
    BY <1>1, <1>2, <2>1 DEF Evaluated
  <2>4. s = e.subject => /\ v = Views!NoView /\ t.phase = "inactive" => after = t
                         /\ v # Views!NoView => (v.holds <=> StartedPhase(after))
    <3>1. SUFFICES ASSUME s = e.subject
                   PROVE  /\ v = Views!NoView /\ t.phase = "inactive" => after = t
                          /\ v # Views!NoView => (v.holds <=> StartedPhase(after))
      OBVIOUS
    <3>2. after = ObserveBoth(mem, r, e, logical).tracker
      <4>1. after = Applied(mem, e, logical)[r].tracker
        BY <1>1, <1>2, <2>1, <3>1 DEF Evaluated
      <4>2. QED BY <1>5, <3>1, <4>1 DEF Applied
    <3>3. LET b == ObserveBoth(mem, r, e, logical) IN
          /\ v = Views!NoView /\ t.phase = "inactive" => b.tracker = t
          /\ v # Views!NoView => (v.holds <=> StartedPhase(b.tracker))
      BY <1>1, <1>5, <3>1, BothSteps
    <3>4. QED BY <3>2, <3>3
  <2>5. v = Views!NoView /\ t.phase = "inactive" => (v.holds <=> StartedPhase(t))
    BY DEF Views!NoView, StartedPhase
  <2>6. mem'.view["adherence"][s] = v
    BY <1>1
  <2> HIDE DEF v, t, after
  <2>7. (v = Views!NoView => after.phase = "inactive")
    BY <2>2, <2>3, <2>4
  <2>8. v.holds <=> StartedPhase(after)
    BY <2>2, <2>3, <2>4, <2>5, Zenon
  <2>9. QED BY <2>6, <2>7, <2>8 DEF after
<1>6. QED BY <1>5, PhasesFollowAfter

LEMMA NextPhases == ProgressInv /\ PhasesFollow /\ [Next]_vars => PhasesFollow'
<1>1. SUFFICES ASSUME ProgressInv, PhasesFollow, [Next]_vars PROVE PhasesFollow'
  OBVIOUS
<1>2. TransactionInv /\ TypeOK
  BY <1>1 DEF ProgressInv, TransactionInv
<1>3. CASE Start
  <2>1. mem' = EmptyMemory /\ stage' = "none"
    BY <1>2, <1>3 DEF Start, TransactionInv
  <2>2. QED BY <2>1, PhasesOfEmpty
<1>4. CASE Stop \/ DecodeFails \/ EmitFails
  <2>1. mem' = EmptyMemory /\ stage' = "none"
    BY <1>2, <1>4, StopsTransactionInv DEF Stopped
  <2>2. QED BY <2>1, PhasesOfEmpty
<1>5. ASSUME NEW e \in Evidence, Admit(e) PROVE PhasesFollow'
  <2>1. mem' = mem /\ stage # "built" /\ stage' # "built"
    BY <1>5 DEF Admit, At
  <2>2. QED BY <1>1, <2>1, PhasesStay
<1>6. CASE FireDue
  BY <1>1, <1>2, <1>6, FireDuePhases
<1>7. CASE EmitStored
  <2>1. UNCHANGED <<stage, file, line>>
    BY <1>7 DEF EmitStored
  <2>2. mem'.view = mem.view /\ mem'.tracker = mem.tracker
    BY <1>2, <1>7, EmitSteps
  <2>3. QED BY <1>1, <2>1, <2>2, PhasesStay
<1>8. CASE BuildView
  BY <1>1, <1>2, <1>8, BuildPhases
<1>9. CASE EvaluateAndApply
  BY <1>1, <1>2, <1>9, EvaluatePhases
<1>10. CASE Commit
  <2>1. mem' = mem /\ stage # "built" /\ stage' # "built"
    BY <1>10 DEF Commit, At
  <2>2. QED BY <1>1, <2>1, PhasesStay
<1>11. CASE EndOfFile
  <2>1. stage # "built" /\ stage' # "built"
    BY <1>11 DEF EndOfFile, At
  <2>2. mem \in Memory
    BY <1>2 DEF TypeOK
  <2>3. mem'.view = mem.view
    BY <1>11, <2>2, MemoryFields DEF EndOfFile
  <2>4. mem'.tracker = mem.tracker
    BY <1>1, <1>11, EndDropsNothing
  <2>5. QED BY <1>1, <2>1, <2>3, <2>4, PhasesStay
<1>12. CASE UNCHANGED vars
  <2>1. mem' = mem /\ UNCHANGED <<stage, file, line>>
    BY <1>12 DEF vars
  <2>2. QED BY <1>1, <2>1, PhasesStay
<1>13. QED
  BY <1>1, <1>3, <1>4, <1>5, <1>6, <1>7, <1>8, <1>9, <1>10, <1>11, <1>12 DEF Next, RunStep

-----------------------------------------------------------------------------
(* The first run and the preview of its lines agree, step by step.         *)

LEMMA FirstRunFields ==
    ASSUME WholeInv, FirstRunAgrees
    PROVE  /\ line \in Nat \ {0} /\ mem \in Memory /\ logical \in Nat
           /\ Before \in PreviewState /\ Replayed \in PreviewState
           /\ emitting \in Seq(ConditionTransition)
           /\ stage # "none" =>
                /\ file[line] \in Evidence
                /\ Time \in Nat
                /\ Told \in PreviewState /\ Told.logical = Time
                /\ Held \in PreviewState /\ Held.logical = Time
                /\ EvaluateLine(Held, file[line]).logical = Time
                /\ Process(Before, file[line], line) = EvaluateLine(Held, file[line])
<1>1. TransactionInv
  BY DEF WholeInv
<1>2. line \in Nat \ {0} /\ mem \in Memory /\ logical \in Nat
  BY <1>1 DEF TransactionInv, TypeOK
<1>3. Before \in PreviewState
  <2>1. line - 1 \in Nat /\ \A i \in 1 .. line - 1 : file[i] \in Evidence
    BY <1>2 DEF FirstRunAgrees
  <2>2. QED BY <2>1, LinesType DEF Before
<1>4. Replayed \in PreviewState /\ emitting \in Seq(ConditionTransition)
  BY ReplayedType
<1>5. ASSUME stage # "none"
      PROVE  /\ file[line] \in Evidence
             /\ Time \in Nat
             /\ Told \in PreviewState /\ Told.logical = Time
             /\ Held \in PreviewState /\ Held.logical = Time
             /\ EvaluateLine(Held, file[line]).logical = Time
             /\ Process(Before, file[line], line) = EvaluateLine(Held, file[line])
  <2>1. file[line] \in Evidence /\ line \in Nat
    BY <1>1, <1>2, <1>5, LineRead
  <2>2. QED BY <1>3, <2>1, LineSteps DEF Time, Told, Held
<1>6. QED BY <1>2, <1>3, <1>4, <1>5

LEMMA AheadStays ==
    ASSUME UNCHANGED <<file, line>>
    PROVE  Before' = Before /\ Time' = Time /\ Told' = Told /\ Held' = Held
BY DEF Before, Time, Told, Held

\* The replay's state after a step that brings no alert.
LEMMA ReplayedWith ==
    ASSUME mem' \in Memory, mem'.alerts = mem.alerts, mem'.planned = mem.planned,
           work'.generations = work.generations, work'.intents = work.intents
    PROVE  Replayed' = With(Replayed, logical', mem'.tracker, mem'.view)
<1>1. NotedIn(work') = NotedIn(work)
  BY DEF NotedIn, TimeIn
<1>2. mem' = [view |-> mem'.view, tracker |-> mem'.tracker, alerts |-> mem'.alerts,
              planned |-> mem'.planned]
  BY MemoryFields
<1>3. Replayed' = [mem |-> mem', logical |-> logical', output |-> NotedIn(work')]
  BY DEF Replayed, NotedIn, TimeIn
<1>4. Replayed.mem = mem /\ Replayed.output = NotedIn(work)
  BY DEF Replayed
<1>5. QED BY <1>1, <1>2, <1>3, <1>4 DEF With

\* What FirstRunAgrees says of the state after a step on a line that stays.
LEMMA AgreesAfter ==
    ASSUME FirstRunAgrees, UNCHANGED <<file, line, logical>>, stage # "none", stage' # "none",
           Agree(Emit(Replayed', emitting'), Ahead'),
           stage' = "built" =>
             \A r \in Rules : Reads[r] = "adherence" => SameOnset(mem', Ahead'.mem, r, file[line])
    PROVE  FirstRunAgrees'
<1>1. Before' = Before /\ Time' = Time
  BY AheadStays
<1>2. (\A i \in 1 .. line - 1 : file[i] \in Evidence)'
  BY DEF FirstRunAgrees
<1>3. logical' = Time'
  BY <1>1 DEF FirstRunAgrees
<1>4. OnsetsAgree'
  BY DEF OnsetsAgree
<1>5. QED BY <1>2, <1>3, <1>4 DEF FirstRunAgrees

LEMMA EmitStoredAgrees ==
    ASSUME WholeInv, FirstRunAgrees, EmitStored
    PROVE  FirstRunAgrees'
<1>1. TransactionInv /\ TypeOK
  BY DEF WholeInv, TransactionInv
<1>2. UNCHANGED <<file, mode, runs, line, stage, logical, db>>
  BY DEF EmitStored
<1>3. stage # "none"
  BY <1>1 DEF TransactionInv, EmitStored, Emitting
<1>4. mem'.view = mem.view /\ mem'.tracker = mem.tracker
  BY <1>1, EmitSteps
<1>5. Ahead' = Ahead
  BY <1>2, AheadStays DEF Ahead
<1>6. Agree(Emit(Replayed', emitting'), Ahead')
  BY <1>5, EmitReplayed DEF FirstRunAgrees
<1>7. ASSUME stage' = "built", NEW r \in Rules, Reads[r] = "adherence"
      PROVE  SameOnset(mem', Ahead'.mem, r, file[line])
  <2>1. SameOnset(mem, Ahead.mem, r, file[line])
    BY <1>2, <1>7 DEF FirstRunAgrees, OnsetsAgree
  <2>2. QED BY <1>4, <1>5, <2>1 DEF SameOnset
<1>8. QED BY <1>2, <1>3, <1>6, <1>7, AgreesAfter

LEMMA FireDueAgrees ==
    ASSUME WholeInv, FirstRunAgrees, FireDue
    PROVE  FirstRunAgrees'
<1>1. /\ stage = "admitted" /\ stage' = "advanced" /\ emitting = <<>>
      /\ UNCHANGED <<file, line, logical, work>>
      /\ emitting' = FiredBy(mem.tracker, logical)
      /\ mem' = [mem EXCEPT !.tracker = Drained(mem.tracker, logical)]
  <2>1. mem \in Memory
    BY FirstRunFields
  <2>2. QED BY <2>1, MemoryFields DEF FireDue, At
<1>2. /\ mem \in Memory /\ logical \in Nat /\ Before \in PreviewState /\ Replayed \in PreviewState
      /\ Time \in Nat
  BY <1>1, FirstRunFields
<1>3. logical = Time /\ Agree(Replayed, Before)
  <2>1. Emit(Replayed, emitting) = Replayed
    BY <1>1, <1>2, EmitNothing
  <2>2. QED BY <1>1, <2>1 DEF FirstRunAgrees, Ahead
<1>4. Replayed' = With(Replayed, logical, Drained(Replayed.mem.tracker, logical), Replayed.mem.view)
  <2>1. /\ mem'.tracker = Drained(mem.tracker, logical) /\ mem'.view = mem.view
        /\ mem'.alerts = mem.alerts /\ mem'.planned = mem.planned
    BY <1>1, <1>2, MemoryFields
  <2>2. mem' \in Memory
    BY FireDueTransactionInv DEF WholeInv, TransactionInv, TypeOK
  <2>3. Replayed' = With(Replayed, logical', mem'.tracker, mem'.view)
    BY <1>1, <2>1, <2>2, ReplayedWith
  <2>4. Replayed.mem = mem
    BY DEF Replayed
  <2>5. QED BY <1>1, <2>1, <2>3, <2>4
<1>5. Emit(Replayed', emitting') = AdvanceTo(Replayed, logical)
  <2>1. Replayed.mem = mem
    BY DEF Replayed
  <2>2. QED BY <1>1, <1>2, <1>4, <2>1, AdvanceSteps
<1>6. Agree(AdvanceTo(Replayed, logical), AdvanceTo(Before, logical))
  BY <1>2, <1>3, AdvanceAlike
<1>7. Ahead' = AdvanceTo(Before, logical)
  BY <1>1, <1>3, AheadStays DEF Ahead, Told
<1>8. QED BY <1>1, <1>5, <1>6, <1>7, AgreesAfter

LEMMA EvaluateAgrees ==
    ASSUME WholeInv, FirstRunAgrees, EvaluateAndApply
    PROVE  FirstRunAgrees'
<1> DEFINE e == file[line]
<1>1. TransactionInv
  BY DEF WholeInv
<1>2. /\ mem'.tracker = Evaluated(mem, e, logical) /\ emitting' = FiredAt(mem, e, logical)
      /\ mem'.view = mem.view /\ mem'.alerts = mem.alerts /\ mem'.planned = mem.planned
      /\ stage = "built" /\ stage' = "applied" /\ emitting = <<>>
      /\ UNCHANGED <<file, line, logical, work>> /\ e \in Evidence
  BY <1>1, EvaluateMemory
<1>3. /\ Replayed \in PreviewState /\ Held \in PreviewState /\ Held.logical = Time
  BY <1>2, FirstRunFields
<1>4. /\ logical = Time /\ Agree(Replayed, Held)
      /\ \A r \in Rules : Reads[r] = "adherence" => SameOnset(mem, Held.mem, r, e)
  <2>1. Emit(Replayed, emitting) = Replayed
    BY <1>2, <1>3, EmitNothing
  <2>2. QED BY <1>2, <2>1 DEF FirstRunAgrees, Ahead, OnsetsAgree
<1>5. Replayed.mem = mem /\ Replayed.logical = logical
  BY DEF Replayed
<1>6. Replayed' = With(Replayed, logical, Evaluated(mem, e, logical), mem.view)
  <2>1. mem' \in Memory
    BY <1>1, EvaluateTransactionInv DEF TransactionInv, TypeOK
  <2>2. Replayed' = With(Replayed, logical', mem'.tracker, mem'.view)
    BY <1>2, <2>1, ReplayedWith
  <2>3. QED BY <1>2, <2>2
<1>7. Emit(Replayed', emitting') = EvaluateLine(Replayed, e)
  BY <1>2, <1>3, <1>5, <1>6, EvaluateLineSteps
<1> HIDE DEF e
<1>8. Agree(EvaluateLine(Replayed, e), EvaluateLine(Held, e))
  <2>1. \A r \in Rules : Reads[r] = "adherence" => SameOnset(Replayed.mem, Held.mem, r, e)
    BY <1>4, <1>5
  <2>2. Replayed.logical = Held.logical
    BY <1>3, <1>4, <1>5
  <2>3. QED BY <1>2, <1>3, <1>4, <2>1, <2>2, EvaluateAlike
<1>9. Ahead' = EvaluateLine(Held, e)
  BY <1>2, AheadStays DEF Ahead, e
<1>10. QED BY <1>2, <1>7, <1>8, <1>9, AgreesAfter

LEMMA CommitAgrees ==
    ASSUME WholeInv, FirstRunAgrees, Commit
    PROVE  FirstRunAgrees'
<1> DEFINE e == file[line]
<1>1. /\ stage = "applied" /\ stage' = "none" /\ emitting = <<>> /\ emitting' = <<>>
      /\ file' = file /\ mem' = mem /\ logical' = logical /\ line' = line + 1
  BY DEF Commit, At, NextLine
<1>2. TransactionInv /\ IsTables(work)
  BY DEF WholeInv, TransactionInv, TypeOK
<1>3. /\ line \in Nat \ {0} /\ mem \in Memory /\ e \in Evidence /\ Replayed \in PreviewState
      /\ EvaluateLine(Held, e).logical = Time
      /\ Process(Before, e, line) = EvaluateLine(Held, e)
  BY <1>1, FirstRunFields
<1>4. work'.generations = work.generations /\ work'.intents = work.intents
  BY <1>2, CommitSteps
<1>5. Replayed' = Replayed
  <2>1. Replayed' = With(Replayed, logical', mem'.tracker, mem'.view)
    BY <1>1, <1>3, <1>4, ReplayedWith
  <2>2. Replayed = With(Replayed, Replayed.logical, Replayed.mem.tracker, Replayed.mem.view)
    BY <1>3, StateFields
  <2>3. Replayed.mem = mem /\ Replayed.logical = logical
    BY DEF Replayed
  <2>4. QED BY <1>1, <2>1, <2>2, <2>3
<1>6. \A i \in 1 .. line : file[i] \in Evidence
  BY <1>3 DEF FirstRunAgrees
<1>7. Before' = EvaluateLine(Held, e)
  <2>1. Before' = Lines(file, line)
    BY <1>1, <1>3 DEF Before
  <2>2. Lines(file, line) = Process(Lines(file, line - 1), file[line], line)
    BY <1>3, <1>6, LinesOnward
  <2>3. QED BY <1>3, <2>1, <2>2 DEF Before
<1>8. Ahead' = EvaluateLine(Held, e) /\ Ahead = EvaluateLine(Held, e)
  BY <1>1, <1>7 DEF Ahead
<1>9. Agree(Emit(Replayed', emitting'), Ahead')
  BY <1>1, <1>5, <1>8 DEF FirstRunAgrees
<1>10. logical' = Before'.logical
  BY <1>1, <1>3, <1>7 DEF FirstRunAgrees
<1>11. (\A i \in 1 .. line - 1 : file[i] \in Evidence)'
  BY <1>1, <1>3, <1>6
<1>12. QED BY <1>1, <1>9, <1>10, <1>11 DEF FirstRunAgrees, OnsetsAgree

\* A check that makes a violation of what was none gives the same onset to the replay,
\* which derives one, and to the preview, which keeps the one supplied.
LEMMA BuiltOnset ==
    ASSUME NEW v \in Views!View, NEW w \in Views!View, NEW e \in Evidence, NEW n \in Nat,
           SameView(v, w), v.position < n, e.kind = "adherence",
           ~v.holds, Views!Built(v, e, n).holds
    PROVE  OnsetOf(e.at, Views!Built(v, e, n).since) = OnsetOf(e.at, Kept(w, e, n).since)
<1>1. e.at \in Nat \ {0} /\ e.holds \in BOOLEAN /\ e.since \in Nat
  BY ReplayEvidence DEF Unset
<1>2. v.at \in Nat /\ v.position \in Nat /\ w.at = v.at
  BY DEF Views!View, SameView
<1> DEFINE c == Views!Candidate(v, e, n)
<1>3. /\ c.at = e.at /\ c.position = n /\ c.holds = e.holds
      /\ c.since = Views!KnownViolationSince(v, e)
  BY DEF Views!Candidate
<1>4. Views!Newer(c, v) <=> Shown(w, e)
  BY <1>1, <1>2, <1>3 DEF Views!Newer, Shown
<1>5. Views!Newer(c, v) /\ Views!Built(v, e, n) = c
  BY DEF Views!Built
<1> HIDE DEF c
<1>6. e.holds
  BY <1>3, <1>5, Zenon
<1>7. c.since = IF e.since # 0 THEN e.since ELSE e.at
  BY <1>3, <1>6 DEF Views!KnownViolationSince, Views!Unset
<1>8. Kept(w, e, n).since = e.since
  <2>1. Kept(w, e, n) = [at |-> e.at, position |-> n, holds |-> e.holds, since |-> e.since]
    BY <1>4, <1>5 DEF Kept
  <2>2. QED BY <2>1
<1>9. OnsetOf(e.at, c.since) = OnsetOf(e.at, e.since)
  BY <1>1, <1>7 DEF OnsetOf, Unset
<1>10. QED BY <1>5, <1>8, <1>9

\* The preview's building of e's view, subject by subject.
LEMMA KeptView ==
    ASSUME NEW p \in PreviewState, NEW e \in Evidence, NEW n \in Nat, e.kind = "adherence"
    PROVE  BuildKept(p, e, n).mem.view["adherence"][e.subject]
             = Kept(p.mem.view["adherence"][e.subject], e, n)
<1> DEFINE k == Kept(p.mem.view[e.kind][e.subject], e, n)
           views == [p.mem.view EXCEPT ![e.kind] = [p.mem.view[e.kind] EXCEPT ![e.subject] = k]]
<1>1. e.kind \in Views!Kinds /\ e.subject \in Subjects
  BY ReplayEvidence
<1>2. p.mem.view \in [Views!Kinds -> [Subjects -> Views!View]]
  BY StateFields
<1>3. BuildKept(p, e, n) = With(p, p.logical, p.mem.tracker, views)
  BY BuildKeptSteps
<1> HIDE DEF k
<1>4. views[e.kind][e.subject] = k
  BY <1>1, <1>2
<1> HIDE DEF views
<1>5. BuildKept(p, e, n).mem.view = views
  BY <1>3 DEF With
<1>6. QED BY <1>4, <1>5 DEF k

LEMMA BuildAgrees ==
    ASSUME WholeInv, FirstRunAgrees, PhasesFollow, FirstRunFollows, BuildView
    PROVE  FirstRunAgrees'
<1> DEFINE e == file[line]
<1>1. TransactionInv
  BY DEF WholeInv
<1>2. /\ mem'.view = ViewsBuilt(mem.view, e, line)
      /\ mem'.tracker = mem.tracker /\ mem'.alerts = mem.alerts /\ mem'.planned = mem.planned
      /\ stage = "advanced" /\ stage' = "built" /\ emitting = <<>> /\ emitting' = <<>>
      /\ UNCHANGED <<file, line, logical>>
      /\ work'.generations = work.generations /\ work'.intents = work.intents
      /\ e \in Evidence /\ line \in Nat /\ mem \in Memory /\ mem' \in Memory
  BY <1>1, BuildMemory
<1>3. Replayed \in PreviewState /\ Told \in PreviewState /\ logical \in Nat
  BY <1>2, FirstRunFields
<1>4. Replayed.mem = mem /\ Replayed.logical = logical
  BY DEF Replayed
<1>5. Agree(Replayed, Told)
  <2>1. Emit(Replayed, emitting) = Replayed
    BY <1>2, <1>3, EmitNothing
  <2>2. QED BY <1>2, <2>1 DEF FirstRunAgrees, Ahead
<1>6. \A s \in Subjects : mem.view["adherence"][s].position < line
  BY <1>2 DEF FirstRunFollows, Views!Kinds
<1>7. Replayed' = With(Replayed, logical, mem.tracker, ViewsBuilt(mem.view, e, line))
  <2>1. Replayed' = With(Replayed, logical', mem'.tracker, mem'.view)
    BY <1>2, ReplayedWith
  <2>2. QED BY <1>2, <2>1
<1>8. PhasesFollow /\ Ahead' = Held /\ Held = BuildKept(Told, e, line)
  BY <1>2, AheadStays DEF Ahead, Held
<1>9. ASSUME NEW r \in Rules, Reads[r] = "adherence", e.subject \in Targets[r],
             mem.tracker[r][e.subject].phase = "inactive"
      PROVE  ~mem.view["adherence"][e.subject].holds
  <2>1. mem.view["adherence"][e.subject].holds <=> StartedPhase(mem.tracker[r][e.subject])
    BY <1>2, <1>8, <1>9 DEF PhasesFollow
  <2>2. ~StartedPhase(mem.tracker[r][e.subject])
    BY <1>9 DEF StartedPhase
  <2>3. QED BY <2>1, <2>2, Zenon
<1> HIDE DEF e
<1>10. /\ Agree(Replayed', Held)
       /\ ViewsBuilt(mem.view, e, line) \in [Views!Kinds -> [Subjects -> Views!View]]
  <2>1. \A s \in Subjects : Replayed.mem.view["adherence"][s].position < line
    BY <1>4, <1>6
  <2>2. /\ ViewsBuilt(Replayed.mem.view, e, line) \in [Views!Kinds -> [Subjects -> Views!View]]
        /\ Agree(With(Replayed, Replayed.logical, Replayed.mem.tracker,
                      ViewsBuilt(Replayed.mem.view, e, line)), BuildKept(Told, e, line))
    BY <1>2, <1>3, <1>5, <2>1, BuildAlike
  <2>3. QED BY <1>4, <1>7, <1>8, <2>2
<1>11. Agree(Emit(Replayed', emitting'), Ahead')
  <2>1. With(Replayed, logical, mem.tracker, ViewsBuilt(mem.view, e, line)) \in PreviewState
    BY <1>2, <1>3, <1>10, MemoryFields, WithType
  <2>2. Emit(Replayed', <<>>) = Replayed'
    BY <1>7, <2>1, EmitNothing
  <2>3. QED BY <1>2, <1>8, <1>10, <2>2
<1>12. ASSUME NEW r \in Rules, Reads[r] = "adherence"
       PROVE  SameOnset(mem', Held.mem, r, e)
  <2> DEFINE s == e.subject
             v == mem.view["adherence"][s]
             w == Told.mem.view["adherence"][s]
  <2>1. SUFFICES ASSUME s \in Targets[r], mem'.view["adherence"][s].holds,
                        mem'.tracker[r][s].phase = "inactive"
                 PROVE  OnsetOf(e.at, mem'.view["adherence"][s].since)
                          = OnsetOf(e.at, Held.mem.view["adherence"][s].since)
    BY DEF SameOnset
  <2>2. s \in Subjects /\ "adherence" \in Views!Kinds
    BY <1>2, ReplayEvidence DEF Views!Kinds
  <2>3. ~v.holds
    BY <1>2, <1>9, <1>12, <2>1
  <2>4. /\ mem.view \in [Views!Kinds -> [Subjects -> Views!View]]
        /\ Told.mem.view \in [Views!Kinds -> [Subjects -> Views!View]]
    BY <1>2, <1>3, MemoryFields, StateFields
  <2>5. v \in Views!View /\ w \in Views!View
    BY <2>2, <2>4
  <2>6. SameView(v, w) /\ v.position < line
    BY <1>4, <1>5, <1>6, <2>2 DEF Agree
  <2>7. e.kind = "adherence"
    <3>1. e.kind # "adherence" => mem'.view["adherence"][s] = v
      BY <1>2, <2>2, <2>4, ViewBuilt
    <3> HIDE DEF v
    <3>2. QED BY <2>1, <2>3, <3>1, Zenon
  <2>8. mem'.view["adherence"][s] = Views!Built(v, e, line)
    <3>1. ViewsBuilt(mem.view, e, line)["adherence"][e.subject]
            = Views!Built(mem.view["adherence"][e.subject], e, line)
      <4>1. /\ mem.view \in [Views!Kinds -> [Subjects -> Views!View]] /\ e \in Evidence
            /\ line \in Nat /\ "adherence" \in Views!Kinds /\ e.subject \in Subjects
            /\ "adherence" = e.kind
        BY <1>2, <2>2, <2>4, <2>7
      <4>2. QED BY <4>1, ViewBuilt
    <3>2. QED BY <1>2, <3>1
  <2>9. Held.mem.view["adherence"][s] = Kept(w, e, line)
    BY <1>2, <1>3, <1>8, <2>7, KeptView
  <2> HIDE DEF v, w
  <2>10. Views!Built(v, e, line).holds
    BY <2>1, <2>8, Zenon
  <2>11. QED BY <1>2, <2>3, <2>5, <2>6, <2>7, <2>8, <2>9, <2>10, BuiltOnset
<1>13. \A r \in Rules : Reads[r] = "adherence" => SameOnset(mem', Ahead'.mem, r, file[line])
  BY <1>8, <1>12 DEF e
<1>14. QED BY <1>2, <1>11, <1>13, AgreesAfter

LEMMA AdmitAgrees ==
    ASSUME WholeInv, FirstRunAgrees, FirstRunFollows, NEW e \in Evidence, Admit(e)
    PROVE  FirstRunAgrees'
<1>1. TransactionInv
  BY DEF WholeInv
<1>2. /\ line \in Nat \ {0} /\ mem \in Memory /\ logical \in Nat
      /\ Before \in PreviewState /\ Replayed \in PreviewState
  BY FirstRunFields
<1>3. /\ stage = "none" /\ emitting = <<>> /\ emitting' = <<>> /\ mem' = mem
      /\ logical' = IF e.at > logical THEN e.at ELSE logical
      /\ \/ line <= Len(file) /\ file' = file
         \/ ~(line <= Len(file)) /\ file' = Append(file, e)
  BY DEF Admit, At
<1>4. Inserted(line)
  <2>1. db.lines = 1 .. line - 1
    BY DEF FirstRunFollows
  <2>2. QED BY <1>2, <2>1 DEF Inserted
<1>5. /\ stage' = "admitted" /\ line' = line /\ work = db
      /\ work' = [db EXCEPT !.lines = @ \cup {line}]
  BY <1>1, <1>3, <1>4 DEF Admit, TransactionInv
<1>6. work'.generations = work.generations /\ work'.intents = work.intents
  <2>1. IsTables(work)
    BY <1>1 DEF TransactionInv, TypeOK
  <2>2. QED BY <1>5, <2>1, TablesFields
<1>7. file'[line'] = e
  BY <1>1, <1>5, AdmitReads
<1>8. \A i \in 1 .. line - 1 : file[i] \in Evidence /\ file[i] = file'[i]
  <2>1. \A i \in 1 .. line - 1 : file[i] \in Evidence
    BY DEF FirstRunAgrees
  <2>2. /\ file \in Seq(Evidence \cup {Malformed}) /\ Len(file) \in Nat
        /\ line <= Len(file) + 1 /\ e \in Evidence \cup {Malformed}
    BY <1>1, LenProperties DEF TransactionInv, TypeOK
  <2>3. ASSUME NEW i \in 1 .. line - 1
        PROVE  file[i] = file'[i]
    <3>1. i \in 1 .. Len(file)
      BY <1>2, <2>2
    <3>2. Append(file, e)[i] = file[i]
      BY <2>2, <3>1, AppendProperties
    <3>3. QED BY <1>3, <3>2
  <2>4. QED BY <2>1, <2>3
<1>9. Before' = Before
  <2>1. Lines(file, line - 1) = Lines(file', line - 1)
    <3>1. line - 1 \in Nat
      BY <1>2
    <3>2. QED BY <1>8, <3>1, LinesOfLonger
  <2>2. QED BY <1>5, <2>1 DEF Before
<1>10. logical' = Time'
  <2>1. logical = Before.logical
    BY <1>3 DEF FirstRunAgrees
  <2>2. Time' = TimeAt(Before', file'[line'])
    BY DEF Time
  <2>3. QED BY <1>3, <1>7, <1>9, <2>1, <2>2 DEF TimeAt
<1>11. Replayed' = With(Replayed, logical', mem.tracker, mem.view)
  BY <1>2, <1>3, <1>6, ReplayedWith
<1>12. /\ mem.tracker \in [Rules -> [Subjects -> Tracker]]
       /\ mem.view \in [Views!Kinds -> [Subjects -> Views!View]]
       /\ e.at \in Nat /\ Replayed.mem = mem
  BY <1>2, MemoryFields, ReplayEvidence DEF Replayed
<1>13. logical' \in Nat
  BY <1>2, <1>3, <1>12
<1> DEFINE u == With(Replayed, logical', mem.tracker, mem.view)
<1>14. /\ u \in PreviewState /\ u.mem.tracker = mem.tracker /\ u.mem.view = mem.view
       /\ \A x : Slice(u, x) = Slice(Replayed, x)
  <2>1. u \in PreviewState /\ u.mem.tracker = mem.tracker /\ u.mem.view = mem.view
    BY <1>2, <1>12, <1>13, WithType
  <2>2. \A x : Slice(u, x) = Slice(Replayed, x)
    BY <1>2, <1>12, <1>13, SliceOfWith
  <2>3. QED BY <2>1, <2>2
<1> HIDE DEF u
<1>15. Agree(Replayed, Before)
  <2>1. Emit(Replayed, emitting) = Replayed
    BY <1>2, <1>3, EmitNothing
  <2>2. QED BY <1>3, <2>1 DEF FirstRunAgrees, Ahead
<1>16. Agree(u, Before)
  BY <1>12, <1>14, <1>15 DEF Agree
<1>17. Agree(Emit(Replayed', emitting'), Ahead')
  <2>1. Emit(Replayed', <<>>) = u
    BY <1>11, <1>14, EmitNothing DEF u
  <2>2. Ahead' = Before
    BY <1>5, <1>9 DEF Ahead
  <2>3. QED BY <1>3, <1>16, <2>1, <2>2
<1>18. (\A i \in 1 .. line - 1 : file[i] \in Evidence)'
  BY <1>5, <1>8
<1>19. QED BY <1>5, <1>10, <1>17, <1>18 DEF FirstRunAgrees, OnsetsAgree

LEMMA StartAgrees ==
    ASSUME TransactionInv, db = EmptyTables, Start
    PROVE  FirstRunAgrees'
<1>1. /\ stage = "none" /\ work = db /\ emitting = <<>>
  BY DEF TransactionInv, Start
<1>2. /\ line' = 1 /\ logical' = Unset /\ mem' = EmptyMemory /\ stage' = "none"
      /\ work' = EmptyTables /\ emitting' = <<>> /\ file' = file
  BY <1>1 DEF Start
<1>3. NotedIn(EmptyTables) = {}
  BY DEF NotedIn, EmptyTables
<1>4. Replayed' = EmptyPreview
  <2>1. Replayed' = [mem |-> mem', logical |-> logical', output |-> NotedIn(work')]
    BY DEF Replayed, NotedIn, TimeIn
  <2>2. QED BY <1>2, <1>3, <2>1 DEF EmptyPreview
<1>5. Before' = EmptyPreview
  <2>1. Before' = Lines(file', line' - 1) /\ line' - 1 = 0
    BY <1>2 DEF Before
  <2>2. QED BY <2>1, LinesBegin
<1>6. Ahead' = EmptyPreview
  BY <1>2, <1>5 DEF Ahead
<1>7. Emit(Replayed', emitting') = EmptyPreview
  BY <1>2, <1>4, EmptyPreviewType, EmitNothing
<1>8. Agree(Emit(Replayed', emitting'), Ahead')
  BY <1>6, <1>7, AgreeItself
<1>9. logical' = Before'.logical
  BY <1>2, <1>5 DEF EmptyPreview
<1>10. (\A i \in 1 .. line - 1 : file[i] \in Evidence)'
  BY <1>2
<1>11. QED BY <1>2, <1>8, <1>9, <1>10 DEF FirstRunAgrees, OnsetsAgree

LEMMA StutterAgrees ==
    ASSUME FirstRunAgrees, UNCHANGED vars
    PROVE  FirstRunAgrees'
<1>1. /\ UNCHANGED <<file, line>> /\ stage' = stage /\ emitting' = emitting
      /\ logical' = logical /\ mem' = mem /\ work' = work
  BY DEF vars
<1>2. /\ Before' = Before /\ Time' = Time /\ Ahead' = Ahead
      /\ Replayed' = Replayed
  BY <1>1, AheadStays DEF Ahead, Replayed, NotedIn, TimeIn
<1>3. OnsetsAgree'
  BY <1>1, <1>2 DEF FirstRunAgrees, OnsetsAgree
<1>4. (\A i \in 1 .. line - 1 : file[i] \in Evidence)'
  BY <1>1 DEF FirstRunAgrees
<1>5. QED BY <1>1, <1>2, <1>3, <1>4 DEF FirstRunAgrees

LEMMA InitAgree == Init => AgreeInv
<1>1. SUFFICES ASSUME Init PROVE AgreeInv
  OBVIOUS
<1>2. mode # "running"
  BY <1>1 DEF Init
<1>3. QED BY <1>1, <1>2, InitWhole, InitFollow, InitPhases DEF AgreeInv

LEMMA NextAgree == AgreeInv /\ [Next]_vars => AgreeInv'
<1>1. SUFFICES ASSUME AgreeInv, [Next]_vars PROVE AgreeInv'
  OBVIOUS
<1>2. /\ WholeInv /\ FollowInv /\ PhasesFollow /\ ProgressInv /\ TransactionInv
      /\ WholeInv' /\ FollowInv' /\ PhasesFollow'
  <2>1. WholeInv /\ FollowInv /\ PhasesFollow
    BY <1>1 DEF AgreeInv
  <2>2. ProgressInv /\ TransactionInv
    BY <2>1 DEF FollowInv, WholeInv
  <2>3. WholeInv'
    BY <1>1, <2>1, NextWhole
  <2>4. FollowInv'
    BY <1>1, <2>1, NextFollow
  <2>5. PhasesFollow'
    BY <1>1, <2>1, <2>2, NextPhases
  <2>6. QED BY <2>1, <2>2, <2>3, <2>4, <2>5
<1>3. ASSUME mode' = "running", runs' = 1 PROVE FirstRunAgrees'
  <2>1. CASE Start
    <3>1. db = EmptyTables
      <4>1. runs = 0
        BY <1>2, <1>3, <2>1 DEF Start, TransactionInv, TypeOK
      <4>2. QED BY <1>2, <4>1 DEF FollowInv
    <3>2. QED BY <1>2, <2>1, <3>1, StartAgrees
  <2>2. CASE Stop \/ DecodeFails \/ EmitFails
    <3>1. mode' = "stopped"
      BY <1>2, <2>2, StopsTransactionInv DEF Stopped
    <3>2. QED BY <1>3, <3>1
  <2>3. CASE EndOfFile
    BY <1>3, <2>3 DEF EndOfFile
  <2> DEFINE First == /\ mode = "running" /\ runs = 1
                      /\ FirstRunAgrees /\ FirstRunFollows
  <2>4. mode = "running" /\ runs = 1 => First
    BY <1>1, <1>2, FollowMeans DEF AgreeInv
  <2>5. ASSUME NEW e \in Evidence, Admit(e) PROVE FirstRunAgrees'
    <3>1. mode = "running" /\ runs = 1
      BY <1>3, <2>5 DEF Admit, At
    <3>2. QED BY <1>2, <2>4, <2>5, <3>1, AdmitAgrees
  <2>6. CASE FireDue
    <3>1. mode = "running" /\ runs = 1
      BY <1>3, <2>6 DEF FireDue, At
    <3>2. QED BY <1>2, <2>4, <2>6, <3>1, FireDueAgrees
  <2>7. CASE EmitStored
    <3>1. mode = "running" /\ runs = 1
      BY <1>3, <2>7 DEF EmitStored, Emitting
    <3>2. QED BY <1>2, <2>4, <2>7, <3>1, EmitStoredAgrees
  <2>8. CASE BuildView
    <3>1. mode = "running" /\ runs = 1
      BY <1>3, <2>8 DEF BuildView, At
    <3>2. QED BY <1>2, <2>4, <2>8, <3>1, BuildAgrees
  <2>9. CASE EvaluateAndApply
    <3>1. mode = "running" /\ runs = 1
      BY <1>3, <2>9 DEF EvaluateAndApply, At
    <3>2. QED BY <1>2, <2>4, <2>9, <3>1, EvaluateAgrees
  <2>10. CASE Commit
    <3>1. mode = "running" /\ runs = 1
      BY <1>3, <2>10 DEF Commit, At
    <3>2. QED BY <1>2, <2>4, <2>10, <3>1, CommitAgrees
  <2>11. CASE UNCHANGED vars
    <3>1. mode = "running" /\ runs = 1
      BY <1>3, <2>11 DEF vars
    <3>2. QED BY <2>4, <2>11, <3>1, StutterAgrees
  <2>12. QED
    BY <1>1, <2>1, <2>2, <2>3, <2>5, <2>6, <2>7, <2>8, <2>9, <2>10, <2>11 DEF Next, RunStep
<1>4. QED BY <1>2, <1>3 DEF AgreeInv

-----------------------------------------------------------------------------
(* What the two put out.                                                   *)

\* Nothing is due between two lines, so the preview's last Advance brings nothing new.
LEMMA AdvanceOfNone ==
    ASSUME NEW p \in PreviewState, NEW now \in Nat, DueBy(p.mem.tracker, now) = {},
           NEW x \in Series
    PROVE  Slice(AdvanceTo(p, now), x) = Slice(p, x)
<1> DEFINE t == Drained(p.mem.tracker, now)
           a == FiredBy(p.mem.tracker, now)
           u == With(p, now, t, p.mem.view)
<1>1. /\ p.mem.tracker \in [Rules -> [Subjects -> Tracker]]
      /\ p.mem.view \in [Views!Kinds -> [Subjects -> Views!View]]
  BY StateFields
<1>2. a \in Seq(OwnTransition) /\ NoneAt(a, x)
  BY <1>1, FiredByAt
<1>3. /\ t \in [Rules -> [Subjects -> Tracker]] /\ u \in PreviewState
      /\ AdvanceTo(p, now) = Emit(u, a)
  BY AdvanceSteps
<1> HIDE DEF t, a
<1>4. ASSUME NEW trackers \in [Rules -> [Subjects -> Tracker]]
      PROVE  Slice(With(p, now, trackers, p.mem.view), x) = Slice(p, x)
  BY <1>1, SliceOfWith
<1>5. Slice(u, x) = Slice(p, x)
  BY <1>3, <1>4
<1> HIDE DEF u
<1>6. Slice(Emit(u, a), x) = Slice(u, x)
  BY <1>2, <1>3, EmitElsewhere
<1>7. QED BY <1>3, <1>5, <1>6

\* What is put out for the rules that read a source, series by series.
LEMMA OutputBySeries ==
    ASSUME NEW p \in PreviewState, NEW q \in PreviewState,
           \A x \in Series : Reads[x[1]] = "adherence" => Slice(p, x).output = Slice(q, x).output
    PROVE  Of(p.output, "adherence") = Of(q.output, "adherence")
<1>1. p.output \in SUBSET (AlertRow \X Nat) /\ q.output \in SUBSET (AlertRow \X Nat)
  BY StateFields
<1>2. ASSUME NEW o \in AlertRow \X Nat, Reads[o[1][1][1]] = "adherence"
      PROVE  o \in p.output <=> o \in q.output
  <2>1. o[1][1] \in Series
    BY DEF AlertRow
  <2>2. Slice(p, o[1][1]).output = Slice(q, o[1][1]).output
    BY <1>2, <2>1
  <2>3. \A d : Slice(d, o[1][1]).output = {i \in d.output : i[1][1] = o[1][1]}
    BY DEF Slice
  <2>4. QED BY <2>2, <2>3
<1>3. QED BY <1>1, <1>2 DEF Of

\* For rules that read adherence a preview of the lines so far plans what the first run of
\* the replay stores, at the same times: the onsets the preview keeps, those supplied, and
\* the ones the replay derives start the same intervals.
THEOREM PreviewAgrees == Spec => []PreviewAgreesOnAdherence
<1>1. AgreeInv => PreviewAgreesOnAdherence
  <2>1. SUFFICES ASSUME AgreeInv, Settled
                 PROVE  Of(Previewed(line - 1), "adherence") = Of(Notified, "adherence")
    BY DEF PreviewAgreesOnAdherence
  <2>2. /\ mode = "running" /\ stage = "none" /\ runs = 1
        /\ WholeInv /\ ProgressInv /\ TransactionInv /\ FirstRunAgrees
    BY <2>1 DEF Settled, AgreeInv, FollowInv, ProgressInv
  <2>3. emitting = <<>> /\ work = db
    BY <2>2 DEF TransactionInv
  <2>4. Before \in PreviewState /\ Replayed \in PreviewState /\ logical \in Nat
    BY <2>2, FirstRunFields
  <2>5. Agree(Replayed, Before) /\ Before.logical = logical
    <3>1. Emit(Replayed, emitting) = Replayed
      BY <2>3, <2>4, EmitNothing
    <3>2. QED BY <2>2, <3>1 DEF FirstRunAgrees, Ahead
  <2>6. /\ Agree(AdvanceTo(Replayed, logical), AdvanceTo(Before, logical))
        /\ AdvanceTo(Replayed, logical) \in PreviewState
    BY <2>4, <2>5, AdvanceAlike
  <2>7. AdvanceTo(Before, logical) \in PreviewState
    BY <2>4, AgreeItself, AdvanceAlike
  <2>8. DueBy(Replayed.mem.tracker, logical) = {}
    BY <2>2, ProgressMeans DEF Replayed
  <2>9. ASSUME NEW x \in Series, Reads[x[1]] = "adherence"
        PROVE  Slice(AdvanceTo(Before, logical), x).output = Slice(Replayed, x).output
    <3>1. PICK r \in Rules, s \in Subjects : x = <<r, s>>
      BY DEF Series
    <3>2. Slice(AdvanceTo(Replayed, logical), x) = Slice(AdvanceTo(Before, logical), x)
      BY <2>6, <2>9, <3>1 DEF Agree
    <3>3. Slice(AdvanceTo(Replayed, logical), x) = Slice(Replayed, x)
      BY <2>4, <2>8, AdvanceOfNone
    <3>4. QED BY <3>2, <3>3
  <2>10. Of(AdvanceTo(Before, logical).output, "adherence") = Of(Replayed.output, "adherence")
    BY <2>4, <2>7, <2>9, OutputBySeries
  <2>11. Previewed(line - 1) = AdvanceTo(Before, logical).output
    BY <2>5 DEF Previewed, AtEnd, Before
  <2>12. Notified = Replayed.output
    BY <2>3 DEF Notified, Replayed
  <2>13. QED BY <2>10, <2>11, <2>12
<1>2. QED BY <1>1, InitAgree, NextAgree, PTL DEF Spec

-----------------------------------------------------------------------------
(* A run on empty tables finds nothing in its way.                         *)

\* A transition the reducer brings is new to tables that follow its memory and are whole.
LEMMA NothingFails ==
    ASSUME TransactionInv, Whole(work), GenerationsFollow(work.generations, mem.alerts.series),
           NEW t \in ConditionTransition, NEW a \in AlertTransition,
           BringsOpening(mem.alerts, t, a) \/ BringsRecovery(mem.alerts, t, a)
    PROVE  ~Fails(a, t.rule)
<1> DEFINE x == <<t.rule, t.subject>>
           series == mem.alerts.series[x]
           g == <<x, a.generation>>
           G == work.generations
<1>1. mem \in Memory /\ IsTables(work) /\ Undelivered(work) = {}
  BY DEF TransactionInv, TypeOK, Whole
<1>2. x \in Series /\ series.generation \in Nat
  <2>1. x \in Series
    BY DEF ConditionTransition, Series
  <2>2. QED BY <1>1, <2>1, SeriesFields
<1>3. WholeRows(work)
  BY <1>1, WholeByRows
<1>4. a.series = x /\ a.generation \in Nat /\ a.kind \in Kinds
  BY DEF BringsOpening, BringsRecovery, AlertTransition
<1>5. Generation(a) = g /\ Row(a) = <<x, a.generation, a.kind>>
  BY <1>4 DEF Generation, Row
<1>6. /\ g \in DOMAIN G <=> a.generation \in 1 .. series.generation
      /\ g \in DOMAIN G =>
           (G[g].status = "open" <=> series.open /\ a.generation = series.generation)
      /\ series.open => series.generation > 0
  BY <1>2, <1>4 DEF GenerationsFollow
<1>7. /\ Row(a) \in work.transitions <=>
           g \in DOMAIN G /\ (a.kind = "open" \/ G[g].status # "open")
  BY <1>2, <1>3, <1>4, <1>5 DEF WholeRows
<1>8. CASE BringsOpening(mem.alerts, t, a)
  <2>1. a.kind = "open" /\ a.generation = series.generation + 1
    BY <1>8 DEF BringsOpening
  <2>2. g \notin DOMAIN G
    BY <1>2, <1>6, <2>1
  <2>3. QED BY <1>1, <1>5, <1>7, <2>1, <2>2 DEF Fails, Conflicts
<1>9. CASE BringsRecovery(mem.alerts, t, a)
  <2>1. a.kind = "recovery" /\ a.generation = series.generation /\ series.open
    BY <1>9 DEF BringsRecovery, Recovers
  <2>2. g \in DOMAIN G /\ G[g].status = "open"
    BY <1>2, <1>6, <2>1
  <2>3. QED BY <1>1, <1>5, <1>7, <2>1, <2>2 DEF Fails, Conflicts
<1>10. QED BY <1>8, <1>9

\* What the first run is about to store goes in.
FirstRunStoresAll ==
    mode = "running" /\ runs = 1 /\ Emitting => ~EmissionFails(Head(emitting))

\* A run on empty tables stores every alert transition its rules bring: no generation and
\* no transition is in its way, and no other intent waits to be delivered first.
THEOREM FirstRunStores == Spec => []FirstRunStoresAll
<1>1. WholeInv /\ FollowInv => FirstRunStoresAll
  <2>1. SUFFICES ASSUME WholeInv, FollowInv, mode = "running", runs = 1, emitting # <<>>
                 PROVE  ~EmissionFails(Head(emitting))
    BY DEF FirstRunStoresAll, Emitting
  <2>2. TransactionInv /\ Whole(work)
    BY <2>1 DEF WholeInv
  <2>3. mem \in Memory /\ emitting \in Seq(ConditionTransition)
    BY <2>2 DEF TransactionInv, TypeOK
  <2>4. GenerationsFollow(work.generations, mem.alerts.series)
    BY <2>1, FollowMeans DEF FirstRunFollows
  <2> DEFINE t == Head(emitting)
             made == AlertTransitions(mem.alerts, t)
  <2>5. t \in ConditionTransition
    BY <2>1, <2>3, HeadTailProperties
  <2> HIDE DEF t
  <2>6. \/ made = <<>>
        \/ \E a \in AlertTransition :
             made = <<a>> /\ (BringsOpening(mem.alerts, t, a) \/ BringsRecovery(mem.alerts, t, a))
    BY <2>3, <2>5, Brought
  <2>7. CASE made = <<>>
    BY <2>7 DEF EmissionFails, t
  <2>8. ASSUME NEW a \in AlertTransition, made = <<a>>,
               BringsOpening(mem.alerts, t, a) \/ BringsRecovery(mem.alerts, t, a)
        PROVE  ~EmissionFails(t)
    <3>1. ~Fails(a, t.rule)
      BY <2>2, <2>4, <2>5, <2>8, NothingFails
    <3>2. \A i \in DOMAIN made : made[i] = a
      BY <2>8
    <3>3. QED BY <3>1, <3>2 DEF EmissionFails
  <2>9. QED BY <2>6, <2>7, <2>8 DEF t
<1>2. QED BY <1>1, InitWhole, NextWhole, InitFollow, NextFollow, PTL DEF Spec

-----------------------------------------------------------------------------
(* What the alert reducer holds of a condition is what its tracker says.   *)

ActivePhase(t) == t.phase \in {"active", "clearing"}

\* The series of x is open while its tracker, t, is active, on the episode of t alone, which
\* has not been closed; every episode closed has a number given out before.
MatchedAt(t, alerts, x) ==
    LET series == alerts.series[x]
        own == <<x[1], x[2], t.episode>>
    IN /\ series.open <=> ActivePhase(t)
       /\ ActivePhase(t) => series.contributors = {own} /\ own \notin alerts.closed
       /\ ~ActivePhase(t) => series.contributors = {}
       /\ ActivePhase(t) => t.episode <= t.sequence
       /\ \A c \in ClosedAt(alerts, x) : c[3] <= t.sequence

Matched(m) == \A r \in Rules, s \in Subjects : MatchedAt(m.tracker[r][s], m.alerts, <<r, s>>)

ConditionsMatch == Matched(Emit(Replayed, emitting).mem)

\* With nothing left to emit, an alert is open just while its condition is active, and
\* the condition's present episode is its one contributor.
AlertsFollowConditions ==
    emitting = <<>> =>
      \A r \in Rules, s \in Subjects :
        LET series == mem.alerts.series[<<r, s>>]
            t == mem.tracker[r][s]
        IN /\ series.open <=> ActivePhase(t)
           /\ series.contributors = IF ActivePhase(t) THEN {<<r, s, t.episode>>} ELSE {}

\* Trackers that are both active, on one episode, or both not, with the same numbers given.
SameClaim(t, u) ==
    (ActivePhase(t) <=> ActivePhase(u)) /\ t.episode = u.episode /\ t.sequence = u.sequence

\* What takes tracker t to u emits nothing and claims nothing, or emits the transition of
\* an interval that claims the same as t and commits to what claims the same as u.
Fires(r, s, t, u, fired, v, at) ==
    /\ SameClaim(t, v) /\ Pending(v) /\ fired = <<TransitionOf(r, s, v, at)>>
    /\ SameClaim(Committed(v), u)

Moves(r, s, t, u, fired) ==
    \/ fired = <<>> /\ SameClaim(t, u)
    \/ \E v \in Tracker, at \in Nat : Fires(r, s, t, u, fired, v, at)

LEMMA MatchedSame ==
    ASSUME NEW t, NEW u, NEW alerts, NEW x, SameClaim(t, u), MatchedAt(t, alerts, x)
    PROVE  MatchedAt(u, alerts, x)
<1>1. /\ ActivePhase(t) <=> ActivePhase(u)
      /\ t.episode = u.episode /\ t.sequence = u.sequence
  BY DEF SameClaim
<1>2. QED BY <1>1, Zenon DEF MatchedAt

LEMMA ObserveMoves ==
    ASSUME NEW r \in Rules, NEW t \in Tracker, NEW o \in Observation, NEW now \in Nat
    PROVE  Moves(r, o.subject, t, Observe(r, t, o, now).tracker, Observe(r, t, o, now).fired)
<1> DEFINE u == Observe(r, t, o, now)
           opened == Reducer(r)!OpenedBy(t, o)
           at == Reducer(r)!CommitAt(opened, now)
           atOnce == Reducer(r)!CommitsAtOnce(t, o, now)
           onset == Reducer(r)!OnsetOf(Reducer(r)!Effective(o), o.trueSince)
<1>1. opened \in Tracker /\ at \in Nat /\ o.direction \in Directions
  BY OpenedType, ObservedType DEF Observation
<1>2. /\ Reducer(r)!Starts(t, o) <=> Begins(t, o)
      /\ Reducer(r)!Interrupts(t, o) <=> Breaks(t, o)
      /\ atOnce => Begins(t, o)
  BY DEF Reducer!Starts, Reducer!Interrupts, Reducer!CommitsAtOnce, Begins, Breaks,
         Reducer!RestingBefore, RestingBefore, Reducer!PhaseFor, PhaseFor
<1>3. /\ u.tracker = IF atOnce THEN Committed(opened)
                     ELSE IF Begins(t, o) THEN opened
                     ELSE IF Breaks(t, o) THEN Cancelled(t) ELSE t
      /\ u.fired = IF atOnce THEN <<TransitionOf(r, o.subject, opened, at)>> ELSE <<>>
  BY <1>2, SameTrackers DEF Observe, Reducer!Observed
<1>4. /\ opened.phase = PhaseFor(o.direction)
      /\ opened.episode = t.episode /\ opened.sequence = t.sequence
  <2>1. opened = Started(t, o.direction, onset)
    BY SameTrackers DEF Reducer!OpenedBy
  <2> HIDE DEF onset, opened
  <2>2. QED BY <2>1 DEF Started, Tracker
<1>5. Begins(t, o) => SameClaim(t, opened) /\ Pending(opened)
  BY <1>1, <1>4
     DEF Begins, RestingBefore, PhaseFor, SameClaim, ActivePhase, Pending, Directions
<1>6. /\ Cancelled(t).phase = RestingBefore(DirectionFor(t.phase))
      /\ Cancelled(t).episode = t.episode /\ Cancelled(t).sequence = t.sequence
  BY DEF Cancelled, Tracker
<1>7. Breaks(t, o) => SameClaim(t, Cancelled(t))
  <2>1. Breaks(t, o) => t.phase \in {"triggering", "clearing"}
    BY DEF Breaks, PhaseFor
  <2>2. QED BY <1>6, <2>1 DEF RestingBefore, DirectionFor, SameClaim, ActivePhase
<1>8. \A v : SameClaim(v, v)
  BY DEF SameClaim
<1> HIDE DEF u, opened, at, atOnce
<1>9. CASE atOnce
  <2>1. Fires(r, o.subject, t, u.tracker, u.fired, opened, at)
    BY <1>2, <1>3, <1>5, <1>8, <1>9 DEF Fires
  <2>2. QED BY <1>1, <2>1 DEF Moves, u
<1>10. CASE ~atOnce
  <2>1. u.fired = <<>> /\ SameClaim(t, u.tracker)
    BY <1>3, <1>5, <1>7, <1>8, <1>10
  <2>2. QED BY <2>1 DEF Moves, u
<1>11. QED BY <1>9, <1>10

LEMMA BothMoves ==
    ASSUME NEW m \in Memory, NEW r \in Rules, NEW e \in Evidence, NEW now \in Nat
    PROVE  LET u == ObserveBoth(m, r, e, now)
           IN Moves(r, e.subject, m.tracker[r][e.subject], u.tracker, u.fired)
<1> DEFINE t == m.tracker[r][e.subject]
           o1 == ObservationOf(m.view, r, e, "trigger", now)
           o2 == ObservationOf(m.view, r, e, "clear", now)
           up == Observe(r, t, o1, now)
           down == Observe(r, up.tracker, o2, now)
           u == ObserveBoth(m, r, e, now)
           s == e.subject
<1>1. o1 \in Observation /\ o2 \in Observation /\ t \in Tracker
  BY ObservationType, MemoryFields, ReplayEvidence DEF Directions
<1>2. o1.subject = s /\ o2.subject = s
  BY DEF ObservationOf
<1>3. u.tracker = down.tracker /\ u.fired = up.fired \o down.fired
  BY DEF ObserveBoth
<1> HIDE DEF o1, o2, t, u
<1>4. up.tracker \in Tracker /\ Moves(r, s, t, up.tracker, up.fired)
  BY <1>1, <1>2, ObserveSteps, ObserveMoves
<1>5. u.fired = <<>> \/ \E w \in OwnTransition : u.fired = <<w>>
  BY BothSteps DEF u
<1> HIDE DEF up
<1>6. Moves(r, s, up.tracker, down.tracker, down.fired)
  BY <1>1, <1>2, <1>4, ObserveMoves
<1> HIDE DEF down, s
<1>7. \A a, b, c : SameClaim(a, b) /\ SameClaim(b, c) => SameClaim(a, c)
  BY Zenon DEF SameClaim
<1>8. \A w : <<w>> \o <<>> = <<w>> /\ <<>> \o <<w>> = <<w>>
  OBVIOUS
<1>9. \A v, w : Len(<<v>> \o <<w>>) = 2 /\ Len(<<v>>) = 1 /\ Len(<<>>) = 0
  OBVIOUS
<1>10. CASE up.fired = <<>> /\ SameClaim(t, up.tracker)
  <2>1. CASE down.fired = <<>> /\ SameClaim(up.tracker, down.tracker)
    <3>1. u.fired = <<>> /\ SameClaim(t, u.tracker)
      BY <1>3, <1>7, <1>10, <2>1
    <3>2. QED BY <3>1 DEF Moves, s, t, u
  <2>2. ASSUME NEW v \in Tracker, NEW at \in Nat,
               Fires(r, s, up.tracker, down.tracker, down.fired, v, at)
        PROVE  \E w \in Tracker, when \in Nat : Fires(r, s, t, u.tracker, u.fired, w, when)
    <3>1. u.fired = <<TransitionOf(r, s, v, at)>>
      BY <1>3, <1>8, <1>10, <2>2 DEF Fires
    <3>2. Fires(r, s, t, u.tracker, u.fired, v, at)
      BY <1>3, <1>7, <1>10, <2>2, <3>1 DEF Fires
    <3>3. QED BY <3>2
  <2>3. QED BY <1>6, <2>1, <2>2 DEF Moves, s, t, u
<1>11. ASSUME NEW v \in Tracker, NEW at \in Nat,
              Fires(r, s, t, up.tracker, up.fired, v, at)
       PROVE  \E w \in Tracker, when \in Nat : Fires(r, s, t, u.tracker, u.fired, w, when)
  <2>1. CASE down.fired = <<>> /\ SameClaim(up.tracker, down.tracker)
    <3>1. u.fired = <<TransitionOf(r, s, v, at)>>
      BY <1>3, <1>8, <1>11, <2>1 DEF Fires
    <3>2. Fires(r, s, t, u.tracker, u.fired, v, at)
      BY <1>3, <1>7, <1>11, <2>1, <3>1 DEF Fires
    <3>3. QED BY <3>2
  <2>2. ASSUME NEW w \in Tracker, NEW when \in Nat,
               Fires(r, s, up.tracker, down.tracker, down.fired, w, when)
        PROVE  FALSE
    <3>1. u.fired = <<TransitionOf(r, s, v, at)>> \o <<TransitionOf(r, s, w, when)>>
      BY <1>3, <1>11, <2>2 DEF Fires
    <3>2. QED BY <1>5, <1>9, <3>1
  <2>3. QED BY <1>6, <2>1, <2>2 DEF Moves
<1>12. QED BY <1>4, <1>10, <1>11 DEF Moves, s, t, u

LEMMA CommittedFields ==
    ASSUME NEW v \in Tracker
    PROVE  /\ Committed(v).phase = RestingAfter(DirectionFor(v.phase))
           /\ Committed(v).sequence = v.sequence + 1
           /\ Committed(v).episode = IF DirectionFor(v.phase) = "trigger" THEN v.sequence + 1
                                     ELSE NoEpisode
BY DEF Committed, Tracker

\* A condition transition is news to the alert reducer, and it goes with its tracker.
LEMMA AlertsMove ==
    ASSUME NEW alerts \in AlertMemory, NEW r \in Rules, NEW s \in Subjects,
           NEW v \in Tracker, NEW at \in Nat, Pending(v), MatchedAt(v, alerts, <<r, s>>)
    PROVE  MatchedAt(Committed(v), AlertsAfter(alerts, TransitionOf(r, s, v, at)), <<r, s>>)
<1> DEFINE x == <<r, s>>
           t == TransitionOf(r, s, v, at)
           e == t.episode
           after == AlertsAfter(alerts, t)
           series == alerts.series[x]
           u == Committed(v)
<1>1. /\ t \in OwnTransition /\ SeriesOf(t) = x /\ x \in Series
      /\ t.direction = DirectionFor(v.phase)
      /\ e = <<r, s, IF v.phase = "triggering" THEN v.sequence + 1 ELSE v.episode>>
  BY OwnTransitionType DEF TransitionOf, Series
<1>2. v.sequence \in Nat /\ v.episode \in Nat /\ v.phase \in {"triggering", "clearing"}
  BY DEF Pending, Tracker
<1>3. /\ u.phase = RestingAfter(DirectionFor(v.phase)) /\ u.sequence = v.sequence + 1
      /\ u.episode = IF DirectionFor(v.phase) = "trigger" THEN v.sequence + 1 ELSE NoEpisode
  BY CommittedFields
<1>4. LET starts == t.direction = "trigger" /\ Starting(alerts, x, e)
          clears == t.direction # "trigger" /\ Clearing(alerts, x, e)
      IN
      /\ after.series[x] = IF starts THEN StartedSeries(series, e)
                           ELSE IF clears THEN ClearedSeries(alerts, x, e)
                           ELSE series
      /\ after.closed = IF clears THEN alerts.closed \cup {e} ELSE alerts.closed
  <2> HIDE DEF t
  <2>1. SeriesOf(t) = x /\ t \in OwnTransition
    BY <1>1
  <2>2. QED BY <2>1, AlertsAfterAt
<1>5. /\ series.open \in BOOLEAN /\ series.generation \in Nat
      /\ series.contributors \subseteq EpisodeId /\ alerts.closed \subseteq EpisodeId
      /\ series \in [generation : Nat, open : BOOLEAN, contributors : SUBSET EpisodeId]
  BY <1>1, AlertFields
<1>6. /\ series.open <=> ActivePhase(v)
      /\ ActivePhase(v) => series.contributors = {<<r, s, v.episode>>}
                           /\ <<r, s, v.episode>> \notin alerts.closed
      /\ ~ActivePhase(v) => series.contributors = {}
      /\ ActivePhase(v) => v.episode <= v.sequence
      /\ \A c \in ClosedAt(alerts, x) : c[3] <= v.sequence
  BY DEF MatchedAt
<1>7. \A c \in ClosedAt(alerts, x) : c \in EpisodeId /\ c[3] \in Nat
  BY <1>5 DEF ClosedAt, EpisodeId
<1>8. \A c \in ClosedAt(alerts, x) : c[3] <= u.sequence
  BY <1>2, <1>3, <1>6, <1>7
<1> HIDE DEF t, after, u, x, series
<1>9. CASE v.phase = "triggering"
  <2>1. /\ t.direction = "trigger" /\ e = <<r, s, v.sequence + 1>> /\ u.phase = "active"
        /\ u.episode = v.sequence + 1
    BY <1>1, <1>3, <1>9 DEF DirectionFor, RestingAfter
  <2>2. ~ActivePhase(v) /\ ActivePhase(u)
    BY <1>9, <2>1 DEF ActivePhase
  <2>3. e \notin alerts.closed
    <3>1. <<e[1], e[2]>> = x /\ e[3] = v.sequence + 1
      BY <2>1 DEF x
    <3>2. e \in alerts.closed => e \in ClosedAt(alerts, x)
      BY <3>1 DEF ClosedAt
    <3>3. QED BY <1>2, <1>6, <3>1, <3>2
  <2>4. Starting(alerts, x, e)
    BY <1>6, <2>2, <2>3 DEF Starting, Contributes, series
  <2>5. after.series[x] = StartedSeries(series, e) /\ after.closed = alerts.closed
    BY <1>4, <2>1, <2>4
  <2>6. after.series[x].open = TRUE /\ after.series[x].contributors = {e}
    BY <1>6, <2>2, <2>5 DEF StartedSeries
  <2>7. ClosedAt(after, x) = ClosedAt(alerts, x)
    BY <2>5 DEF ClosedAt
  <2>8. e = <<x[1], x[2], u.episode>> /\ u.episode <= u.sequence
    BY <1>2, <1>3, <2>1 DEF x
  <2>9. MatchedAt(u, after, x)
    BY <1>8, <2>2, <2>3, <2>5, <2>6, <2>7, <2>8 DEF MatchedAt
  <2>10. QED BY <2>9 DEF u, after, x, t
<1>10. CASE v.phase = "clearing"
  <2>1. /\ t.direction = "clear" /\ e = <<r, s, v.episode>> /\ u.phase = "inactive"
    BY <1>1, <1>3, <1>10 DEF DirectionFor, RestingAfter
  <2>2. ActivePhase(v) /\ ~ActivePhase(u)
    BY <1>10, <2>1 DEF ActivePhase
  <2>3. Clearing(alerts, x, e) /\ Recovers(alerts, x, e)
    BY <1>6, <2>1, <2>2 DEF Clearing, Contributes, Recovers, series
  <2>4. /\ after.series[x] = ClearedSeries(alerts, x, e)
        /\ after.closed = alerts.closed \cup {e}
    BY <1>4, <2>1, <2>3
  <2>5. after.series[x].contributors = {} /\ after.series[x].open = FALSE
    <3>1. ClearedSeries(alerts, x, e)
            = [series EXCEPT !.contributors = series.contributors \ {e},
                             !.open = series.open /\ ~Recovers(alerts, x, e)]
      BY DEF ClearedSeries, series
    <3>2. (series.open /\ ~Recovers(alerts, x, e)) = FALSE /\ series.contributors \ {e} = {}
      BY <1>6, <2>1, <2>2, <2>3
    <3>3. \A y \in [generation : Nat, open : BOOLEAN, contributors : SUBSET EpisodeId] :
             /\ [y EXCEPT !.contributors = {}, !.open = FALSE].contributors = {}
             /\ [y EXCEPT !.contributors = {}, !.open = FALSE].open = FALSE
      OBVIOUS
    <3>4. after.series[x] = [series EXCEPT !.contributors = {}, !.open = FALSE]
      BY <2>4, <3>1, <3>2
    <3>5. QED BY <1>5, <3>3, <3>4
  <2>6. \A c \in ClosedAt(after, x) : c[3] <= u.sequence
    <3>1. \A c \in ClosedAt(after, x) : c = e \/ c \in ClosedAt(alerts, x)
      BY <2>4 DEF ClosedAt
    <3>2. e[3] = v.episode /\ v.episode <= u.sequence
      BY <1>2, <1>3, <1>6, <2>1, <2>2
    <3>3. QED BY <1>8, <3>1, <3>2
  <2>7. MatchedAt(u, after, x)
    BY <2>2, <2>5, <2>6 DEF MatchedAt
  <2>8. QED BY <2>7 DEF u, after, x, t
<1>11. QED BY <1>2, <1>9, <1>10

\* How the transitions, q, that are left to emit take the alerts to the trackers.
Goes(q, alerts, u, x) ==
    \/ NoneAt(q, x) /\ MatchedAt(u, alerts, x)
    \/ \E v \in Tracker, at \in Nat :
         /\ OnlyAt(q, x, TransitionOf(x[1], x[2], v, at))
         /\ Pending(v) /\ MatchedAt(v, alerts, x) /\ SameClaim(Committed(v), u)

AllGo(q, alerts, trackers) ==
    \A r \in Rules, s \in Subjects : Goes(q, alerts, trackers[r][s], <<r, s>>)

LEMMA EmitMatches ==
    ASSUME NEW p \in PreviewState, NEW q \in Seq(OwnTransition),
           AllGo(q, p.mem.alerts, p.mem.tracker)
    PROVE  Matched(Emit(p, q).mem)
<1> DEFINE after == Emit(p, q)
<1>1. p.mem.alerts \in AlertMemory
  BY StateFields
<1>2. q \in Seq(ConditionTransition)
  <2>1. OwnTransition \subseteq ConditionTransition
    BY DEF OwnTransition
  <2>2. QED BY <2>1
<1>3. after.mem.tracker = p.mem.tracker
  BY <1>2, EmitKeeps
<1> HIDE DEF after
<1>4. ASSUME NEW a, NEW b, NEW t, NEW x, a.series[x] = b.series[x],
             ClosedAt(a, x) = ClosedAt(b, x), MatchedAt(t, a, x),
             <<x[1], x[2], t.episode>> \in a.closed <=> <<x[1], x[2], t.episode>> \in b.closed
      PROVE  MatchedAt(t, b, x)
  BY <1>4, Zenon DEF MatchedAt
<1>5. ASSUME NEW a, NEW b, NEW t, NEW r, NEW s, a.series[<<r, s>>] = b.series[<<r, s>>],
             ClosedAt(a, <<r, s>>) = ClosedAt(b, <<r, s>>), MatchedAt(t, a, <<r, s>>)
      PROVE  MatchedAt(t, b, <<r, s>>)
  <2> DEFINE c == <<r, s, t.episode>>
  <2>1. <<c[1], c[2]>> = <<r, s>> /\ c = <<<<r, s>>[1], <<r, s>>[2], t.episode>>
    OBVIOUS
  <2>2. \A d : c \in d.closed <=> c \in ClosedAt(d, <<r, s>>)
    BY <2>1 DEF ClosedAt
  <2>3. c \in a.closed <=> c \in b.closed
    BY <1>5, <2>2
  <2> HIDE DEF c
  <2>4. QED BY <1>4, <1>5, <2>1, <2>3
<1>6. ASSUME NEW r \in Rules, NEW s \in Subjects
      PROVE  MatchedAt(p.mem.tracker[r][s], after.mem.alerts, <<r, s>>)
  <2> DEFINE x == <<r, s>>
             u == p.mem.tracker[r][s]
  <2>1. Goes(q, p.mem.alerts, u, x) /\ x \in Series
    BY DEF AllGo, Series
  <2>2. CASE NoneAt(q, x) /\ MatchedAt(u, p.mem.alerts, x)
    <3>1. Slice(after, x) = Slice(p, x)
      BY <2>1, <2>2, EmitElsewhere DEF after
    <3>2. /\ p.mem.alerts.series[x] = after.mem.alerts.series[x]
          /\ ClosedAt(p.mem.alerts, x) = ClosedAt(after.mem.alerts, x)
      BY <3>1 DEF Slice
    <3>3. QED BY <1>5, <2>2, <3>2
  <2>3. ASSUME NEW v \in Tracker, NEW at \in Nat,
               OnlyAt(q, x, TransitionOf(r, s, v, at)),
               Pending(v), MatchedAt(v, p.mem.alerts, x), SameClaim(Committed(v), u)
        PROVE  MatchedAt(u, after.mem.alerts, x)
    <3> DEFINE t == TransitionOf(r, s, v, at)
               made == AlertsAfter(p.mem.alerts, t)
    <3>1. t \in OwnTransition
      BY OwnTransitionType
    <3>2. MatchedAt(Committed(v), made, x)
      BY <1>1, <2>3, AlertsMove
    <3>3. MatchedAt(u, made, x)
      BY <2>3, <3>2, MatchedSame
    <3> HIDE DEF t, made
    <3>4. Slice(after, x) = Slice(EmitOne(p, t), x)
      BY <2>1, <2>3, <3>1, EmitOnly DEF after, t
    <3>5. EmitOne(p, t).mem.alerts = made
      <4>1. t \in ConditionTransition
        BY <3>1 DEF OwnTransition
      <4>2. QED BY <4>1, EmitOneType DEF made
    <3>6. /\ made.series[x] = after.mem.alerts.series[x]
          /\ ClosedAt(made, x) = ClosedAt(after.mem.alerts, x)
      BY <3>4, <3>5 DEF Slice
    <3>7. QED BY <1>5, <3>3, <3>6
  <2>4. QED BY <2>1, <2>2, <2>3 DEF Goes
<1>7. QED BY <1>3, <1>6 DEF Matched, after

\* What fires takes the alerts to the drained trackers.
LEMMA DrainedGoes ==
    ASSUME NEW m \in Memory, NEW now \in Nat, Matched(m)
    PROVE  AllGo(FiredBy(m.tracker, now), m.alerts, Drained(m.tracker, now))
<1> DEFINE T == m.tracker
           q == FiredBy(T, now)
<1>1. T \in [Rules -> [Subjects -> Tracker]]
  BY MemoryFields
<1>2. ASSUME NEW r \in Rules, NEW s \in Subjects
      PROVE  Goes(q, m.alerts, Drained(T, now)[r][s], <<r, s>>)
  <2> DEFINE x == <<r, s>>
             v == T[r][s]
  <2>1. v \in Tracker /\ MatchedAt(v, m.alerts, x)
    BY <1>1 DEF Matched
  <2>2. Drained(T, now)[r][s] = IF x \in DueBy(T, now) THEN Committed(v) ELSE v
    BY DEF Drained
  <2>3. /\ x \in DueBy(T, now) => OnlyAt(q, x, FiredTimer(T, x)) /\ Pending(v)
        /\ x \notin DueBy(T, now) => NoneAt(q, x)
    <3>1. x \in DueBy(T, now) => Pending(v)
      BY DEF DueBy
    <3> HIDE DEF x
    <3>2. QED BY <1>1, <3>1, FiredByAt
  <2>4. CASE x \in DueBy(T, now)
    <3>1. Due(T, x) \in Nat
      <4>1. DueAt(v, Durations[r]) \in Nat
        BY <2>1, DueTimeType
      <4>2. QED BY <4>1 DEF Due
    <3>2. FiredTimer(T, x) = TransitionOf(r, s, v, Due(T, x))
      BY DEF FiredTimer
    <3>3. Drained(T, now)[r][s] = Committed(v) /\ SameClaim(Committed(v), Committed(v))
      BY <2>2, <2>4 DEF SameClaim
    <3> DEFINE at == Due(T, x)
    <3>4. at \in Nat /\ OnlyAt(q, x, TransitionOf(x[1], x[2], v, at))
      BY <2>3, <2>4, <3>1, <3>2
    <3> HIDE DEF at, q, v
    <3>5. QED BY <2>1, <2>3, <2>4, <3>3, <3>4 DEF Goes
  <2>5. CASE x \notin DueBy(T, now)
    BY <2>1, <2>2, <2>3, <2>5 DEF Goes
  <2>6. QED BY <2>4, <2>5
<1>3. QED BY <1>2 DEF AllGo

\* What an evaluation emits takes the alerts to the trackers it leaves.
LEMMA EvaluatedGoes ==
    ASSUME NEW m \in Memory, NEW e \in Evidence, NEW now \in Nat, Matched(m)
    PROVE  AllGo(FiredAt(m, e, now), m.alerts, Evaluated(m, e, now))
<1> DEFINE q == FiredAt(m, e, now)
<1>1. m.tracker \in [Rules -> [Subjects -> Tracker]] /\ e.subject \in Subjects
  BY MemoryFields, ReplayEvidence
<1>2. ASSUME NEW r \in Rules, NEW s \in Subjects
      PROVE  Goes(q, m.alerts, Evaluated(m, e, now)[r][s], <<r, s>>)
  <2> DEFINE x == <<r, s>>
             t == m.tracker[r][s]
             a == Applied(m, e, now)[r]
             u == Evaluated(m, e, now)[r][s]
  <2>1. t \in Tracker /\ MatchedAt(t, m.alerts, x)
    BY <1>1 DEF Matched
  <2>2. u = IF s = e.subject THEN a.tracker ELSE t
    BY <1>1 DEF Evaluated
  <2>3. /\ s # e.subject \/ a.fired = <<>> => NoneAt(q, x)
        /\ \A w \in OwnTransition : s = e.subject /\ a.fired = <<w>> => OnlyAt(q, x, w)
    BY FiredAtOf
  <2>4. \A v : SameClaim(v, v)
    BY DEF SameClaim
  <2>5. s = e.subject => Moves(r, s, t, a.tracker, a.fired)
    <3>1. CASE s = e.subject /\ s \in Targets[r]
      <4>1. a = ObserveBoth(m, r, e, now)
        BY <3>1 DEF Applied
      <4>2. QED BY <3>1, <4>1, BothMoves
    <3>2. CASE s = e.subject /\ s \notin Targets[r]
      <4>1. a.tracker = t /\ a.fired = <<>>
        BY <3>2 DEF Applied
      <4>2. QED BY <2>4, <4>1 DEF Moves
    <3>3. QED BY <3>1, <3>2
  <2> HIDE DEF q, t, a, u
  <2>6. CASE s # e.subject
    BY <2>1, <2>2, <2>3, <2>6 DEF Goes, u, q
  <2>7. CASE s = e.subject /\ a.fired = <<>> /\ SameClaim(t, a.tracker)
    <3>1. MatchedAt(u, m.alerts, x)
      BY <2>1, <2>2, <2>7, MatchedSame
    <3>2. QED BY <2>3, <2>7, <3>1 DEF Goes, u, q
  <2>8. ASSUME s = e.subject, NEW v \in Tracker, NEW at \in Nat,
               Fires(r, s, t, a.tracker, a.fired, v, at)
        PROVE  Goes(q, m.alerts, u, x)
    <3>1. /\ SameClaim(t, v) /\ Pending(v) /\ SameClaim(Committed(v), u)
          /\ a.fired = <<TransitionOf(r, s, v, at)>>
      BY <2>2, <2>8 DEF Fires
    <3>2. TransitionOf(r, s, v, at) \in OwnTransition
      BY OwnTransitionType
    <3>3. OnlyAt(q, x, TransitionOf(x[1], x[2], v, at))
      BY <2>3, <2>8, <3>1, <3>2
    <3>4. MatchedAt(v, m.alerts, x)
      BY <2>1, <3>1, MatchedSame
    <3>5. QED BY <3>1, <3>3, <3>4 DEF Goes
  <2>9. QED BY <2>5, <2>6, <2>7, <2>8 DEF Moves, u, q
<1>3. QED BY <1>2 DEF AllGo

LEMMA EmptyMatched == Matched(EmptyMemory)
<1>1. ASSUME NEW r \in Rules, NEW s \in Subjects
      PROVE  /\ EmptyMemory.tracker[r][s] = NewTracker
             /\ EmptyMemory.alerts.series[<<r, s>>] = NewSeries
             /\ EmptyMemory.alerts.closed = {}
  BY DEF EmptyMemory
<1>2. /\ ~ActivePhase(NewTracker) /\ NewSeries.open = FALSE /\ NewSeries.contributors = {}
  BY DEF ActivePhase, NewTracker, NewSeries
<1>3. QED BY <1>1, <1>2 DEF Matched, MatchedAt, ClosedAt

\* With nothing left to emit it is the memory that matches.
LEMMA QuietMatch ==
    WholeInv /\ emitting = <<>> => (ConditionsMatch <=> Matched(mem))
<1>1. SUFFICES ASSUME WholeInv, emitting = <<>>
               PROVE  ConditionsMatch <=> Matched(mem)
  OBVIOUS
<1>2. Emit(Replayed, emitting) = Replayed
  BY <1>1, ReplayedType, EmitNothing
<1>3. Replayed.mem = mem
  BY DEF Replayed
<1>4. QED BY <1>2, <1>3 DEF ConditionsMatch

LEMMA QuietMatchAfter ==
    WholeInv' /\ emitting' = <<>> => (ConditionsMatch' <=> Matched(mem'))
<1>1. (WholeInv /\ emitting = <<>> => (ConditionsMatch <=> Matched(mem)))'
  BY QuietMatch, PTL
<1>2. Matched(mem)' <=> Matched(mem')
  BY DEF Matched, MatchedAt, ActivePhase, ClosedAt
<1>3. QED BY <1>1, <1>2

LEMMA QuietMatches ==
    ASSUME WholeInv, WholeInv', ConditionsMatch, emitting = <<>>, emitting' = <<>>,
           mem'.tracker = mem.tracker, mem'.alerts = mem.alerts
    PROVE  ConditionsMatch'
<1>1. Matched(mem)
  BY QuietMatch
<1>2. Matched(mem')
  BY <1>1 DEF Matched
<1>3. QED BY <1>2, QuietMatchAfter

LEMMA StopsMatch ==
    ASSUME WholeInv', mem' = EmptyMemory, emitting' = <<>>
    PROVE  ConditionsMatch'
BY QuietMatchAfter, EmptyMatched

\* A step that emits q on new trackers.
LEMMA EmittingMatches ==
    ASSUME WholeInv, WholeInv', NEW q \in Seq(OwnTransition), emitting' = q,
           mem'.alerts = mem.alerts, AllGo(q, mem.alerts, mem'.tracker)
    PROVE  ConditionsMatch'
<1>1. (WholeInv => Replayed \in PreviewState /\ emitting \in Seq(ConditionTransition))'
  BY ReplayedType, PTL
<1>2. Replayed' \in PreviewState
  BY <1>1
<1>3. Replayed' = [mem |-> mem', logical |-> logical', output |-> NotedIn(work')]
  BY DEF Replayed, NotedIn, TimeIn
<1>4. Replayed'.mem = mem'
  BY <1>3
<1>5. Matched(Emit(Replayed', q).mem)
  BY <1>2, <1>4, EmitMatches
<1>6. ConditionsMatch' <=> Matched(Emit(Replayed', emitting').mem)
  BY DEF ConditionsMatch
<1>7. QED BY <1>5, <1>6

LEMMA NextMatch == WholeInv /\ ProgressInv /\ ConditionsMatch /\ [Next]_vars => ConditionsMatch'
<1>1. SUFFICES ASSUME WholeInv, ProgressInv, ConditionsMatch, [Next]_vars
               PROVE  ConditionsMatch'
  OBVIOUS
<1>2. WholeInv' /\ TransactionInv /\ TypeOK /\ mem \in Memory /\ logical \in Nat
  BY <1>1, NextWhole DEF WholeInv, TransactionInv, TypeOK
<1>3. CASE Start
  <2>1. mem' = EmptyMemory /\ emitting' = <<>>
    BY <1>2, <1>3 DEF Start, TransactionInv
  <2>2. QED BY <1>2, <2>1, StopsMatch
<1>4. CASE Stop \/ DecodeFails \/ EmitFails
  <2>1. mem' = EmptyMemory /\ emitting' = <<>>
    BY <1>2, <1>4, StopsTransactionInv DEF Stopped
  <2>2. QED BY <1>2, <2>1, StopsMatch
<1>5. ASSUME NEW e \in Evidence, Admit(e) PROVE ConditionsMatch'
  <2>1. emitting = <<>> /\ emitting' = <<>> /\ mem' = mem
    BY <1>5 DEF Admit, At
  <2>2. QED BY <1>1, <1>2, <2>1, QuietMatches
<1>6. CASE FireDue
  <2>1. emitting = <<>> /\ emitting' = FiredBy(mem.tracker, logical)
    BY <1>6 DEF FireDue, At
  <2>2. mem'.alerts = mem.alerts /\ mem'.tracker = Drained(mem.tracker, logical)
    BY <1>2, <1>6, MemoryFields DEF FireDue
  <2>3. Matched(mem)
    BY <1>1, <2>1, QuietMatch
  <2>4. AllGo(emitting', mem.alerts, mem'.tracker)
    BY <1>2, <2>1, <2>2, <2>3, DrainedGoes
  <2>5. emitting' \in Seq(OwnTransition)
    BY <1>2, <2>1, MemoryFields, FiredByAt
  <2>6. QED BY <1>1, <1>2, <2>2, <2>4, <2>5, EmittingMatches
<1>7. CASE EmitStored
  <2>1. Emit(Replayed', emitting') = Emit(Replayed, emitting)
    BY <1>1, <1>7, EmitReplayed
  <2>2. ConditionsMatch' <=> Matched(Emit(Replayed', emitting').mem)
    BY DEF ConditionsMatch
  <2>3. QED BY <1>1, <2>1, <2>2 DEF ConditionsMatch
<1>8. CASE BuildView
  <2>1. /\ emitting = <<>> /\ emitting' = <<>>
        /\ mem'.tracker = mem.tracker /\ mem'.alerts = mem.alerts
    BY <1>2, <1>8, BuildMemory
  <2>2. QED BY <1>1, <1>2, <2>1, QuietMatches
<1>9. CASE EvaluateAndApply
  <2> DEFINE e == file[line]
  <2>1. /\ mem'.tracker = Evaluated(mem, e, logical) /\ mem'.alerts = mem.alerts
        /\ emitting = <<>> /\ emitting' = FiredAt(mem, e, logical) /\ e \in Evidence
    BY <1>2, <1>9, EvaluateMemory
  <2> HIDE DEF e
  <2>2. Matched(mem)
    BY <1>1, <2>1, QuietMatch
  <2>3. AllGo(emitting', mem.alerts, mem'.tracker)
    BY <1>2, <2>1, <2>2, EvaluatedGoes
  <2>4. emitting' \in Seq(OwnTransition)
    BY <1>2, <2>1, FiredAtJoins
  <2>5. QED BY <1>1, <1>2, <2>1, <2>3, <2>4, EmittingMatches
<1>10. CASE Commit
  <2>1. emitting = <<>> /\ emitting' = <<>> /\ mem' = mem
    BY <1>10 DEF Commit, At
  <2>2. QED BY <1>1, <1>2, <2>1, QuietMatches
<1>11. CASE EndOfFile
  <2>1. emitting = <<>> /\ emitting' = <<>>
    BY <1>11 DEF EndOfFile, At
  <2>2. mem'.alerts = mem.alerts
    BY <1>2, <1>11, MemoryFields DEF EndOfFile
  <2>3. mem'.tracker = mem.tracker
    BY <1>1, <1>11, EndDropsNothing
  <2>4. QED BY <1>1, <1>2, <2>1, <2>2, <2>3, QuietMatches
<1>12. CASE UNCHANGED vars
  <2>1. emitting' = emitting /\ mem' = mem /\ work' = work /\ logical' = logical
    BY <1>12 DEF vars
  <2>2. Replayed' = Replayed
    BY <2>1 DEF Replayed, NotedIn, TimeIn
  <2>3. ConditionsMatch' <=> Matched(Emit(Replayed', emitting').mem)
    BY DEF ConditionsMatch
  <2>4. QED BY <1>1, <2>1, <2>2, <2>3 DEF ConditionsMatch
<1>13. QED
  BY <1>1, <1>3, <1>4, <1>5, <1>6, <1>7, <1>8, <1>9, <1>10, <1>11, <1>12 DEF Next, RunStep

LEMMA InitMatch == Init => ConditionsMatch
<1>1. SUFFICES ASSUME Init PROVE ConditionsMatch
  OBVIOUS
<1>2. WholeInv /\ emitting = <<>> /\ mem = EmptyMemory
  BY <1>1, InitWhole DEF Init
<1>3. QED BY <1>2, QuietMatch, EmptyMatched

\* In every run, whatever the tables hold, the alert reducer holds an alert open for every
\* condition that is active, on that condition's episode alone, and for no other: emit
\* stores an alert transition for every condition transition, and none is ignored.
THEOREM AlertsFollow == Spec => []AlertsFollowConditions
<1>1. WholeInv /\ ConditionsMatch => AlertsFollowConditions
  <2>1. SUFFICES ASSUME WholeInv, ConditionsMatch, emitting = <<>>,
                        NEW r \in Rules, NEW s \in Subjects
                 PROVE  LET series == mem.alerts.series[<<r, s>>]
                            t == mem.tracker[r][s]
                        IN /\ series.open <=> ActivePhase(t)
                           /\ series.contributors
                                = IF ActivePhase(t) THEN {<<r, s, t.episode>>} ELSE {}
    BY DEF AlertsFollowConditions
  <2>2. MatchedAt(mem.tracker[r][s], mem.alerts, <<r, s>>)
    BY <2>1, QuietMatch DEF Matched
  <2>3. QED BY <2>2 DEF MatchedAt
<1>2. QED BY <1>1, InitWhole, NextWhole, InitProgress, NextProgress, InitMatch, NextMatch, PTL
          DEF Spec

\* Between two lines of the first run the tables hold an alert open for the condition of
\* rule r and subject s just while that condition is active, and never two.
TablesShowConditions ==
    mode = "running" /\ stage = "none" /\ runs = 1 =>
      \A r \in Rules, s \in Subjects :
        LET opened == {g \in DOMAIN db.generations :
                         g[1] = <<r, s>> /\ db.generations[g].status = "open"}
        IN opened = IF ActivePhase(mem.tracker[r][s])
                      THEN {<<<<r, s>>, mem.alerts.series[<<r, s>>].generation>>} ELSE {}

\* What the tables show after a line of the first run is what its conditions are: an alert
\* that is open in the database is of an active condition, and every active condition has one.
THEOREM TablesShow == Spec => []TablesShowConditions
<1>1. WholeInv /\ FollowInv /\ AlertsFollowConditions => TablesShowConditions
  <2>1. SUFFICES ASSUME WholeInv, FollowInv, AlertsFollowConditions,
                        mode = "running", stage = "none", runs = 1,
                        NEW r \in Rules, NEW s \in Subjects
                 PROVE  {g \in DOMAIN db.generations :
                           g[1] = <<r, s>> /\ db.generations[g].status = "open"}
                          = IF ActivePhase(mem.tracker[r][s])
                              THEN {<<<<r, s>>, mem.alerts.series[<<r, s>>].generation>>} ELSE {}
    BY DEF TablesShowConditions
  <2> DEFINE x == <<r, s>>
             n == mem.alerts.series[x].generation
  <2>2. emitting = <<>> /\ work = db
    BY <2>1 DEF WholeInv, TransactionInv
  <2>3. mem.alerts.series[x].open <=> ActivePhase(mem.tracker[r][s])
    BY <2>1, <2>2 DEF AlertsFollowConditions
  <2>4. x \in Series
    BY DEF Series
  <2>5. n \in Nat /\ (mem.alerts.series[x].open => n > 0)
    BY <2>1, <2>4 DEF WholeInv, TransactionInv, TypeOK, Memory, FollowInv
  <2>6. Follows(db)
    BY <2>1, <2>2 DEF FollowInv
  <2>7. \A g \in DOMAIN db.generations :
           db.generations[g].status = "open" <=>
             mem.alerts.series[g[1]].open /\ g[2] = mem.alerts.series[g[1]].generation
    BY <2>6 DEF Follows
  <2>8. DOMAIN db.generations = UNION {{y} \X (1 .. mem.alerts.series[y].generation) : y \in Series}
    BY <2>6 DEF Follows, Series
  <2>9. \A g \in DOMAIN db.generations : g = <<g[1], g[2]>>
    BY <2>8
  <2>10. \A g \in DOMAIN db.generations : g[1] = x /\ db.generations[g].status = "open" =>
            g = <<x, n>> /\ mem.alerts.series[x].open
    BY <2>7, <2>9
  <2>11. ASSUME mem.alerts.series[x].open
         PROVE  <<x, n>> \in DOMAIN db.generations /\ db.generations[<<x, n>>].status = "open"
    <3>1. n \in 1 .. mem.alerts.series[x].generation
      BY <2>5, <2>11
    <3>2. <<x, n>> \in {x} \X (1 .. mem.alerts.series[x].generation)
      BY <3>1
    <3>3. <<x, n>> \in DOMAIN db.generations
      BY <2>4, <2>8, <3>2
    <3>4. QED BY <2>7, <2>11, <3>3
  <2>12. CASE mem.alerts.series[x].open
    BY <2>3, <2>10, <2>11, <2>12
  <2>13. CASE ~mem.alerts.series[x].open
    BY <2>3, <2>10, <2>13
  <2>14. QED BY <2>12, <2>13
<1>2. QED BY <1>1, AlertsFollow, InitWhole, NextWhole, InitFollow, NextFollow, PTL DEF Spec
=============================================================================
