-------------------------- MODULE ConditionsProofs --------------------------
(***************************************************************************)
(* Theorems about the condition reducer, for every set of subjects,        *)
(* durations and observations.                                             *)
(***************************************************************************)
EXTENDS Conditions, SequenceTheorems, FiniteSetTheorems, TLAPS

-----------------------------------------------------------------------------
(* What makes the properties of the reducer inductive.                     *)

\* Episode ids, taken from the tracker's sequence, increase along the list.
IdsIncrease(t, eps) ==
    /\ \A i \in DOMAIN eps : 0 < eps[i].id /\ eps[i].id <= t.sequence
    /\ \A i, j \in DOMAIN eps : i < j => eps[i].id < eps[j].id

\* When the subject last changed between open and closed.
LastChange(eps) ==
    IF eps = <<>> THEN Unset
    ELSE IF eps[Len(eps)].status = "open" THEN eps[Len(eps)].openedAt
    ELSE eps[Len(eps)].closedAt

\* Started late or not, a pending interval is due no earlier than that.
DueAfterLastChange(t, eps) == Pending(t) => LastChange(eps) <= DueAt(t, Duration)

SubjectInv(t, eps, now) ==
    /\ Matches(t, eps)
    /\ InOrder(eps, now)
    /\ IdsIncrease(t, eps)
    /\ DueAfterLastChange(t, eps)

EpisodeInv == TypeOK /\ \A s \in Subjects : SubjectInv(tracker[s], episodes[s], logical)

\* Attempts in the journal have been used up: a pending interval's is none of them.
AttemptsUsed ==
    \A i \in DOMAIN journal :
        LET t == tracker[journal[i].subject] IN
        /\ journal[i].attempt <= t.attempt
        /\ Pending(t) => journal[i].attempt < t.attempt

AttemptInv == TypeOK /\ OneCommitPerAttempt /\ AttemptsUsed

HeldInv == TypeOK /\ PendingIsHeld

-----------------------------------------------------------------------------
(* Sorting.                                                                *)

\* Of every set of naturals that is not empty one is the least.
LEMMA LeastNatural ==
    ASSUME NEW S \in SUBSET Nat, S # {}
    PROVE  \E m \in S : \A x \in S : m <= x
<1>1. PICK m \in S : \A y \in S : ~ (<<y, m>> \in OpToRel(<, Nat))
  BY NatLessThanWellFounded, WFMin, Zenon
<1>2. \A y \in S : ~ (y < m)
  BY <1>1 DEF OpToRel
<1>3. QED BY <1>2

\* R orders the members of S strictly.
Linear(R, S) ==
    /\ \A x \in S : <<x, x>> \notin R
    /\ \A x, y \in S : x # y => <<x, y>> \in R \/ <<y, x>> \in R
    /\ \A x, y, z \in S : <<x, y>> \in R /\ <<y, z>> \in R => <<x, z>> \in R

\* q lists n members of S in the order of R.
Lists(q, n, S, R) ==
    /\ q \in [1 .. n -> S]
    /\ \A i, j \in 1 .. n : i < j => <<q[i], q[j]>> \in R

\* A finite set that is not empty has a first member.
LEMMA FirstExists ==
    ASSUME NEW U, NEW R, Linear(R, U), NEW S \in SUBSET U, IsFiniteSet(S), S # {}
    PROVE  \E x \in S : \A y \in S \ {x} : <<x, y>> \in R
<1> DEFINE Good(n) == \A T \in SUBSET U :
              IsFiniteSet(T) /\ T # {} /\ Cardinality(T) = n
                => \E x \in T : \A y \in T \ {x} : <<x, y>> \in R
<1> DEFINE Bad == {n \in Nat : ~Good(n)}
<1>1. Bad = {}
  <2>1. SUFFICES ASSUME Bad # {} PROVE FALSE
    OBVIOUS
  <2>2. PICK n \in Bad : \A k \in Bad : n <= k
    BY <2>1, LeastNatural
  <2>3. PICK T \in SUBSET U : /\ IsFiniteSet(T) /\ T # {} /\ Cardinality(T) = n
                              /\ ~ \E x \in T : \A y \in T \ {x} : <<x, y>> \in R
    BY <2>2
  <2>4. PICK a \in T : TRUE
    BY <2>3
  <2>5. T \ {a} # {}
    BY <2>3, <2>4
  <2>6. IsFiniteSet(T \ {a}) /\ Cardinality(T \ {a}) = n - 1 /\ n # 0
    BY <2>3, <2>4, FS_RemoveElement, FS_EmptySet
  <2>7. n \in Nat /\ Good(n - 1)
    BY <2>2, <2>6
  <2>8. PICK m \in T \ {a} : \A y \in (T \ {a}) \ {m} : <<m, y>> \in R
    BY <2>5, <2>6, <2>7
  <2>9. <<a, m>> \in R \/ <<m, a>> \in R
    BY <2>8 DEF Linear
  <2>10. CASE <<m, a>> \in R
    BY <2>3, <2>8, <2>10
  <2>11. CASE <<a, m>> \in R
    <3>1. \A y \in T \ {a} : <<a, y>> \in R
      BY <2>4, <2>8, <2>11 DEF Linear
    <3>2. QED BY <2>3, <3>1
  <2>12. QED BY <2>9, <2>10, <2>11
<1>2. Cardinality(S) \in Nat
  BY FS_CardinalityType
<1>3. Good(Cardinality(S))
  BY <1>1, <1>2
<1>4. QED BY <1>3

\* A finite set can be listed in order.
LEMMA OrderExists ==
    ASSUME NEW U, NEW R, Linear(R, U), NEW S \in SUBSET U, IsFiniteSet(S)
    PROVE  \E q : Lists(q, Cardinality(S), S, R)
<1> DEFINE Good(n) == \A T \in SUBSET U :
              IsFiniteSet(T) /\ Cardinality(T) = n => \E q : Lists(q, n, T, R)
<1> DEFINE Bad == {n \in Nat : ~Good(n)}
<1>1. Bad = {}
  <2>1. SUFFICES ASSUME Bad # {} PROVE FALSE
    OBVIOUS
  <2>2. PICK n \in Bad : \A k \in Bad : n <= k
    BY <2>1, LeastNatural
  <2>3. PICK T \in SUBSET U : /\ IsFiniteSet(T) /\ Cardinality(T) = n
                              /\ ~ \E q : Lists(q, n, T, R)
    BY <2>2
  <2>4. n # 0
    <3>1. SUFFICES ASSUME n = 0 PROVE FALSE
      OBVIOUS
    <3>2. Lists([i \in 1 .. n |-> i], n, T, R)
      BY <3>1 DEF Lists
    <3>3. QED BY <3>2, <2>3
  <2>5. n - 1 \in Nat /\ Good(n - 1)
    BY <2>2, <2>4
  <2>6. T # {}
    BY <2>3, <2>4, FS_EmptySet
  <2>7. PICK x \in T : \A y \in T \ {x} : <<x, y>> \in R
    BY <2>3, <2>6, FirstExists
  <2>8. IsFiniteSet(T \ {x}) /\ Cardinality(T \ {x}) = n - 1
    BY <2>3, <2>7, FS_RemoveElement
  <2>9. PICK q : Lists(q, n - 1, T \ {x}, R)
    BY <2>5, <2>8
  <2> DEFINE p == [i \in 1 .. n |-> IF i = 1 THEN x ELSE q[i - 1]]
  <2>10. n \in Nat
    BY <2>2
  <2>11. p \in [1 .. n -> T]
    BY <2>7, <2>9, <2>10 DEF Lists
  <2>12. ASSUME NEW i \in 1 .. n, NEW j \in 1 .. n, i < j
         PROVE  <<p[i], p[j]>> \in R
    <3>1. j - 1 \in 1 .. n - 1 /\ p[j] = q[j - 1] /\ q[j - 1] \in T \ {x}
      BY <2>9, <2>10, <2>12 DEF Lists
    <3>2. CASE i = 1
      BY <3>1, <3>2, <2>7
    <3>3. CASE i # 1
      <4>1. i - 1 \in 1 .. n - 1 /\ i - 1 < j - 1 /\ p[i] = q[i - 1]
        BY <3>3, <2>10, <2>12
      <4>2. QED BY <4>1, <3>1, <2>9 DEF Lists
    <3>4. QED BY <3>2, <3>3
  <2>13. Lists(p, n, T, R)
    BY <2>11, <2>12 DEF Lists
  <2>14. QED BY <2>13, <2>3
<1>2. Cardinality(S) \in Nat
  BY FS_CardinalityType
<1>3. Good(Cardinality(S))
  BY <1>1, <1>2
<1>4. QED BY <1>3

\* What lists a finite set in order lists every member, and each once.
LEMMA OrderIsOnto ==
    ASSUME NEW S, IsFiniteSet(S), NEW R, Linear(R, S), NEW q, Lists(q, Cardinality(S), S, R)
    PROVE  /\ \A i, j \in 1 .. Cardinality(S) : q[i] = q[j] => i = j
           /\ \A s \in S : \E i \in 1 .. Cardinality(S) : q[i] = s
<1> DEFINE n == Cardinality(S)
<1>1. /\ n \in Nat /\ q \in [1 .. n -> S]
      /\ \A i, j \in 1 .. n : i < j => <<q[i], q[j]>> \in R
  BY FS_CardinalityType DEF Lists
<1>2. \A i, j \in 1 .. n : q[i] = q[j] => i = j
  <2>1. SUFFICES ASSUME NEW i \in 1 .. n, NEW j \in 1 .. n, q[i] = q[j], i # j
                 PROVE  FALSE
    OBVIOUS
  <2>2. <<q[i], q[j]>> \in R \/ <<q[j], q[i]>> \in R
    BY <1>1, <2>1
  <2>3. q[i] \in S
    BY <1>1
  <2>4. QED BY <2>1, <2>2, <2>3 DEF Linear
<1>3. q \in Injection(1 .. n, S)
  BY <1>1, <1>2 DEF Injection, IsInjective
<1>4. Cardinality(1 .. n) = n
  BY <1>1, FS_Interval
<1>5. q \in Surjection(1 .. n, S)
  BY <1>3, <1>4, FS_Injection
<1>6. QED BY <1>2, <1>5 DEF Surjection

\* There is one list of a finite set in order.
LEMMA OrderIsUnique ==
    ASSUME NEW S, IsFiniteSet(S), NEW R, Linear(R, S),
           NEW p, Lists(p, Cardinality(S), S, R), NEW q, Lists(q, Cardinality(S), S, R)
    PROVE  p = q
<1> DEFINE n == Cardinality(S)
<1>1. n \in Nat /\ p \in [1 .. n -> S] /\ q \in [1 .. n -> S]
  BY FS_CardinalityType DEF Lists
<1> DEFINE Differ == {i \in 1 .. n : p[i] # q[i]}
<1>2. SUFFICES ASSUME Differ # {} PROVE FALSE
  BY <1>1
<1>3. PICK m \in Differ : \A i \in Differ : m <= i
  <2>1. Differ \in SUBSET Nat
    BY <1>1
  <2>2. QED BY <1>2, <2>1, LeastNatural
<1>4. m \in 1 .. n /\ p[m] \in S /\ q[m] \in S /\ p[m] # q[m]
      /\ \A i \in 1 .. n : i < m => p[i] = q[i]
  BY <1>1, <1>3
<1>5. PICK j \in 1 .. n : q[j] = p[m]
  BY <1>4, OrderIsOnto
<1>6. PICK k \in 1 .. n : p[k] = q[m]
  BY <1>4, OrderIsOnto
<1>7. j > m
  <2>1. j < m => p[j] = p[m]
    BY <1>4, <1>5
  <2>2. j # m
    BY <1>4, <1>5
  <2>3. ~ (j < m)
    BY <1>4, <1>5, <2>1, OrderIsOnto
  <2>4. QED BY <1>1, <1>4, <2>2, <2>3
<1>8. k > m
  <2>1. k < m => q[k] = q[m]
    BY <1>4, <1>6
  <2>2. k # m
    BY <1>4, <1>6
  <2>3. ~ (k < m)
    BY <1>4, <1>6, <2>1, OrderIsOnto
  <2>4. QED BY <1>1, <1>4, <2>2, <2>3
<1>9. <<q[m], q[j]>> \in R /\ <<p[m], p[k]>> \in R
  BY <1>4, <1>7, <1>8 DEF Lists
<1>10. QED BY <1>4, <1>5, <1>6, <1>9 DEF Linear

-----------------------------------------------------------------------------
(* The operations on one tracker and its list of episodes.                 *)

\* A function on an initial segment of the naturals is a sequence.
LEMMA FunctionIsSeq ==
    ASSUME NEW S, NEW n \in Nat, NEW f \in [1 .. n -> S]
    PROVE  f \in Seq(S) /\ Len(f) = n
<1>1. f \in Seq(S)
  BY SeqDef, Zenon
<1>2. QED BY <1>1, LenProperties

LEMMA DurationType == Duration \in [Directions -> Nat]
BY DurationAssumption DEF Duration, Directions

LEMMA NewTrackerType == NewTracker \in Tracker
BY DEF NewTracker, Tracker, Phases, Unset, NoEpisode

LEMMA DirectionType == \A phase : DirectionFor(phase) \in Directions
BY DEF DirectionFor, Directions

LEMMA DueType ==
    ASSUME NEW t \in Tracker
    PROVE  DueAt(t, Duration) \in Nat
BY DurationType, DirectionType DEF DueAt, Tracker

LEMMA StartedType ==
    ASSUME NEW t \in Tracker, NEW dir \in Directions, NEW onset \in Nat
    PROVE  /\ Started(t, dir, onset) \in Tracker
           /\ Started(t, dir, onset).phase = PhaseFor(dir)
           /\ Started(t, dir, onset).attempt = t.attempt + 1
           /\ Started(t, dir, onset).startedAt = onset
           /\ Started(t, dir, onset).episode = t.episode
           /\ Started(t, dir, onset).sequence = t.sequence
<1>1. PhaseFor(dir) \in Phases /\ t.attempt + 1 \in Nat
  BY DEF PhaseFor, Phases, Tracker
<1>2. Started(t, dir, onset) \in Tracker
  BY <1>1, Zenon DEF Started, Tracker
<1>3. QED BY <1>2 DEF Started, Tracker

LEMMA CancelledType ==
    ASSUME NEW t \in Tracker
    PROVE  /\ Cancelled(t) \in Tracker
           /\ Cancelled(t).phase = RestingBefore(DirectionFor(t.phase))
           /\ Cancelled(t).attempt = t.attempt + 1
           /\ Cancelled(t).episode = t.episode
           /\ Cancelled(t).sequence = t.sequence
<1>1. RestingBefore(DirectionFor(t.phase)) \in Phases /\ t.attempt + 1 \in Nat
  BY DEF RestingBefore, Phases, Tracker
<1>2. Cancelled(t) \in Tracker
  BY <1>1, Zenon DEF Cancelled, Tracker
<1>3. QED BY <1>2 DEF Cancelled, Tracker

LEMMA CommittedType ==
    ASSUME NEW t \in Tracker
    PROVE  /\ Committed(t) \in Tracker
           /\ Committed(t).phase = RestingAfter(DirectionFor(t.phase))
           /\ Committed(t).attempt = t.attempt
           /\ Committed(t).sequence = t.sequence + 1
           /\ Committed(t).episode =
                IF DirectionFor(t.phase) = "trigger" THEN t.sequence + 1 ELSE NoEpisode
<1> DEFINE e == IF DirectionFor(t.phase) = "trigger" THEN t.sequence + 1 ELSE NoEpisode
<1>1. /\ RestingAfter(DirectionFor(t.phase)) \in Phases
      /\ t.sequence + 1 \in Nat /\ e \in Nat
  BY DEF RestingAfter, Phases, Tracker, NoEpisode
<1>2. Committed(t) = [t EXCEPT !.phase = RestingAfter(DirectionFor(t.phase)),
                               !.sequence = t.sequence + 1,
                               !.episode = e]
  BY DEF Committed, Tracker
<1> HIDE DEF e
<1>3. Committed(t) \in Tracker
  BY <1>1, <1>2, Zenon DEF Tracker
<1>4. QED BY <1>2, <1>3 DEF Tracker, e

LEMMA EpisodeFields ==
    ASSUME NEW eps \in Seq(Episode)
    PROVE  /\ Len(eps) \in Nat /\ DOMAIN eps = 1 .. Len(eps)
           /\ \A i \in 1 .. Len(eps) :
                /\ eps[i] \in Episode
                /\ eps[i].id \in Nat /\ eps[i].openedAt \in Nat
                /\ eps[i].closedAt \in Nat /\ eps[i].status \in {"open", "closed"}
<1>1. Len(eps) \in Nat /\ DOMAIN eps = 1 .. Len(eps)
  BY LenProperties
<1>2. \A i \in 1 .. Len(eps) : eps[i] \in Episode
  BY ElementOfSeq
<1>3. \A e \in Episode : /\ e.id \in Nat /\ e.openedAt \in Nat
                         /\ e.closedAt \in Nat /\ e.status \in {"open", "closed"}
  BY DEF Episode
<1>4. QED BY <1>1, <1>2, <1>3

LEMMA EpisodesAfterType ==
    ASSUME NEW t \in Tracker, NEW eps \in Seq(Episode), NEW at \in Nat
    PROVE  /\ EpisodesAfter(eps, t, at) \in Seq(Episode)
           /\ t.phase = "triggering" =>
                /\ Len(EpisodesAfter(eps, t, at)) = Len(eps) + 1
                /\ \A i \in 1 .. Len(eps) : EpisodesAfter(eps, t, at)[i] = eps[i]
                /\ EpisodesAfter(eps, t, at)[Len(eps) + 1] =
                     [id |-> t.sequence + 1, openedAt |-> at,
                      closedAt |-> Unset, status |-> "open"]
           /\ t.phase # "triggering" =>
                /\ Len(EpisodesAfter(eps, t, at)) = Len(eps)
                /\ \A i \in 1 .. Len(eps) :
                     EpisodesAfter(eps, t, at)[i] =
                       IF eps[i].id = t.episode
                         THEN [eps[i] EXCEPT !.closedAt = at, !.status = "closed"]
                         ELSE eps[i]
<1>1. CASE t.phase = "triggering"
  <2>1. [id |-> t.sequence + 1, openedAt |-> at, closedAt |-> Unset, status |-> "open"] \in Episode
    BY DEF Episode, Tracker, Unset
  <2>2. QED BY <1>1, <2>1, AppendProperties DEF EpisodesAfter
<1>2. CASE t.phase # "triggering"
  <2> DEFINE e(i) == IF eps[i].id = t.episode
                       THEN [eps[i] EXCEPT !.closedAt = at, !.status = "closed"]
                       ELSE eps[i]
  <2>1. DOMAIN eps = 1 .. Len(eps) /\ Len(eps) \in Nat
    BY LenProperties
  <2>2. \A i \in 1 .. Len(eps) : e(i) \in Episode
    <3>1. \A x \in Episode : [x EXCEPT !.closedAt = at, !.status = "closed"] \in Episode
      BY Zenon DEF Episode
    <3>2. QED BY <3>1, EpisodeFields
  <2>3. EpisodesAfter(eps, t, at) = [i \in 1 .. Len(eps) |-> e(i)]
    BY <1>2, <2>1 DEF EpisodesAfter
  <2> HIDE DEF e
  <2>4. [i \in 1 .. Len(eps) |-> e(i)] \in Seq(Episode)
    <3>1. [i \in 1 .. Len(eps) |-> e(i)] \in [1 .. Len(eps) -> Episode]
      BY <2>2
    <3>2. QED BY <2>1, <3>1, FunctionIsSeq
  <2>5. /\ Len(EpisodesAfter(eps, t, at)) = Len(eps)
        /\ \A i \in 1 .. Len(eps) : EpisodesAfter(eps, t, at)[i] = e(i)
    BY <2>1, <2>3
  <2>6. QED BY <1>2, <2>3, <2>4, <2>5 DEF e
<1>3. QED BY <1>1, <1>2

\* The part of the subject invariant that does not speak of pending intervals.
SubjectCore(t, eps, now) ==
    /\ Matches(t, eps)
    /\ InOrder(eps, now)
    /\ IdsIncrease(t, eps)

\* Time passing disturbs nothing.
LEMMA CoreInTime ==
    ASSUME NEW t \in Tracker, NEW eps \in Seq(Episode), NEW now \in Nat, NEW at \in Nat,
           now <= at, SubjectCore(t, eps, now)
    PROVE  SubjectCore(t, eps, at)
<1>1. InOrder(eps, now)
  BY DEF SubjectCore
<1>2. InOrder(eps, at)
  BY <1>1, EpisodeFields DEF InOrder
<1>3. QED BY <1>2 DEF SubjectCore

\* A committed interval opens or closes the subject's last episode, consistently,
\* at any time from its last change up to the logical time.
LEMMA CoreCommits ==
    ASSUME NEW t \in Tracker, NEW eps \in Seq(Episode), NEW now \in Nat, NEW at \in Nat,
           Pending(t), SubjectCore(t, eps, now), LastChange(eps) <= at, at <= now
    PROVE  LET eps2 == EpisodesAfter(eps, t, at) IN
           /\ SubjectCore(Committed(t), eps2, now)
           /\ ~Pending(Committed(t))
<1> DEFINE eps2 == EpisodesAfter(eps, t, at)
           L == Len(eps)
<1>1. /\ DOMAIN eps = 1 .. L /\ L \in Nat
      /\ \A i \in 1 .. L : /\ eps[i] \in Episode
                           /\ eps[i].id \in Nat /\ eps[i].openedAt \in Nat
                           /\ eps[i].closedAt \in Nat /\ eps[i].status \in {"open", "closed"}
  BY EpisodeFields
<1>2. eps2 \in Seq(Episode) /\ DOMAIN eps2 = 1 .. Len(eps2)
  BY EpisodesAfterType, LenProperties
<1>3. t.sequence \in Nat
  BY DEF Tracker
<1>6. DOMAIN eps2 = 1 .. Len(eps2)
  BY <1>2
<1>4. \A i \in 1 .. L : 0 < eps[i].id /\ eps[i].id <= t.sequence
  BY <1>1 DEF SubjectCore, IdsIncrease
<1>5. \A i, j \in 1 .. L : i < j => eps[i].id < eps[j].id
  BY <1>1 DEF SubjectCore, IdsIncrease
<1>7. \A n \in 1 .. L :
           /\ eps[n].openedAt <= now
           /\ eps[n].status = "closed" =>
                eps[n].openedAt <= eps[n].closedAt /\ eps[n].closedAt <= now
           /\ n > 1 => /\ eps[n - 1].status = "closed"
                       /\ eps[n - 1].closedAt <= eps[n].openedAt
  BY <1>1 DEF SubjectCore, InOrder
<1>8. L > 0 => IF eps[L].status = "open" THEN eps[L].openedAt <= at
                                         ELSE eps[L].closedAt <= at
  BY <1>1 DEF LastChange
<1>9. CASE t.phase = "triggering"
  <2> DEFINE new == [id |-> t.sequence + 1, openedAt |-> at,
                     closedAt |-> Unset, status |-> "open"]
  <2>1. /\ Len(eps2) = L + 1
        /\ \A i \in 1 .. L : eps2[i] = eps[i]
        /\ eps2[L + 1] = new
    BY <1>9, EpisodesAfterType
  <2>2. /\ eps2[L + 1].id = t.sequence + 1 /\ eps2[L + 1].openedAt = at
        /\ eps2[L + 1].status = "open"
    BY <2>1
  <2> HIDE DEF eps2, new
  <2>3. \A i \in 1 .. L : eps[i].status = "closed"
    BY <1>1, <1>9 DEF SubjectCore, Matches, OpenIn
  <2>4. /\ Committed(t).phase = "active" /\ Committed(t).sequence = t.sequence + 1
        /\ Committed(t).episode = t.sequence + 1
    BY <1>9, CommittedType DEF DirectionFor, RestingAfter
  <2>5. OpenIn(eps2) = {L + 1}
    BY <1>1, <1>6, <2>1, <2>2, <2>3 DEF OpenIn
  <2>6. Matches(Committed(t), eps2)
    BY <2>1, <2>2, <2>4, <2>5 DEF Matches
  <2>7. InOrder(eps2, now)
    <3>1. SUFFICES ASSUME NEW n \in 1 .. L + 1
                   PROVE  /\ eps2[n].openedAt <= now
                          /\ eps2[n].status = "closed" =>
                               /\ eps2[n].openedAt <= eps2[n].closedAt
                               /\ eps2[n].closedAt <= now
                          /\ n > 1 => /\ eps2[n - 1].status = "closed"
                                      /\ eps2[n - 1].closedAt <= eps2[n].openedAt
      BY <1>6, <2>1 DEF InOrder
    <3>2. CASE n = L + 1
      BY <1>1, <1>8, <2>1, <2>2, <2>3, <3>2
    <3>3. CASE n \in 1 .. L
      <4>1. eps2[n] = eps[n] /\ (n > 1 => n - 1 \in 1 .. L /\ eps2[n - 1] = eps[n - 1])
        BY <1>1, <2>1, <3>3
      <4>2. QED BY <1>7, <3>3, <4>1
    <3>4. QED BY <1>1, <3>2, <3>3
  <2>8. IdsIncrease(Committed(t), eps2)
    <3>1. \A i \in 1 .. L + 1 : 0 < eps2[i].id /\ eps2[i].id <= t.sequence + 1
      BY <1>1, <1>3, <1>4, <2>1, <2>2
    <3>2. ASSUME NEW i \in 1 .. L + 1, NEW j \in 1 .. L + 1, i < j
          PROVE  eps2[i].id < eps2[j].id
      <4>1. i \in 1 .. L /\ eps2[i].id = eps[i].id
        BY <1>1, <2>1, <3>2
      <4>2. CASE j = L + 1
        BY <1>1, <1>3, <1>4, <2>2, <4>1, <4>2
      <4>3. CASE j # L + 1
        <5>1. j \in 1 .. L /\ eps2[j] = eps[j]
          BY <1>1, <2>1, <4>3
        <5>2. QED BY <1>5, <3>2, <4>1, <5>1
      <4>4. QED BY <4>2, <4>3
    <3>3. QED BY <1>6, <2>1, <2>4, <3>1, <3>2 DEF IdsIncrease
  <2>9. QED BY <2>4, <2>6, <2>7, <2>8 DEF SubjectCore, Pending, eps2
<1>10. CASE t.phase = "clearing"
  <2>1. /\ Len(eps2) = L
        /\ \A i \in 1 .. L :
             eps2[i] = IF eps[i].id = t.episode
                         THEN [eps[i] EXCEPT !.closedAt = at, !.status = "closed"]
                         ELSE eps[i]
    BY <1>10, EpisodesAfterType
  <2> HIDE DEF eps2, L
  <2>2. OpenIn(eps) = {L} /\ eps[L].id = t.episode
    BY <1>10 DEF SubjectCore, Matches, L
  <2>3. /\ L \in 1 .. L /\ eps[L].status = "open"
        /\ \A i \in 1 .. L : i # L => eps[i].status = "closed"
    BY <1>1, <2>2 DEF OpenIn
  <2>4. \A i \in 1 .. L : i # L => eps[i].id # t.episode
    BY <1>1, <1>5, <2>2, <2>3
  <2>5. /\ \A i \in 1 .. L : i # L => eps2[i] = eps[i]
        /\ eps2[L].id = eps[L].id /\ eps2[L].openedAt = eps[L].openedAt
        /\ eps2[L].closedAt = at /\ eps2[L].status = "closed"
    BY <1>1, <2>1, <2>2, <2>3, <2>4 DEF Episode
  <2>6. eps[L].openedAt <= at
    BY <1>1, <1>8, <2>3
  <2>7. /\ Committed(t).phase = "inactive" /\ Committed(t).sequence = t.sequence + 1
        /\ Committed(t).episode = NoEpisode
    BY <1>10, CommittedType DEF DirectionFor, RestingAfter
  <2>8. OpenIn(eps2) = {}
    <3>1. \A i \in 1 .. L : eps2[i].status = "closed"
      BY <2>3, <2>5
    <3>2. QED BY <1>6, <2>1, <3>1 DEF OpenIn
  <2>9. Matches(Committed(t), eps2)
    BY <2>7, <2>8 DEF Matches
  <2>10. InOrder(eps2, now)
    <3>1. SUFFICES ASSUME NEW n \in 1 .. L
                   PROVE  /\ eps2[n].openedAt <= now
                          /\ eps2[n].status = "closed" =>
                               /\ eps2[n].openedAt <= eps2[n].closedAt
                               /\ eps2[n].closedAt <= now
                          /\ n > 1 => /\ eps2[n - 1].status = "closed"
                                      /\ eps2[n - 1].closedAt <= eps2[n].openedAt
      BY <1>6, <2>1 DEF InOrder
    <3>2. CASE n = L
      BY <1>1, <1>7, <2>3, <2>5, <2>6, <3>2
    <3>3. CASE n # L
      BY <1>1, <1>7, <2>5, <3>3
    <3>4. QED BY <3>2, <3>3
  <2>11. IdsIncrease(Committed(t), eps2)
    <3>1. \A i \in 1 .. L : eps2[i].id = eps[i].id
      BY <2>5
    <3>2. ASSUME NEW i \in 1 .. L
          PROVE  0 < eps2[i].id /\ eps2[i].id <= t.sequence + 1
      <4>1. eps2[i].id = eps[i].id /\ eps[i].id \in Nat
        BY <1>1, <3>1
      <4>2. 0 < eps[i].id /\ eps[i].id <= t.sequence
        BY <1>4
      <4>3. QED BY <1>3, <4>1, <4>2
    <3>3. \A i, j \in 1 .. L : i < j => eps2[i].id < eps2[j].id
      BY <1>5, <3>1
    <3>4. QED BY <1>6, <2>1, <2>7, <3>2, <3>3 DEF IdsIncrease
  <2>12. QED BY <2>7, <2>9, <2>10, <2>11 DEF SubjectCore, Pending, eps2
<1>11. QED BY <1>9, <1>10 DEF Pending

\* Opening an interval, and giving it up, leave the episodes consistent.
LEMMA CoreStarts ==
    ASSUME NEW t \in Tracker, NEW eps \in Seq(Episode), NEW now \in Nat,
           NEW dir \in Directions, NEW onset \in Nat,
           t.phase = RestingBefore(dir), SubjectCore(t, eps, now)
    PROVE  SubjectCore(Started(t, dir, onset), eps, now) /\ Pending(Started(t, dir, onset))
<1>1. /\ Started(t, dir, onset).phase = PhaseFor(dir)
      /\ Started(t, dir, onset).episode = t.episode
      /\ Started(t, dir, onset).sequence = t.sequence
  BY StartedType
<1>2. Matches(Started(t, dir, onset), eps)
  BY <1>1 DEF SubjectCore, Matches, PhaseFor, RestingBefore, Directions
<1>3. IdsIncrease(Started(t, dir, onset), eps)
  BY <1>1 DEF SubjectCore, IdsIncrease
<1>4. QED BY <1>1, <1>2, <1>3 DEF SubjectCore, Pending, PhaseFor, Directions

LEMMA CoreCancels ==
    ASSUME NEW t \in Tracker, NEW eps \in Seq(Episode), NEW now \in Nat,
           Pending(t), SubjectCore(t, eps, now)
    PROVE  SubjectCore(Cancelled(t), eps, now) /\ ~Pending(Cancelled(t))
<1>1. /\ Cancelled(t).phase = RestingBefore(DirectionFor(t.phase))
      /\ Cancelled(t).episode = t.episode
      /\ Cancelled(t).sequence = t.sequence
  BY CancelledType
<1>2. Matches(Cancelled(t), eps)
  BY <1>1 DEF SubjectCore, Matches, Pending, DirectionFor, RestingBefore
<1>3. IdsIncrease(Cancelled(t), eps)
  BY <1>1 DEF SubjectCore, IdsIncrease
<1>4. QED BY <1>1, <1>2, <1>3 DEF SubjectCore, Pending, DirectionFor, RestingBefore

\* A subject last changed in the past.
LEMMA LastChangeInPast ==
    ASSUME NEW t \in Tracker, NEW eps \in Seq(Episode), NEW now \in Nat,
           SubjectCore(t, eps, now)
    PROVE  LastChange(eps) \in Nat /\ LastChange(eps) <= now
<1>1. CASE eps = <<>>
  BY <1>1 DEF LastChange, Unset
<1>2. CASE eps # <<>>
  <2>1. Len(eps) \in 1 .. Len(eps) /\ Len(eps) \in DOMAIN eps
    BY <1>2, EpisodeFields, EmptySeq
  <2>2. eps[Len(eps)].openedAt \in Nat /\ eps[Len(eps)].closedAt \in Nat
        /\ eps[Len(eps)].status \in {"open", "closed"}
    BY <2>1, EpisodeFields
  <2>3. QED BY <1>2, <2>1, <2>2 DEF SubjectCore, InOrder, LastChange
<1>3. QED BY <1>1, <1>2

-----------------------------------------------------------------------------
(* Advance: the timers due are fired, each once, in their order.           *)

LEMMA SubjectsFinite ==
    ASSUME NEW now
    PROVE  IsFiniteSet(DueBy(now)) /\ DueBy(now) \in SUBSET Subjects
BY SubjectsAssumption, FS_Subset DEF DueBy

\* InTimerOrder lists the subjects due, and lists all of them.
LEMMA InTimerOrderEnumerates ==
    ASSUME TypeOK, NEW S \in SUBSET Subjects, IsFiniteSet(S)
    PROVE  /\ Cardinality(S) \in Nat
           /\ InTimerOrder(S) \in [1 .. Cardinality(S) -> S]
           /\ \A i, j \in 1 .. Cardinality(S) :
                i < j => Before(InTimerOrder(S)[i], InTimerOrder(S)[j])
           /\ \A s \in S : \E i \in 1 .. Cardinality(S) : InTimerOrder(S)[i] = s
<1> DEFINE R == {e \in S \X S : Before(e[1], e[2])}
<1>1. \A s \in S : s \in Nat /\ DueAt(tracker[s], Duration) \in Nat
  BY DueType, SubjectsAssumption DEF TypeOK
<1>2. \A a, b \in S : <<a, b>> \in R <=> Before(a, b)
  OBVIOUS
<1> HIDE DEF R
<1>3. Linear(R, S)
  BY <1>1, <1>2 DEF Linear, Before
<1>4. PICK q : Lists(q, Cardinality(S), S, R)
  BY <1>3, OrderExists
<1>5. /\ q \in [1 .. Cardinality(S) -> S]
      /\ \A i, j \in 1 .. Cardinality(S) : i < j => Before(q[i], q[j])
  BY <1>2, <1>4 DEF Lists
<1>6. /\ InTimerOrder(S) \in [1 .. Cardinality(S) -> S]
      /\ \A i, j \in 1 .. Cardinality(S) :
           i < j => Before(InTimerOrder(S)[i], InTimerOrder(S)[j])
  <2>1. InTimerOrder(S) = CHOOSE c \in [1 .. Cardinality(S) -> S] :
           \A i, j \in 1 .. Cardinality(S) : i < j => <<c[i], c[j]>> \in R
    BY DEF InTimerOrder, SortedBy, R
  <2>2. \A i, j \in 1 .. Cardinality(S) : i < j => <<q[i], q[j]>> \in R
    BY <1>4 DEF Lists
  <2>3. /\ InTimerOrder(S) \in [1 .. Cardinality(S) -> S]
        /\ \A i, j \in 1 .. Cardinality(S) :
             i < j => <<InTimerOrder(S)[i], InTimerOrder(S)[j]>> \in R
    BY <1>5, <2>1, <2>2
  <2>4. QED BY <1>2, <2>3
<1>7. Lists(InTimerOrder(S), Cardinality(S), S, R)
  BY <1>2, <1>6 DEF Lists
<1>8. QED BY <1>3, <1>6, <1>7, OrderIsOnto, FS_CardinalityType

LEMMA TransitionType ==
    ASSUME NEW s \in Subjects, NEW t \in Tracker, NEW at \in Nat, NEW now \in Nat
    PROVE  /\ TransitionOf(s, t, at, now) \in Transition
           /\ TransitionOf(s, t, at, now).subject = s
           /\ TransitionOf(s, t, at, now).at = at
           /\ TransitionOf(s, t, at, now).attempt = t.attempt
<1>1. DirectionFor(t.phase) \in Directions /\ DueAt(t, Duration) \in Nat
  BY DirectionType, DueType
<1>2. t.attempt \in Nat /\ t.episode \in Nat /\ t.sequence + 1 \in Nat
  BY DEF Tracker
<1>3. QED BY <1>1, <1>2 DEF TransitionOf, Transition

LEMMA DrainedType ==
    ASSUME TypeOK, NEW now \in Nat
    PROVE  /\ Cardinality(DueBy(now)) \in Nat
           /\ Drained(now) \in Seq(Transition)
           /\ Len(Drained(now)) = Cardinality(DueBy(now))
           /\ \A i \in 1 .. Cardinality(DueBy(now)) :
                LET s == InTimerOrder(DueBy(now))[i] IN
                /\ s \in DueBy(now)
                /\ Drained(now)[i] = TransitionOf(s, tracker[s], DueAt(tracker[s], Duration), now)
<1> DEFINE q == InTimerOrder(DueBy(now))
           n == Cardinality(DueBy(now))
<1>1. n \in Nat /\ q \in [1 .. n -> DueBy(now)]
  BY SubjectsFinite, InTimerOrderEnumerates
<1>2. \A i \in 1 .. n : /\ q[i] \in DueBy(now) /\ q[i] \in Subjects
                        /\ tracker[q[i]] \in Tracker
                        /\ DueAt(tracker[q[i]], Duration) \in Nat
  BY <1>1, DueType, SubjectsFinite DEF TypeOK
<1>3. Drained(now) = [i \in 1 .. n |-> TransitionOf(q[i], tracker[q[i]],
                                                   DueAt(tracker[q[i]], Duration), now)]
  BY DEF Drained
<1> HIDE DEF q, n
<1>4. Drained(now) \in [1 .. n -> Transition]
  BY <1>2, <1>3, TransitionType
<1>5. Drained(now) \in Seq(Transition) /\ Len(Drained(now)) = n
  BY <1>1, <1>4, FunctionIsSeq
<1>6. QED BY <1>1, <1>2, <1>3, <1>5 DEF q, n

LEMMA DrainedTypeOK ==
    ASSUME TypeOK, NEW now \in Nat
    PROVE  /\ DrainedTracker(now) \in [Subjects -> Tracker]
           /\ DrainedEpisodes(now) \in [Subjects -> Seq(Episode)]
<1>1. ASSUME NEW s \in Subjects
      PROVE  /\ tracker[s] \in Tracker /\ episodes[s] \in Seq(Episode)
             /\ Committed(tracker[s]) \in Tracker
             /\ EpisodesAfter(episodes[s], tracker[s], DueAt(tracker[s], Duration))
                  \in Seq(Episode)
  <2>1. tracker[s] \in Tracker /\ episodes[s] \in Seq(Episode)
    BY DEF TypeOK
  <2>2. QED BY <2>1, CommittedType, DueType, EpisodesAfterType
<1>2. QED BY <1>1 DEF DrainedTracker, DrainedEpisodes

LEMMA LaterType ==
    ASSUME NEW a \in Nat, NEW b \in Nat
    PROVE  Later(a, b) \in Nat /\ a <= Later(a, b) /\ b <= Later(a, b)
BY DEF Later

LEMMA OpenedType ==
    ASSUME NEW t \in Tracker, NEW o \in Observation
    PROVE  /\ o.subject \in Subjects /\ o.direction \in Directions
           /\ Processing(o) \in Nat
           /\ OpenedBy(t, o) \in Tracker
           /\ OpenedBy(t, o).phase = PhaseFor(o.direction)
           /\ OpenedBy(t, o).attempt = t.attempt + 1
<1>1. /\ o.subject \in Subjects /\ o.direction \in Directions
      /\ o.effectiveAt \in Nat /\ o.processingAt \in Nat /\ o.trueSince \in Nat
  BY DEF Observation
<1>2. Processing(o) \in Nat /\ Effective(o) \in Nat
  BY <1>1 DEF Processing, Effective
<1>3. OnsetOf(Effective(o), o.trueSince) \in Nat
  BY <1>1, <1>2 DEF OnsetOf
<1>4. QED BY <1>1, <1>2, <1>3, StartedType DEF OpenedBy

LEMMA ObservedType ==
    ASSUME NEW t \in Tracker, NEW o \in Observation, NEW now \in Nat
    PROVE  Observed(t, o, now) \in Tracker
BY OpenedType, CommittedType, CancelledType DEF Observed

\* The logical time Apply moves to.
LEMMA ApplyTime ==
    ASSUME TypeOK, NEW o \in Observation, Processing(o) # Unset
    PROVE  LET at == Later(Processing(o), logical) IN
           /\ at \in Nat /\ logical <= at /\ at # Unset
           /\ DrainedTracker(at)[o.subject] \in Tracker
           /\ CommitAt(OpenedBy(DrainedTracker(at)[o.subject], o), at) \in Nat
<1> DEFINE at == Later(Processing(o), logical)
<1>1. Processing(o) \in Nat /\ o.subject \in Subjects /\ logical \in Nat
  BY OpenedType, NewTrackerType DEF TypeOK
<1>2. at \in Nat /\ logical <= at /\ at # Unset
  BY <1>1 DEF Later, Unset
<1> HIDE DEF at
<1>3. DrainedTracker(at)[o.subject] \in Tracker
  BY <1>1, <1>2, DrainedTypeOK
<1>4. DueAt(OpenedBy(DrainedTracker(at)[o.subject], o), Duration) \in Nat
  BY <1>3, OpenedType, DueType
<1>5. CommitAt(OpenedBy(DrainedTracker(at)[o.subject], o), at) \in Nat
  BY <1>2, <1>4, LaterType DEF CommitAt
<1>6. QED BY <1>2, <1>3, <1>5 DEF at

-----------------------------------------------------------------------------
(* Type correctness.                                                       *)

LEMMA InitTypeOK == Init => TypeOK
BY NewTrackerType DEF Init, TypeOK, Unset, Directions, Timer

LEMMA AdvanceTypeOK ==
    ASSUME TypeOK, NEW now \in Nat, Advance(now)
    PROVE  TypeOK'
<1>1. now \in Nat /\ logical \in Nat
  BY DEF TypeOK
<1>2. logical' \in Nat /\ logical' = Later(now, logical)
  BY <1>1, LaterType DEF Advance
<1>3. tracker' \in [Subjects -> Tracker] /\ episodes' \in [Subjects -> Seq(Episode)]
  BY <1>2, DrainedTypeOK DEF Advance
<1>4. journal' \in Seq(Transition)
  BY <1>2, DrainedType, ConcatProperties DEF Advance, TypeOK
<1>5. QED BY <1>2, <1>3, <1>4 DEF Advance, TypeOK

LEMMA ApplyTypeOK ==
    ASSUME TypeOK, NEW o \in Observation, NEW id \in ObservationIds, Apply(o, id)
    PROVE  TypeOK'
<1> DEFINE at == Later(Processing(o), logical)
           s == o.subject
           t == DrainedTracker(at)[s]
           commit == CommitAt(OpenedBy(t, o), at)
<1>1. /\ at \in Nat /\ logical' = at /\ t \in Tracker /\ commit \in Nat
      /\ s \in Subjects /\ o.direction \in Directions
  BY ApplyTime, OpenedType DEF Apply
<1>2. /\ tracker' = [DrainedTracker(at) EXCEPT ![s] = Observed(t, o, at)]
      /\ episodes' = IF CommitsAtOnce(t, o, at)
                       THEN [DrainedEpisodes(at) EXCEPT ![s] =
                               EpisodesAfter(@, OpenedBy(t, o), commit)]
                       ELSE DrainedEpisodes(at)
      /\ journal' = IF CommitsAtOnce(t, o, at)
                      THEN Append(journal \o Drained(at),
                                  TransitionOf(s, OpenedBy(t, o), commit, at))
                      ELSE journal \o Drained(at)
      /\ heldSince' = [heldSince EXCEPT ![s][o.direction] = HeldAfter(@, o, at)]
      /\ seen' = seen \cup {id} /\ claimed' = claimed
  BY DEF Apply, SeenAfter
<1> HIDE DEF at, t, commit
<1>3. /\ DrainedTracker(at) \in [Subjects -> Tracker]
      /\ DrainedEpisodes(at) \in [Subjects -> Seq(Episode)]
      /\ journal \o Drained(at) \in Seq(Transition)
      /\ OpenedBy(t, o) \in Tracker
      /\ Observed(t, o, at) \in Tracker
  BY <1>1, DrainedTypeOK, DrainedType, ConcatProperties, OpenedType, ObservedType DEF TypeOK
<1>4. tracker' \in [Subjects -> Tracker]
  BY <1>1, <1>2, <1>3
<1>5. episodes' \in [Subjects -> Seq(Episode)]
  <2>1. DrainedEpisodes(at)[s] \in Seq(Episode)
    BY <1>1, <1>3
  <2>2. EpisodesAfter(DrainedEpisodes(at)[s], OpenedBy(t, o), commit) \in Seq(Episode)
    BY <1>1, <1>3, <2>1, EpisodesAfterType
  <2>3. QED BY <1>1, <1>2, <1>3, <2>2
<1>6. journal' \in Seq(Transition)
  BY <1>1, <1>2, <1>3, TransitionType, AppendProperties
<1>7. heldSince' \in [Subjects -> [Directions -> Nat]]
  <2>1. heldSince \in [Subjects -> [Directions -> Nat]]
    BY DEF TypeOK
  <2>2. HeldAfter(heldSince[s][o.direction], o, at) \in Nat
    BY <1>1, <2>1 DEF HeldAfter, Unset
  <2>3. QED BY <1>1, <1>2, <2>1, <2>2
<1>8. QED BY <1>1, <1>2, <1>4, <1>5, <1>6, <1>7 DEF TypeOK

LEMMA FireTypeOK ==
    ASSUME TypeOK, NEW timer \in Timer, NEW now \in Nat, Fire(timer, now)
    PROVE  TypeOK'
<1> DEFINE at == Later(now, logical)
           s == timer.subject
<1>1. timer \in Timer /\ now \in Nat /\ logical \in Nat
  BY DEF TypeOK
<1>2. s \in Subjects /\ timer.dueAt \in Nat
  BY <1>1 DEF Timer
<1>3. at \in Nat /\ logical' = at
  BY <1>1, LaterType DEF Fire
<1>4. CASE ~Accepted(timer, at)
  BY <1>3, <1>4 DEF Fire, TypeOK
<1>5. CASE Accepted(timer, at)
  <2>1. /\ tracker' = [tracker EXCEPT ![s] = Committed(@)]
        /\ episodes' = [episodes EXCEPT ![s] = EpisodesAfter(@, tracker[s], timer.dueAt)]
        /\ journal' = Append(journal, TransitionOf(s, tracker[s], timer.dueAt, at))
        /\ UNCHANGED <<seen, claimed, heldSince>>
    BY <1>5 DEF Fire
  <2>2. tracker[s] \in Tracker /\ episodes[s] \in Seq(Episode)
    BY <1>2 DEF TypeOK
  <2> HIDE DEF at, s
  <2>3. tracker' \in [Subjects -> Tracker]
    BY <2>1, <2>2, CommittedType DEF TypeOK
  <2>4. episodes' \in [Subjects -> Seq(Episode)]
    BY <1>2, <2>1, <2>2, EpisodesAfterType DEF TypeOK, s
  <2>5. journal' \in Seq(Transition)
    BY <1>2, <1>3, <2>1, <2>2, TransitionType, AppendProperties DEF TypeOK, s
  <2>6. QED BY <1>3, <2>1, <2>3, <2>4, <2>5 DEF TypeOK
<1>6. QED BY <1>4, <1>5

\* How a reducer can be used at all: any operation, at any time and with any arguments,
\* by whoever keeps timers.  The invariants hold of every use, those of Next among them.
Uses ==
    \/ \E now \in Nat : Advance(now)
    \/ \E o \in Observation, id \in ObservationIds : Apply(o, id)
    \/ \E s \in Subjects : Claim(s)
    \/ \E timer \in claimed : Drop(timer)
    \/ \E timer \in Timer, now \in Nat : Fire(timer, now)

LEMMA NextUses == TypeOK /\ [Next]_vars => [Uses]_vars
<1>1. TypeOK => claimed \subseteq Timer
  BY DEF TypeOK
<1>2. QED BY <1>1, InputsAssumption, InstantsAssumption DEF Next, Uses

LEMMA TimerType ==
    ASSUME TypeOK, NEW s \in Subjects
    PROVE  TimerOf(s) \in Timer
<1>1. tracker[s].attempt \in Nat /\ DueAt(tracker[s], Duration) \in Nat
  BY DueType DEF TypeOK, Tracker
<1>2. QED BY <1>1, DirectionType DEF TimerOf, Timer

LEMMA UseTypeOK == TypeOK /\ [Uses]_vars => TypeOK'
<1> SUFFICES ASSUME TypeOK, [Uses]_vars PROVE TypeOK'
  OBVIOUS
<1>1. CASE \E now \in Nat : Advance(now)
  BY <1>1, AdvanceTypeOK
<1>2. CASE \E o \in Observation, id \in ObservationIds : Apply(o, id)
  BY <1>2, ApplyTypeOK
<1>3. CASE \E s \in Subjects : Claim(s)
  BY <1>3, TimerType DEF Claim, TypeOK
<1>4. CASE \E timer \in claimed : Drop(timer)
  BY <1>4 DEF Drop, TypeOK
<1>5. CASE \E timer \in Timer, now \in Nat : Fire(timer, now)
  BY <1>5, FireTypeOK
<1>6. CASE UNCHANGED vars
  BY <1>6 DEF vars, TypeOK
<1>7. QED BY <1>1, <1>2, <1>3, <1>4, <1>5, <1>6 DEF Uses

\* The state of a reducer keeps the shape of its Go fields, for every configuration:
\* in particular the list Advance journals is always a sequence of transitions.
THEOREM TypeCorrect == Spec => []TypeOK
BY InitTypeOK, UseTypeOK, NextUses, PTL DEF Spec

-----------------------------------------------------------------------------
(* Episodes.  EpisodeInv is inductive.                                     *)

\* Firing what is due keeps every subject's invariant, at the new time.
LEMMA DrainedSubjectInv ==
    ASSUME EpisodeInv, NEW at \in Nat, logical <= at, NEW s \in Subjects
    PROVE  SubjectInv(DrainedTracker(at)[s], DrainedEpisodes(at)[s], at)
<1> DEFINE t == tracker[s]
           eps == episodes[s]
           due == DueAt(t, Duration)
<1>1. t \in Tracker /\ eps \in Seq(Episode) /\ logical \in Nat /\ due \in Nat
  BY DueType DEF EpisodeInv, TypeOK
<1>2. SubjectCore(t, eps, logical) /\ DueAfterLastChange(t, eps)
  BY DEF EpisodeInv, SubjectInv, SubjectCore
<1>3. SubjectCore(t, eps, at)
  BY <1>1, <1>2, CoreInTime
<1>4. CASE s \in DueBy(at)
  <2>1. Pending(t) /\ due <= at /\ LastChange(eps) <= due
    BY <1>2, <1>4 DEF DueBy, DueAfterLastChange
  <2>2. /\ SubjectCore(Committed(t), EpisodesAfter(eps, t, due), at)
        /\ ~Pending(Committed(t))
    BY <1>1, <1>3, <2>1, CoreCommits
  <2>3. /\ DrainedTracker(at)[s] = Committed(t)
        /\ DrainedEpisodes(at)[s] = EpisodesAfter(eps, t, due)
    BY <1>4 DEF DrainedTracker, DrainedEpisodes
  <2>4. QED BY <2>2, <2>3 DEF SubjectInv, SubjectCore, DueAfterLastChange
<1>5. CASE s \notin DueBy(at)
  <2>1. DrainedTracker(at)[s] = t /\ DrainedEpisodes(at)[s] = eps
    BY <1>5 DEF DrainedTracker, DrainedEpisodes
  <2>2. QED BY <1>2, <1>3, <2>1 DEF SubjectInv, SubjectCore
<1>6. QED BY <1>4, <1>5

LEMMA InitEpisodeInv == Init => EpisodeInv
<1> SUFFICES ASSUME Init PROVE EpisodeInv
  OBVIOUS
<1>1. TypeOK
  BY InitTypeOK
<1>2. SubjectInv(NewTracker, <<>>, Unset)
  BY DEF SubjectInv, Matches, OpenIn, InOrder, IdsIncrease, DueAfterLastChange, Pending,
         NewTracker, NoEpisode
<1>3. QED BY <1>1, <1>2 DEF Init, EpisodeInv

\* The subject an observation is about.
LEMMA ObservedSubjectInv ==
    ASSUME NEW t \in Tracker, NEW eps \in Seq(Episode), NEW o \in Observation, NEW at \in Nat,
           SubjectInv(t, eps, at)
    PROVE  SubjectInv(Observed(t, o, at),
                      IF CommitsAtOnce(t, o, at)
                        THEN EpisodesAfter(eps, OpenedBy(t, o), CommitAt(OpenedBy(t, o), at))
                        ELSE eps,
                      at)
<1> DEFINE u == OpenedBy(t, o)
<1>1. SubjectCore(t, eps, at) /\ LastChange(eps) \in Nat /\ LastChange(eps) <= at
  BY LastChangeInPast DEF SubjectInv, SubjectCore
<1>2. /\ u \in Tracker /\ o.direction \in Directions /\ DueAt(u, Duration) \in Nat
      /\ u.phase = PhaseFor(o.direction)
  BY OpenedType, DueType
<1>3. ASSUME Starts(t, o)
      PROVE  SubjectCore(u, eps, at) /\ Pending(u)
  <2>1. t.phase = RestingBefore(o.direction)
    BY <1>3 DEF Starts
  <2>2. OnsetOf(Effective(o), o.trueSince) \in Nat
    <3>1. o.effectiveAt \in Nat /\ o.processingAt \in Nat /\ o.trueSince \in Nat
      BY DEF Observation
    <3>2. QED BY <3>1 DEF OnsetOf, Effective, Processing
  <2>3. QED BY <1>1, <1>2, <2>1, <2>2, CoreStarts DEF OpenedBy
<1> HIDE DEF u
<1>4. CASE CommitsAtOnce(t, o, at)
  <2>1. Starts(t, o) /\ DueAt(u, Duration) <= at
    BY <1>4 DEF CommitsAtOnce, QualifiesAtOnce, u
  <2>2. CommitAt(u, at) = at
    BY <1>2, <2>1 DEF CommitAt, Later
  <2>3. SubjectCore(Committed(u), EpisodesAfter(eps, u, at), at) /\ ~Pending(Committed(u))
    BY <1>1, <1>2, <1>3, <2>1, CoreCommits
  <2>4. Observed(t, o, at) = Committed(u)
    BY <1>4 DEF Observed, u
  <2>5. SubjectInv(Committed(u), EpisodesAfter(eps, u, at), at)
    BY <2>3 DEF SubjectInv, SubjectCore, DueAfterLastChange
  <2>6. QED BY <1>4, <2>2, <2>4, <2>5 DEF u
<1>5. CASE ~CommitsAtOnce(t, o, at) /\ Starts(t, o)
  <2>1. DueAt(u, Duration) > at
    BY <1>2, <1>5 DEF CommitsAtOnce, QualifiesAtOnce, u
  <2>2. DueAfterLastChange(u, eps)
    BY <1>1, <1>2, <2>1 DEF DueAfterLastChange
  <2>3. Observed(t, o, at) = u
    BY <1>5 DEF Observed, u
  <2>4. SubjectInv(u, eps, at)
    BY <1>3, <1>5, <2>2 DEF SubjectInv, SubjectCore
  <2>5. QED BY <1>5, <2>3, <2>4
<1>6. CASE ~Starts(t, o) /\ Interrupts(t, o)
  <2>1. Pending(t)
    BY <1>2, <1>6 DEF Interrupts, PhaseFor, Pending
  <2>2. SubjectCore(Cancelled(t), eps, at) /\ ~Pending(Cancelled(t))
    BY <1>1, <2>1, CoreCancels
  <2>3. Observed(t, o, at) = Cancelled(t) /\ ~CommitsAtOnce(t, o, at)
    BY <1>6 DEF Observed, CommitsAtOnce
  <2>4. SubjectInv(Cancelled(t), eps, at)
    BY <2>2 DEF SubjectInv, SubjectCore, DueAfterLastChange
  <2>5. QED BY <2>3, <2>4
<1>7. CASE ~Starts(t, o) /\ ~Interrupts(t, o)
  BY <1>7 DEF Observed, CommitsAtOnce
<1>8. QED BY <1>4, <1>5, <1>6, <1>7

LEMMA ApplyEpisodeInv ==
    ASSUME EpisodeInv, NEW o \in Observation, NEW id \in ObservationIds, Apply(o, id)
    PROVE  EpisodeInv'
<1> DEFINE at == Later(Processing(o), logical)
           s == o.subject
           t == DrainedTracker(at)[s]
           commit == CommitAt(OpenedBy(t, o), at)
<1>1. /\ at \in Nat /\ logical <= at /\ logical' = at /\ t \in Tracker /\ s \in Subjects
      /\ TypeOK /\ TypeOK'
  BY ApplyTime, OpenedType, ApplyTypeOK DEF Apply, EpisodeInv
<1>2. /\ tracker' = [DrainedTracker(at) EXCEPT ![s] = Observed(t, o, at)]
      /\ episodes' = IF CommitsAtOnce(t, o, at)
                       THEN [DrainedEpisodes(at) EXCEPT ![s] =
                               EpisodesAfter(@, OpenedBy(t, o), commit)]
                       ELSE DrainedEpisodes(at)
  BY DEF Apply
<1> HIDE DEF at, s, t, commit
<1>3. /\ DrainedTracker(at) \in [Subjects -> Tracker]
      /\ DrainedEpisodes(at) \in [Subjects -> Seq(Episode)]
  BY <1>1, DrainedTypeOK
<1>4. SubjectInv(tracker'[s], episodes'[s], at)
  <2>1. SubjectInv(t, DrainedEpisodes(at)[s], at)
    BY <1>1, DrainedSubjectInv DEF t
  <2>2. /\ tracker'[s] = Observed(t, o, at)
        /\ episodes'[s] = IF CommitsAtOnce(t, o, at)
                            THEN EpisodesAfter(DrainedEpisodes(at)[s], OpenedBy(t, o), commit)
                            ELSE DrainedEpisodes(at)[s]
    BY <1>1, <1>2, <1>3
  <2>3. QED BY <1>1, <1>3, <2>1, <2>2, ObservedSubjectInv DEF commit
<1>5. ASSUME NEW r \in Subjects, r # s
      PROVE  SubjectInv(tracker'[r], episodes'[r], at)
  <2>1. tracker'[r] = DrainedTracker(at)[r] /\ episodes'[r] = DrainedEpisodes(at)[r]
    BY <1>2, <1>3, <1>5
  <2>2. QED BY <1>1, <2>1, DrainedSubjectInv
<1>6. QED BY <1>1, <1>4, <1>5 DEF EpisodeInv, SubjectInv, Matches, OpenIn, InOrder, IdsIncrease,
                                 DueAfterLastChange

LEMMA FireEpisodeInv ==
    ASSUME EpisodeInv, NEW timer \in Timer, NEW now \in Nat, Fire(timer, now)
    PROVE  EpisodeInv'
<1> DEFINE at == Later(now, logical)
           s == timer.subject
<1>1. /\ timer \in Timer /\ now \in Nat /\ logical \in Nat /\ TypeOK /\ TypeOK'
  BY FireTypeOK DEF TypeOK, EpisodeInv
<1>2. at \in Nat /\ logical <= at /\ logical' = at
  BY <1>1, LaterType DEF Fire
<1>3. s \in Subjects
  BY <1>1 DEF Timer
<1> HIDE DEF at
<1>4. ASSUME NEW r \in Subjects
      PROVE  /\ tracker[r] \in Tracker /\ episodes[r] \in Seq(Episode)
             /\ SubjectCore(tracker[r], episodes[r], at)
             /\ SubjectInv(tracker[r], episodes[r], at)
  <2>1. /\ tracker[r] \in Tracker /\ episodes[r] \in Seq(Episode)
        /\ SubjectInv(tracker[r], episodes[r], logical)
    BY DEF EpisodeInv, TypeOK
  <2>2. SubjectCore(tracker[r], episodes[r], at)
    BY <1>1, <1>2, <2>1, CoreInTime DEF SubjectInv, SubjectCore
  <2>3. QED BY <2>1, <2>2 DEF SubjectInv, SubjectCore
<1>5. \A r \in Subjects : SubjectInv(tracker'[r], episodes'[r], at)
  <2>1. CASE ~Accepted(timer, at)
    BY <1>4, <2>1 DEF Fire, at
  <2>2. CASE Accepted(timer, at)
    <3>1. /\ tracker' = [tracker EXCEPT ![s] = Committed(@)]
          /\ episodes' = [episodes EXCEPT ![s] = EpisodesAfter(@, tracker[s], timer.dueAt)]
      BY <2>2 DEF Fire, at
    <3>2. /\ timer.dueAt = DueAt(tracker[s], Duration) /\ timer.dueAt <= at
          /\ tracker[s].phase = PhaseFor(timer.direction) /\ timer.dueAt \in Nat
      BY <1>1, <2>2 DEF Accepted, Timer
    <3>3. Pending(tracker[s])
      BY <3>2 DEF PhaseFor, Pending
    <3>4. LastChange(episodes[s]) <= timer.dueAt
      BY <1>3, <1>4, <3>2, <3>3 DEF SubjectInv, DueAfterLastChange
    <3>5. /\ SubjectCore(Committed(tracker[s]),
                         EpisodesAfter(episodes[s], tracker[s], timer.dueAt), at)
          /\ ~Pending(Committed(tracker[s]))
      BY <1>2, <1>3, <1>4, <3>2, <3>3, <3>4, CoreCommits
    <3>6. SubjectInv(Committed(tracker[s]),
                     EpisodesAfter(episodes[s], tracker[s], timer.dueAt), at)
      BY <3>5 DEF SubjectInv, SubjectCore, DueAfterLastChange
    <3>7. ASSUME NEW r \in Subjects
          PROVE  SubjectInv(tracker'[r], episodes'[r], at)
      <4>1. tracker \in [Subjects -> Tracker] /\ episodes \in [Subjects -> Seq(Episode)]
        BY <1>1 DEF TypeOK
      <4>2. CASE r = s
        BY <3>1, <3>6, <4>1, <4>2
      <4>3. CASE r # s
        BY <1>4, <3>1, <4>1, <4>3
      <4>4. QED BY <4>2, <4>3
    <3>8. QED BY <3>7
  <2>3. QED BY <2>1, <2>2
<1>6. QED BY <1>1, <1>2, <1>5 DEF EpisodeInv, SubjectInv, Matches, OpenIn, InOrder, IdsIncrease,
                                 DueAfterLastChange

LEMMA UseEpisodeInv == EpisodeInv /\ [Uses]_vars => EpisodeInv'
<1> SUFFICES ASSUME EpisodeInv, [Uses]_vars PROVE EpisodeInv'
  OBVIOUS
<1> USE DEF SubjectInv, Matches, OpenIn, InOrder, IdsIncrease, DueAfterLastChange
<1>1. TypeOK /\ TypeOK'
  BY UseTypeOK DEF EpisodeInv
<1>2. ASSUME NEW now \in Nat, Advance(now)
      PROVE  EpisodeInv'
  <2>1. now \in Nat /\ logical \in Nat
    BY <1>1 DEF TypeOK
  <2>2. logical' \in Nat /\ logical <= logical'
    BY <1>2, <2>1, LaterType DEF Advance
  <2>3. tracker' = DrainedTracker(logical') /\ episodes' = DrainedEpisodes(logical')
    BY <1>2 DEF Advance
  <2>4. \A s \in Subjects : SubjectInv(tracker'[s], episodes'[s], logical')
    BY <2>2, <2>3, DrainedSubjectInv
  <2>5. QED BY <1>1, <2>4 DEF EpisodeInv
<1>3. CASE \E o \in Observation, id \in ObservationIds : Apply(o, id)
  BY <1>3, ApplyEpisodeInv
<1>4. CASE \E s \in Subjects : Claim(s)
  BY <1>1, <1>4 DEF Claim, EpisodeInv
<1>5. CASE \E timer \in claimed : Drop(timer)
  BY <1>1, <1>5 DEF Drop, EpisodeInv
<1>6. CASE \E timer \in Timer, now \in Nat : Fire(timer, now)
  BY <1>6, FireEpisodeInv
<1>7. CASE UNCHANGED vars
  BY <1>1, <1>7 DEF vars, EpisodeInv
<1>8. QED BY <1>2, <1>3, <1>4, <1>5, <1>6, <1>7 DEF Uses

\* No order of observations, clock advances and stale, repeated or out-of-order timer
\* callbacks opens a second episode over an open one or strands an open episode.
THEOREM EpisodesMatchPhases == Spec => []EpisodeMatchesPhase
<1>1. EpisodeInv => EpisodeMatchesPhase
  BY DEF EpisodeInv, SubjectInv, EpisodeMatchesPhase
<1>2. QED BY <1>1, InitEpisodeInv, UseEpisodeInv, NextUses, TypeCorrect, PTL DEF Spec

\* The episodes of a subject are disjoint, ordered intervals in the past, even when late
\* evidence or an onset in the past backdates the intervals that open and close them.
THEOREM EpisodesAreDisjoint == Spec => []EpisodesDoNotOverlap
<1>1. EpisodeInv => EpisodesDoNotOverlap
  BY DEF EpisodeInv, SubjectInv, EpisodesDoNotOverlap
<1>2. QED BY <1>1, InitEpisodeInv, UseEpisodeInv, NextUses, TypeCorrect, PTL DEF Spec

-----------------------------------------------------------------------------
(* Evidence.                                                               *)

\* A tracker that Advance leaves pending is the one it found.
LEMMA DrainedPending ==
    ASSUME TypeOK, NEW now \in Nat, NEW s \in Subjects, Pending(DrainedTracker(now)[s])
    PROVE  DrainedTracker(now)[s] = tracker[s] /\ DueAt(tracker[s], Duration) > now
<1>1. tracker[s] \in Tracker /\ DueAt(tracker[s], Duration) \in Nat
  BY DueType DEF TypeOK
<1>2. ~Pending(Committed(tracker[s]))
  BY <1>1, CommittedType DEF Pending, RestingAfter
<1>3. QED BY <1>1, <1>2 DEF DrainedTracker, DueBy

LEMMA InitHeld == Init => HeldInv
BY InitTypeOK DEF Init, HeldInv, PendingIsHeld, Pending, NewTracker

LEMMA ApplyHeld ==
    ASSUME HeldInv, NEW o \in Observation, NEW id \in ObservationIds, Apply(o, id)
    PROVE  PendingIsHeld'
<1> DEFINE at == Later(Processing(o), logical)
           s == o.subject
           t == DrainedTracker(at)[s]
<1>1. /\ at \in Nat /\ at # Unset /\ t \in Tracker /\ s \in Subjects
      /\ o.direction \in Directions /\ TypeOK
      /\ DrainedTracker(at) \in [Subjects -> Tracker]
  BY ApplyTime, OpenedType, DrainedTypeOK DEF Apply, HeldInv
<1>2. /\ tracker' = [DrainedTracker(at) EXCEPT ![s] = Observed(t, o, at)]
      /\ heldSince' = [heldSince EXCEPT ![s][o.direction] = HeldAfter(@, o, at)]
  BY DEF Apply
<1>3. heldSince \in [Subjects -> [Directions -> Nat]]
  BY <1>1 DEF TypeOK
<1> HIDE DEF at, s, t
<1>4. /\ heldSince'[s][o.direction] = HeldAfter(heldSince[s][o.direction], o, at)
      /\ \A d \in Directions : d # o.direction => heldSince'[s][d] = heldSince[s][d]
      /\ \A r \in Subjects : r # s => heldSince'[r] = heldSince[r]
  BY <1>1, <1>2, <1>3
<1>5. ASSUME NEW r \in Subjects, r # s, Pending(tracker'[r])
      PROVE  heldSince'[r][DirectionFor(tracker'[r].phase)] # Unset
  <2>1. tracker'[r] = DrainedTracker(at)[r]
    BY <1>1, <1>2, <1>5
  <2>2. tracker'[r] = tracker[r]
    BY <1>1, <1>5, <2>1, DrainedPending
  <2>3. QED BY <1>4, <1>5, <2>2 DEF HeldInv, PendingIsHeld
<1>6. ASSUME Pending(tracker'[s])
      PROVE  heldSince'[s][DirectionFor(tracker'[s].phase)] # Unset
  <2>1. tracker'[s] = Observed(t, o, at)
    BY <1>1, <1>2
  <2>2. CASE Starts(t, o)
    <3>1. OpenedBy(t, o) \in Tracker /\ OpenedBy(t, o).phase = PhaseFor(o.direction)
      BY <1>1, OpenedType
    <3>2. ~Pending(Committed(OpenedBy(t, o)))
      BY <3>1, CommittedType DEF Pending, RestingAfter
    <3>3. tracker'[s] = OpenedBy(t, o)
      BY <1>6, <2>1, <2>2, <3>2 DEF Observed
    <3>4. DirectionFor(tracker'[s].phase) = o.direction
      BY <1>1, <3>1, <3>3 DEF DirectionFor, PhaseFor, Directions
    <3>5. o.result = "true"
      BY <2>2 DEF Starts
    <3>6. QED BY <1>1, <1>4, <3>4, <3>5 DEF HeldAfter
  <2>3. CASE ~Starts(t, o)
    <3>1. ~Interrupts(t, o) /\ tracker'[s] = t
      <4>1. Interrupts(t, o) => ~Pending(Cancelled(t))
        BY <1>1, CancelledType DEF Pending, RestingBefore
      <4>2. QED BY <1>6, <2>1, <2>3, <4>1 DEF Observed, CommitsAtOnce
    <3>2. t = tracker[s]
      BY <1>1, <1>6, <3>1, DrainedPending DEF t
    <3>3. heldSince[s][DirectionFor(t.phase)] # Unset
      BY <1>1, <1>6, <3>1, <3>2 DEF HeldInv, PendingIsHeld
    <3>4. CASE DirectionFor(t.phase) # o.direction
      BY <1>4, <3>1, <3>3, <3>4, DirectionType
    <3>5. CASE DirectionFor(t.phase) = o.direction
      <4>1. t.phase = PhaseFor(o.direction)
        BY <1>6, <3>1, <3>5 DEF Pending, DirectionFor, PhaseFor
      <4>2. o.result = "true"
        BY <3>1, <4>1 DEF Interrupts
      <4>3. QED BY <1>1, <1>4, <3>1, <3>3, <3>5, <4>2 DEF HeldAfter
    <3>6. QED BY <3>4, <3>5
  <2>4. QED BY <2>2, <2>3
<1>7. QED BY <1>5, <1>6 DEF PendingIsHeld

LEMMA UseHeld == HeldInv /\ [Uses]_vars => HeldInv'
<1> SUFFICES ASSUME HeldInv, [Uses]_vars PROVE HeldInv'
  OBVIOUS
<1>1. TypeOK /\ TypeOK' /\ PendingIsHeld
  BY UseTypeOK DEF HeldInv
<1> SUFFICES PendingIsHeld'
  BY <1>1 DEF HeldInv
<1>2. ASSUME NEW now \in Nat, Advance(now)
      PROVE  PendingIsHeld'
  <2>1. logical' \in Nat /\ tracker' = DrainedTracker(logical') /\ heldSince' = heldSince
    BY <1>1, <1>2 DEF Advance, TypeOK
  <2>2. QED BY <1>1, <2>1, DrainedPending DEF PendingIsHeld
<1>3. CASE \E o \in Observation, id \in ObservationIds : Apply(o, id)
  BY <1>3, ApplyHeld
<1>4. CASE \E s \in Subjects : Claim(s)
  BY <1>1, <1>4 DEF Claim, PendingIsHeld
<1>5. CASE \E timer \in claimed : Drop(timer)
  BY <1>1, <1>5 DEF Drop, PendingIsHeld
<1>6. ASSUME NEW timer \in Timer, NEW now \in Nat, Fire(timer, now)
      PROVE  PendingIsHeld'
  <2>1. CASE UNCHANGED tracker
    BY <1>1, <1>6, <2>1 DEF Fire, PendingIsHeld
  <2>2. CASE tracker' = [tracker EXCEPT ![timer.subject] = Committed(@)]
    <3>1. \A s \in Subjects : tracker[s] \in Tracker /\ ~Pending(Committed(tracker[s]))
      BY <1>1, CommittedType DEF TypeOK, Pending, RestingAfter
    <3>2. \A s \in Subjects : Pending(tracker'[s]) => tracker'[s] = tracker[s]
      BY <1>1, <2>2, <3>1 DEF TypeOK
    <3>3. QED BY <1>1, <1>6, <3>2 DEF Fire, PendingIsHeld
  <2>3. QED BY <1>6, <2>1, <2>2 DEF Fire
<1>7. CASE UNCHANGED vars
  BY <1>1, <1>7 DEF vars, PendingIsHeld
<1>8. QED BY <1>1, <1>2, <1>3, <1>4, <1>5, <1>6, <1>7 DEF Uses, HeldInv

\* An interval can only be pending over evidence that has been true, in its direction,
\* ever since it opened: a False or an Unknown evaluation always stops it.
THEOREM PendingIntervalsAreHeld == Spec => []PendingIsHeld
<1>1. HeldInv => PendingIsHeld
  BY DEF HeldInv
<1>2. QED BY <1>1, InitHeld, UseHeld, NextUses, TypeCorrect, PTL DEF Spec

-----------------------------------------------------------------------------
(* Attempts: a pending interval commits at most once.                      *)

\* The list Advance journals names each subject once, with its tracker's attempt.
LEMMA DrainedAttempts ==
    ASSUME TypeOK, NEW now \in Nat
    PROVE  /\ \A i \in 1 .. Len(Drained(now)) :
                /\ Drained(now)[i].subject \in DueBy(now)
                /\ Drained(now)[i].attempt = tracker[Drained(now)[i].subject].attempt
           /\ \A i, j \in 1 .. Len(Drained(now)) :
                Drained(now)[i].subject = Drained(now)[j].subject => i = j
<1> DEFINE q == InTimerOrder(DueBy(now))
           n == Cardinality(DueBy(now))
<1>1. /\ n \in Nat /\ Len(Drained(now)) = n
      /\ \A i \in 1 .. n :
           /\ q[i] \in DueBy(now)
           /\ Drained(now)[i] = TransitionOf(q[i], tracker[q[i]],
                                             DueAt(tracker[q[i]], Duration), now)
  BY DrainedType
<1>2. \A i, j \in 1 .. n : i < j => Before(q[i], q[j])
  BY SubjectsFinite, InTimerOrderEnumerates
<1> HIDE DEF q, n
<1>3. ASSUME NEW i \in 1 .. n
      PROVE  /\ Drained(now)[i].subject = q[i] /\ q[i] \in DueBy(now)
             /\ Drained(now)[i].attempt = tracker[q[i]].attempt
  <2>1. q[i] \in Subjects /\ tracker[q[i]] \in Tracker
        /\ DueAt(tracker[q[i]], Duration) \in Nat
    BY <1>1, DueType DEF DueBy, TypeOK
  <2>2. QED BY <1>1, <2>1, TransitionType
<1>4. \A a \in Subjects : ~Before(a, a)
  BY DueType, SubjectsAssumption DEF Before, TypeOK
<1>5. ASSUME NEW i \in 1 .. n, NEW j \in 1 .. n, q[i] = q[j], i # j
      PROVE  FALSE
  <2>1. q[i] \in Subjects
    BY <1>1 DEF DueBy
  <2>2. Before(q[i], q[j]) \/ Before(q[j], q[i])
    BY <1>1, <1>2, <1>5
  <2>3. QED BY <1>4, <1>5, <2>1, <2>2
<1>6. QED BY <1>1, <1>3, <1>5

\* What OneCommitPerAttempt and AttemptsUsed say of a journal j and trackers trk.
UsedOnce(j, trk) ==
    /\ \A a, b \in 1 .. Len(j) :
         j[a].subject = j[b].subject /\ j[a].attempt = j[b].attempt => a = b
    /\ \A a \in 1 .. Len(j) :
         /\ j[a].attempt <= trk[j[a].subject].attempt
         /\ Pending(trk[j[a].subject]) => j[a].attempt < trk[j[a].subject].attempt

\* Journalling what is due uses up the attempts of the trackers that commit.
LEMMA DrainedAttemptsUsed ==
    ASSUME AttemptInv, NEW at \in Nat
    PROVE  LET j == journal \o Drained(at) IN
           j \in Seq(Transition) /\ UsedOnce(j, DrainedTracker(at))
<1> DEFINE j == journal \o Drained(at)
           m == Len(journal)
           D == Drained(at)
<1>1. /\ TypeOK /\ journal \in Seq(Transition) /\ m \in Nat /\ DOMAIN journal = 1 .. m
      /\ \A a \in 1 .. m : journal[a].subject \in Subjects /\ journal[a].attempt \in Nat
  <2>1. journal \in Seq(Transition) /\ TypeOK
    BY DEF AttemptInv, TypeOK
  <2>2. \A x \in Transition : x.subject \in Subjects /\ x.attempt \in Nat
    BY DEF Transition
  <2>3. QED BY <2>1, <2>2, LenProperties, ElementOfSeq
<1>2. /\ D \in Seq(Transition) /\ Len(D) \in Nat
      /\ \A i \in 1 .. Len(D) : /\ D[i].subject \in DueBy(at)
                                /\ D[i].attempt = tracker[D[i].subject].attempt
      /\ \A i, k \in 1 .. Len(D) : D[i].subject = D[k].subject => i = k
  BY <1>1, DrainedType, DrainedAttempts
<1>3. /\ j \in Seq(Transition) /\ Len(j) = m + Len(D)
      /\ \A a \in 1 .. m + Len(D) : j[a] = IF a <= m THEN journal[a] ELSE D[a - m]
  BY <1>1, <1>2, ConcatProperties
<1> HIDE DEF j, D, m
<1>4. \A s \in Subjects :
        /\ tracker[s] \in Tracker /\ tracker[s].attempt \in Nat
        /\ DrainedTracker(at)[s].attempt = tracker[s].attempt
        /\ Pending(DrainedTracker(at)[s]) => s \notin DueBy(at) /\ Pending(tracker[s])
  <2>1. \A s \in Subjects : tracker[s] \in Tracker /\ tracker[s].attempt \in Nat
    BY <1>1 DEF TypeOK, Tracker
  <2>2. \A s \in Subjects : Committed(tracker[s]).attempt = tracker[s].attempt
                            /\ ~Pending(Committed(tracker[s]))
    BY <2>1, CommittedType DEF Pending, RestingAfter
  <2>3. QED BY <2>1, <2>2 DEF DrainedTracker
<1>5. \A a \in 1 .. m :
        /\ journal[a].attempt <= tracker[journal[a].subject].attempt
        /\ Pending(tracker[journal[a].subject]) =>
             journal[a].attempt < tracker[journal[a].subject].attempt
  BY <1>1 DEF AttemptInv, AttemptsUsed
<1>6. \A a, b \in 1 .. m :
        journal[a].subject = journal[b].subject /\ journal[a].attempt = journal[b].attempt
          => a = b
  BY <1>1 DEF AttemptInv, OneCommitPerAttempt
<1>7. \A s \in DueBy(at) : s \in Subjects /\ Pending(tracker[s])
  BY DEF DueBy
\* An old entry never shares its attempt with a timer that is due.
<1>8. ASSUME NEW a \in 1 .. m, NEW i \in 1 .. Len(D), journal[a].subject = D[i].subject
      PROVE  journal[a].attempt < D[i].attempt
  BY <1>2, <1>5, <1>7, <1>8
<1>9. ASSUME NEW a \in 1 .. Len(j), NEW b \in 1 .. Len(j),
             j[a].subject = j[b].subject, j[a].attempt = j[b].attempt
      PROVE  a = b
  <2>1. CASE a <= m /\ b <= m
    <3>1. a \in 1 .. m /\ b \in 1 .. m /\ j[a] = journal[a] /\ j[b] = journal[b]
      BY <1>1, <1>2, <1>3, <2>1
    <3>2. QED BY <1>6, <1>9, <3>1
  <2>2. CASE a > m /\ b > m
    <3>1. a - m \in 1 .. Len(D) /\ b - m \in 1 .. Len(D) /\ j[a] = D[a - m] /\ j[b] = D[b - m]
      BY <1>1, <1>2, <1>3, <2>2
    <3>2. a - m = b - m
      BY <1>2, <1>9, <3>1
    <3>3. QED BY <1>1, <1>2, <1>3, <3>2
  <2>3. CASE a <= m /\ b > m
    <3>1. a \in 1 .. m /\ b - m \in 1 .. Len(D) /\ j[a] = journal[a] /\ j[b] = D[b - m]
      BY <1>1, <1>2, <1>3, <2>3
    <3>2. journal[a].attempt \in Nat /\ journal[a].attempt < D[b - m].attempt
      BY <1>1, <1>8, <1>9, <3>1
    <3>3. QED BY <1>9, <3>1, <3>2
  <2>4. CASE a > m /\ b <= m
    <3>1. b \in 1 .. m /\ a - m \in 1 .. Len(D) /\ j[b] = journal[b] /\ j[a] = D[a - m]
      BY <1>1, <1>2, <1>3, <2>4
    <3>2. journal[b].attempt \in Nat /\ journal[b].attempt < D[a - m].attempt
      BY <1>1, <1>8, <1>9, <3>1
    <3>3. QED BY <1>9, <3>1, <3>2
  <2>5. QED BY <1>1, <1>2, <1>3, <2>1, <2>2, <2>3, <2>4
<1>10. ASSUME NEW a \in 1 .. Len(j)
       PROVE  /\ j[a].attempt <= DrainedTracker(at)[j[a].subject].attempt
              /\ Pending(DrainedTracker(at)[j[a].subject]) =>
                   j[a].attempt < DrainedTracker(at)[j[a].subject].attempt
  <2>1. CASE a <= m
    <3>1. a \in 1 .. m /\ j[a] = journal[a]
      BY <1>1, <1>2, <1>3, <2>1
    <3>2. QED BY <1>1, <1>4, <1>5, <3>1
  <2>2. CASE a > m
    <3>1. a - m \in 1 .. Len(D) /\ j[a] = D[a - m]
      BY <1>1, <1>2, <1>3, <2>2
    <3>2. j[a].subject \in DueBy(at) /\ j[a].attempt = tracker[j[a].subject].attempt
      BY <1>2, <3>1
    <3>3. QED BY <1>4, <1>7, <3>2
  <2>3. QED BY <1>1, <1>2, <1>3, <2>1, <2>2
<1>11. QED BY <1>3, <1>9, <1>10 DEF j, UsedOnce

LEMMA UsedOnceIsAttemptInv ==
    ASSUME TypeOK
    PROVE  UsedOnce(journal, tracker) <=> OneCommitPerAttempt /\ AttemptsUsed
<1>1. DOMAIN journal = 1 .. Len(journal)
  BY LenProperties DEF TypeOK
<1>2. QED BY <1>1 DEF UsedOnce, OneCommitPerAttempt, AttemptsUsed

\* A tracker may move on, in attempts or out of pending, over an unchanged journal.
LEMMA UsedOnceUnderUpdate ==
    ASSUME NEW j \in Seq(Transition), NEW trk \in [Subjects -> Tracker],
           NEW s \in Subjects, NEW u \in Tracker, UsedOnce(j, trk),
           \/ u = trk[s]
           \/ u.attempt > trk[s].attempt
           \/ u.attempt = trk[s].attempt /\ ~Pending(u)
    PROVE  UsedOnce(j, [trk EXCEPT ![s] = u])
<1>1. \A a \in 1 .. Len(j) : j[a].subject \in Subjects /\ j[a].attempt \in Nat
  <2>1. \A x \in Transition : x.subject \in Subjects /\ x.attempt \in Nat
    BY DEF Transition
  <2>2. QED BY <2>1, ElementOfSeq
<1>2. u.attempt \in Nat /\ trk[s].attempt \in Nat
  BY DEF Tracker
<1>3. ASSUME NEW a \in 1 .. Len(j)
      PROVE  LET t == [trk EXCEPT ![s] = u][j[a].subject] IN
             j[a].attempt <= t.attempt /\ (Pending(t) => j[a].attempt < t.attempt)
  <2>1. /\ j[a].attempt <= trk[j[a].subject].attempt
        /\ Pending(trk[j[a].subject]) => j[a].attempt < trk[j[a].subject].attempt
    BY DEF UsedOnce
  <2>2. CASE j[a].subject = s
    BY <1>1, <1>2, <2>1, <2>2
  <2>3. CASE j[a].subject # s
    BY <1>1, <2>1, <2>3
  <2>4. QED BY <2>2, <2>3
<1>4. QED BY <1>3 DEF UsedOnce

\* A pending tracker's commit is journalled under an attempt not used before.
LEMMA UsedOnceUnderCommit ==
    ASSUME NEW j \in Seq(Transition), NEW trk \in [Subjects -> Tracker], NEW s \in Subjects,
           NEW x \in Transition, UsedOnce(j, trk), Pending(trk[s]),
           x.subject = s, x.attempt = trk[s].attempt
    PROVE  UsedOnce(Append(j, x), [trk EXCEPT ![s] = Committed(trk[s])])
<1> DEFINE u == Committed(trk[s])
           n == Len(j)
           k == Append(j, x)
<1>1. /\ u \in Tracker /\ u.attempt = trk[s].attempt /\ ~Pending(u) /\ u.attempt \in Nat
  BY CommittedType DEF Pending, RestingAfter, Tracker
<1>2. /\ n \in Nat /\ Len(k) = n + 1 /\ \A i \in 1 .. n : k[i] = j[i]
      /\ k[n + 1] = x
  BY AppendProperties, LenProperties
<1>3. \A i \in 1 .. n : j[i].attempt \in Nat /\ j[i].subject \in Subjects
  <2>1. \A y \in Transition : y.subject \in Subjects /\ y.attempt \in Nat
    BY DEF Transition
  <2>2. QED BY <2>1, ElementOfSeq
<1>4. UsedOnce(j, [trk EXCEPT ![s] = u])
  BY <1>1, UsedOnceUnderUpdate
<1>5. \A i \in 1 .. n : j[i].subject = s => j[i].attempt < x.attempt
  BY DEF UsedOnce
<1> HIDE DEF u, k, n
<1>6. ASSUME NEW a \in 1 .. n + 1, NEW b \in 1 .. n + 1,
             k[a].subject = k[b].subject, k[a].attempt = k[b].attempt
      PROVE  a = b
  <2>1. CASE a \in 1 .. n /\ b \in 1 .. n
    BY <1>2, <1>4, <1>6, <2>1 DEF UsedOnce, n
  <2>2. CASE a = n + 1 /\ b \in 1 .. n
    BY <1>1, <1>2, <1>3, <1>5, <1>6, <2>2
  <2>3. CASE b = n + 1 /\ a \in 1 .. n
    BY <1>1, <1>2, <1>3, <1>5, <1>6, <2>3
  <2>4. QED BY <1>2, <2>1, <2>2, <2>3
<1>7. ASSUME NEW a \in 1 .. n + 1
      PROVE  LET t == [trk EXCEPT ![s] = u][k[a].subject] IN
             k[a].attempt <= t.attempt /\ (Pending(t) => k[a].attempt < t.attempt)
  <2>1. CASE a \in 1 .. n
    BY <1>2, <1>4, <2>1 DEF UsedOnce, n
  <2>2. CASE a = n + 1
    BY <1>1, <1>2, <2>2
  <2>3. QED BY <1>2, <2>1, <2>2
<1>8. QED BY <1>2, <1>6, <1>7 DEF UsedOnce, u, k

LEMMA ApplyAttemptInv ==
    ASSUME AttemptInv, NEW o \in Observation, NEW id \in ObservationIds, Apply(o, id)
    PROVE  UsedOnce(journal', tracker')
<1> DEFINE at == Later(Processing(o), logical)
           s == o.subject
           t == DrainedTracker(at)[s]
           commit == CommitAt(OpenedBy(t, o), at)
           j == journal \o Drained(at)
           trk == DrainedTracker(at)
           opened == [trk EXCEPT ![s] = OpenedBy(t, o)]
<1>1. /\ at \in Nat /\ t \in Tracker /\ s \in Subjects /\ commit \in Nat /\ TypeOK
      /\ o.direction \in Directions
  BY ApplyTime, OpenedType DEF Apply, AttemptInv
<1>2. /\ tracker' = [trk EXCEPT ![s] = Observed(t, o, at)]
      /\ journal' = IF CommitsAtOnce(t, o, at)
                      THEN Append(j, TransitionOf(s, OpenedBy(t, o), commit, at))
                      ELSE j
  BY DEF Apply
<1>3. trk \in [Subjects -> Tracker] /\ j \in Seq(Transition) /\ UsedOnce(j, trk) /\ t = trk[s]
  BY <1>1, DrainedTypeOK, DrainedAttemptsUsed
<1>4. /\ OpenedBy(t, o) \in Tracker /\ OpenedBy(t, o).attempt = t.attempt + 1
      /\ Pending(OpenedBy(t, o)) /\ t.attempt \in Nat
  BY <1>1, OpenedType DEF PhaseFor, Pending, Tracker
<1> HIDE DEF at, s, t, commit, j, trk
<1>5. UsedOnce(j, opened) /\ opened \in [Subjects -> Tracker] /\ opened[s] = OpenedBy(t, o)
  <2> DEFINE u == OpenedBy(t, o)
  <2>1. u \in Tracker /\ u.attempt > trk[s].attempt
    BY <1>3, <1>4
  <2> HIDE DEF u
  <2>2. UsedOnce(j, [trk EXCEPT ![s] = u])
    BY <1>1, <1>3, <2>1, UsedOnceUnderUpdate
  <2>3. /\ [trk EXCEPT ![s] = u] \in [Subjects -> Tracker]
        /\ [trk EXCEPT ![s] = u][s] = u
    BY <1>1, <1>3, <2>1
  <2>4. QED BY <2>2, <2>3 DEF u
<1>6. CASE CommitsAtOnce(t, o, at)
  <2> DEFINE x == TransitionOf(s, OpenedBy(t, o), commit, at)
  <2>1. x \in Transition /\ x.subject = s /\ x.attempt = OpenedBy(t, o).attempt
    BY <1>1, <1>4, TransitionType
  <2> HIDE DEF x
  <2>2. UsedOnce(Append(j, x), [opened EXCEPT ![s] = Committed(opened[s])])
    BY <1>1, <1>3, <1>4, <1>5, <2>1, UsedOnceUnderCommit
  <2>3. [opened EXCEPT ![s] = Committed(opened[s])] = tracker'
    BY <1>1, <1>2, <1>3, <1>5, <1>6 DEF Observed
  <2>4. QED BY <1>2, <1>6, <2>2, <2>3 DEF x
<1>7. CASE ~CommitsAtOnce(t, o, at) /\ Starts(t, o)
  BY <1>2, <1>5, <1>7 DEF Observed
<1>8. CASE ~CommitsAtOnce(t, o, at) /\ ~Starts(t, o) /\ Interrupts(t, o)
  <2>1. Cancelled(t) \in Tracker /\ Cancelled(t).attempt = t.attempt + 1
    BY <1>1, CancelledType
  <2> DEFINE u == Cancelled(t)
  <2>2. u \in Tracker /\ u.attempt > trk[s].attempt
    BY <1>3, <1>4, <2>1
  <2> HIDE DEF u
  <2>3. UsedOnce(j, [trk EXCEPT ![s] = u])
    BY <1>1, <1>3, <2>2, UsedOnceUnderUpdate
  <2>4. UsedOnce(j, [trk EXCEPT ![s] = Cancelled(t)])
    BY <2>3 DEF u
  <2>5. QED BY <1>2, <1>8, <2>4 DEF Observed
<1>9. CASE ~CommitsAtOnce(t, o, at) /\ ~Starts(t, o) /\ ~Interrupts(t, o)
  <2>1. tracker' = trk
    BY <1>2, <1>3, <1>9 DEF Observed
  <2>2. QED BY <1>2, <1>3, <1>9, <2>1
<1>10. QED BY <1>6, <1>7, <1>8, <1>9

LEMMA UseAttemptInv == AttemptInv /\ [Uses]_vars => AttemptInv'
<1> SUFFICES ASSUME AttemptInv, [Uses]_vars PROVE AttemptInv'
  OBVIOUS
<1>1. TypeOK /\ TypeOK' /\ UsedOnce(journal, tracker)
  BY UseTypeOK, UsedOnceIsAttemptInv DEF AttemptInv
<1>2. DOMAIN journal' = 1 .. Len(journal')
  BY <1>1, LenProperties DEF TypeOK
<1> SUFFICES UsedOnce(journal', tracker')
  BY <1>1, <1>2 DEF AttemptInv, UsedOnce, OneCommitPerAttempt, AttemptsUsed
<1>3. ASSUME NEW now \in Nat, Advance(now)
      PROVE  UsedOnce(journal', tracker')
  <2>1. logical' \in Nat /\ tracker' = DrainedTracker(logical')
        /\ journal' = journal \o Drained(logical')
    BY <1>1, <1>3 DEF Advance, TypeOK
  <2>2. QED BY <2>1, DrainedAttemptsUsed
<1>4. CASE \E o \in Observation, id \in ObservationIds : Apply(o, id)
  BY <1>4, ApplyAttemptInv
<1>5. CASE \E s \in Subjects : Claim(s)
  BY <1>1, <1>5 DEF Claim
<1>6. CASE \E timer \in claimed : Drop(timer)
  BY <1>1, <1>6 DEF Drop
<1>7. ASSUME NEW timer \in Timer, NEW now \in Nat, Fire(timer, now)
      PROVE  UsedOnce(journal', tracker')
  <2> DEFINE at == Later(now, logical)
             s == timer.subject
  <2>1. timer \in Timer /\ s \in Subjects /\ timer.dueAt \in Nat /\ at \in Nat
    BY <1>1, LaterType DEF TypeOK, Timer
  <2>2. CASE ~Accepted(timer, at)
    BY <1>1, <1>7, <2>2 DEF Fire
  <2>3. CASE Accepted(timer, at)
    <3>1. /\ tracker' = [tracker EXCEPT ![s] = Committed(@)]
          /\ journal' = Append(journal, TransitionOf(s, tracker[s], timer.dueAt, at))
      BY <1>7, <2>3 DEF Fire
    <3>2. Pending(tracker[s]) /\ tracker[s] \in Tracker
      BY <1>1, <2>1, <2>3 DEF Accepted, Pending, PhaseFor, TypeOK
    <3>3. journal \in Seq(Transition) /\ tracker \in [Subjects -> Tracker]
      BY <1>1 DEF TypeOK
    <3> DEFINE x == TransitionOf(s, tracker[s], timer.dueAt, at)
    <3> HIDE DEF at, s
    <3>4. x \in Transition /\ x.subject = s /\ x.attempt = tracker[s].attempt
      BY <2>1, <3>2, TransitionType
    <3> HIDE DEF x
    <3>5. UsedOnce(Append(journal, x), [tracker EXCEPT ![s] = Committed(tracker[s])])
      BY <1>1, <2>1, <3>2, <3>3, <3>4, UsedOnceUnderCommit
    <3>6. QED BY <3>1, <3>5 DEF x
  <2>4. QED BY <2>2, <2>3
<1>8. CASE UNCHANGED vars
  BY <1>1, <1>8 DEF vars
<1>9. QED BY <1>3, <1>4, <1>5, <1>6, <1>7, <1>8 DEF Uses

LEMMA InitAttemptInv == Init => AttemptInv
BY InitTypeOK DEF Init, AttemptInv, OneCommitPerAttempt, AttemptsUsed

\* However often a callback is delivered, and whatever was cancelled and restarted in
\* the meantime, one pending interval is journalled at most once.
THEOREM AttemptsCommitOnce == Spec => []OneCommitPerAttempt
<1>1. AttemptInv => OneCommitPerAttempt
  BY DEF AttemptInv
<1>2. QED BY <1>1, InitAttemptInv, UseAttemptInv, NextUses, TypeCorrect, PTL DEF Spec

-----------------------------------------------------------------------------
(* A due interval is not lost.                                             *)

\* Advance journals every subject that is due, at its due time.
LEMMA DrainedJournalsDue ==
    ASSUME TypeOK, NEW now \in Nat, NEW s \in DueBy(now)
    PROVE  \E i \in Len(journal) + 1 .. Len(journal \o Drained(now)) :
             /\ (journal \o Drained(now))[i].subject = s
             /\ (journal \o Drained(now))[i].attempt = tracker[s].attempt
             /\ (journal \o Drained(now))[i].at = DueAt(tracker[s], Duration)
<1>1. journal \in Seq(Transition) /\ Len(journal) \in Nat /\ s \in Subjects
      /\ tracker[s] \in Tracker /\ DueAt(tracker[s], Duration) \in Nat
  BY LenProperties, DueType DEF TypeOK, DueBy
<1>2. PICK i \in 1 .. Cardinality(DueBy(now)) : InTimerOrder(DueBy(now))[i] = s
  BY SubjectsFinite, InTimerOrderEnumerates
<1>3. /\ Drained(now) \in Seq(Transition)
      /\ Len(Drained(now)) \in Nat /\ i \in 1 .. Len(Drained(now))
      /\ Drained(now)[i] = TransitionOf(s, tracker[s], DueAt(tracker[s], Duration), now)
  BY <1>2, DrainedType
<1>4. /\ Drained(now)[i].subject = s /\ Drained(now)[i].attempt = tracker[s].attempt
      /\ Drained(now)[i].at = DueAt(tracker[s], Duration)
  BY <1>1, <1>3, TransitionType
<1>5. /\ Len(journal \o Drained(now)) = Len(journal) + Len(Drained(now))
      /\ (journal \o Drained(now))[Len(journal) + i] = Drained(now)[i]
  BY <1>1, <1>3, ConcatProperties
<1>6. Len(journal) + i \in Len(journal) + 1 .. Len(journal \o Drained(now))
  BY <1>1, <1>3, <1>5
<1>7. QED BY <1>4, <1>5, <1>6

LEMMA StepKeepsDueIntervals ==
    ASSUME TypeOK, TypeOK', [Uses]_vars, NEW s \in Subjects
    PROVE  KeepsDueInterval(s)
<1>1. /\ journal \in Seq(Transition) /\ Len(journal) \in Nat
      /\ tracker[s] \in Tracker /\ DueAt(tracker[s], Duration) \in Nat
  BY LenProperties, DueType DEF TypeOK
<1>2. ASSUME NEW now \in Nat, Advance(now)
      PROVE  KeepsDueInterval(s)
  <2>1. /\ logical' \in Nat /\ tracker' = DrainedTracker(logical')
        /\ journal' = journal \o Drained(logical')
    BY <1>2 DEF Advance, TypeOK
  <2>2. CASE s \in DueBy(logical')
    BY <2>1, <2>2, DrainedJournalsDue DEF KeepsDueInterval, JournalledBetween
  <2>3. CASE s \notin DueBy(logical')
    BY <1>1, <2>1, <2>3 DEF KeepsDueInterval, DueBy, DrainedTracker
  <2>4. QED BY <2>2, <2>3
<1>3. ASSUME NEW o \in Observation, NEW id \in ObservationIds, Apply(o, id)
      PROVE  KeepsDueInterval(s)
  <2> DEFINE j == journal \o Drained(logical')
             u == o.subject
  <2>1. /\ logical' \in Nat /\ j \in Seq(Transition)
        /\ logical' = Later(Processing(o), logical)
        /\ \E x : journal' = j \/ journal' = Append(j, x)
        /\ s # o.subject => tracker'[s] = DrainedTracker(logical')[s]
    <3>1. logical' = Later(Processing(o), logical) /\ logical' \in Nat
      BY <1>3 DEF Apply, TypeOK
    <3>2. /\ DrainedTracker(logical') \in [Subjects -> Tracker]
          /\ Drained(logical') \in Seq(Transition)
      BY <3>1, DrainedTypeOK, DrainedType
    <3>3. j \in Seq(Transition)
      BY <1>1, <3>2
    <3>4. QED BY <1>3, <3>1, <3>2, <3>3 DEF Apply
  <2>2. CASE s \in DueBy(logical')
    <3>1. PICK i \in Len(journal) + 1 .. Len(j) :
             /\ j[i].subject = s
             /\ j[i].attempt = tracker[s].attempt
             /\ j[i].at = DueAt(tracker[s], Duration)
      BY <2>1, <2>2, DrainedJournalsDue
    <3>2. Len(j) \in Nat /\ i \in 1 .. Len(j)
      BY <1>1, <2>1, LenProperties
    <3> HIDE DEF j
    <3>3. Len(j) <= Len(journal') /\ journal'[i] = j[i] /\ Len(journal') \in Nat
      <4>1. journal' \in Seq(Transition)
        BY DEF TypeOK
      <4>2. QED BY <2>1, <3>2, <4>1
    <3>4. i \in Len(journal) + 1 .. Len(journal')
      BY <1>1, <3>2, <3>3
    <3>5. QED BY <3>1, <3>3, <3>4 DEF KeepsDueInterval, JournalledBetween
  <2>3. CASE s \notin DueBy(logical')
    BY <1>1, <2>1, <2>3 DEF KeepsDueInterval, DueBy
  <2>4. QED BY <2>2, <2>3
<1>4. CASE \E u \in Subjects : Claim(u)
  BY <1>4 DEF Claim, KeepsDueInterval
<1>5. CASE \E timer \in claimed : Drop(timer)
  BY <1>5 DEF Drop, KeepsDueInterval
<1>6. ASSUME NEW timer \in Timer, NEW now \in Nat, Fire(timer, now)
      PROVE  KeepsDueInterval(s)
  <2> DEFINE at == Later(now, logical)
  <2>1. CASE ~Accepted(timer, at) \/ s # timer.subject
    <3>1. tracker'[s] = tracker[s]
      BY <1>6, <2>1 DEF Fire, TypeOK
    <3>2. QED BY <3>1 DEF KeepsDueInterval
  <2>2. CASE Accepted(timer, at) /\ s = timer.subject
    <3> DEFINE x == TransitionOf(s, tracker[s], timer.dueAt, at)
    <3>1. journal' = Append(journal, x) /\ timer.dueAt = DueAt(tracker[s], Duration)
      BY <1>6, <2>2 DEF Fire, Accepted
    <3>2. x.subject = s /\ x.attempt = tracker[s].attempt
          /\ x.at = timer.dueAt
      BY DEF TransitionOf
    <3> HIDE DEF x
    <3>3. Len(journal') = Len(journal) + 1 /\ journal'[Len(journal) + 1] = x
      BY <1>1, <3>1
    <3>4. Len(journal) + 1 \in Len(journal) + 1 .. Len(journal')
      BY <1>1, <3>3
    <3>5. QED BY <3>1, <3>2, <3>3, <3>4 DEF KeepsDueInterval, JournalledBetween
  <2>3. QED BY <2>1, <2>2
<1>7. CASE UNCHANGED vars
  BY <1>7 DEF vars, KeepsDueInterval
<1>8. QED BY <1>2, <1>3, <1>4, <1>5, <1>6, <1>7 DEF Uses

\* Whatever step reaches an interval's due time, the interval is journalled or kept,
\* never cancelled by an observation of that same instant.
THEOREM DueIntervalsAreNotLost == Spec => DueIntervalIsNotLost
<1>1. TypeOK /\ TypeOK' /\ [Uses]_vars => [\A s \in Subjects : KeepsDueInterval(s)]_vars
  BY StepKeepsDueIntervals
<1>2. QED BY <1>1, NextUses, TypeCorrect, PTL DEF Spec, DueIntervalIsNotLost

-----------------------------------------------------------------------------
(* The journal and the episodes.                                           *)

\* Entry i of the journal j is the opening (dir "trigger") or the closing of episode e of s.
IsEntry(j, i, s, e, dir) == j[i].subject = s /\ j[i].episode = e.id /\ j[i].direction = dir

\* JournalTellsEpisodes, for one subject, with its entries named instead of counted.
TellsOne(j, s, e) ==
    \E a \in 1 .. Len(j) :
        /\ IsEntry(j, a, s, e, "trigger") /\ j[a].at = e.openedAt
        /\ \A b \in 1 .. Len(j) : IsEntry(j, b, s, e, "trigger") => b = a
        /\ e.status = "open" => \A b \in 1 .. Len(j) : ~IsEntry(j, b, s, e, "clear")
        /\ e.status # "open" =>
             \E c \in 1 .. Len(j) :
                /\ IsEntry(j, c, s, e, "clear") /\ a < c /\ j[c].at = e.closedAt
                /\ \A b \in 1 .. Len(j) : IsEntry(j, b, s, e, "clear") => b = c

Tells(j, s, eps) ==
    /\ \A n \in 1 .. Len(eps) : TellsOne(j, s, eps[n])
    /\ \A i \in 1 .. Len(j) :
         j[i].subject = s => \E n \in 1 .. Len(eps) : eps[n].id = j[i].episode

JournalInv == EpisodeInv /\ \A s \in Subjects : Tells(journal, s, episodes[s])

LEMMA TellsIsJournalTells ==
    ASSUME TypeOK, \A s \in Subjects : Tells(journal, s, episodes[s])
    PROVE  JournalTellsEpisodes
<1>1. DOMAIN journal = 1 .. Len(journal) /\ Len(journal) \in Nat
  BY LenProperties DEF TypeOK
<1> SUFFICES ASSUME NEW s \in Subjects
             PROVE  /\ \A n \in DOMAIN episodes[s] :
                         LET e == episodes[s][n]
                             of == {i \in JournalOf(s) : journal[i].episode = e.id}
                             opening == {i \in of : journal[i].direction = "trigger"}
                             closing == {i \in of : journal[i].direction = "clear"}
                         IN /\ Cardinality(opening) = 1
                            /\ Cardinality(closing) = IF e.status = "open" THEN 0 ELSE 1
                            /\ \A i \in opening : journal[i].at = e.openedAt
                            /\ \A i \in opening, j \in closing :
                                 i < j /\ journal[j].at = e.closedAt
                    /\ \A i \in JournalOf(s) :
                         \E n \in DOMAIN episodes[s] : episodes[s][n].id = journal[i].episode
  BY DEF JournalTellsEpisodes
<1>2. DOMAIN episodes[s] = 1 .. Len(episodes[s]) /\ Tells(journal, s, episodes[s])
  BY LenProperties DEF TypeOK
<1>3. ASSUME NEW n \in DOMAIN episodes[s]
      PROVE  LET e == episodes[s][n]
                 of == {i \in JournalOf(s) : journal[i].episode = e.id}
                 opening == {i \in of : journal[i].direction = "trigger"}
                 closing == {i \in of : journal[i].direction = "clear"}
             IN /\ Cardinality(opening) = 1
                /\ Cardinality(closing) = IF e.status = "open" THEN 0 ELSE 1
                /\ \A i \in opening : journal[i].at = e.openedAt
                /\ \A i \in opening, j \in closing : i < j /\ journal[j].at = e.closedAt
  <2> DEFINE e == episodes[s][n]
             of == {i \in JournalOf(s) : journal[i].episode = e.id}
             opening == {i \in of : journal[i].direction = "trigger"}
             closing == {i \in of : journal[i].direction = "clear"}
  <2>1. /\ \A i : i \in opening <=> i \in 1 .. Len(journal) /\ IsEntry(journal, i, s, e, "trigger")
        /\ \A i : i \in closing <=> i \in 1 .. Len(journal) /\ IsEntry(journal, i, s, e, "clear")
    BY <1>1 DEF JournalOf, IsEntry
  <2>2. TellsOne(journal, s, e)
    BY <1>2 DEF Tells
  <2> HIDE DEF e, opening, closing
  <2>3. PICK a \in 1 .. Len(journal) :
          /\ IsEntry(journal, a, s, e, "trigger") /\ journal[a].at = e.openedAt
          /\ \A b \in 1 .. Len(journal) : IsEntry(journal, b, s, e, "trigger") => b = a
          /\ e.status = "open" => \A b \in 1 .. Len(journal) : ~IsEntry(journal, b, s, e, "clear")
          /\ e.status # "open" =>
               \E c \in 1 .. Len(journal) :
                  /\ IsEntry(journal, c, s, e, "clear") /\ a < c /\ journal[c].at = e.closedAt
                  /\ \A b \in 1 .. Len(journal) : IsEntry(journal, b, s, e, "clear") => b = c
    BY <2>2 DEF TellsOne
  <2>4. opening = {a}
    BY <2>1, <2>3
  <2>5. Cardinality(opening) = 1
    BY <2>4, FS_Singleton
  <2>6. CASE e.status = "open"
    <3>1. closing = {}
      BY <2>1, <2>3, <2>6
    <3>2. Cardinality(closing) = 0
      BY <3>1, FS_EmptySet
    <3>3. QED BY <2>3, <2>4, <2>5, <2>6, <3>1, <3>2 DEF e, opening, closing
  <2>7. CASE e.status # "open"
    <3>1. PICK c \in 1 .. Len(journal) :
            /\ IsEntry(journal, c, s, e, "clear") /\ a < c /\ journal[c].at = e.closedAt
            /\ \A b \in 1 .. Len(journal) : IsEntry(journal, b, s, e, "clear") => b = c
      BY <2>3, <2>7
    <3>2. closing = {c}
      BY <2>1, <3>1
    <3>3. Cardinality(closing) = 1
      BY <3>2, FS_Singleton
    <3>4. QED BY <2>3, <2>4, <2>5, <2>7, <3>1, <3>2, <3>3 DEF e, opening, closing
  <2>8. QED BY <2>6, <2>7
<1>4. \A i \in JournalOf(s) :
        \E n \in DOMAIN episodes[s] : episodes[s][n].id = journal[i].episode
  BY <1>1, <1>2 DEF JournalOf, Tells
<1>5. QED BY <1>3, <1>4

\* The journal k continues j.
Continues(k, j) ==
    Len(j) <= Len(k) /\ \A i \in 1 .. Len(j) : k[i] = j[i]

\* Entries of other subjects do not change what is told of s.
LEMMA TellsOverOthers ==
    ASSUME NEW j \in Seq(Transition), NEW k \in Seq(Transition), Continues(k, j),
           NEW s, NEW eps, Tells(j, s, eps),
           \A i \in Len(j) + 1 .. Len(k) : k[i].subject # s
    PROVE  Tells(k, s, eps)
<1>1. Len(j) \in Nat /\ Len(k) \in Nat /\ Len(j) <= Len(k)
  BY LenProperties DEF Continues
<1>2. \A i \in 1 .. Len(j) : i \in 1 .. Len(k) /\ k[i] = j[i]
  BY <1>1 DEF Continues
<1>3. \A i \in 1 .. Len(k) : k[i].subject = s => i \in 1 .. Len(j)
  BY <1>1
<1>4. \A i \in 1 .. Len(k) : \A e, dir : IsEntry(k, i, s, e, dir) => i \in 1 .. Len(j) /\ IsEntry(j, i, s, e, dir)
  BY <1>2, <1>3 DEF IsEntry
<1>5. \A i \in 1 .. Len(j) : \A e, dir : IsEntry(j, i, s, e, dir) => IsEntry(k, i, s, e, dir)
  BY <1>2 DEF IsEntry
<1>6. ASSUME NEW e, TellsOne(j, s, e) PROVE TellsOne(k, s, e)
  BY <1>2, <1>4, <1>5, <1>6 DEF TellsOne
<1>7. \A n \in 1 .. Len(eps) : TellsOne(k, s, eps[n])
  BY <1>6 DEF Tells
<1>8. \A i \in 1 .. Len(k) :
         k[i].subject = s => \E n \in 1 .. Len(eps) : eps[n].id = k[i].episode
  BY <1>2, <1>3 DEF Tells
<1>9. QED BY <1>7, <1>8 DEF Tells

\* An entry of another episode does not change what is told of e.
LEMMA TellsOneOverOthers ==
    ASSUME NEW j \in Seq(Transition), NEW k \in Seq(Transition), Continues(k, j),
           NEW s, NEW e, TellsOne(j, s, e),
           \A i \in Len(j) + 1 .. Len(k) : k[i].subject = s => k[i].episode # e.id
    PROVE  TellsOne(k, s, e)
<1>1. Len(j) \in Nat /\ Len(k) \in Nat /\ Len(j) <= Len(k)
  BY LenProperties DEF Continues
<1>2. \A i \in 1 .. Len(j) : i \in 1 .. Len(k) /\ k[i] = j[i]
  BY <1>1 DEF Continues
<1>3. \A i \in 1 .. Len(k) : \A dir :
         IsEntry(k, i, s, e, dir) => i \in 1 .. Len(j) /\ IsEntry(j, i, s, e, dir)
  BY <1>1, <1>2 DEF IsEntry
<1>4. \A i \in 1 .. Len(j) : \A dir : IsEntry(j, i, s, e, dir) => IsEntry(k, i, s, e, dir)
  BY <1>2 DEF IsEntry
<1>5. QED BY <1>2, <1>3, <1>4 DEF TellsOne

\* The entry that a commit of tracker t adds tells what the commit makes of the episodes.
LEMMA TellsOfCommit ==
    ASSUME NEW j \in Seq(Transition), NEW k \in Seq(Transition), Continues(k, j),
           NEW s \in Subjects, NEW t \in Tracker, NEW eps \in Seq(Episode),
           NEW at \in Nat, NEW now \in Nat,
           Pending(t), Matches(t, eps), IdsIncrease(t, eps), Tells(j, s, eps),
           NEW p \in Len(j) + 1 .. Len(k), k[p] = TransitionOf(s, t, at, now),
           \A i \in Len(j) + 1 .. Len(k) : k[i].subject = s => i = p
    PROVE  Tells(k, s, EpisodesAfter(eps, t, at))
<1> DEFINE eps2 == EpisodesAfter(eps, t, at)
           L == Len(eps)
<1>1. Len(j) \in Nat /\ Len(k) \in Nat /\ Len(j) <= Len(k) /\ p \in 1 .. Len(k) /\ p > Len(j)
  BY LenProperties DEF Continues
<1>2. \A i \in 1 .. Len(j) : i \in 1 .. Len(k) /\ k[i] = j[i]
  BY <1>1 DEF Continues
<1>3. \A i \in 1 .. Len(k) : k[i].subject = s => i \in 1 .. Len(j) \/ i = p
  BY <1>1
<1>4. k[p].subject = s /\ k[p].at = at
  BY TransitionType
<1>5. /\ L \in Nat /\ DOMAIN eps = 1 .. L
      /\ \A n \in 1 .. L : eps[n].id \in Nat /\ eps[n].status \in {"open", "closed"}
  BY EpisodeFields
<1>6. /\ \A n \in 1 .. L : 0 < eps[n].id /\ eps[n].id <= t.sequence
      /\ \A n, m \in 1 .. L : n < m => eps[n].id < eps[m].id
      /\ t.sequence \in Nat
  BY <1>5 DEF IdsIncrease, Tracker
<1>7. \A i \in 1 .. Len(j) :
         j[i].subject = s => \E n \in 1 .. L : eps[n].id = j[i].episode
  BY DEF Tells
<1>8. \A n \in 1 .. L : TellsOne(j, s, eps[n])
  BY DEF Tells
<1>9. CASE t.phase = "triggering"
  <2> DEFINE new == [id |-> t.sequence + 1, openedAt |-> at, closedAt |-> Unset, status |-> "open"]
  <2>1. /\ Len(eps2) = L + 1 /\ \A n \in 1 .. L : eps2[n] = eps[n]
        /\ eps2[L + 1] = new
    BY <1>9, EpisodesAfterType
  <2>2. k[p].episode = t.sequence + 1 /\ k[p].direction = "trigger"
    BY <1>9 DEF TransitionOf, DirectionFor
  <2>3. ASSUME NEW n \in 1 .. L PROVE TellsOne(k, s, eps[n])
    <3>1. eps[n].id # k[p].episode
      BY <1>5, <1>6, <2>2
    <3>2. QED BY <1>8, <3>1, TellsOneOverOthers
  <2>4. TellsOne(k, s, new)
    <3>1. ASSUME NEW i \in 1 .. Len(k), k[i].subject = s, k[i].episode = t.sequence + 1, i # p
          PROVE  FALSE
      <4>1. i \in 1 .. Len(j) /\ j[i].subject = s /\ j[i].episode = t.sequence + 1
        BY <1>2, <1>3, <3>1
      <4>2. PICK n \in 1 .. L : eps[n].id = t.sequence + 1
        BY <1>7, <4>1
      <4>3. QED BY <1>5, <1>6, <4>2
    <3>2. new.id = t.sequence + 1 /\ new.openedAt = at /\ new.status = "open"
      OBVIOUS
    <3> HIDE DEF new
    <3>3. \A i \in 1 .. Len(k) : \A dir : IsEntry(k, i, s, new, dir) => i = p /\ dir = "trigger"
      BY <2>2, <3>1, <3>2 DEF IsEntry
    <3>4. IsEntry(k, p, s, new, "trigger")
      BY <1>4, <2>2, <3>2 DEF IsEntry
    <3>5. QED BY <1>1, <1>4, <3>2, <3>3, <3>4 DEF TellsOne
  <2> HIDE DEF eps2, new
  <2>5. \A n \in 1 .. L + 1 : TellsOne(k, s, eps2[n])
    <3>1. \A n \in 1 .. L + 1 : n \in 1 .. L \/ n = L + 1
      BY <1>5
    <3>2. QED BY <2>1, <2>3, <2>4, <3>1
  <2>6. ASSUME NEW i \in 1 .. Len(k), k[i].subject = s
        PROVE  \E n \in 1 .. L + 1 : eps2[n].id = k[i].episode
    <3>1. CASE i = p
      <4>1. L + 1 \in 1 .. L + 1 /\ eps2[L + 1].id = k[i].episode
        BY <1>5, <2>1, <2>2, <3>1 DEF new
      <4>2. QED BY <4>1
    <3>2. CASE i # p
      <4>1. PICK n \in 1 .. L : eps[n].id = k[i].episode
        BY <1>2, <1>3, <1>7, <2>6, <3>2
      <4>2. n \in 1 .. L + 1 /\ eps2[n].id = k[i].episode
        BY <1>5, <2>1, <4>1
      <4>3. QED BY <4>2
    <3>3. QED BY <3>1, <3>2
  <2>7. QED BY <2>1, <2>5, <2>6 DEF Tells, eps2
<1>10. CASE t.phase # "triggering"
  <2>1. t.phase = "clearing"
    BY <1>10 DEF Pending
  <2>2. OpenIn(eps) = {L} /\ eps[L].id = t.episode
    BY <2>1 DEF Matches
  <2>3. L \in 1 .. L /\ eps[L].status = "open" /\ \A n \in 1 .. L : n # L => eps[n].id # t.episode
    <3>1. L \in OpenIn(eps)
      BY <2>2
    <3>2. L \in 1 .. L /\ eps[L].status = "open"
      BY <1>5, <3>1 DEF OpenIn
    <3>3. ASSUME NEW n \in 1 .. L, n # L PROVE eps[n].id # t.episode
      <4>1. n < L
        BY <1>5, <3>3
      <4>2. eps[n].id < eps[L].id /\ eps[n].id \in Nat /\ eps[L].id \in Nat
        BY <1>5, <1>6, <3>2, <4>1
      <4>3. QED BY <2>2, <4>2
    <3>4. QED BY <3>2, <3>3
  <2> DEFINE closed == [eps[L] EXCEPT !.closedAt = at, !.status = "closed"]
  <2>4. /\ Len(eps2) = L /\ \A n \in 1 .. L : n # L => eps2[n] = eps[n]
        /\ eps2[L] = closed
    <3>1. /\ Len(eps2) = L
          /\ \A n \in 1 .. L :
               eps2[n] = IF eps[n].id = t.episode
                           THEN [eps[n] EXCEPT !.closedAt = at, !.status = "closed"]
                           ELSE eps[n]
      BY <1>10, EpisodesAfterType
    <3> HIDE DEF eps2, L
    <3>2. QED BY <2>2, <2>3, <3>1
  <2>5. k[p].episode = eps[L].id /\ k[p].direction = "clear"
    BY <1>10, <2>1, <2>2 DEF TransitionOf, DirectionFor
  <2>6. ASSUME NEW n \in 1 .. L, n # L PROVE TellsOne(k, s, eps[n])
    <3>1. eps[n].id # k[p].episode
      BY <2>2, <2>3, <2>5, <2>6
    <3>2. QED BY <1>8, <3>1, TellsOneOverOthers
  <2>7. TellsOne(k, s, closed)
    <3>1. closed.id = eps[L].id /\ closed.openedAt = eps[L].openedAt
          /\ closed.closedAt = at /\ closed.status = "closed"
      <4>1. eps[L] \in Episode
        BY <2>3, EpisodeFields
      <4>2. QED BY <4>1 DEF Episode
    <3>2. PICK a \in 1 .. Len(j) :
            /\ IsEntry(j, a, s, eps[L], "trigger") /\ j[a].at = eps[L].openedAt
            /\ \A b \in 1 .. Len(j) : IsEntry(j, b, s, eps[L], "trigger") => b = a
            /\ \A b \in 1 .. Len(j) : ~IsEntry(j, b, s, eps[L], "clear")
      BY <1>8, <2>3 DEF TellsOne
    <3> HIDE DEF closed
    <3>3. \A i \in 1 .. Len(k) : \A dir :
             IsEntry(k, i, s, closed, dir)
               => \/ i = p /\ dir = "clear"
                  \/ i \in 1 .. Len(j) /\ IsEntry(j, i, s, eps[L], dir)
      BY <1>2, <1>3, <2>5, <3>1 DEF IsEntry
    <3>4. \A i \in 1 .. Len(k) : IsEntry(k, i, s, closed, "clear") => i = p
      BY <3>2, <3>3
    <3>5. \A i \in 1 .. Len(k) : IsEntry(k, i, s, closed, "trigger") => i = a
      BY <3>2, <3>3
    <3>6. IsEntry(k, p, s, closed, "clear") /\ k[p].at = closed.closedAt /\ a < p
      BY <1>1, <1>4, <2>5, <3>1 DEF IsEntry
    <3>7. a \in 1 .. Len(k) /\ IsEntry(k, a, s, closed, "trigger") /\ k[a].at = closed.openedAt
      BY <1>2, <3>1, <3>2 DEF IsEntry
    <3>8. QED BY <1>1, <3>1, <3>4, <3>5, <3>6, <3>7 DEF TellsOne
  <2> HIDE DEF eps2, closed
  <2>8. \A n \in 1 .. L : TellsOne(k, s, eps2[n])
    BY <2>4, <2>6, <2>7
  <2>9. ASSUME NEW i \in 1 .. Len(k), k[i].subject = s
        PROVE  \E n \in 1 .. L : eps2[n].id = k[i].episode
    <3>1. \A n \in 1 .. L : eps2[n].id = eps[n].id
      <4>1. eps[L] \in Episode
        BY <2>3, EpisodeFields
      <4>2. closed.id = eps[L].id
        BY <4>1 DEF Episode, closed
      <4>3. QED BY <2>4, <4>2
    <3>2. \E n \in 1 .. L : eps[n].id = k[i].episode
      BY <1>2, <1>3, <1>7, <2>3, <2>5, <2>9
    <3>3. QED BY <3>1, <3>2
  <2>10. QED BY <2>4, <2>8, <2>9 DEF Tells, eps2
<1>11. QED BY <1>9, <1>10

\* Advance journals what it does to the episodes.
LEMMA DrainedTells ==
    ASSUME JournalInv, NEW at \in Nat, NEW s \in Subjects
    PROVE  Tells(journal \o Drained(at), s, DrainedEpisodes(at)[s])
<1> DEFINE j == journal
           D == Drained(at)
           k == journal \o Drained(at)
           m == Len(journal)
<1>1. TypeOK /\ Matches(tracker[s], episodes[s]) /\ IdsIncrease(tracker[s], episodes[s])
      /\ Tells(journal, s, episodes[s])
  BY DEF JournalInv, EpisodeInv, SubjectInv
<1>2. /\ journal \in Seq(Transition) /\ m \in Nat /\ tracker[s] \in Tracker
      /\ episodes[s] \in Seq(Episode) /\ DueAt(tracker[s], Duration) \in Nat
  BY <1>1, LenProperties, DueType DEF TypeOK
<1>3. D \in Seq(Transition) /\ Len(D) \in Nat
  BY <1>1, DrainedType
<1>4. /\ \A i \in 1 .. Len(D) : D[i].subject \in DueBy(at)
      /\ \A i, b \in 1 .. Len(D) : D[i].subject = D[b].subject => i = b
  BY <1>1, DrainedAttempts
<1>5. /\ k \in Seq(Transition) /\ Len(k) = m + Len(D)
      /\ \A i \in 1 .. m + Len(D) : k[i] = IF i <= m THEN journal[i] ELSE D[i - m]
  BY <1>2, <1>3, ConcatProperties
<1> HIDE DEF D, k
<1>6. Continues(k, journal)
  BY <1>2, <1>3, <1>5 DEF Continues
<1>7. \A i \in m + 1 .. Len(k) : i - m \in 1 .. Len(D) /\ k[i] = D[i - m]
  BY <1>2, <1>3, <1>5
<1>8. CASE s \in DueBy(at)
  <2>1. PICK i \in 1 .. Cardinality(DueBy(at)) : InTimerOrder(DueBy(at))[i] = s
    BY <1>1, <1>8, SubjectsFinite, InTimerOrderEnumerates
  <2>2. i \in 1 .. Len(D) /\ D[i] = TransitionOf(s, tracker[s], DueAt(tracker[s], Duration), at)
    BY <1>1, <2>1, DrainedType DEF D
  <2> DEFINE p == m + i
  <2>3. p \in m + 1 .. Len(k) /\ k[p] = D[i]
    <3>1. i \in Nat /\ 1 <= i /\ i <= Len(D)
      BY <1>3, <2>2
    <3>2. p \in 1 .. m + Len(D) /\ p \in m + 1 .. m + Len(D) /\ ~(p <= m) /\ p - m = i
      BY <1>2, <1>3, <3>1
    <3> HIDE DEF p, m
    <3>3. k[p] = D[i]
      BY <1>5, <3>2
    <3>4. QED BY <1>5, <3>2, <3>3
  <2>4. D[i].subject = s
    BY <1>2, <2>2, TransitionType
  <2>5. \A n \in m + 1 .. Len(k) : k[n].subject = s => n = p
    <3>1. ASSUME NEW n \in m + 1 .. Len(k), k[n].subject = s PROVE n = p
      <4>1. n - m = i
        BY <1>4, <1>7, <2>2, <2>4, <3>1
      <4>2. QED BY <1>2, <1>5, <4>1
    <3>2. QED BY <3>1
  <2>6. Pending(tracker[s])
    BY <1>8 DEF DueBy
  <2> HIDE DEF p
  <2>7. Tells(k, s, EpisodesAfter(episodes[s], tracker[s], DueAt(tracker[s], Duration)))
    <3>1. p \in Len(journal) + 1 .. Len(k)
          /\ k[p] = TransitionOf(s, tracker[s], DueAt(tracker[s], Duration), at)
      BY <2>2, <2>3
    <3>2. \A n \in Len(journal) + 1 .. Len(k) : k[n].subject = s => n = p
      BY <2>5
    <3> HIDE DEF m
    <3>3. QED BY <1>1, <1>2, <1>5, <1>6, <2>6, <3>1, <3>2, TellsOfCommit
  <2>8. QED BY <1>8, <2>7 DEF DrainedEpisodes, k
<1>9. CASE s \notin DueBy(at)
  <2>1. \A i \in m + 1 .. Len(k) : k[i].subject # s
    BY <1>4, <1>7, <1>9
  <2>2. Tells(k, s, episodes[s])
    BY <1>1, <1>2, <1>5, <1>6, <2>1, TellsOverOthers
  <2>3. QED BY <1>9, <2>2 DEF DrainedEpisodes, k
<1>10. QED BY <1>8, <1>9

\* A journal that grows by one entry.
LEMMA AppendContinues ==
    ASSUME NEW j \in Seq(Transition), NEW x \in Transition
    PROVE  /\ Append(j, x) \in Seq(Transition) /\ Continues(Append(j, x), j)
           /\ \A i \in Len(j) + 1 .. Len(Append(j, x)) : i = Len(j) + 1
           /\ Len(j) + 1 \in Len(j) + 1 .. Len(Append(j, x))
           /\ Append(j, x)[Len(j) + 1] = x
<1>1. Len(j) \in Nat
  BY LenProperties
<1>2. QED BY <1>1, AppendProperties DEF Continues

LEMMA EveryTransition ==
    \A u \in Subjects, v \in Tracker, b \in Nat, c \in Nat :
       TransitionOf(u, v, b, c) \in Transition /\ TransitionOf(u, v, b, c).subject = u
BY TransitionType

\* The commit of one subject, s, journalled as x, in all subjects' tales.
LEMMA TellsAppended ==
    ASSUME NEW j \in Seq(Transition), NEW s \in Subjects, NEW t \in Tracker,
           NEW eps \in [Subjects -> Seq(Episode)], NEW at \in Nat, NEW now \in Nat,
           Pending(t), Matches(t, eps[s]), IdsIncrease(t, eps[s]),
           \A r \in Subjects : Tells(j, r, eps[r])
    PROVE  \A r \in Subjects : Tells(Append(j, TransitionOf(s, t, at, now)), r,
                                     [eps EXCEPT ![s] = EpisodesAfter(eps[s], t, at)][r])
<1> DEFINE x == TransitionOf(s, t, at, now)
           k == Append(j, x)
<1>1. x \in Transition /\ x.subject = s
  <2>1. t \in Tracker /\ s \in Subjects /\ at \in Nat /\ now \in Nat
    OBVIOUS
  <2>2. QED BY <2>1, EveryTransition, Zenon
<1> USE DEF k
<1> HIDE DEF x
<1>2. /\ k \in Seq(Transition) /\ Continues(k, j)
      /\ \A i \in Len(j) + 1 .. Len(k) : i = Len(j) + 1
      /\ Len(j) + 1 \in Len(j) + 1 .. Len(k)
      /\ k[Len(j) + 1] = x
  BY <1>1, AppendContinues
<1> HIDE DEF k
<1>3. Tells(k, s, EpisodesAfter(eps[s], t, at))
  <2> DEFINE p == Len(j) + 1
  <2>1. k[p] = TransitionOf(s, t, at, now) /\ p \in Len(j) + 1 .. Len(k)
        /\ \A i \in Len(j) + 1 .. Len(k) : k[i].subject = s => i = p
    BY <1>2 DEF x
  <2>2. eps[s] \in Seq(Episode) /\ Tells(j, s, eps[s])
    OBVIOUS
  <2> HIDE DEF p
  <2>3. QED BY <1>2, <2>1, <2>2, TellsOfCommit
<1>4. ASSUME NEW r \in Subjects, r # s PROVE Tells(k, r, eps[r])
  <2>1. \A i \in Len(j) + 1 .. Len(k) : k[i].subject # r
    BY <1>1, <1>2, <1>4
  <2>2. QED BY <1>2, <2>1, TellsOverOthers
<1>5. QED BY <1>3, <1>4 DEF k, x

LEMMA ApplyTells ==
    ASSUME JournalInv, NEW o \in Observation, NEW id \in ObservationIds, Apply(o, id)
    PROVE  \A r \in Subjects : Tells(journal', r, episodes'[r])
<1> DEFINE at == Later(Processing(o), logical)
           s == o.subject
           t == DrainedTracker(at)[s]
           u == OpenedBy(t, o)
           commit == CommitAt(OpenedBy(t, o), at)
           j == journal \o Drained(at)
           eps == DrainedEpisodes(at)
<1>1. /\ at \in Nat /\ logical <= at /\ t \in Tracker /\ s \in Subjects /\ commit \in Nat
      /\ TypeOK /\ EpisodeInv /\ o.direction \in Directions
  BY ApplyTime, OpenedType DEF Apply, JournalInv, EpisodeInv
<1>2. /\ episodes' = IF CommitsAtOnce(t, o, at)
                       THEN [eps EXCEPT ![s] = EpisodesAfter(@, u, commit)] ELSE eps
      /\ journal' = IF CommitsAtOnce(t, o, at)
                      THEN Append(j, TransitionOf(s, u, commit, at)) ELSE j
  BY DEF Apply
<1>3. /\ eps \in [Subjects -> Seq(Episode)] /\ j \in Seq(Transition)
  <2>1. journal \in Seq(Transition) /\ Drained(at) \in Seq(Transition)
    BY <1>1, DrainedType DEF TypeOK
  <2>2. QED BY <1>1, <2>1, DrainedTypeOK, ConcatProperties
<1>4. SubjectInv(t, eps[s], at)
  BY <1>1, DrainedSubjectInv
<1>5. \A r \in Subjects : Tells(j, r, eps[r])
  BY <1>1, DrainedTells
<1>6. u \in Tracker /\ u.phase = PhaseFor(o.direction)
  BY <1>1, OpenedType
<1>7. ASSUME CommitsAtOnce(t, o, at)
      PROVE  SubjectCore(u, eps[s], at) /\ Pending(u)
  <2>1. t.phase = RestingBefore(o.direction)
    BY <1>7 DEF CommitsAtOnce, Starts
  <2>2. OnsetOf(Effective(o), o.trueSince) \in Nat
    <3>1. o.effectiveAt \in Nat /\ o.processingAt \in Nat /\ o.trueSince \in Nat
      BY DEF Observation
    <3>2. QED BY <3>1 DEF OnsetOf, Effective, Processing
  <2>3. SubjectCore(t, eps[s], at)
    BY <1>4 DEF SubjectInv, SubjectCore
  <2>4. t \in Tracker /\ eps[s] \in Seq(Episode) /\ at \in Nat
    BY <1>1, <1>3
  <2> HIDE DEF t, eps, at
  <2>5. QED BY <1>1, <2>1, <2>2, <2>3, <2>4, CoreStarts DEF OpenedBy
<1> HIDE DEF at, s, t, u, commit, j, eps
<1>8. CASE CommitsAtOnce(t, o, at)
  <2>1. Matches(u, eps[s]) /\ IdsIncrease(u, eps[s]) /\ Pending(u)
    BY <1>7, <1>8 DEF SubjectCore
  <2>2. \A r \in Subjects : Tells(Append(j, TransitionOf(s, u, commit, at)), r,
                                  [eps EXCEPT ![s] = EpisodesAfter(eps[s], u, commit)][r])
    BY <1>1, <1>3, <1>5, <1>6, <2>1, TellsAppended
  <2>3. QED BY <1>2, <1>8, <2>2
<1>9. CASE ~CommitsAtOnce(t, o, at)
  BY <1>2, <1>5, <1>9
<1>10. QED BY <1>8, <1>9

LEMMA FireTells ==
    ASSUME JournalInv, NEW timer \in Timer, NEW now \in Nat, Fire(timer, now)
    PROVE  \A r \in Subjects : Tells(journal', r, episodes'[r])
<1> DEFINE at == Later(now, logical)
           s == timer.subject
           t == tracker[s]
<1>1. /\ TypeOK /\ at \in Nat /\ s \in Subjects /\ timer.dueAt \in Nat
      /\ \A r \in Subjects : Tells(journal, r, episodes[r])
  BY LaterType DEF JournalInv, EpisodeInv, TypeOK, Timer
<1>2. CASE ~Accepted(timer, at)
  BY <1>1, <1>2 DEF Fire
<1>3. CASE Accepted(timer, at)
  <2>1. /\ episodes' = [episodes EXCEPT ![s] = EpisodesAfter(@, t, timer.dueAt)]
        /\ journal' = Append(journal, TransitionOf(s, t, timer.dueAt, at))
    BY <1>3 DEF Fire
  <2>2. /\ journal \in Seq(Transition) /\ episodes \in [Subjects -> Seq(Episode)]
        /\ t \in Tracker /\ Pending(t)
    BY <1>1, <1>3 DEF Accepted, Pending, PhaseFor, TypeOK
  <2>3. Matches(t, episodes[s]) /\ IdsIncrease(t, episodes[s])
    BY <1>1 DEF JournalInv, EpisodeInv, SubjectInv
  <2> HIDE DEF at, s, t
  <2>4. \A r \in Subjects : Tells(Append(journal, TransitionOf(s, t, timer.dueAt, at)), r,
                 [episodes EXCEPT ![s] = EpisodesAfter(episodes[s], t, timer.dueAt)][r])
    BY <1>1, <2>2, <2>3, TellsAppended
  <2>5. QED BY <2>1, <2>4
<1>4. QED BY <1>2, <1>3

LEMMA InitJournalInv == Init => JournalInv
<1> SUFFICES ASSUME Init PROVE JournalInv
  OBVIOUS
<1>1. EpisodeInv
  BY InitEpisodeInv
<1>2. \A s \in Subjects : Tells(<<>>, s, <<>>)
  BY DEF Tells
<1>3. QED BY <1>1, <1>2 DEF Init, JournalInv

LEMMA UseJournalInv == JournalInv /\ [Uses]_vars => JournalInv'
<1> SUFFICES ASSUME JournalInv, [Uses]_vars PROVE JournalInv'
  OBVIOUS
<1>1. EpisodeInv /\ EpisodeInv'
  BY UseEpisodeInv DEF JournalInv
<1> SUFFICES \A r \in Subjects : Tells(journal', r, episodes'[r])
  BY <1>1 DEF JournalInv, Tells, TellsOne, IsEntry
<1>2. ASSUME NEW now \in Nat, Advance(now)
      PROVE  \A r \in Subjects : Tells(journal', r, episodes'[r])
  <2>1. /\ logical' \in Nat /\ journal' = journal \o Drained(logical')
        /\ episodes' = DrainedEpisodes(logical')
    BY <1>1, <1>2 DEF Advance, EpisodeInv, TypeOK
  <2>2. QED BY <2>1, DrainedTells
<1>3. CASE \E o \in Observation, id \in ObservationIds : Apply(o, id)
  BY <1>3, ApplyTells
<1>4. CASE \E s \in Subjects : Claim(s)
  BY <1>4 DEF Claim, JournalInv
<1>5. CASE \E timer \in claimed : Drop(timer)
  BY <1>5 DEF Drop, JournalInv
<1>6. CASE \E timer \in Timer, now \in Nat : Fire(timer, now)
  BY <1>6, FireTells
<1>7. CASE UNCHANGED vars
  BY <1>7 DEF vars, JournalInv
<1>8. QED BY <1>2, <1>3, <1>4, <1>5, <1>6, <1>7 DEF Uses

\* Reducer.Transitions and Reducer.Episodes agree: every episode has one transition that
\* opened it and, once closed, one later transition that closed it, and there is no other.
THEOREM JournalMatchesEpisodes == Spec => []JournalTellsEpisodes
<1>1. JournalInv => JournalTellsEpisodes
  BY TellsIsJournalTells DEF JournalInv, EpisodeInv
<1>2. QED BY <1>1, InitJournalInv, UseJournalInv, NextUses, TypeCorrect, PTL DEF Spec

=============================================================================
