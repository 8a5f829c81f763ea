--------------------------- MODULE AlertingProofs ---------------------------
(***************************************************************************)
(* Theorems about the alert reducer, the planner and the delivery reducer, *)
(* for every set of series and episodes and every policy.                  *)
(***************************************************************************)
EXTENDS Alerting, SequenceTheorems, TLAPS

-----------------------------------------------------------------------------
(* What the two operations of the alert reducer do to its memory.          *)

\* The memory `a` tells which episodes run.
Tells(a, run) ==
    /\ run \cap a.closed = {}
    /\ \A s \in Series :
         /\ a.series[s].open <=> \E e \in run : SeriesOf[e] = s
         /\ a.series[s].contributors = {e \in run : SeriesOf[e] = s}
         /\ a.series[s].open => a.series[s].generation # 0

\* The episodes that run after a start and after a clear of e.
RunsAfterStart(a, run, e) == IF e \in a.closed THEN run ELSE run \cup {e}

\* A started series is open, with e among its contributors.
LEMMA StartEffect ==
    ASSUME NEW a \in Alerts, NEW e \in Episodes, NEW s \in Series, Starting(a, s, e),
           NEW b, b = AfterStart(a, s, e)
    PROVE  /\ b \in Alerts /\ b.closed = a.closed
           /\ \A u \in Series \ {s} : b.series[u] = a.series[u]
           /\ b.series[s].open
           /\ b.series[s].contributors = a.series[s].contributors \cup {e}
           /\ b.series[s].generation =
                IF a.series[s].open THEN a.series[s].generation ELSE a.series[s].generation + 1
<1> DEFINE t == StartedSeries(a.series[s], e)
<1>1. a.series[s] \in SeriesState
  BY DEF Alerts
<1>2. /\ t \in SeriesState /\ t.open = TRUE
      /\ t.contributors = a.series[s].contributors \cup {e}
      /\ t.generation =
           IF a.series[s].open THEN a.series[s].generation ELSE a.series[s].generation + 1
  BY <1>1 DEF StartedSeries, SeriesState
<1> HIDE DEF t
<1>3. b = [a EXCEPT !.series[s] = t]
  BY DEF AfterStart, t
<1>4. QED BY <1>2, <1>3 DEF Alerts

\* A cleared series has lost e, and closes when e was the last.
LEMMA ClearEffect ==
    ASSUME NEW a \in Alerts, NEW e \in Episodes, NEW s \in Series, Clearing(a, s, e),
           NEW b, b = AfterClear(a, s, e)
    PROVE  /\ b \in Alerts /\ b.closed = a.closed \cup {e}
           /\ \A u \in Series \ {s} : b.series[u] = a.series[u]
           /\ b.series[s].open <=> (a.series[s].open /\ a.series[s].contributors # {e})
           /\ b.series[s].contributors = a.series[s].contributors \ {e}
           /\ b.series[s].generation = a.series[s].generation
<1> DEFINE t == ClearedSeries(a, s, e)
<1>1. a.series[s] \in SeriesState
  BY DEF Alerts
<1>2. Recovers(a, s, e) <=> (a.series[s].open /\ a.series[s].contributors = {e})
  BY DEF Recovers
<1>3. Recovers(a, s, e) \in BOOLEAN
  BY DEF Recovers
<1> DEFINE o == a.series[s].open /\ ~Recovers(a, s, e)
<1>4. o \in BOOLEAN /\ (o <=> (a.series[s].open /\ a.series[s].contributors # {e}))
  BY <1>2
<1> HIDE DEF o
<1> DEFINE c == [a.series[s] EXCEPT !.contributors = a.series[s].contributors \ {e}]
<1>5. /\ c \in SeriesState /\ c.contributors = a.series[s].contributors \ {e}
      /\ c.generation = a.series[s].generation
  BY <1>1 DEF SeriesState
<1> HIDE DEF c
<1>6. t = [c EXCEPT !.open = o]
  BY <1>1, Zenon DEF ClearedSeries, c, o, SeriesState
<1>7. t \in SeriesState /\ t.open = o /\ t.contributors = c.contributors
      /\ t.generation = c.generation
  BY <1>4, <1>5, <1>6 DEF SeriesState
<1> HIDE DEF t
<1>8. b = [closed |-> a.closed \cup {e}, series |-> [a.series EXCEPT ![s] = t]]
  BY DEF AfterClear, t
<1>9. QED BY <1>4, <1>5, <1>7, <1>8 DEF Alerts

\* A start that changes nothing, and a clear that changes nothing.
LEMMA NoStart ==
    ASSUME NEW a, NEW s, NEW e, ~Starting(a, s, e)
    PROVE  AfterStart(a, s, e) = a /\ OpenTransition(a, s, e) = <<>>
BY DEF AfterStart, OpenTransition, Opens

LEMMA NoClear ==
    ASSUME NEW a, NEW s, NEW e, ~Clearing(a, s, e)
    PROVE  AfterClear(a, s, e) = a /\ RecoveryTransition(a, s, e) = <<>>
BY DEF AfterClear, RecoveryTransition, Recovers

LEMMA StartTells ==
    ASSUME NEW a \in Alerts, NEW run \in SUBSET Episodes, NEW e \in Episodes, Tells(a, run)
    PROVE  /\ AfterStart(a, SeriesOf[e], e) \in Alerts
           /\ Tells(AfterStart(a, SeriesOf[e], e), RunsAfterStart(a, run, e))
<1> DEFINE s == SeriesOf[e]
<1> DEFINE b == AfterStart(a, s, e)
<1>1. s \in Series
  BY SeriesOfAssumption
<1>2. CASE ~Starting(a, s, e)
  <2>1. b = a /\ RunsAfterStart(a, run, e) = run
    BY <1>1, <1>2, NoStart DEF Starting, Contributes, RunsAfterStart, Tells
  <2>2. QED BY <2>1
<1>3. CASE Starting(a, s, e)
  <2>1. RunsAfterStart(a, run, e) = run \cup {e} /\ e \notin a.closed
    BY <1>3 DEF Starting, RunsAfterStart
  <2> HIDE DEF b
  <2>2. /\ b \in Alerts /\ b.closed = a.closed
        /\ \A u \in Series \ {s} : b.series[u] = a.series[u]
        /\ b.series[s].open
        /\ b.series[s].contributors = a.series[s].contributors \cup {e}
        /\ b.series[s].generation =
             IF a.series[s].open THEN a.series[s].generation ELSE a.series[s].generation + 1
    BY <1>1, <1>3, StartEffect DEF b
  <2>5. a.series[s].generation \in Nat
    BY <1>1 DEF Alerts, SeriesState
  <2>6. b.series[s].generation # 0
    BY <1>1, <2>2, <2>5 DEF Tells
  <2>3. Tells(b, run \cup {e})
    BY <1>1, <2>1, <2>2, <2>6 DEF Tells
  <2>4. QED BY <2>1, <2>2, <2>3 DEF b
<1>4. QED BY <1>2, <1>3

LEMMA ClearTells ==
    ASSUME NEW a \in Alerts, NEW run \in SUBSET Episodes, NEW e \in Episodes, Tells(a, run)
    PROVE  /\ AfterClear(a, SeriesOf[e], e) \in Alerts
           /\ Tells(AfterClear(a, SeriesOf[e], e), run \ {e})
<1> DEFINE s == SeriesOf[e]
<1> DEFINE b == AfterClear(a, s, e)
<1>1. s \in Series
  BY SeriesOfAssumption
<1>2. CASE ~Clearing(a, s, e)
  <2>1. b = a /\ run \ {e} = run
    BY <1>1, <1>2, NoClear DEF Clearing, Contributes, Tells
  <2>2. QED BY <2>1
<1>3. CASE Clearing(a, s, e)
  <2> HIDE DEF b
  <2>1. /\ b \in Alerts /\ b.closed = a.closed \cup {e}
        /\ \A u \in Series \ {s} : b.series[u] = a.series[u]
        /\ b.series[s].open <=> (a.series[s].open /\ a.series[s].contributors # {e})
        /\ b.series[s].contributors = a.series[s].contributors \ {e}
        /\ b.series[s].generation = a.series[s].generation
    BY <1>1, <1>3, ClearEffect DEF b
  <2>2. e \in run
    BY <1>1, <1>3 DEF Clearing, Contributes, Tells
  <2>3. ASSUME NEW u \in Series
        PROVE  /\ b.series[u].contributors = {x \in run \ {e} : SeriesOf[x] = u}
               /\ b.series[u].open <=> \E x \in run \ {e} : SeriesOf[x] = u
               /\ b.series[u].open => b.series[u].generation # 0
    <3>1. CASE u # s
      BY <2>1, <3>1 DEF Tells
    <3>2. CASE u = s
      <4>1. /\ a.series[s].contributors = {x \in run : SeriesOf[x] = s}
            /\ a.series[s].open <=> \E x \in run : SeriesOf[x] = s
            /\ a.series[s].open => a.series[s].generation # 0
        BY <1>1 DEF Tells
      <4>2. a.series[s].contributors # {e} <=> \E x \in run \ {e} : SeriesOf[x] = s
        BY <2>2, <4>1
      <4>3. QED BY <2>1, <2>2, <3>2, <4>1, <4>2
    <3>3. QED BY <3>1, <3>2
  <2>4. (run \ {e}) \cap b.closed = {}
    BY <2>1 DEF Tells
  <2>5. Tells(b, run \ {e})
    BY <2>3, <2>4 DEF Tells
  <2>6. QED BY <2>1, <2>5 DEF b
<1>4. QED BY <1>2, <1>3

-----------------------------------------------------------------------------
(* What the reducer has emitted.                                           *)

\* The transitions q agree with the memory: an episode opens when it starts to run and
\* recovers when it has closed, generations go up to the series' own, and the identities
\* differ.
Told(q, a, run) ==
    /\ \A i \in DOMAIN q :
         /\ q[i].kind = "open" => q[i].episode \in run \cup a.closed
         /\ q[i].kind = "recovery" => q[i].episode \in a.closed
         /\ q[i].generation <= a.series[q[i].series].generation
         /\ q[i].kind = "recovery" /\ a.series[q[i].series].open =>
              q[i].generation # a.series[q[i].series].generation
    /\ \A i, j \in DOMAIN q :
         \/ i = j
         \/ q[i].kind # q[j].kind
         \/ /\ q[i].episode # q[j].episode
            /\ q[i].series # q[j].series \/ q[i].generation # q[j].generation

LEMMA OneMore ==
    ASSUME NEW q \in Seq(Transition), NEW x \in Transition, NEW r, r = q \o <<x>>
    PROVE  /\ r \in Seq(Transition)
           /\ DOMAIN r = DOMAIN q \cup {Len(q) + 1} /\ Len(q) + 1 \notin DOMAIN q
           /\ \A i \in DOMAIN q : r[i] = q[i]
           /\ r[Len(q) + 1] = x
<1>1. r = Append(q, x)
  BY AppendIsConcat
<1>2. QED BY <1>1

LEMMA NoneMore ==
    ASSUME NEW q \in Seq(Transition)
    PROVE  q \o <<>> = q
BY ConcatEmptySeq

LEMMA Emitted ==
    ASSUME NEW q \in Seq(Transition), NEW i \in DOMAIN q
    PROVE  /\ q[i] \in Transition /\ q[i].series \in Series
           /\ q[i].generation \in Nat \ {0} /\ q[i].kind \in Kinds
           /\ q[i].episode \in Episodes
<1>1. q[i] \in Transition
  OBVIOUS
<1>2. QED BY <1>1 DEF Transition

LEMMA OpenTold ==
    ASSUME NEW a \in Alerts, NEW run \in SUBSET Episodes, NEW e \in Episodes, Tells(a, run),
           NEW q \in Seq(Transition), Told(q, a, run),
           NEW r, r = q \o OpenTransition(a, SeriesOf[e], e),
           NEW b, b = AfterStart(a, SeriesOf[e], e)
    PROVE  r \in Seq(Transition) /\ Told(r, b, RunsAfterStart(a, run, e))
<1> DEFINE s == SeriesOf[e]
<1>1. s \in Series /\ a.series[s] \in SeriesState /\ a.series[s].generation \in Nat
  BY SeriesOfAssumption DEF Alerts, SeriesState
<1>2. CASE ~Starting(a, s, e)
  <2>1. b = a /\ r = q
    BY <1>2, NoStart, NoneMore
  <2>2. QED BY <2>1 DEF Told, RunsAfterStart
<1>3. CASE Starting(a, s, e)
  <2>1. RunsAfterStart(a, run, e) = run \cup {e} /\ e \notin a.closed /\ e \notin run
    BY <1>1, <1>3 DEF Starting, RunsAfterStart, Contributes, Tells
  <2>2. /\ b.closed = a.closed
        /\ \A u \in Series \ {s} : b.series[u] = a.series[u]
        /\ b.series[s].generation =
             IF a.series[s].open THEN a.series[s].generation ELSE a.series[s].generation + 1
    BY <1>1, <1>3, StartEffect
  <2>3. CASE a.series[s].open
    <3>1. r = q
      BY <1>3, <2>3, NoneMore DEF OpenTransition, Opens
    <3>2. \A i \in DOMAIN q : q[i] \in Transition /\ q[i].series \in Series
      BY Emitted
    <3>3. QED BY <2>1, <2>2, <2>3, <3>1, <3>2 DEF Told
  <2>4. CASE ~a.series[s].open
    <3> DEFINE x == [series |-> s, generation |-> a.series[s].generation + 1,
                     kind |-> "open", episode |-> e]
    <3>1. x \in Transition /\ r = q \o <<x>>
      BY <1>1, <1>3, <2>4 DEF OpenTransition, Opens, Transition, Kinds
    <3>2. x.series = s /\ x.generation = a.series[s].generation + 1 /\ x.kind = "open" /\ x.episode = e
      OBVIOUS
    <3> HIDE DEF x
    <3>3. /\ r \in Seq(Transition)
          /\ DOMAIN r = DOMAIN q \cup {Len(q) + 1} /\ Len(q) + 1 \notin DOMAIN q
          /\ \A i \in DOMAIN q : r[i] = q[i]
          /\ r[Len(q) + 1] = x
      BY <3>1, OneMore
    <3>4. \A i \in DOMAIN q : q[i].series \in Series /\ q[i].generation \in Nat
      BY Emitted
    <3>5. \A u \in Series : a.series[u].generation \in Nat /\ b.series[u].generation \in Nat
                            /\ a.series[u].generation <= b.series[u].generation
      BY <1>1, <2>2 DEF Alerts, SeriesState
    <3>6. \A i \in DOMAIN q : /\ q[i].generation <= a.series[q[i].series].generation
                              /\ q[i].kind = "open" => q[i].episode # e
      BY <2>1 DEF Told
    <3>7. ASSUME NEW i \in DOMAIN r
          PROVE  /\ r[i].kind = "open" => r[i].episode \in (run \cup {e}) \cup b.closed
                 /\ r[i].kind = "recovery" => r[i].episode \in b.closed
                 /\ r[i].generation <= b.series[r[i].series].generation
                 /\ r[i].kind = "recovery" /\ b.series[r[i].series].open =>
                      r[i].generation # b.series[r[i].series].generation
      <4>1. CASE i = Len(q) + 1
        <5>1. r[i] = x
          BY <3>3, <4>1
        <5>2. b.series[s].generation = a.series[s].generation + 1
          BY <2>2, <2>4
        <5>3. QED BY <5>1, <5>2, <1>1, <3>2
      <4>2. CASE i \in DOMAIN q /\ q[i].series # s
        <5>1. r[i] = q[i] /\ b.series[q[i].series] = a.series[q[i].series]
          BY <2>2, <3>3, <3>4, <4>2
        <5>2. QED BY <5>1, <4>2, <2>2 DEF Told
      <4>3. CASE i \in DOMAIN q /\ q[i].series = s
        <5>1. r[i] = q[i] /\ q[i].generation <= a.series[s].generation
          BY <4>3, <3>3, <3>6
        <5>2. q[i].generation < b.series[s].generation
          BY <5>1, <4>3, <1>1, <2>2, <2>4, <3>4
        <5>3. QED BY <5>1, <5>2, <4>3, <1>1, <2>2, <3>4, <3>5 DEF Told
      <4>4. QED BY <3>3, <4>1, <4>2, <4>3
    <3>8. ASSUME NEW i \in DOMAIN q
          PROVE  \/ q[i].kind # x.kind
                 \/ /\ q[i].episode # x.episode
                    /\ q[i].series # x.series \/ q[i].generation # x.generation
      BY <1>1, <3>2, <3>4, <3>6
    <3>9. ASSUME NEW i \in DOMAIN r, NEW j \in DOMAIN r
          PROVE  \/ i = j
                 \/ r[i].kind # r[j].kind
                 \/ /\ r[i].episode # r[j].episode
                    /\ r[i].series # r[j].series \/ r[i].generation # r[j].generation
      BY <3>3, <3>8 DEF Told
    <3>10. QED BY <2>1, <3>3, <3>7, <3>9 DEF Told
  <2>5. QED BY <2>3, <2>4
<1>4. QED BY <1>2, <1>3

LEMMA RecoveryTold ==
    ASSUME NEW a \in Alerts, NEW run \in SUBSET Episodes, NEW e \in Episodes, Tells(a, run),
           NEW q \in Seq(Transition), Told(q, a, run),
           NEW r, r = q \o RecoveryTransition(a, SeriesOf[e], e),
           NEW b, b = AfterClear(a, SeriesOf[e], e)
    PROVE  r \in Seq(Transition) /\ Told(r, b, run \ {e})
<1> DEFINE s == SeriesOf[e]
<1>1. s \in Series /\ a.series[s] \in SeriesState /\ a.series[s].generation \in Nat
  BY SeriesOfAssumption DEF Alerts, SeriesState
<1>2. CASE ~Clearing(a, s, e)
  <2>1. b = a /\ r = q
    BY <1>2, NoClear, NoneMore
  <2>2. run \ {e} = run
    BY <1>1, <1>2 DEF Clearing, Contributes, Tells
  <2>3. QED BY <2>1, <2>2
<1>3. CASE Clearing(a, s, e)
  <2>1. e \notin a.closed /\ e \in run
    BY <1>1, <1>3 DEF Clearing, Contributes, Tells
  <2>2. /\ b.closed = a.closed \cup {e}
        /\ \A u \in Series \ {s} : b.series[u] = a.series[u]
        /\ b.series[s].open <=> (a.series[s].open /\ a.series[s].contributors # {e})
        /\ b.series[s].generation = a.series[s].generation
    BY <1>1, <1>3, ClearEffect
  <2>3. \A i \in DOMAIN q : q[i].series \in Series /\ q[i].generation \in Nat
    BY Emitted
  <2>4. ASSUME NEW i \in DOMAIN q
        PROVE  /\ q[i].kind = "open" => q[i].episode \in (run \ {e}) \cup b.closed
               /\ q[i].kind = "recovery" => q[i].episode \in b.closed
               /\ q[i].generation <= b.series[q[i].series].generation
               /\ q[i].kind = "recovery" /\ b.series[q[i].series].open =>
                    q[i].generation # b.series[q[i].series].generation
    <3>1. CASE q[i].series # s
      BY <3>1, <2>2, <2>3 DEF Told
    <3>2. CASE q[i].series = s
      BY <3>2, <2>2, <2>3 DEF Told
    <3>3. QED BY <3>1, <3>2
  <2>5. CASE ~Recovers(a, s, e)
    <3>1. r = q
      BY <2>5, NoneMore DEF RecoveryTransition
    <3>2. QED BY <2>4, <3>1 DEF Told
  <2>6. CASE Recovers(a, s, e)
    <3> DEFINE x == [series |-> s, generation |-> a.series[s].generation,
                     kind |-> "recovery", episode |-> e]
    <3>9. a.series[s].generation # 0
      BY <1>1, <2>6 DEF Recovers, Tells
    <3>1. x \in Transition /\ r = q \o <<x>>
      BY <1>1, <2>6, <3>9 DEF RecoveryTransition, Transition, Kinds
    <3>2. x.series = s /\ x.generation = a.series[s].generation /\ x.kind = "recovery" /\ x.episode = e
      OBVIOUS
    <3> HIDE DEF x
    <3>3. /\ r \in Seq(Transition)
          /\ DOMAIN r = DOMAIN q \cup {Len(q) + 1} /\ Len(q) + 1 \notin DOMAIN q
          /\ \A i \in DOMAIN q : r[i] = q[i]
          /\ r[Len(q) + 1] = x
      BY <3>1, OneMore
    <3>4. a.series[s].open /\ ~b.series[s].open
      BY <2>2, <2>6 DEF Recovers
    <3>5. ASSUME NEW i \in DOMAIN r
          PROVE  /\ r[i].kind = "open" => r[i].episode \in (run \ {e}) \cup b.closed
                 /\ r[i].kind = "recovery" => r[i].episode \in b.closed
                 /\ r[i].generation <= b.series[r[i].series].generation
                 /\ r[i].kind = "recovery" /\ b.series[r[i].series].open =>
                      r[i].generation # b.series[r[i].series].generation
      BY <1>1, <2>2, <2>4, <3>2, <3>3, <3>4
    <3>6. ASSUME NEW i \in DOMAIN q
          PROVE  \/ q[i].kind # x.kind
                 \/ /\ q[i].episode # x.episode
                    /\ q[i].series # x.series \/ q[i].generation # x.generation
      BY <2>1, <3>2, <3>4 DEF Told
    <3>7. ASSUME NEW i \in DOMAIN r, NEW j \in DOMAIN r
          PROVE  \/ i = j
                 \/ r[i].kind # r[j].kind
                 \/ /\ r[i].episode # r[j].episode
                    /\ r[i].series # r[j].series \/ r[i].generation # r[j].generation
      <4>1. CASE i \in DOMAIN q /\ j \in DOMAIN q
        BY <3>3, <4>1 DEF Told
      <4>2. CASE i \notin DOMAIN q \/ j \notin DOMAIN q
        BY <3>3, <3>6, <4>2
      <4>3. QED BY <4>1, <4>2
    <3>8. QED BY <3>3, <3>5, <3>7 DEF Told
  <2>7. QED BY <2>5, <2>6
<1>4. QED BY <1>2, <1>3

-----------------------------------------------------------------------------
(* The invariant of the alert reducer.                                     *)

ReducerTypes ==
    /\ alerts \in Alerts
    /\ transitions \in Seq(Transition)
    /\ running \in SUBSET Episodes

ReducerInv == ReducerTypes /\ Tells(alerts, running) /\ Told(transitions, alerts, running)

\* Clearing removes e from what runs, started just before or not.
LEMMA RunsAfterEpisode ==
    ASSUME NEW a \in Alerts, NEW run, NEW e, Tells(a, run)
    PROVE  RunsAfterStart(a, run, e) \ {e} = run \ {e}
BY DEF RunsAfterStart

LEMMA InitReducer == Init => ReducerInv
<1> SUFFICES ASSUME Init PROVE ReducerInv
  OBVIOUS
<1>1. /\ alerts.closed = {} /\ transitions = <<>> /\ running = {}
      /\ alerts = [series |-> [s \in Series |-> NewSeries], closed |-> {}]
  BY DEF Init
<1>2. NewSeries \in SeriesState /\ NewSeries.open = FALSE /\ NewSeries.contributors = {}
  BY DEF NewSeries, SeriesState
<1>3. alerts \in Alerts /\ \A s \in Series : alerts.series[s] = NewSeries
  BY <1>1, <1>2 DEF Alerts
<1>4. Tells(alerts, running)
  BY <1>1, <1>2, <1>3 DEF Tells
<1>5. Told(transitions, alerts, running) /\ transitions \in Seq(Transition)
  BY <1>1 DEF Told
<1>6. QED BY <1>1, <1>3, <1>4, <1>5 DEF ReducerInv, ReducerTypes

LEMMA ApplyStartKeeps ==
    ASSUME ReducerInv, NEW e \in Episodes, ApplyStart(e) PROVE ReducerInv'
<1>1. /\ alerts' = AfterStart(alerts, SeriesOf[e], e)
      /\ transitions' = transitions \o OpenTransition(alerts, SeriesOf[e], e)
      /\ running' = RunsAfterStart(alerts, running, e)
  BY DEF ApplyStart, RunsAfterStart
<1>2. running' \in SUBSET Episodes
  BY <1>1 DEF RunsAfterStart, ReducerInv, ReducerTypes
<1>3. alerts' \in Alerts /\ Tells(alerts', running')
  BY <1>1, StartTells DEF ReducerInv, ReducerTypes
<1>4. transitions' \in Seq(Transition) /\ Told(transitions', alerts', running')
  BY <1>1, OpenTold DEF ReducerInv, ReducerTypes
<1>5. QED BY <1>2, <1>3, <1>4 DEF ReducerInv, ReducerTypes, Tells, Told

LEMMA ApplyClearKeeps ==
    ASSUME ReducerInv, NEW e \in Episodes, ApplyClear(e) PROVE ReducerInv'
<1>1. /\ alerts' = AfterClear(alerts, SeriesOf[e], e)
      /\ transitions' = transitions \o RecoveryTransition(alerts, SeriesOf[e], e)
      /\ running' = running \ {e}
  BY DEF ApplyClear
<1>2. running' \in SUBSET Episodes
  BY <1>1 DEF ReducerInv, ReducerTypes
<1>3. alerts' \in Alerts /\ Tells(alerts', running')
  BY <1>1, ClearTells DEF ReducerInv, ReducerTypes
<1>4. transitions' \in Seq(Transition) /\ Told(transitions', alerts', running')
  BY <1>1, RecoveryTold DEF ReducerInv, ReducerTypes
<1>5. QED BY <1>2, <1>3, <1>4 DEF ReducerInv, ReducerTypes, Tells, Told

LEMMA ApplyEpisodeKeeps ==
    ASSUME ReducerInv, NEW e \in Episodes, ApplyEpisode(e) PROVE ReducerInv'
<1> DEFINE s == SeriesOf[e]
<1> DEFINE a == AfterStart(alerts, s, e)
<1> DEFINE run == RunsAfterStart(alerts, running, e)
<1> DEFINE q == transitions \o OpenTransition(alerts, s, e)
<1>1. /\ alerts' = AfterClear(a, s, e)
      /\ transitions' = q \o RecoveryTransition(a, s, e)
      /\ running' = running \ {e}
  BY DEF ApplyEpisode
<1>2. run \in SUBSET Episodes /\ running' = run \ {e} /\ running' \in SUBSET Episodes
  BY <1>1, RunsAfterEpisode DEF RunsAfterStart, ReducerInv, ReducerTypes
<1>3. a \in Alerts /\ Tells(a, run)
  BY StartTells DEF ReducerInv, ReducerTypes
<1>4. q \in Seq(Transition) /\ Told(q, a, run)
  BY OpenTold DEF ReducerInv, ReducerTypes
<1> HIDE DEF a, run, q
<1>5. alerts' \in Alerts /\ Tells(alerts', running')
  BY <1>1, <1>2, <1>3, ClearTells
<1>6. transitions' \in Seq(Transition) /\ Told(transitions', alerts', running')
  <2>1. Told(transitions', alerts', run \ {e}) /\ transitions' \in Seq(Transition)
    <3> HIDE DEF s
    <3>1. s = SeriesOf[e]
      BY DEF s
    <3>2. QED BY <1>1, <1>2, <1>3, <1>4, <3>1, RecoveryTold
  <2>2. QED BY <1>2, <2>1
<1>7. QED BY <1>2, <1>5, <1>6 DEF ReducerInv, ReducerTypes, Tells, Told

\* The planner and the delivery reducer leave the alert reducer alone.
LEMMA OthersLeaveReducer ==
    ASSUME Next, ~ \E e \in Episodes : ApplyStart(e) \/ ApplyClear(e) \/ ApplyEpisode(e)
    PROVE  UNCHANGED <<alerts, transitions, running>>
BY DEF Next, Plan, Ensure, Begin, Complete, Fail, Finish

LEMMA SameReducer ==
    ASSUME ReducerInv, UNCHANGED <<alerts, transitions, running>> PROVE ReducerInv'
BY DEF ReducerInv, ReducerTypes, Tells, Told

LEMMA NextReducer == ReducerInv /\ [Next]_vars => ReducerInv'
<1> SUFFICES ASSUME ReducerInv, [Next]_vars PROVE ReducerInv'
  OBVIOUS
<1>1. CASE UNCHANGED vars
  BY <1>1, SameReducer DEF vars
<1>2. CASE Next
  BY <1>2, ApplyStartKeeps, ApplyClearKeeps, ApplyEpisodeKeeps, OthersLeaveReducer, SameReducer
<1>3. QED BY <1>1, <1>2

\* The invariant of the alert reducer's memory and of what it has emitted.
THEOREM ReducerInvHolds == Spec => []ReducerInv
<1>1. Init => ReducerInv
  BY InitReducer
<1>2. ReducerInv /\ [Next]_vars => ReducerInv'
  BY NextReducer
<1>3. QED BY <1>1, <1>2, PTL DEF Spec

\* A series is open exactly while one of its episodes runs.
THEOREM SeriesOpenWhileRunning == Spec => []OpenWhileRunning
<1>1. ReducerInv => OpenWhileRunning
  BY DEF ReducerInv, Tells, OpenWhileRunning
<1>2. QED BY <1>1, ReducerInvHolds, PTL

\* No episode raises or recovers an alert twice.
THEOREM EpisodesAlertOnce == Spec => []EpisodeAlertsOnce
<1>1. ReducerInv => EpisodeAlertsOnce
  BY DEF ReducerInv, Told, EpisodeAlertsOnce
<1>2. QED BY <1>1, ReducerInvHolds, PTL

-----------------------------------------------------------------------------
(* The transitions are a log of openings and recoveries.                   *)

Episode(q, kind) == {q[i].episode : i \in {j \in DOMAIN q : q[j].kind = kind}}

LEMMA OneMoreOfItsKind ==
    ASSUME NEW q \in Seq(Transition), NEW x \in Transition, NEW r, r = Append(q, x)
    PROVE  Episode(r, x.kind) = Episode(q, x.kind) \cup {x.episode}
<1>1. /\ DOMAIN r = DOMAIN q \cup {Len(q) + 1} /\ Len(q) + 1 \notin DOMAIN q
      /\ \A i \in DOMAIN q : r[i] = q[i]
      /\ r[Len(q) + 1] = x
  OBVIOUS
<1>2. QED BY <1>1 DEF Episode

LEMMA OneMoreOfAnother ==
    ASSUME NEW q \in Seq(Transition), NEW x \in Transition, NEW r, r = Append(q, x),
           NEW kind, x.kind # kind
    PROVE  Episode(r, kind) = Episode(q, kind)
<1>1. /\ DOMAIN r = DOMAIN q \cup {Len(q) + 1} /\ Len(q) + 1 \notin DOMAIN q
      /\ \A i \in DOMAIN q : r[i] = q[i]
      /\ r[Len(q) + 1] = x
  OBVIOUS
<1>2. QED BY <1>1 DEF Episode

LEMMA OneMoreOpen ==
    ASSUME NEW q \in Seq(Transition), NEW x \in Transition, NEW r, r = Append(q, x),
           x.kind = "open"
    PROVE  /\ Episode(r, "open") = Episode(q, "open") \cup {x.episode}
           /\ Episode(r, "recovery") = Episode(q, "recovery")
<1>1. Episode(r, "open") = Episode(q, "open") \cup {x.episode}
  BY OneMoreOfItsKind
<1>4. x.kind # "recovery"
  OBVIOUS
<1>2. Episode(r, "recovery") = Episode(q, "recovery")
  BY <1>4, OneMoreOfAnother
<1>3. QED BY <1>1, <1>2

LEMMA OneMoreRecovery ==
    ASSUME NEW q \in Seq(Transition), NEW x \in Transition, NEW r, r = Append(q, x),
           x.kind = "recovery"
    PROVE  /\ Episode(r, "recovery") = Episode(q, "recovery") \cup {x.episode}
           /\ Episode(r, "open") = Episode(q, "open")
<1>1. Episode(r, "recovery") = Episode(q, "recovery") \cup {x.episode}
  BY OneMoreOfItsKind
<1>4. x.kind # "open"
  OBVIOUS
<1>2. Episode(r, "open") = Episode(q, "open")
  BY <1>4, OneMoreOfAnother
<1>3. QED BY <1>1, <1>2

\* The abstract state.
OpenOf(a) == [s \in Series |-> a.series[s].open]
GenerationOf(a) == [s \in Series |-> a.series[s].generation]

LEMMA OpeningStart ==
    ASSUME NEW a \in Alerts, NEW e \in Episodes, NEW s \in Series, Opens(a, s, e),
           NEW b, b = AfterStart(a, s, e), NEW u \in Series
    PROVE  /\ b.series[u].open <=> (u = s \/ a.series[u].open)
           /\ b.series[u].generation =
                IF u = s THEN a.series[u].generation + 1 ELSE a.series[u].generation
<1>1. Starting(a, s, e) /\ ~a.series[s].open
  BY DEF Opens
<1>2. /\ b \in Alerts
      /\ \A v \in Series \ {s} : b.series[v] = a.series[v]
      /\ b.series[s].open
      /\ b.series[s].generation =
           IF a.series[s].open THEN a.series[s].generation ELSE a.series[s].generation + 1
  BY <1>1, StartEffect
<1>3. b.series[s].open \in BOOLEAN
  BY <1>2 DEF Alerts, SeriesState
<1>4. QED BY <1>1, <1>2, <1>3

LEMMA OtherStart ==
    ASSUME NEW a \in Alerts, NEW e \in Episodes, NEW s \in Series, ~Opens(a, s, e),
           NEW b, b = AfterStart(a, s, e), NEW u \in Series
    PROVE  /\ b.series[u].open = a.series[u].open
           /\ b.series[u].generation = a.series[u].generation
<1>1. CASE ~Starting(a, s, e)
  BY <1>1, NoStart
<1>2. CASE Starting(a, s, e)
  <2>1. /\ b \in Alerts
        /\ \A v \in Series \ {s} : b.series[v] = a.series[v]
        /\ b.series[s].open
        /\ b.series[s].generation =
             IF a.series[s].open THEN a.series[s].generation ELSE a.series[s].generation + 1
    BY <1>2, StartEffect
  <2>2. b.series[s].open \in BOOLEAN /\ a.series[s].open \in BOOLEAN /\ a.series[s].open
    BY <1>2, <2>1 DEF Alerts, SeriesState, Opens
  <2>3. QED BY <2>1, <2>2
<1>3. QED BY <1>1, <1>2

LEMMA RecoveringClear ==
    ASSUME NEW a \in Alerts, NEW e \in Episodes, NEW s \in Series, Recovers(a, s, e),
           NEW b, b = AfterClear(a, s, e), NEW u \in Series
    PROVE  /\ b.series[u].open <=> (u # s /\ a.series[u].open)
           /\ b.series[u].generation = a.series[u].generation
<1>1. Clearing(a, s, e) /\ a.series[s].contributors = {e}
  BY DEF Recovers
<1>2. /\ b \in Alerts
      /\ \A v \in Series \ {s} : b.series[v] = a.series[v]
      /\ b.series[s].open <=> (a.series[s].open /\ a.series[s].contributors # {e})
      /\ b.series[s].generation = a.series[s].generation
  BY <1>1, ClearEffect
<1>3. b.series[s].open \in BOOLEAN
  BY <1>2 DEF Alerts, SeriesState
<1>4. QED BY <1>1, <1>2, <1>3

LEMMA OtherClear ==
    ASSUME NEW a \in Alerts, NEW e \in Episodes, NEW s \in Series, ~Recovers(a, s, e),
           NEW b, b = AfterClear(a, s, e), NEW u \in Series
    PROVE  /\ b.series[u].open = a.series[u].open
           /\ b.series[u].generation = a.series[u].generation
<1>1. CASE ~Clearing(a, s, e)
  BY <1>1, NoClear
<1>2. CASE Clearing(a, s, e)
  <2>1. /\ b \in Alerts
        /\ \A v \in Series \ {s} : b.series[v] = a.series[v]
        /\ b.series[s].open <=> (a.series[s].open /\ a.series[s].contributors # {e})
        /\ b.series[s].generation = a.series[s].generation
    BY <1>2, ClearEffect
  <2>2. b.series[s].open \in BOOLEAN /\ a.series[s].open \in BOOLEAN
    BY <2>1 DEF Alerts, SeriesState
  <2>3. a.series[s].open => a.series[s].contributors # {e}
    BY <1>2 DEF Recovers
  <2>4. QED BY <2>1, <2>2, <2>3
<1>3. QED BY <1>1, <1>2

\* What the instance's variables stand for, and what leaves them alone.
LEMMA Mapping ==
    /\ [s \in Series |-> alerts.series[s].open] = OpenOf(alerts)
    /\ [s \in Series |-> alerts.series[s].generation] = GenerationOf(alerts)
    /\ {transitions[i].episode : i \in OfKind("open")} = Episode(transitions, "open")
    /\ {transitions[i].episode : i \in OfKind("recovery")} = Episode(transitions, "recovery")
BY DEF OpenOf, GenerationOf, Episode, OfKind

LEMMA OpensLogged ==
    ASSUME ReducerInv, NEW e \in Episodes, NEW s, s = SeriesOf[e], Opens(alerts, s, e),
           transitions' = transitions \o OpenTransition(alerts, s, e),
           alerts' = AfterStart(alerts, s, e)
    PROVE  Log!Opens(e)
<1>1. s \in Series /\ alerts \in Alerts /\ transitions \in Seq(Transition)
  BY SeriesOfAssumption DEF ReducerInv, ReducerTypes
<1> DEFINE x == [series |-> s, generation |-> alerts.series[s].generation + 1,
                 kind |-> "open", episode |-> e]
<1>2. x \in Transition /\ transitions' = transitions \o <<x>>
  <2>1. alerts.series[s].generation \in Nat
    BY <1>1 DEF Alerts, SeriesState
  <2>2. QED BY <1>1, <2>1 DEF OpenTransition, Transition, Kinds
<1>3. x = Log!Entry(e, GenerationOf(alerts)[s] + 1, "open")
  BY <1>1 DEF Log!Entry, GenerationOf
<1>4. x.kind = "open" /\ x.episode = e
  OBVIOUS
<1> HIDE DEF x
<1>5. transitions' = Append(transitions, x)
  BY <1>1, <1>2, AppendIsConcat
<1>6. /\ Episode(transitions', "open") = Episode(transitions, "open") \cup {e}
      /\ Episode(transitions', "recovery") = Episode(transitions, "recovery")
  BY <1>1, <1>2, <1>4, <1>5, OneMoreOpen
<1>7. e \notin Episode(transitions, "open")
  BY <1>1 DEF Episode, Opens, Starting, Contributes, ReducerInv, Tells, Told
<1>8. /\ OpenOf(alerts') = [OpenOf(alerts) EXCEPT ![s] = TRUE]
      /\ GenerationOf(alerts') = [GenerationOf(alerts) EXCEPT ![s] = @ + 1]
  <2>1. \A u \in Series :
          /\ alerts'.series[u].open <=> (u = s \/ alerts.series[u].open)
          /\ alerts'.series[u].generation =
               IF u = s THEN alerts.series[u].generation + 1 ELSE alerts.series[u].generation
    BY <1>1, OpeningStart
  <2>2. alerts' \in Alerts
    BY StartTells DEF ReducerInv, ReducerTypes
  <2>3. \A u \in Series : alerts'.series[u].open \in BOOLEAN /\ alerts.series[u].open \in BOOLEAN
    BY <1>1, <2>2 DEF Alerts, SeriesState
  <2>4. \A u \in Series \ {s} : alerts'.series[u].open = alerts.series[u].open
    BY <2>1, <2>3
  <2>5. alerts'.series[s].open = TRUE
    BY <1>1, <2>1, <2>3
  <2>6. OpenOf(alerts') = [OpenOf(alerts) EXCEPT ![s] = TRUE]
    BY <1>1, <2>4, <2>5 DEF OpenOf
  <2>7. GenerationOf(alerts') = [GenerationOf(alerts) EXCEPT ![s] = @ + 1]
    BY <1>1, <2>1 DEF GenerationOf
  <2>8. QED BY <2>6, <2>7
<1>9. ~OpenOf(alerts)[s]
  BY <1>1 DEF Opens, OpenOf
<1>10. QED
  BY <1>3, <1>5, <1>6, <1>7, <1>8, <1>9
     DEF Log!Opens, OpenOf, GenerationOf, Episode, OfKind

LEMMA RecoversLogged ==
    ASSUME NEW a \in Alerts, NEW run \in SUBSET Episodes, Tells(a, run),
           Told(transitions, a, run), transitions \in Seq(Transition),
           OpenOf(a) = OpenOf(alerts), GenerationOf(a) = GenerationOf(alerts),
           NEW e \in Episodes, NEW s, s = SeriesOf[e], Recovers(a, s, e),
           transitions' = transitions \o RecoveryTransition(a, s, e),
           alerts' = AfterClear(a, s, e)
    PROVE  Log!Recovers(e)
<1>1. s \in Series /\ a.series[s].generation \in Nat \ {0}
  BY SeriesOfAssumption DEF Alerts, SeriesState, Tells, Recovers
<1> DEFINE x == [series |-> s, generation |-> a.series[s].generation,
                 kind |-> "recovery", episode |-> e]
<1>2. x \in Transition /\ transitions' = transitions \o <<x>>
  BY <1>1 DEF RecoveryTransition, Transition, Kinds
<1>3. x = Log!Entry(e, GenerationOf(alerts)[s], "recovery")
  <2>1. GenerationOf(alerts)[s] = a.series[s].generation
    BY <1>1 DEF GenerationOf
  <2>2. QED BY <2>1 DEF Log!Entry
<1>4. x.kind = "recovery" /\ x.episode = e
  OBVIOUS
<1> HIDE DEF x
<1>5. transitions' = Append(transitions, x)
  BY <1>1, <1>2, AppendIsConcat
<1>6. /\ Episode(transitions', "recovery") = Episode(transitions, "recovery") \cup {e}
      /\ Episode(transitions', "open") = Episode(transitions, "open")
  BY <1>1, <1>2, <1>4, <1>5, OneMoreRecovery
<1>7. e \notin Episode(transitions, "recovery")
  BY <1>1 DEF Episode, Recovers, Clearing, Told
<1>8. /\ OpenOf(alerts') = [OpenOf(alerts) EXCEPT ![s] = FALSE]
      /\ GenerationOf(alerts') = GenerationOf(alerts)
  <2>1. \A u \in Series :
          /\ alerts'.series[u].open <=> (u # s /\ a.series[u].open)
          /\ alerts'.series[u].generation = a.series[u].generation
    BY <1>1, RecoveringClear
  <2>2. alerts' \in Alerts
    BY ClearTells
  <2>3. \A u \in Series : alerts'.series[u].open \in BOOLEAN /\ a.series[u].open \in BOOLEAN
    BY <1>1, <2>2 DEF Alerts, SeriesState
  <2>4. \A u \in Series \ {s} : alerts'.series[u].open = a.series[u].open
    BY <2>1, <2>3
  <2>5. alerts'.series[s].open = FALSE
    BY <1>1, <2>1, <2>3
  <2>6. OpenOf(alerts') = [OpenOf(a) EXCEPT ![s] = FALSE]
    BY <1>1, <2>4, <2>5 DEF OpenOf
  <2>7. GenerationOf(alerts') = GenerationOf(a)
    BY <1>1, <2>1 DEF GenerationOf
  <2>8. QED BY <2>6, <2>7
<1>9. OpenOf(alerts)[s]
  <2>1. OpenOf(a)[s]
    BY <1>1 DEF Recovers, OpenOf
  <2>2. QED BY <2>1
<1>10. QED
  BY <1>3, <1>5, <1>6, <1>7, <1>8, <1>9
     DEF Log!Recovers, OpenOf, GenerationOf, Episode, OfKind

LEMMA EpisodeLogged ==
    ASSUME ReducerInv, NEW e \in Episodes, NEW s, s = SeriesOf[e], Opens(alerts, s, e),
           NEW a, a = AfterStart(alerts, s, e),
           transitions' = (transitions \o OpenTransition(alerts, s, e))
                            \o RecoveryTransition(a, s, e),
           alerts' = AfterClear(a, s, e)
    PROVE  Log!OpensAndRecovers(e)
<1>1. /\ s \in Series /\ alerts \in Alerts /\ transitions \in Seq(Transition)
      /\ running \in SUBSET Episodes /\ Tells(alerts, running)
  BY SeriesOfAssumption DEF ReducerInv, ReducerTypes
<1>2. /\ e \notin alerts.closed /\ e \notin running /\ ~alerts.series[s].open
      /\ alerts.series[s].contributors = {} /\ Starting(alerts, s, e)
  BY <1>1 DEF Opens, Starting, Contributes, Tells
<1>3. /\ a \in Alerts /\ a.closed = alerts.closed
      /\ \A u \in Series \ {s} : a.series[u] = alerts.series[u]
      /\ a.series[s].open
      /\ a.series[s].contributors = alerts.series[s].contributors \cup {e}
      /\ a.series[s].generation = IF alerts.series[s].open
           THEN alerts.series[s].generation ELSE alerts.series[s].generation + 1
  BY <1>1, <1>2, StartEffect
<1>4. a.series[s].generation = alerts.series[s].generation + 1 /\ Recovers(a, s, e)
  BY <1>1, <1>2, <1>3 DEF Recovers, Clearing, Contributes
<1> DEFINE x == [series |-> s, generation |-> alerts.series[s].generation + 1,
                 kind |-> "open", episode |-> e]
<1> DEFINE y == [series |-> s, generation |-> alerts.series[s].generation + 1,
                 kind |-> "recovery", episode |-> e]
<1>5. x \in Transition /\ y \in Transition
  <2>1. alerts.series[s].generation \in Nat
    BY <1>1 DEF Alerts, SeriesState
  <2>2. alerts.series[s].generation + 1 \in Nat \ {0}
    BY <2>1
  <2>3. "open" \in Kinds /\ "recovery" \in Kinds
    BY DEF Kinds
  <2>4. QED BY <1>1, <2>2, <2>3 DEF Transition
<1>6. transitions' = (transitions \o <<x>>) \o <<y>>
  BY <1>4 DEF OpenTransition, RecoveryTransition
<1>7. /\ x = Log!Entry(e, GenerationOf(alerts)[s] + 1, "open")
      /\ y = Log!Entry(e, GenerationOf(alerts)[s] + 1, "recovery")
  BY <1>1 DEF Log!Entry, GenerationOf
<1>8. x.kind = "open" /\ x.episode = e /\ y.kind = "recovery" /\ y.episode = e
  OBVIOUS
<1> HIDE DEF x, y
<1>9. transitions' = Append(Append(transitions, x), y)
  <2>1. transitions \o <<x>> = Append(transitions, x) /\ Append(transitions, x) \in Seq(Transition)
    BY <1>1, <1>5, AppendIsConcat
  <2>2. QED BY <1>5, <1>6, <2>1, AppendIsConcat
<1>10. /\ Episode(transitions', "open") = Episode(transitions, "open") \cup {e}
       /\ Episode(transitions', "recovery") = Episode(transitions, "recovery") \cup {e}
  <2> DEFINE q == Append(transitions, x)
  <2>1. q \in Seq(Transition) /\ q = transitions \o <<x>>
    BY <1>1, <1>5, AppendIsConcat
  <2>2. transitions' = Append(q, y)
    BY <1>5, <1>6, <2>1, AppendIsConcat
  <2>3. /\ Episode(q, "open") = Episode(transitions, "open") \cup {e}
        /\ Episode(q, "recovery") = Episode(transitions, "recovery")
    BY <1>1, <1>5, <1>8, OneMoreOpen
  <2>q. q \in Seq(Transition)
    BY <2>1
  <2>y. y \in Transition /\ y.kind = "recovery" /\ y.episode = e
    BY <1>5, <1>8
  <2> HIDE DEF q
  <2>4. /\ Episode(transitions', "open") = Episode(q, "open")
        /\ Episode(transitions', "recovery") = Episode(q, "recovery") \cup {e}
    <3>1. PICK q1, y1, r1 : q1 = q /\ y1 = y /\ r1 = transitions'
      OBVIOUS
    <3>2. q1 \in Seq(Transition) /\ y1 \in Transition /\ y1.kind = "recovery"
          /\ r1 = Append(q1, y1)
      BY <2>q, <2>y, <2>2, <3>1
    <3>3. /\ Episode(r1, "open") = Episode(q1, "open")
          /\ Episode(r1, "recovery") = Episode(q1, "recovery") \cup {y1.episode}
      BY <3>2, OneMoreRecovery
    <3>4. QED BY <2>y, <3>1, <3>3
  <2>5. QED BY <2>3, <2>4
<1>11. e \notin Episode(transitions, "open") /\ e \notin Episode(transitions, "recovery")
  BY <1>1, <1>2 DEF Episode, ReducerInv, Told
<1>12. /\ OpenOf(alerts') = OpenOf(alerts)
       /\ GenerationOf(alerts') = [GenerationOf(alerts) EXCEPT ![s] = @ + 1]
  <2>1. \A u \in Series :
          /\ alerts'.series[u].open <=> (u # s /\ a.series[u].open)
          /\ alerts'.series[u].generation = a.series[u].generation
    BY <1>1, <1>3, <1>4, RecoveringClear
  <2>2. alerts' \in Alerts
    BY <1>1, <1>3, <1>4, ClearEffect DEF Recovers
  <2>3. \A u \in Series : alerts'.series[u].open \in BOOLEAN /\ alerts.series[u].open \in BOOLEAN
    BY <1>1, <2>2 DEF Alerts, SeriesState
  <2>4. \A u \in Series : alerts'.series[u].open <=> alerts.series[u].open
    BY <1>2, <1>3, <2>1
  <2>5. \A u \in Series : alerts'.series[u].open = alerts.series[u].open
    BY <2>3, <2>4
  <2>6. OpenOf(alerts') = OpenOf(alerts)
    BY <2>5 DEF OpenOf
  <2>9. \A u \in Series : alerts'.series[u].generation =
          IF u = s THEN alerts.series[u].generation + 1 ELSE alerts.series[u].generation
    BY <1>3, <1>4, <2>1
  <2>7. GenerationOf(alerts') = [GenerationOf(alerts) EXCEPT ![s] = @ + 1]
    BY <1>1, <2>9 DEF GenerationOf
  <2>8. QED BY <2>6, <2>7
<1>13. ~OpenOf(alerts)[s]
  BY <1>1, <1>2 DEF OpenOf
<1>14. QED
  BY <1>7, <1>9, <1>10, <1>11, <1>12, <1>13
     DEF Log!OpensAndRecovers, OpenOf, GenerationOf, Episode, OfKind

\* What changes none of the abstract variables.
LEMMA Unlogged ==
    ASSUME transitions' = transitions, OpenOf(alerts') = OpenOf(alerts),
           GenerationOf(alerts') = GenerationOf(alerts)
    PROVE  UNCHANGED Log!logVars
BY DEF Log!logVars, OpenOf, GenerationOf, OfKind

\* A start that opens nothing and a clear that recovers nothing map to no step.
LEMMA StartUnlogged ==
    ASSUME NEW a \in Alerts, NEW e \in Episodes, NEW s \in Series, ~Opens(a, s, e),
           NEW b, b = AfterStart(a, s, e)
    PROVE  OpenOf(b) = OpenOf(a) /\ GenerationOf(b) = GenerationOf(a)
<1>1. \A u \in Series : /\ b.series[u].open = a.series[u].open
                        /\ b.series[u].generation = a.series[u].generation
  BY OtherStart
<1>2. QED BY <1>1 DEF OpenOf, GenerationOf

LEMMA ClearUnlogged ==
    ASSUME NEW a \in Alerts, NEW e \in Episodes, NEW s \in Series, ~Recovers(a, s, e),
           NEW b, b = AfterClear(a, s, e)
    PROVE  OpenOf(b) = OpenOf(a) /\ GenerationOf(b) = GenerationOf(a)
<1>1. \A u \in Series : /\ b.series[u].open = a.series[u].open
                        /\ b.series[u].generation = a.series[u].generation
  BY OtherClear
<1>2. QED BY <1>1 DEF OpenOf, GenerationOf

\* The initial states map to initial states, and every step to a step or to none.
LEMMA InitLogged == Init => Log!LogInit
<1> SUFFICES ASSUME Init PROVE Log!LogInit
  OBVIOUS
<1>1. transitions = <<>> /\ alerts = [series |-> [s \in Series |-> NewSeries], closed |-> {}]
  BY DEF Init
<1>2. \A s \in Series : alerts.series[s].open = FALSE /\ alerts.series[s].generation = 0
  BY <1>1 DEF NewSeries
<1>3. OfKind("open") = {} /\ OfKind("recovery") = {}
  BY <1>1 DEF OfKind
<1>4. QED BY <1>1, <1>2, <1>3 DEF Log!LogInit

LEMMA NextLogged ==
    ReducerInv /\ [Next]_vars => [Log!LogNext]_(Log!logVars)
<1> SUFFICES ASSUME ReducerInv, [Next]_vars
             PROVE  Log!LogNext \/ UNCHANGED Log!logVars
  OBVIOUS
<1>0. alerts \in Alerts /\ transitions \in Seq(Transition) /\ running \in SUBSET Episodes
      /\ Tells(alerts, running) /\ Told(transitions, alerts, running)
  BY DEF ReducerInv, ReducerTypes
<1>1. ASSUME NEW e \in Episodes, ApplyStart(e)
      PROVE  Log!Opens(e) \/ UNCHANGED Log!logVars
  <2> DEFINE s == SeriesOf[e]
  <2>1. /\ alerts' = AfterStart(alerts, s, e) /\ s \in Series
        /\ transitions' = transitions \o OpenTransition(alerts, s, e)
    BY <1>1, SeriesOfAssumption DEF ApplyStart
  <2>2. CASE Opens(alerts, s, e)
    BY <2>1, <2>2, OpensLogged
  <2>3. CASE ~Opens(alerts, s, e)
    <3>1. transitions' = transitions
      BY <1>0, <2>1, <2>3, NoneMore DEF OpenTransition
    <3>2. OpenOf(alerts') = OpenOf(alerts) /\ GenerationOf(alerts') = GenerationOf(alerts)
      BY <1>0, <2>1, <2>3, StartUnlogged
    <3>3. QED BY <3>1, <3>2, Unlogged
  <2>4. QED BY <2>2, <2>3
<1>2. ASSUME NEW e \in Episodes, ApplyClear(e)
      PROVE  Log!Recovers(e) \/ UNCHANGED Log!logVars
  <2> DEFINE s == SeriesOf[e]
  <2>1. /\ alerts' = AfterClear(alerts, s, e) /\ s \in Series
        /\ transitions' = transitions \o RecoveryTransition(alerts, s, e)
    BY <1>2, SeriesOfAssumption DEF ApplyClear
  <2>2. CASE Recovers(alerts, s, e)
    BY <1>0, <2>1, <2>2, RecoversLogged
  <2>3. CASE ~Recovers(alerts, s, e)
    <3>1. transitions' = transitions
      BY <1>0, <2>1, <2>3, NoneMore DEF RecoveryTransition
    <3>2. OpenOf(alerts') = OpenOf(alerts) /\ GenerationOf(alerts') = GenerationOf(alerts)
      BY <1>0, <2>1, <2>3, ClearUnlogged
    <3>3. QED BY <3>1, <3>2, Unlogged
  <2>4. QED BY <2>2, <2>3
<1>3. ASSUME NEW e \in Episodes, ApplyEpisode(e)
      PROVE  Log!OpensAndRecovers(e) \/ Log!Recovers(e) \/ UNCHANGED Log!logVars
  <2> DEFINE s == SeriesOf[e]
  <2> DEFINE a == AfterStart(alerts, s, e)
  <2>1. /\ alerts' = AfterClear(a, s, e) /\ s \in Series
        /\ transitions' = (transitions \o OpenTransition(alerts, s, e))
                            \o RecoveryTransition(a, s, e)
    BY <1>3, SeriesOfAssumption DEF ApplyEpisode
  <2>2. CASE Opens(alerts, s, e)
    BY <2>1, <2>2, EpisodeLogged
  <2>3. CASE ~Opens(alerts, s, e)
    <3>1. transitions \o OpenTransition(alerts, s, e) = transitions
      BY <1>0, <2>3, NoneMore DEF OpenTransition
    <3>2. OpenOf(a) = OpenOf(alerts) /\ GenerationOf(a) = GenerationOf(alerts)
      BY <1>0, <2>1, <2>3, StartUnlogged
    <3> DEFINE run == RunsAfterStart(alerts, running, e)
    <3>3. a \in Alerts /\ Tells(a, run)
      BY <1>0, StartTells
    <3>4. run \in SUBSET Episodes
      BY <1>0 DEF RunsAfterStart
    <3>5. Told(transitions, a, run)
      BY <1>0, <3>1, OpenTold
    <3>6. transitions' = transitions \o RecoveryTransition(a, s, e)
      BY <2>1, <3>1
    <3> HIDE DEF a, run
    <3>7. CASE Recovers(a, s, e)
      BY <1>0, <2>1, <3>2, <3>3, <3>4, <3>5, <3>6, <3>7, RecoversLogged
    <3>8. CASE ~Recovers(a, s, e)
      <4>1. transitions' = transitions
        BY <1>0, <3>6, <3>8, NoneMore DEF RecoveryTransition
      <4>2. OpenOf(alerts') = OpenOf(a) /\ GenerationOf(alerts') = GenerationOf(a)
        BY <2>1, <3>3, <3>8, ClearUnlogged
      <4>3. QED BY <3>2, <4>1, <4>2, Unlogged
    <3>9. QED BY <3>7, <3>8
  <2>4. QED BY <2>2, <2>3
<1>4. CASE UNCHANGED <<alerts, transitions, running>>
  BY <1>4, Unlogged
<1>5. CASE UNCHANGED vars
  BY <1>4, <1>5 DEF vars
<1>6. CASE Next
  BY <1>1, <1>2, <1>3, <1>4, <1>6, OthersLeaveReducer DEF Log!LogNext
<1>7. QED BY <1>5, <1>6

\* The reducer implements the log of openings and recoveries.
THEOREM ReducerImplementsLog == Spec => ImplementsAlertLog
<1>1. Init => Log!LogInit
  BY InitLogged
<1>2. ReducerInv /\ [Next]_vars => [Log!LogNext]_(Log!logVars)
  BY NextLogged
<1>3. QED BY <1>1, <1>2, ReducerInvHolds, PTL DEF Spec, ImplementsAlertLog, Log!LogSpec

-----------------------------------------------------------------------------
(* Intents: the planner.                                                   *)

\* The reducer only appends.
Keeps(q, r) == \A i \in DOMAIN q : i \in DOMAIN r /\ r[i] = q[i]

LEMMA OpenKeeps ==
    ASSUME NEW a \in Alerts, NEW e \in Episodes, NEW q \in Seq(Transition),
           NEW r, r = q \o OpenTransition(a, SeriesOf[e], e)
    PROVE  r \in Seq(Transition) /\ Keeps(q, r)
<1> DEFINE s == SeriesOf[e]
<1>1. s \in Series /\ a.series[s].generation \in Nat
  BY SeriesOfAssumption DEF Alerts, SeriesState
<1>2. CASE ~Opens(a, s, e)
  <2>1. r = q
    BY <1>2, NoneMore DEF OpenTransition
  <2>2. QED BY <2>1 DEF Keeps
<1>3. CASE Opens(a, s, e)
  <2> DEFINE x == [series |-> s, generation |-> a.series[s].generation + 1,
                   kind |-> "open", episode |-> e]
  <2>1. x \in Transition /\ r = q \o <<x>>
    BY <1>1, <1>3 DEF OpenTransition, Transition, Kinds
  <2> HIDE DEF x
  <2>2. QED BY <2>1, OneMore DEF Keeps
<1>4. QED BY <1>2, <1>3

LEMMA RecoveryKeeps ==
    ASSUME NEW a \in Alerts, NEW run, Tells(a, run), NEW e \in Episodes, NEW q \in Seq(Transition),
           NEW r, r = q \o RecoveryTransition(a, SeriesOf[e], e)
    PROVE  r \in Seq(Transition) /\ Keeps(q, r)
<1> DEFINE s == SeriesOf[e]
<1>1. s \in Series /\ a.series[s].generation \in Nat
  BY SeriesOfAssumption DEF Alerts, SeriesState
<1>2. CASE ~Recovers(a, s, e)
  <2>1. r = q
    BY <1>2, NoneMore DEF RecoveryTransition
  <2>2. QED BY <2>1 DEF Keeps
<1>3. CASE Recovers(a, s, e)
  <2> DEFINE x == [series |-> s, generation |-> a.series[s].generation,
                   kind |-> "recovery", episode |-> e]
  <2>1. a.series[s].generation # 0
    BY <1>1, <1>3 DEF Recovers, Tells
  <2>2. x \in Transition /\ r = q \o <<x>>
    BY <1>1, <1>3, <2>1 DEF RecoveryTransition, Transition, Kinds
  <2> HIDE DEF x
  <2>3. QED BY <2>2, OneMore DEF Keeps
<1>4. QED BY <1>2, <1>3

LEMMA TransitionsKept ==
    ASSUME ReducerInv, NEW e \in Episodes, ApplyStart(e) \/ ApplyClear(e) \/ ApplyEpisode(e)
    PROVE  Keeps(transitions, transitions') /\ UNCHANGED <<intents, deliveries>>
<1>0. alerts \in Alerts /\ transitions \in Seq(Transition) /\ running \in SUBSET Episodes
      /\ Tells(alerts, running)
  BY DEF ReducerInv, ReducerTypes
<1>1. CASE ApplyStart(e)
  BY <1>0, <1>1, OpenKeeps DEF ApplyStart
<1>2. CASE ApplyClear(e)
  BY <1>0, <1>2, RecoveryKeeps DEF ApplyClear
<1>3. CASE ApplyEpisode(e)
  <2> DEFINE a == AfterStart(alerts, SeriesOf[e], e)
  <2> DEFINE q == transitions \o OpenTransition(alerts, SeriesOf[e], e)
  <2>1. q \in Seq(Transition) /\ Keeps(transitions, q)
    BY <1>0, OpenKeeps
  <2>2. a \in Alerts /\ Tells(a, RunsAfterStart(alerts, running, e))
    BY <1>0, StartTells
  <2>3. transitions' = q \o RecoveryTransition(a, SeriesOf[e], e)
        /\ UNCHANGED <<intents, deliveries>>
    BY <1>3 DEF ApplyEpisode
  <2> HIDE DEF a, q
  <2>4. Keeps(q, transitions')
    BY <2>1, <2>2, <2>3, RecoveryKeeps
  <2>5. QED BY <2>1, <2>3, <2>4 DEF Keeps
<1>4. QED BY <1>1, <1>2, <1>3

\* An intent is the intent of a transition.
Planned(id) == \E i \in DOMAIN transitions :
                 intents[id] = transitions[i] /\ IntentId(transitions[i]) = id

IntentsInv == \A id \in DOMAIN intents : Planned(id)

LEMMA InitIntents == Init => IntentsInv
BY DEF Init, IntentsInv

LEMMA NextIntents == ReducerInv /\ IntentsInv /\ [Next]_vars => IntentsInv'
<1> SUFFICES ASSUME ReducerInv, IntentsInv, [Next]_vars PROVE IntentsInv'
  OBVIOUS
<1>1. ASSUME NEW e \in Episodes, ApplyStart(e) \/ ApplyClear(e) \/ ApplyEpisode(e)
      PROVE  IntentsInv'
  <2>1. Keeps(transitions, transitions') /\ UNCHANGED <<intents, deliveries>>
    BY <1>1, TransitionsKept
  <2>2. ASSUME NEW id \in DOMAIN intents' PROVE Planned(id)'
    <3>1. PICK i \in DOMAIN transitions :
            intents[id] = transitions[i] /\ IntentId(transitions[i]) = id
      BY <2>1, <2>2 DEF IntentsInv, Planned
    <3>2. i \in DOMAIN transitions' /\ transitions'[i] = transitions[i]
      BY <2>1 DEF Keeps
    <3>3. QED BY <2>1, <3>1, <3>2 DEF Planned
  <2>3. QED BY <2>1, <2>2 DEF IntentsInv
<1>2. ASSUME NEW i \in DOMAIN transitions, Plan(transitions[i]) PROVE IntentsInv'
  <2> DEFINE t == transitions[i]
  <2>1. UNCHANGED <<transitions, deliveries>>
        /\ intents' = IF IntentId(t) \in DOMAIN intents THEN intents ELSE With(intents, IntentId(t), t)
    BY <1>2 DEF Plan
  <2>2. CASE IntentId(t) \in DOMAIN intents
    BY <2>1, <2>2 DEF IntentsInv, Planned
  <2>3. CASE IntentId(t) \notin DOMAIN intents
    <3>1. /\ DOMAIN intents' = DOMAIN intents \cup {IntentId(t)}
          /\ intents'[IntentId(t)] = t
          /\ \A x \in DOMAIN intents : intents'[x] = intents[x]
      <4> DEFINE new == IntentId(t)
      <4>1. intents' = [x \in DOMAIN intents \cup {new} |-> IF x = new THEN t ELSE intents[x]]
        BY <2>1, <2>3 DEF With
      <4> HIDE DEF new
      <4>2. new \notin DOMAIN intents
        BY <2>3 DEF new
      <4>3. /\ DOMAIN intents' = DOMAIN intents \cup {new}
            /\ intents'[new] = t
            /\ \A x \in DOMAIN intents : intents'[x] = intents[x]
        BY <4>1, <4>2
      <4>4. QED BY <4>3 DEF new
    <3>2. Planned(IntentId(t))'
      BY <2>1, <3>1 DEF Planned
    <3>3. \A x \in DOMAIN intents : Planned(x)'
      BY <2>1, <3>1 DEF Planned, IntentsInv
    <3>4. QED BY <2>1, <3>1, <3>2, <3>3 DEF IntentsInv
  <2>4. QED BY <2>2, <2>3
<1>3. CASE UNCHANGED <<transitions, intents>>
  BY <1>3 DEF IntentsInv, Planned
<1>4. ASSUME NEW id, Ensure(id) \/ Begin(id) PROVE UNCHANGED <<transitions, intents>>
  BY <1>4 DEF Ensure, Begin
<1>5. ASSUME NEW id, NEW token, Complete(id, token) \/ Fail(id, token)
      PROVE  UNCHANGED <<transitions, intents>>
  BY <1>5 DEF Complete, Fail, Finish
<1>6. CASE UNCHANGED vars
  BY <1>3, <1>6 DEF vars
<1>7. QED BY <1>1, <1>2, <1>3, <1>4, <1>5, <1>6 DEF Next

\* Every intent planned is of one transition, and no two transitions share one.
THEOREM TransitionsHaveTheirIntents == Spec => []EachTransitionItsIntent
<1>1. Init => ReducerInv /\ IntentsInv
  BY InitReducer, InitIntents
<1>2. ReducerInv /\ IntentsInv /\ [Next]_vars => ReducerInv' /\ IntentsInv'
  BY NextReducer, NextIntents
<1>3. ReducerInv /\ IntentsInv => EachTransitionItsIntent
  <2> SUFFICES ASSUME ReducerInv, IntentsInv, NEW id \in DOMAIN intents
               PROVE  \E i \in DOMAIN transitions :
                        /\ intents[id] = transitions[i] /\ IntentId(transitions[i]) = id
                        /\ \A j \in DOMAIN transitions : IntentId(transitions[j]) = id => i = j
    BY DEF IntentsInv, EachTransitionItsIntent
  <2>1. PICK i \in DOMAIN transitions :
          intents[id] = transitions[i] /\ IntentId(transitions[i]) = id
    BY DEF IntentsInv, Planned
  <2>2. ASSUME NEW j \in DOMAIN transitions, IntentId(transitions[j]) = id PROVE i = j
    <3>1. /\ transitions[i].series = transitions[j].series
          /\ transitions[i].generation = transitions[j].generation
          /\ transitions[i].kind = transitions[j].kind
      BY <2>1, <2>2 DEF IntentId
    <3>2. QED BY <3>1 DEF ReducerInv, Told
  <2>3. QED BY <2>1, <2>2
<1>4. QED BY <1>1, <1>2, <1>3, PTL DEF Spec

-----------------------------------------------------------------------------
(* Attempts: the delivery reducer.                                         *)

\* What is said of attempt k of id.
Saying(said, id, k) == {status \in Statuses : <<id, k, status>> \in said}

\* What OneLiveAttempt says of one delivery.
OneLive(id, d, said) ==
    /\ \A k \in 1 .. Len(d.attempts) - 1 : d.attempts[k] = "failed"
    /\ d.status = IF Len(d.attempts) = 0 THEN "pending" ELSE d.attempts[Len(d.attempts)]
    /\ d.token = IF d.status = "claimed" THEN Len(d.attempts) ELSE NoClaim
    /\ \A k \in 1 .. Len(d.attempts) : Saying(said, id, k) = {d.attempts[k]} \ {"claimed"}

\* Nobody speaks of an attempt that has not begun.
Unheard(id, k, said) == \A status : <<id, k, status>> \notin said

AttemptsInv ==
    /\ \A id \in DOMAIN deliveries :
         /\ deliveries[id] \in Delivery
         /\ OneLive(id, deliveries[id], reports)
         /\ \A k \in Nat : k > Len(deliveries[id].attempts) => Unheard(id, k, reports)
    /\ \A id : id \notin DOMAIN deliveries => \A k : Unheard(id, k, reports)

\* What AttemptsAreFinal says of one delivery.
Final(d, later) ==
    \A k \in DOMAIN d.attempts :
        /\ k \in DOMAIN later.attempts
        /\ d.attempts[k] # "claimed" => later.attempts[k] = d.attempts[k]

FreshDelivery == [status |-> "pending", token |-> NoClaim, attempts |-> <<>>]

LEMMA FreshIsLive ==
    ASSUME NEW id, NEW said
    PROVE  FreshDelivery \in Delivery /\ OneLive(id, FreshDelivery, said)
<1>1. FreshDelivery.attempts = <<>> /\ FreshDelivery.status = "pending"
      /\ FreshDelivery.token = NoClaim
  BY DEF FreshDelivery
<1>2. FreshDelivery \in Delivery
  BY DEF FreshDelivery, Delivery, Statuses, NoClaim
<1>3. OneLive(id, FreshDelivery, said)
  BY <1>1 DEF OneLive
<1>4. QED BY <1>2, <1>3

\* A delivery that may be begun again gets a further attempt.
LEMMA BegunIsLive ==
    ASSUME NEW id, NEW said, NEW d \in Delivery, OneLive(id, d, said), Beginnable(d),
           Unheard(id, Len(d.attempts) + 1, said),
           NEW b, b = [status |-> "claimed", token |-> Len(d.attempts) + 1,
                       attempts |-> Append(d.attempts, "claimed")]
    PROVE  /\ b \in Delivery /\ OneLive(id, b, said) /\ Final(d, b)
           /\ Len(b.attempts) = Len(d.attempts) + 1
<1> DEFINE n == Len(d.attempts)
<1>1. d.attempts \in Seq(Statuses) /\ n \in Nat
  BY DEF Delivery
<1>2. b.attempts = Append(d.attempts, "claimed") /\ b.status = "claimed" /\ b.token = n + 1
  OBVIOUS
<1>3. /\ b.attempts \in Seq(Statuses) /\ Len(b.attempts) = n + 1
      /\ b.attempts[n + 1] = "claimed"
      /\ \A k \in 1 .. n : b.attempts[k] = d.attempts[k]
      /\ DOMAIN d.attempts = 1 .. n /\ DOMAIN b.attempts = 1 .. (n + 1)
  BY <1>1, <1>2 DEF Statuses
<1>4. b \in Delivery
  BY <1>1, <1>3 DEF Delivery, Statuses
<1>5. n = 0 \/ d.attempts[n] = "failed"
  <2>1. CASE n = 0
    BY <2>1
  <2>2. CASE n # 0
    <3>1. d.attempts[n] \in Statuses /\ d.status = d.attempts[n]
      BY <1>1, <2>2 DEF OneLive
    <3>2. QED BY <3>1 DEF Statuses, Beginnable
  <2>3. QED BY <2>1, <2>2
<1>6. \A k \in 1 .. n : d.attempts[k] = "failed"
  BY <1>1, <1>5 DEF OneLive
<1>7. OneLive(id, b, said)
  <2>1. \A k \in 1 .. (n + 1) - 1 : b.attempts[k] = "failed"
    BY <1>1, <1>3, <1>6
  <2>2. Saying(said, id, n + 1) = {}
    BY DEF Saying, Unheard
  <2>3. \A k \in 1 .. n : Saying(said, id, k) = {d.attempts[k]} \ {"claimed"}
    BY DEF OneLive
  <2>4. \A k \in 1 .. n + 1 : Saying(said, id, k) = {b.attempts[k]} \ {"claimed"}
    BY <1>1, <1>3, <2>2, <2>3
  <2>5. QED BY <1>1, <1>2, <1>3, <2>1, <2>4 DEF OneLive
<1>8. Final(d, b)
  BY <1>1, <1>3 DEF Final
<1>9. QED BY <1>3, <1>4, <1>7, <1>8

\* What is said of the attempts after a further report.
ReportedAs(now, said, id, token, status) ==
    now = IF token = NoClaim \/ \E other \in Statuses : <<id, token, other>> \in said
            THEN said ELSE said \cup {<<id, token, status>>}

\* An accepted callback is the first of the last attempt, which ends as it says.
LEMMA FinishedIsLive ==
    ASSUME NEW id, NEW said, NEW d \in Delivery, OneLive(id, d, said),
           NEW token, Accepts(d, token), NEW status \in {"delivered", "failed"},
           NEW b, b = [status |-> status, token |-> NoClaim,
                       attempts |-> [d.attempts EXCEPT ![Len(d.attempts)] = status]],
           NEW now, ReportedAs(now, said, id, token, status)
    PROVE  /\ b \in Delivery /\ OneLive(id, b, now) /\ Final(d, b)
           /\ Len(b.attempts) = Len(d.attempts)
<1> DEFINE n == Len(d.attempts)
<1>1. d.attempts \in Seq(Statuses) /\ n \in Nat /\ n # 0 /\ token = n
      /\ d.attempts[n] = "claimed"
  BY DEF Delivery, Accepts
<1>2. b.attempts = [d.attempts EXCEPT ![n] = status] /\ b.status = status /\ b.token = NoClaim
  OBVIOUS
<1>3. /\ b.attempts \in Seq(Statuses) /\ Len(b.attempts) = n
      /\ b.attempts[n] = status
      /\ \A k \in 1 .. n - 1 : b.attempts[k] = d.attempts[k]
      /\ DOMAIN d.attempts = 1 .. n /\ DOMAIN b.attempts = 1 .. n
  BY <1>1, <1>2 DEF Statuses
<1>4. b \in Delivery
  BY <1>3 DEF Delivery, Statuses, NoClaim
<1>5. \A k \in 1 .. n : Saying(said, id, k) = {d.attempts[k]} \ {"claimed"}
  BY DEF OneLive
<1>6. Saying(said, id, n) = {}
  BY <1>1, <1>5
<1>7. now = said \cup {<<id, n, status>>}
  BY <1>1, <1>6 DEF Saying, ReportedAs, NoClaim
<1>8. Saying(now, id, n) = {status}
  BY <1>6, <1>7 DEF Saying, Statuses
<1>9. \A k \in 1 .. n - 1 : Saying(now, id, k) = Saying(said, id, k)
  BY <1>1, <1>7 DEF Saying
<1>10. OneLive(id, b, now)
  <2>1. \A k \in 1 .. n - 1 : b.attempts[k] = "failed"
    BY <1>3 DEF OneLive
  <2>2. ASSUME NEW k \in 1 .. n
        PROVE  Saying(now, id, k) = {b.attempts[k]} \ {"claimed"}
    <3>1. CASE k = n
      BY <1>3, <1>8, <3>1
    <3>2. CASE k # n
      <4>1. k \in 1 .. n - 1
        BY <1>1, <3>2
      <4>2. QED BY <1>3, <1>5, <1>9, <4>1
    <3>3. QED BY <3>1, <3>2
  <2>3. QED BY <1>1, <1>2, <1>3, <2>1, <2>2 DEF OneLive
<1>11. Final(d, b)
  BY <1>1, <1>3 DEF Final
<1>12. QED BY <1>3, <1>4, <1>10, <1>11

\* A callback that is not accepted is a further report of an attempt, or none of any.
LEMMA RejectedIsHeard ==
    ASSUME NEW id, NEW said, NEW d \in Delivery, OneLive(id, d, said),
           NEW token \in {NoClaim} \cup DOMAIN d.attempts, ~Accepts(d, token), NEW status,
           NEW now, ReportedAs(now, said, id, token, status)
    PROVE  now = said
<1> DEFINE n == Len(d.attempts)
<1>1. CASE token = NoClaim
  BY <1>1 DEF ReportedAs
<1>2. CASE token # NoClaim
  <2>1. /\ d.attempts \in Seq(Statuses) /\ n \in Nat /\ token \in 1 .. n
        /\ d.attempts[token] \in Statuses
    BY <1>2 DEF Delivery
  <2>2. d.attempts[token] # "claimed"
    <3>1. CASE token # n
      <4>1. token \in 1 .. n - 1
        BY <2>1, <3>1
      <4>2. QED BY <4>1 DEF OneLive
    <3>2. CASE token = n
      BY <2>1, <3>2 DEF OneLive, Accepts
    <3>3. QED BY <3>1, <3>2
  <2>3. Saying(said, id, token) = {d.attempts[token]}
    BY <2>1, <2>2 DEF OneLive
  <2>4. \E other \in Statuses : <<id, token, other>> \in said
    BY <2>3 DEF Saying
  <2>5. QED BY <2>4 DEF ReportedAs
<1>3. QED BY <1>1, <1>2

\* What is said of one delivery says nothing of another.
LEMMA OthersAsBefore ==
    ASSUME NEW id, NEW said, NEW token, NEW status, NEW now,
           ReportedAs(now, said, id, token, status),
           NEW x, x # id
    PROVE  /\ \A k : Unheard(x, k, said) => Unheard(x, k, now)
           /\ \A d : OneLive(x, d, said) => OneLive(x, d, now)
<1>1. \A k, other : <<x, k, other>> \in now <=> <<x, k, other>> \in said
  BY DEF ReportedAs
<1>2. \A k : Saying(now, x, k) = Saying(said, x, k)
  BY <1>1 DEF Saying
<1>3. QED BY <1>1, <1>2 DEF Unheard, OneLive

LEMMA SameIsFinal == ASSUME NEW d PROVE Final(d, d)
BY DEF Final

AttemptsStep ==
    \A id \in DOMAIN deliveries : id \in DOMAIN deliveries' /\ Final(deliveries[id], deliveries'[id])

LEMMA NextAttempts == AttemptsInv /\ [Next]_vars => AttemptsInv' /\ AttemptsStep
<1> SUFFICES ASSUME AttemptsInv, [Next]_vars PROVE AttemptsInv' /\ AttemptsStep
  OBVIOUS
<1>1. CASE UNCHANGED <<deliveries, reports>>
  BY <1>1, SameIsFinal DEF AttemptsInv, AttemptsStep
<1>2. ASSUME NEW id, Ensure(id) PROVE AttemptsInv' /\ AttemptsStep
  <2>1. CASE id \in DOMAIN deliveries
    BY <1>1, <1>2, <2>1 DEF Ensure
  <2>2. CASE id \notin DOMAIN deliveries
    <3>1. deliveries' = [x \in DOMAIN deliveries \cup {id} |->
                           IF x = id THEN FreshDelivery ELSE deliveries[x]]
          /\ reports' = reports
      BY <1>2, <2>2 DEF Ensure, With, FreshDelivery
    <3>2. \A k : Unheard(id, k, reports)
      BY <2>2 DEF AttemptsInv
    <3>3. QED BY <2>2, <3>1, <3>2, FreshIsLive, SameIsFinal DEF AttemptsInv, AttemptsStep
  <2>3. QED BY <2>1, <2>2
<1>3. ASSUME NEW id \in DOMAIN deliveries, Begin(id) PROVE AttemptsInv' /\ AttemptsStep
  <2> DEFINE d == deliveries[id]
  <2> DEFINE b == [status |-> "claimed", token |-> Len(d.attempts) + 1,
                   attempts |-> Append(d.attempts, "claimed")]
  <2>1. Beginnable(d) /\ deliveries' = [deliveries EXCEPT ![id] = b] /\ reports' = reports
    BY <1>3 DEF Begin
  <2>2. d \in Delivery /\ Len(d.attempts) \in Nat
    BY DEF AttemptsInv, Delivery
  <2>3. Unheard(id, Len(d.attempts) + 1, reports)
    BY <2>2 DEF AttemptsInv
  <2>4. /\ b \in Delivery /\ OneLive(id, b, reports) /\ Final(d, b)
        /\ Len(b.attempts) = Len(d.attempts) + 1
    BY <2>1, <2>2, <2>3, BegunIsLive DEF AttemptsInv
  <2> HIDE DEF b
  <2>5. \A k \in Nat : k > Len(b.attempts) => Unheard(id, k, reports)
    BY <2>2, <2>4 DEF AttemptsInv
  <2>6. QED BY <2>1, <2>4, <2>5, SameIsFinal DEF AttemptsInv, AttemptsStep
<1>4. ASSUME NEW id \in DOMAIN deliveries, NEW token \in TokensAtHand(id),
             NEW status \in {"delivered", "failed"},
             Finish(id, token, status, Accepts(deliveries[id], token))
      PROVE  AttemptsInv' /\ AttemptsStep
  <2> DEFINE d == deliveries[id]
  <2> DEFINE b == [status |-> status, token |-> NoClaim,
                   attempts |-> [d.attempts EXCEPT ![Len(d.attempts)] = status]]
  <2>1. /\ ReportedAs(reports', reports, id, token, status)
        /\ deliveries' = IF Accepts(d, token) THEN [deliveries EXCEPT ![id] = b] ELSE deliveries
    BY <1>4 DEF Finish, ReportedAs
  <2>2. d \in Delivery /\ OneLive(id, d, reports) /\ token \in {NoClaim} \cup DOMAIN d.attempts
    BY DEF AttemptsInv, TokensAtHand
  <2>3. CASE ~Accepts(d, token)
    <3>1. reports' = reports
      BY <2>1, <2>2, <2>3, RejectedIsHeard
    <3>2. QED BY <1>1, <2>1, <2>3, <3>1
  <2>4. CASE Accepts(d, token)
    <3>1. /\ b \in Delivery /\ OneLive(id, b, reports') /\ Final(d, b)
          /\ Len(b.attempts) = Len(d.attempts)
      BY <2>1, <2>2, <2>4, FinishedIsLive
    <3>2. token = Len(d.attempts) /\ Len(d.attempts) \in Nat
      BY <2>2, <2>4 DEF Accepts, Delivery
    <3>3. ASSUME NEW k \in Nat, k > Len(b.attempts) PROVE Unheard(id, k, reports')
      <4>1. Unheard(id, k, reports) /\ k # token
        BY <3>1, <3>2, <3>3 DEF AttemptsInv
      <4>2. QED BY <2>1, <4>1 DEF ReportedAs, Unheard
    <3>4. \A x : x # id => /\ \A k : Unheard(x, k, reports) => Unheard(x, k, reports')
                           /\ \A y : OneLive(x, y, reports) => OneLive(x, y, reports')
      BY <2>1, OthersAsBefore
    <3>5. /\ deliveries' = [deliveries EXCEPT ![id] = b]
          /\ DOMAIN deliveries' = DOMAIN deliveries /\ deliveries'[id] = b
          /\ \A x \in DOMAIN deliveries : x # id => deliveries'[x] = deliveries[x]
      BY <2>1, <2>4
    <3> HIDE DEF b, d
    <3>6. ASSUME NEW x \in DOMAIN deliveries
          PROVE  /\ deliveries'[x] \in Delivery /\ OneLive(x, deliveries'[x], reports')
                 /\ \A k \in Nat : k > Len(deliveries'[x].attempts) => Unheard(x, k, reports')
      <4>1. CASE x = id
        BY <3>1, <3>3, <3>5, <4>1
      <4>2. CASE x # id
        BY <3>4, <3>5, <4>2 DEF AttemptsInv
      <4>3. QED BY <4>1, <4>2
    <3>7. AttemptsInv'
      BY <3>4, <3>5, <3>6 DEF AttemptsInv
    <3>8. AttemptsStep
      BY <3>1, <3>5, SameIsFinal DEF AttemptsStep, d
    <3>9. QED BY <3>7, <3>8
  <2>5. QED BY <2>3, <2>4
<1>5. ASSUME NEW e \in Episodes, ApplyStart(e) \/ ApplyClear(e) \/ ApplyEpisode(e)
      PROVE  UNCHANGED <<deliveries, reports>>
  BY <1>5 DEF ApplyStart, ApplyClear, ApplyEpisode
<1>6. ASSUME NEW t, Plan(t) PROVE UNCHANGED <<deliveries, reports>>
  BY <1>6 DEF Plan
<1>7. QED BY <1>1, <1>2, <1>3, <1>4, <1>5, <1>6 DEF Next, Complete, Fail, vars

LEMMA InitAttempts == Init => AttemptsInv
BY DEF Init, AttemptsInv, Unheard

\* However late or often workers report, and whatever they say after their first report of
\* an attempt, one attempt at most is live, and each ends as was said first of it.
THEOREM AttemptsAreLiveOnce == Spec => []OneLiveAttempt
<1>1. AttemptsInv => OneLiveAttempt
  BY DEF AttemptsInv, OneLive, OneLiveAttempt, Saying
<1>2. AttemptsInv /\ [Next]_vars => AttemptsInv'
  BY NextAttempts
<1>3. QED BY <1>1, <1>2, InitAttempts, PTL DEF Spec

\* What an attempt came to is never undone: not by a Complete after a Fail nor a Fail after
\* a Complete, not by a report of another attempt, and not by ensuring the intent again.
THEOREM AttemptsStayFinal == Spec => AttemptsAreFinal
<1> DEFINE Step == \A id \in DOMAIN deliveries :
         /\ id \in DOMAIN deliveries'
         /\ \A k \in DOMAIN deliveries[id].attempts :
              /\ k \in DOMAIN deliveries'[id].attempts
              /\ deliveries[id].attempts[k] # "claimed" =>
                   deliveries'[id].attempts[k] = deliveries[id].attempts[k]
<1>1. AttemptsInv /\ [Next]_vars => AttemptsInv' /\ Step
  BY NextAttempts DEF AttemptsStep, Final
<1>2. QED BY <1>1, InitAttempts, PTL DEF Spec, AttemptsAreFinal

-----------------------------------------------------------------------------

\* Every variable keeps its shape.
THEOREM TypeCorrect == Spec => []TypeOK
<1> DEFINE Inv == ReducerInv /\ IntentsInv /\ AttemptsInv
<1>1. Init => Inv
  BY InitReducer, InitIntents, InitAttempts
<1>2. Inv /\ [Next]_vars => Inv'
  BY NextReducer, NextIntents, NextAttempts
<1>3. Inv => TypeOK
  <2> SUFFICES ASSUME Inv PROVE TypeOK
    OBVIOUS
  <2>1. alerts \in Alerts /\ transitions \in Seq(Transition) /\ running \subseteq Episodes
    BY DEF ReducerInv, ReducerTypes
  <2>2. ASSUME NEW id \in DOMAIN intents
        PROVE  intents[id] \in Transition /\ id \in Series \X Nat \X Kinds
    <3>1. PICK i \in DOMAIN transitions :
            intents[id] = transitions[i] /\ IntentId(transitions[i]) = id
      BY DEF IntentsInv, Planned
    <3>2. QED BY <2>1, <3>1, Emitted DEF IntentId
  <2>3. \A id \in DOMAIN deliveries : deliveries[id] \in Delivery
    BY DEF AttemptsInv
  <2>4. QED BY <2>1, <2>2, <2>3 DEF TypeOK
<1>4. QED BY <1>1, <1>2, <1>3, PTL DEF Spec
=============================================================================
