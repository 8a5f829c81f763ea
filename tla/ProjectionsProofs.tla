-------------------------- MODULE ProjectionsProofs --------------------------
(***************************************************************************)
(* Proofs about Projections, for any evidence, any number of subjects and  *)
(* any bound on positions.  One invariant names, for every source and      *)
(* subject, the one occurrence that both the view and the current table    *)
(* show; a second one follows the onset of a violation.                    *)
(***************************************************************************)
EXTENDS Projections, TLAPS

Evidences == [kind : Kinds, subject : Subjects, at : Nat \ {Unset},
              holds : BOOLEAN, since : Nat]
Admission == [position : Nat \ {0}, evidence : Evidences]

Row == [row : Nat, at : Nat]

Types ==
    /\ accepted \in Seq(Admission)
    /\ observations \in Seq(Evidences)
    /\ live \in [Kinds -> [Subjects -> View]]
    /\ pointer \in [Kinds -> [Subjects -> Row]]

\* The tables hold an observation per accepted occurrence, and positions increase.
SameOrder ==
    /\ Len(observations) = Len(accepted)
    /\ \A i \in DOMAIN accepted : observations[i] = accepted[i].evidence
    /\ \A i, j \in DOMAIN accepted : i < j => accepted[i].position < accepted[j].position

\* The latest of the occurrences S: none is of a later time, or as late and accepted
\* afterwards.
IsLatest(S, i) ==
    /\ i \in S
    /\ \A j \in S :
         \/ accepted[j].evidence.at < accepted[i].evidence.at
         \/ accepted[j].evidence.at = accepted[i].evidence.at /\ j <= i

Shows(k, s, i) ==
    /\ live[k][s].at = accepted[i].evidence.at
    /\ live[k][s].position = accepted[i].position
    /\ live[k][s].holds = accepted[i].evidence.holds
    /\ pointer[k][s].row = i
    /\ pointer[k][s].at = accepted[i].evidence.at

ShowsLatest(k, s) ==
    IF Of(k, s) = {} THEN live[k][s] = NoView /\ pointer[k][s] = NoRow
    ELSE \E i \in Of(k, s) : IsLatest(Of(k, s), i) /\ Shows(k, s, i)

ViewInv ==
    /\ Types
    /\ SameOrder
    /\ \A k \in Kinds, s \in Subjects : ShowsLatest(k, s)

-----------------------------------------------------------------------------

LEMMA InitViews == Init => ViewInv
<1> SUFFICES ASSUME Init PROVE ViewInv
  OBVIOUS
<1>1. accepted = <<>> /\ observations = <<>>
  BY DEF Init
<1>2. NoView \in View /\ NoRow \in Row
  BY DEF NoView, NoRow, View, Row, Unset
<1>3. Types
  BY <1>1, <1>2 DEF Init, Types
<1>4. SameOrder
  BY <1>1 DEF SameOrder
<1>5. \A k \in Kinds, s \in Subjects : Of(k, s) = {}
  BY <1>1 DEF Of
<1>6. QED BY <1>3, <1>4, <1>5 DEF ViewInv, ShowsLatest, Init

\* What an acceptance adds, and that nothing else changes in the sequences.
LEMMA AcceptAppends ==
    ASSUME Types, SameOrder, NEW e \in Evidence, NEW position \in Nat \ {0},
           Accept(e, position), NEW n, n = Len(accepted) + 1
    PROVE  /\ n \in Nat \ {0} /\ n \notin DOMAIN accepted
           /\ \A j \in DOMAIN accepted : j \in Nat /\ j < n
           /\ DOMAIN accepted' = DOMAIN accepted \cup {n}
           /\ \A j \in DOMAIN accepted : accepted'[j] = accepted[j]
           /\ accepted'[n].position = position /\ accepted'[n].evidence = e
           /\ \A j \in DOMAIN accepted : accepted[j].position < position
           /\ Types' /\ SameOrder'
<1>1. e \in Evidences
  BY EvidenceAssumption DEF Evidences
<1> DEFINE o == [position |-> position, evidence |-> e]
<1>2. o \in Admission /\ o.position = position /\ o.evidence = e
  BY <1>1 DEF Admission
<1> HIDE DEF o
<1>3. accepted' = Append(accepted, o) /\ observations' = Append(observations, e)
  BY DEF Accept, o
<1>4. accepted \in Seq(Admission) /\ observations \in Seq(Evidences)
      /\ Len(observations) = Len(accepted)
  BY DEF Types, SameOrder
<1>5. accepted' \in Seq(Admission) /\ observations' \in Seq(Evidences)
  BY <1>1, <1>2, <1>3, <1>4
<1>6. /\ n \in Nat \ {0} /\ DOMAIN accepted = 1 .. n - 1 /\ DOMAIN observations = 1 .. n - 1
      /\ Len(accepted') = n /\ Len(observations') = n
  BY <1>2, <1>1, <1>3, <1>4
<1>7. /\ \A j \in 1 .. n - 1 : accepted'[j] = accepted[j] /\ observations'[j] = observations[j]
      /\ accepted'[n] = o /\ observations'[n] = e
  BY <1>1, <1>2, <1>3, <1>4
<1>8. DOMAIN accepted' = 1 .. n
  BY <1>5, <1>6
<1>9. \A j \in 1 .. n - 1 : accepted[j].position < position
  BY <1>6 DEF Accept, Follows
<1>10. SameOrder'
  <2>1. \A i \in 1 .. n : i \in 1 .. n - 1 \/ i = n
    BY <1>6
  <2>2. \A i \in 1 .. n : observations'[i] = accepted'[i].evidence
    BY <1>2, <1>6, <1>7, <2>1 DEF SameOrder
  <2>3. ASSUME NEW i \in 1 .. n, NEW j \in 1 .. n, i < j
        PROVE  accepted'[i].position < accepted'[j].position
    <3>1. i \in 1 .. n - 1
      BY <1>6, <2>3
    <3>2. CASE j = n
      BY <1>2, <1>7, <1>9, <3>1, <3>2
    <3>3. CASE j \in 1 .. n - 1
      BY <1>6, <1>7, <2>3, <3>1, <3>3 DEF SameOrder
    <3>4. QED BY <2>1, <3>2, <3>3
  <2>4. QED BY <1>6, <1>8, <2>2, <2>3 DEF SameOrder
<1>11. Types'
  <2>1. \A v \in View : Built(v, e, position) \in View
    BY <1>1 DEF Built, Candidate, View, KnownViolationSince, Evidences, Unset
  <2>2. live' \in [Kinds -> [Subjects -> View]]
    BY <1>1, <2>1 DEF Accept, Types, Evidences
  <2>3. \A c \in Row : Moved(c, n, e.at) \in Row
    BY <1>1, <1>6 DEF Moved, Row, Evidences
  <2>4. pointer' \in [Kinds -> [Subjects -> Row]]
    BY <1>1, <1>4, <2>3 DEF Accept, PointersAfter, Types, Evidences
  <2>5. QED BY <1>5, <2>2, <2>4 DEF Types
<1>12. QED BY <1>2, <1>6, <1>7, <1>8, <1>9, <1>10, <1>11

\* Which occurrences are of a source and subject afterwards.
LEMMA OfAfter ==
    ASSUME Types, SameOrder, NEW e \in Evidence, NEW position \in Nat \ {0},
           Accept(e, position), NEW n, n = Len(accepted) + 1, NEW k, NEW s
    PROVE  Of(k, s)' = IF e.kind = k /\ e.subject = s THEN Of(k, s) \cup {n} ELSE Of(k, s)
<1> DEFINE Mine(j) == accepted[j].evidence.kind = k /\ accepted[j].evidence.subject = s
<1>1. \A j \in DOMAIN accepted : Mine(j)' <=> Mine(j)
  BY AcceptAppends
<1>2. Mine(n)' <=> e.kind = k /\ e.subject = s
  BY AcceptAppends
<1>3. Of(k, s) = {j \in DOMAIN accepted : Mine(j)}
  BY DEF Of
<1>4. Of(k, s)' = {j \in DOMAIN accepted' : Mine(j)'}
  BY DEF Of
<1> HIDE DEF Mine
<1>5. DOMAIN accepted' = DOMAIN accepted \cup {n} /\ n \notin DOMAIN accepted
  BY AcceptAppends
<1>6. QED BY <1>1, <1>2, <1>3, <1>4, <1>5

\* The view and the row of the evidence's own source and subject move together.
LEMMA AcceptMoves ==
    ASSUME Types, SameOrder, NEW e \in Evidence, NEW position \in Nat \ {0},
           Accept(e, position), NEW k \in Kinds, NEW s \in Subjects
    PROVE  /\ e.kind = k /\ e.subject = s =>
                /\ live'[k][s] = Built(live[k][s], e, position)
                /\ pointer'[k][s] = Moved(pointer[k][s], Len(accepted) + 1, e.at)
           /\ ~(e.kind = k /\ e.subject = s) =>
                live'[k][s] = live[k][s] /\ pointer'[k][s] = pointer[k][s]
<1>1. e.kind \in Kinds /\ e.subject \in Subjects
  BY EvidenceAssumption
<1>2. live \in [Kinds -> [Subjects -> View]] /\ pointer \in [Kinds -> [Subjects -> Row]]
  BY DEF Types
<1>3. /\ live' = [live EXCEPT ![e.kind][e.subject] = Built(@, e, position)]
      /\ pointer' = [pointer EXCEPT ![e.kind][e.subject] = Moved(@, Len(accepted) + 1, e.at)]
  BY DEF Accept, PointersAfter, SameOrder
<1>4. QED BY <1>1, <1>2, <1>3

\* Evidence as late as what is shown, or later, is shown instead of it.
LEMMA NewerIsShown ==
    ASSUME NEW v \in View, NEW c \in Row, NEW e \in Evidence, NEW position \in Nat \ {0},
           NEW n \in Nat \ {0}, v.position < position, c.row <= n, c.at = v.at
    PROVE  /\ v.at <= e.at =>
                /\ Built(v, e, position).at = e.at
                /\ Built(v, e, position).position = position
                /\ Built(v, e, position).holds = e.holds
                /\ Moved(c, n, e.at) = [row |-> n, at |-> e.at]
           /\ v.at > e.at => Built(v, e, position) = v /\ Moved(c, n, e.at) = c
<1>1. e.at \in Nat
  BY EvidenceAssumption
<1>2. v.at \in Nat /\ v.position \in Nat /\ c.at \in Nat /\ c.row \in Nat
  BY DEF View, Row
<1> DEFINE w == Candidate(v, e, position)
<1>3. w.at = e.at /\ w.position = position /\ w.holds = e.holds
  BY DEF Candidate
<1>4. Built(v, e, position) = IF Newer(w, v) THEN w ELSE v
  BY DEF Built
<1> HIDE DEF w
<1>5. Newer(w, v) <=> v.at <= e.at
  BY <1>1, <1>2, <1>3 DEF Newer
<1>6. QED BY <1>1, <1>2, <1>3, <1>4, <1>5 DEF Moved

LEMMA AdmissionTypes ==
    ASSUME Types, NEW j \in DOMAIN accepted
    PROVE  /\ j \in Nat \ {0} /\ accepted[j].position \in Nat /\ accepted[j].evidence \in Evidences
           /\ accepted[j].evidence.at \in Nat \ {0}
<1>1. accepted[j] \in Admission /\ j \in Nat \ {0}
  BY DEF Types
<1>2. accepted[j].evidence \in Evidences /\ accepted[j].position \in Nat
  BY <1>1 DEF Admission
<1>3. QED BY <1>1, <1>2 DEF Evidences, Unset

LEMMA AcceptShows ==
    ASSUME ViewInv, NEW e \in Evidence, NEW position \in Nat \ {0}, Accept(e, position),
           NEW k \in Kinds, NEW s \in Subjects
    PROVE  ShowsLatest(k, s)'
<1>n. PICK n : n = Len(accepted) + 1
  OBVIOUS
<1>1. Types /\ SameOrder /\ ShowsLatest(k, s)
  BY DEF ViewInv
<1>2. /\ n \in Nat \ {0} /\ n \notin DOMAIN accepted
      /\ \A j \in DOMAIN accepted : j \in Nat /\ j < n
      /\ \A j \in DOMAIN accepted : accepted'[j] = accepted[j]
      /\ accepted'[n].position = position /\ accepted'[n].evidence = e
      /\ \A j \in DOMAIN accepted : accepted[j].position < position
  BY <1>1, <1>n, AcceptAppends
<1>3. Of(k, s)' = IF e.kind = k /\ e.subject = s THEN Of(k, s) \cup {n} ELSE Of(k, s)
  BY <1>1, <1>n, OfAfter
<1>4. Of(k, s) \subseteq DOMAIN accepted
  BY DEF Of
<1>5. /\ e.kind = k /\ e.subject = s =>
           /\ live'[k][s] = Built(live[k][s], e, position)
           /\ pointer'[k][s] = Moved(pointer[k][s], n, e.at)
      /\ ~(e.kind = k /\ e.subject = s) =>
           live'[k][s] = live[k][s] /\ pointer'[k][s] = pointer[k][s]
  BY <1>1, <1>n, AcceptMoves
<1>6. live[k][s] \in View /\ pointer[k][s] \in Row
  BY <1>1 DEF Types
<1>7. e.at \in Nat \ {0} /\ \A j \in DOMAIN accepted : accepted[j].evidence.at \in Nat
  BY <1>1, AdmissionTypes, EvidenceAssumption DEF Unset
<1>8. ASSUME ~(e.kind = k /\ e.subject = s) PROVE ShowsLatest(k, s)'
  <2>1. Of(k, s)' = Of(k, s)
    BY <1>3, <1>8
  <2>2. ASSUME NEW i \in Of(k, s), IsLatest(Of(k, s), i), Shows(k, s, i)
        PROVE  IsLatest(Of(k, s), i)' /\ Shows(k, s, i)'
    BY <1>2, <1>4, <1>5, <1>8, <2>1, <2>2 DEF IsLatest, Shows
  <2>3. QED BY <1>1, <1>5, <1>8, <2>1, <2>2 DEF ShowsLatest
<1>9. ASSUME e.kind = k, e.subject = s, Of(k, s) = {} PROVE ShowsLatest(k, s)'
  <2>1. Of(k, s)' = {n}
    BY <1>3, <1>9
  <2>2. live[k][s].at = 0 /\ live[k][s].position = 0
        /\ pointer[k][s].row = 0 /\ pointer[k][s].at = 0
    BY <1>1, <1>9 DEF ShowsLatest, NoView, NoRow, Unset
  <2> DEFINE v == live[k][s]
  <2> DEFINE c == pointer[k][s]
  <2>a. v.position < position /\ c.row <= n /\ c.at = v.at /\ v.at <= e.at
    BY <1>2, <1>7, <2>2
  <2>b. /\ Built(v, e, position).at = e.at
        /\ Built(v, e, position).position = position
        /\ Built(v, e, position).holds = e.holds
        /\ Moved(c, n, e.at) = [row |-> n, at |-> e.at]
    BY <1>2, <1>6, <2>a, NewerIsShown
  <2>3. Shows(k, s, n)'
    BY <1>2, <1>5, <1>9, <2>b DEF Shows
  <2>4. IsLatest(Of(k, s), n)'
    BY <1>2, <2>1 DEF IsLatest
  <2>5. QED BY <2>1, <2>3, <2>4 DEF ShowsLatest
<1>10. ASSUME e.kind = k, e.subject = s, Of(k, s) # {} PROVE ShowsLatest(k, s)'
  <2>1. PICK i \in Of(k, s) : IsLatest(Of(k, s), i) /\ Shows(k, s, i)
    BY <1>1, <1>10 DEF ShowsLatest
  <2>2. Of(k, s)' = Of(k, s) \cup {n}
    BY <1>3, <1>10
  <2>3. /\ live[k][s].at = accepted[i].evidence.at /\ live[k][s].position < position
        /\ pointer[k][s].row = i /\ pointer[k][s].at = live[k][s].at /\ i <= n
    BY <1>2, <1>4, <2>1 DEF Shows
  <2>a. /\ live[k][s].at <= e.at =>
             /\ Built(live[k][s], e, position).at = e.at
             /\ Built(live[k][s], e, position).position = position
             /\ Built(live[k][s], e, position).holds = e.holds
             /\ Moved(pointer[k][s], n, e.at) = [row |-> n, at |-> e.at]
        /\ live[k][s].at > e.at =>
             /\ Built(live[k][s], e, position) = live[k][s]
             /\ Moved(pointer[k][s], n, e.at) = pointer[k][s]
    BY <1>2, <1>6, <2>3, NewerIsShown
  <2>b. accepted'[i] = accepted[i] /\ i \in Nat /\ i < n
    BY <1>2, <1>4
  <2>4. /\ live[k][s].at <= e.at => Shows(k, s, n)'
        /\ live[k][s].at > e.at => Shows(k, s, i)'
    BY <1>2, <1>5, <1>10, <2>1, <2>a, <2>b DEF Shows
  <2>5. ASSUME live[k][s].at <= e.at PROVE IsLatest(Of(k, s), n)'
    BY <1>2, <1>4, <1>7, <2>1, <2>2, <2>3, <2>5 DEF IsLatest
  <2>6. ASSUME live[k][s].at > e.at PROVE IsLatest(Of(k, s), i)'
    <3>1. \A j \in Of(k, s) :
            \/ accepted'[j].evidence.at < accepted'[i].evidence.at
            \/ accepted'[j].evidence.at = accepted'[i].evidence.at /\ j <= i
      BY <1>2, <1>4, <2>1 DEF IsLatest
    <3>2. accepted'[n].evidence.at < accepted'[i].evidence.at
      BY <1>2, <2>3, <2>6, <2>b
    <3>3. QED BY <2>2, <3>1, <3>2 DEF IsLatest
  <2>7. live[k][s].at <= e.at \/ live[k][s].at > e.at
    BY <1>6, <1>7 DEF View
  <2>8. QED BY <2>2, <2>4, <2>5, <2>6, <2>7 DEF ShowsLatest
<1>11. QED BY <1>8, <1>9, <1>10

LEMMA AcceptKeeps ==
    ASSUME ViewInv, NEW e \in Evidence, NEW position \in Nat \ {0}, Accept(e, position)
    PROVE  ViewInv'
BY AcceptAppends, AcceptShows DEF ViewInv

\* An observation stored again moves no row: what is shown is as late.
LEMMA RepeatStutters ==
    ASSUME ViewInv, NEW row \in DOMAIN observations, NEW e \in Evidence, Repeat(row, e)
    PROVE  UNCHANGED vars
<1> DEFINE o == observations[row]
<1> DEFINE k == o.kind
<1> DEFINE s == o.subject
<1>1. /\ Types /\ SameOrder /\ \A x \in Kinds, y \in Subjects : ShowsLatest(x, y)
  BY DEF ViewInv
<1>2. o \in Evidences /\ row \in DOMAIN accepted /\ row \in Nat /\ o = accepted[row].evidence
  BY <1>1 DEF Types, SameOrder
<1>3. k \in Kinds /\ s \in Subjects
  BY <1>2 DEF Evidences
<1>4. row \in Of(k, s)
  BY <1>2 DEF Of
<1>5. pointer' = [pointer EXCEPT ![k][s] = Moved(@, row, o.at)]
      /\ UNCHANGED <<accepted, live, observations>>
  BY DEF Repeat, Stored, PointersAfter
<1> HIDE DEF k, s
<1>6. PICK i \in Of(k, s) : IsLatest(Of(k, s), i) /\ Shows(k, s, i)
  BY <1>1, <1>3, <1>4 DEF ShowsLatest
<1>7. i \in Nat /\ accepted[i].evidence.at \in Nat /\ o.at \in Nat
  BY <1>1, <1>2, AdmissionTypes DEF Of
<1>8. pointer[k][s].row = i /\ pointer[k][s].at = accepted[i].evidence.at
  BY <1>6 DEF Shows
<1>9. \/ accepted[row].evidence.at < accepted[i].evidence.at
      \/ accepted[row].evidence.at = accepted[i].evidence.at /\ row <= i
  BY <1>4, <1>6 DEF IsLatest
<1>10. pointer[k][s] = [row |-> pointer[k][s].row, at |-> pointer[k][s].at]
  BY <1>1, <1>3 DEF Types, Row
<1>11. Moved(pointer[k][s], row, o.at) = pointer[k][s]
  BY <1>2, <1>7, <1>8, <1>9, <1>10 DEF Moved
<1>12. pointer' = pointer
  BY <1>1, <1>3, <1>5, <1>11 DEF Types
<1>13. QED BY <1>5, <1>12 DEF vars

LEMMA SameViews == ASSUME ViewInv, UNCHANGED vars PROVE ViewInv'
BY DEF vars, ViewInv, Types, SameOrder, ShowsLatest, IsLatest, Shows, Of

\* A step accepts an occurrence or changes nothing.
LEMMA StepsAccept ==
    ASSUME ViewInv, [Next]_vars
    PROVE  \/ UNCHANGED vars
           \/ \E e \in Evidence, position \in Nat \ {0} : Accept(e, position)
BY RepeatStutters, ProjectionBounds DEF Next

\* The invariant on which the others rest.
THEOREM ViewInvHolds == Spec => []ViewInv
<1>1. ViewInv /\ [Next]_vars => ViewInv'
  BY StepsAccept, AcceptKeeps, SameViews
<1>2. QED BY <1>1, InitViews, PTL DEF Spec

\* Only one occurrence is the latest.
LEMMA LatestIsOne ==
    ASSUME Types, NEW k, NEW s, NEW i, IsLatest(Of(k, s), i) PROVE Latest(Of(k, s)) = i
<1>1. \A j \in Of(k, s) : j \in Nat /\ accepted[j].evidence.at \in Nat
  BY AdmissionTypes DEF Of
<1>2. ASSUME NEW j \in Of(k, s), IsLatest(Of(k, s), j) PROVE j = i
  BY <1>1, <1>2 DEF IsLatest
<1> DEFINE P(x) == \A j \in Of(k, s) :
        \/ accepted[j].evidence.at < accepted[x].evidence.at
        \/ accepted[j].evidence.at = accepted[x].evidence.at /\ j <= x
<1>3. Latest(Of(k, s)) = CHOOSE x \in Of(k, s) : P(x)
  BY Zenon DEF Latest
<1>4. ASSUME NEW x PROVE IsLatest(Of(k, s), x) <=> x \in Of(k, s) /\ P(x)
  BY Zenon DEF IsLatest
<1> HIDE DEF P
<1>5. QED BY <1>2, <1>3, <1>4

\* A view shows the accepted occurrence with the latest effective time, in whatever order
\* evidence comes.
THEOREM ViewsAreLatest == Spec => []LiveIsLatest
<1>1. ViewInv => LiveIsLatest
  BY LatestIsOne DEF ViewInv, LiveIsLatest, ShowsLatest, Shows
<1>2. QED BY <1>1, ViewInvHolds, PTL

\* The current tables point at what the views show.
THEOREM TablesFollowViews == Spec => []StoreFollowsBuilder
<1>1. ViewInv => StoreFollowsBuilder
  <2> SUFFICES ASSUME ViewInv, NEW k \in Kinds, NEW s \in Subjects
               PROVE  IF Of(k, s) = {} THEN pointer[k][s] = NoRow
                      ELSE /\ pointer[k][s].row \in Of(k, s)
                           /\ observations[pointer[k][s].row]
                                = accepted[pointer[k][s].row].evidence
                           /\ pointer[k][s].at = observations[pointer[k][s].row].at
                           /\ live[k][s].position = accepted[pointer[k][s].row].position
    BY Zenon DEF StoreFollowsBuilder
  <2>1. ShowsLatest(k, s) /\ SameOrder
    BY DEF ViewInv
  <2>2. CASE Of(k, s) = {}
    BY <2>1, <2>2 DEF ShowsLatest
  <2>3. CASE Of(k, s) # {}
    <3>1. PICK i \in Of(k, s) : Shows(k, s, i)
      BY <2>1, <2>3 DEF ShowsLatest
    <3>2. observations[i] = accepted[i].evidence
      BY <2>1 DEF SameOrder, Of
    <3>3. QED BY <2>3, <3>1, <3>2 DEF Shows
  <2>4. QED BY <2>2, <2>3
<1>2. QED BY <1>1, ViewInvHolds, PTL
-----------------------------------------------------------------------------
(* The onset of a violation.                                               *)

At(i) == accepted[i].evidence.at
Holds(i) == accepted[i].evidence.holds
Since(i) == accepted[i].evidence.since

\* The checks since the live violation began, the ones that were late left out.
Run(s) == {i \in LiveChecks(s) : \A j \in LiveChecks(s) : j >= i => Holds(j)}

Supplied(run) == {i \in run : Since(i) # Unset}
First(run, i) == i \in run /\ \A j \in run : i <= j
Last(S, i) == i \in S /\ \A j \in S : j <= i

\* The onset, by the checks that determine it.
IsOnset(run, onset) ==
    IF Supplied(run) = {}
      THEN \E i \in run : First(run, i) /\ onset = At(i)
      ELSE \E i \in run : Last(Supplied(run), i) /\ onset = Since(i)

OnsetInv ==
    \A s \in Subjects :
        IF live["adherence"][s].holds THEN IsOnset(Run(s), live["adherence"][s].since)
        ELSE live["adherence"][s].since = Unset

LEMMA OnsetIsOnsetOfRun ==
    ASSUME Types, NEW s, NEW onset, IsOnset(Run(s), onset) PROVE onset = OnsetOfRun(Run(s))
<1> DEFINE run == Run(s)
<1> DEFINE supplied == {i \in run : accepted[i].evidence.since # Unset}
<1> DEFINE first == CHOOSE i \in run : \A j \in run : i <= j
<1> DEFINE last == CHOOSE i \in supplied : \A j \in supplied : j <= i
<1>1. OnsetOfRun(run) = IF supplied = {} THEN accepted[first].evidence.at
                        ELSE accepted[last].evidence.since
  BY Zenon DEF OnsetOfRun
<1>2. supplied = Supplied(run)
  BY DEF Supplied, Since
<1>3. \A i \in run : i \in Nat
  BY AdmissionTypes DEF Run, LiveChecks, Of
<1>4. supplied \subseteq run
  OBVIOUS
<1> HIDE DEF run
<1>5. ASSUME NEW i \in run, First(run, i) PROVE first = i
  BY <1>3, <1>5 DEF First
<1> HIDE DEF supplied
<1>6. ASSUME NEW i \in run, Last(supplied, i) PROVE last = i
  BY <1>3, <1>4, <1>6 DEF Last
<1> HIDE DEF first, last
<1>7. IsOnset(run, onset)
  BY DEF run
<1>8. QED BY <1>1, <1>2, <1>5, <1>6, <1>7 DEF IsOnset, At, Since, run

LEMMA InitOnset == Init => OnsetInv
BY DEF Init, OnsetInv, NoView, Kinds

\* Which checks are live after another one, and which of them continue a violation: a
\* check as late as what is shown is the last of them, one that is not is none.
LEMMA ChecksAfter ==
    ASSUME ViewInv, NEW e \in Evidence, NEW position \in Nat \ {0}, Accept(e, position),
           NEW n, n = Len(accepted) + 1, NEW s \in Subjects
    PROVE  LiveChecks(s)' =
             IF e.kind = "adherence" /\ e.subject = s /\ live["adherence"][s].at <= e.at
               THEN LiveChecks(s) \cup {n} ELSE LiveChecks(s)
<1> DEFINE A == Of("adherence", s)
<1>1. Types /\ SameOrder /\ ShowsLatest("adherence", s)
  BY DEF ViewInv, Kinds
<1>2. /\ n \in Nat \ {0} /\ n \notin DOMAIN accepted
      /\ \A j \in DOMAIN accepted : j \in Nat /\ j < n
      /\ \A j \in DOMAIN accepted : accepted'[j] = accepted[j]
      /\ accepted'[n].evidence = e
  BY <1>1, AcceptAppends
<1>3. A' = IF e.kind = "adherence" /\ e.subject = s THEN A \cup {n} ELSE A
  BY <1>1, OfAfter
<1>4. A \subseteq DOMAIN accepted
  BY DEF Of
<1>5. e.at \in Nat /\ \A j \in A : accepted[j].evidence.at \in Nat
  BY <1>1, <1>4, AdmissionTypes, EvidenceAssumption
<1>6. LiveChecks(s) = {i \in A : \A j \in A : j < i =>
                         accepted[j].evidence.at <= accepted[i].evidence.at}
  BY DEF LiveChecks
<1>7. LiveChecks(s)' = {i \in A' : \A j \in A' : j < i =>
                          accepted'[j].evidence.at <= accepted'[i].evidence.at}
  BY DEF LiveChecks
<1>8. (\A j \in A : accepted[j].evidence.at <= e.at) <=> live["adherence"][s].at <= e.at
  <2>1. CASE A = {}
    BY <1>1, <1>5, <2>1 DEF ShowsLatest, NoView, Unset
  <2>2. CASE A # {}
    <3>1. PICK i \in A : IsLatest(A, i) /\ live["adherence"][s].at = accepted[i].evidence.at
      BY <1>1, <2>2 DEF ShowsLatest, Shows
    <3>2. \A j \in A : accepted[j].evidence.at <= accepted[i].evidence.at
      BY <1>5, <3>1 DEF IsLatest
    <3>3. QED BY <1>5, <3>1, <3>2
  <2>3. QED BY <2>1, <2>2
<1> HIDE DEF A
<1>9. ASSUME NEW i \in A
      PROVE  (\A j \in A' : j < i => accepted'[j].evidence.at <= accepted'[i].evidence.at)
             <=> (\A j \in A : j < i => accepted[j].evidence.at <= accepted[i].evidence.at)
  BY <1>2, <1>3, <1>4
<1>10. n \in A' => ((\A j \in A' : j < n => accepted'[j].evidence.at <= accepted'[n].evidence.at)
                    <=> live["adherence"][s].at <= e.at)
  BY <1>2, <1>3, <1>4, <1>8
<1>11. QED BY <1>2, <1>3, <1>4, <1>6, <1>7, <1>9, <1>10

\* What is shown is the last of the live checks.
LEMMA ShownIsLive ==
    ASSUME ViewInv, NEW s \in Subjects, Of("adherence", s) # {}
    PROVE  \E i \in LiveChecks(s) : /\ \A j \in LiveChecks(s) : j <= i
                                   /\ live["adherence"][s].holds = Holds(i)
<1> DEFINE A == Of("adherence", s)
<1>1. Types /\ ShowsLatest("adherence", s)
  BY DEF ViewInv, Kinds
<1>2. PICK i \in A : IsLatest(A, i) /\ live["adherence"][s].holds = Holds(i)
  BY <1>1 DEF ShowsLatest, Shows, Holds
<1>3. \A j \in A : j \in Nat /\ accepted[j].evidence.at \in Nat
  BY <1>1, AdmissionTypes DEF Of
<1>4. \A j \in A : \/ accepted[j].evidence.at < accepted[i].evidence.at
                   \/ accepted[j].evidence.at = accepted[i].evidence.at /\ j <= i
  BY <1>2 DEF IsLatest
<1> HIDE DEF A
<1>5. LiveChecks(s) = {x \in A : \A j \in A : j < x =>
                         accepted[j].evidence.at <= accepted[x].evidence.at}
  BY DEF LiveChecks, A
<1>6. i \in LiveChecks(s)
  BY <1>2, <1>3, <1>4, <1>5
<1>7. \A j \in LiveChecks(s) : j <= i
  BY <1>2, <1>3, <1>4, <1>5
<1>8. QED BY <1>2, <1>6, <1>7

\* A check is shown unless it is late.
LEMMA CheckIsBuilt ==
    ASSUME ViewInv, NEW e \in Evidence, NEW position \in Nat \ {0}, Accept(e, position),
           NEW s \in Subjects, e.kind = "adherence", e.subject = s,
           NEW v, v = live["adherence"][s]
    PROVE  /\ v.at <= e.at => live'["adherence"][s] = Candidate(v, e, position)
           /\ v.at > e.at => live'["adherence"][s] = v
<1>1. Types /\ SameOrder /\ ShowsLatest("adherence", s)
  BY DEF ViewInv, Kinds
<1>2. live'["adherence"][s] = Built(v, e, position)
  BY <1>1, AcceptMoves DEF Kinds
<1>3. v.at \in Nat /\ v.position \in Nat /\ e.at \in Nat
  BY <1>1, EvidenceAssumption DEF Types, View, Kinds
<1>4. v.position < position
  <2>1. CASE Of("adherence", s) = {}
    BY <1>1, <2>1 DEF ShowsLatest, NoView
  <2>2. CASE Of("adherence", s) # {}
    <3>1. PICK i \in Of("adherence", s) : v.position = accepted[i].position
      BY <1>1, <2>2 DEF ShowsLatest, Shows
    <3>2. i \in DOMAIN accepted
      BY DEF Of
    <3>3. \A j \in DOMAIN accepted : accepted[j].position < position
      BY <1>1, AcceptAppends
    <3>4. QED BY <3>1, <3>2, <3>3
  <2>3. QED BY <2>1, <2>2
<1> DEFINE w == Candidate(v, e, position)
<1>5. w.at = e.at /\ w.position = position
  BY DEF Candidate
<1>6. Built(v, e, position) = IF Newer(w, v) THEN w ELSE v
  BY DEF Built
<1> HIDE DEF w
<1>7. Newer(w, v) <=> v.at <= e.at
  BY <1>3, <1>4, <1>5 DEF Newer
<1>8. v.at > e.at => ~(v.at <= e.at)
  BY <1>3
<1>9. QED BY <1>2, <1>6, <1>7, <1>8 DEF w

\* The run of checks that a violation consists of.
LEMMA RunAfter ==
    ASSUME ViewInv, NEW e \in Evidence, NEW position \in Nat \ {0}, Accept(e, position),
           NEW n, n = Len(accepted) + 1, NEW s \in Subjects
    PROVE  /\ LiveChecks(s)' = LiveChecks(s) => Run(s)' = Run(s)
           /\ LiveChecks(s)' = LiveChecks(s) \cup {n} /\ e.holds =>
                Run(s)' = IF live["adherence"][s].holds THEN Run(s) \cup {n} ELSE {n}
<1> DEFINE L == LiveChecks(s)
<1>1. /\ n \in Nat \ {0} /\ n \notin DOMAIN accepted
      /\ \A j \in DOMAIN accepted : j \in Nat /\ j < n
      /\ \A j \in DOMAIN accepted : accepted'[j] = accepted[j]
      /\ accepted'[n].evidence = e
  BY AcceptAppends DEF ViewInv
<1>2. L \subseteq DOMAIN accepted
  BY DEF LiveChecks, Of
<1>3. Run(s) = {i \in L : \A j \in L : j >= i => Holds(j)}
      /\ Run(s)' = {i \in L' : \A j \in L' : j >= i => Holds(j)'}
  BY DEF Run
<1>4. (\A j \in L : Holds(j)' = Holds(j)) /\ (Holds(n)' = e.holds)
  BY <1>1, <1>2 DEF Holds
<1>5. ~live["adherence"][s].holds => Run(s) = {}
  <2>1. CASE Of("adherence", s) = {}
    BY <2>1 DEF Run, LiveChecks
  <2>2. CASE Of("adherence", s) # {}
    <3>1. PICK i \in L : (\A j \in L : j <= i) /\ live["adherence"][s].holds = Holds(i)
      BY <2>2, ShownIsLive
    <3>2. \A j \in L : i >= j
      BY <1>1, <1>2, <3>1
    <3>3. QED BY <1>3, <3>1, <3>2
  <2>3. QED BY <2>1, <2>2
<1>6. live["adherence"][s].holds \in BOOLEAN
  BY DEF ViewInv, Types, View, Kinds
<1> HIDE DEF L
<1>7. ASSUME L' = L PROVE Run(s)' = Run(s)
  BY <1>3, <1>4, <1>7
<1>8. ASSUME L' = L \cup {n}, e.holds PROVE Run(s)' = Run(s) \cup {n}
  <2>1. ASSUME NEW i \in L
        PROVE  (\A j \in L' : j >= i => Holds(j)') <=> (\A j \in L : j >= i => Holds(j))
    BY <1>1, <1>2, <1>4, <1>8
  <2>2. \A j \in L' : j >= n => Holds(j)'
    <3>1. Holds(n)'
      BY <1>4, <1>8
    <3>2. \A j \in L : ~(j >= n)
      BY <1>1, <1>2
    <3>3. QED BY <1>8, <3>1, <3>2
  <2>3. QED BY <1>3, <1>8, <2>1, <2>2
<1>9. QED BY <1>5, <1>6, <1>7, <1>8 DEF L

\* The onset of a run is that of the run with another check, if that check supplies none.
LEMMA OnsetContinues ==
    ASSUME NEW n \in Nat, NEW R, NEW onset, IsOnset(R, onset),
           \A j \in R : j \in Nat /\ j < n /\ accepted'[j] = accepted[j],
           accepted'[n].evidence.since = Unset
    PROVE  IsOnset(R, onset)' /\ IsOnset(R \cup {n}, onset)'
<1>1. \A j \in R : At(j)' = At(j) /\ Since(j)' = Since(j)
  BY DEF At, Since
<1>2. Supplied(R)' = Supplied(R) /\ Supplied(R \cup {n})' = Supplied(R)
  BY <1>1 DEF Supplied, Since
<1>3. \A i \in R : First(R, i) => First(R \cup {n}, i)
  BY DEF First
<1>4. Supplied(R) \subseteq R
  BY DEF Supplied
<1>5. CASE Supplied(R) = {}
  BY <1>1, <1>2, <1>3, <1>5 DEF IsOnset, First
<1>6. CASE Supplied(R) # {}
  BY <1>1, <1>2, <1>4, <1>6 DEF IsOnset, Last
<1>7. QED BY <1>5, <1>6

\* Nothing happened to the run.
LEMMA OnsetStays ==
    ASSUME NEW R, NEW onset, IsOnset(R, onset), \A j \in R : accepted'[j] = accepted[j]
    PROVE  IsOnset(R, onset)'
<1>1. \A j \in R : At(j)' = At(j) /\ Since(j)' = Since(j)
  BY DEF At, Since
<1>2. Supplied(R)' = Supplied(R) /\ Supplied(R) \subseteq R
  BY <1>1 DEF Supplied
<1>3. QED BY <1>1, <1>2 DEF IsOnset

\* An onset is a time.
LEMMA OnsetIsSet ==
    ASSUME Types, NEW s, NEW onset, IsOnset(Run(s), onset) PROVE onset # Unset
<1>1. \A i \in Run(s) : accepted[i].evidence.at # Unset
  BY AdmissionTypes DEF Run, LiveChecks, Of, Unset
<1>2. QED BY <1>1 DEF IsOnset, Supplied, At, Last, Since

LEMMA AcceptKeepsOnset ==
    ASSUME ViewInv, OnsetInv, NEW e \in Evidence, NEW position \in Nat \ {0},
           Accept(e, position)
    PROVE  OnsetInv'
<1> SUFFICES ASSUME NEW s \in Subjects
             PROVE  IF live'["adherence"][s].holds
                      THEN IsOnset(Run(s), live["adherence"][s].since)'
                      ELSE live'["adherence"][s].since = Unset
  BY DEF OnsetInv
<1>n. PICK n, v, R : n = Len(accepted) + 1 /\ v = live["adherence"][s] /\ R = Run(s)
  OBVIOUS
<1>1. Types /\ SameOrder
  BY DEF ViewInv
<1>2. /\ n \in Nat \ {0} /\ n \notin DOMAIN accepted
      /\ \A j \in DOMAIN accepted : j \in Nat /\ j < n
      /\ \A j \in DOMAIN accepted : accepted'[j] = accepted[j]
      /\ accepted'[n].evidence = e
  BY <1>n, <1>1, AcceptAppends
<1>3. R \subseteq DOMAIN accepted
  BY <1>n DEF Run, LiveChecks, Of
<1>4. v.at \in Nat /\ v.holds \in BOOLEAN /\ e.at \in Nat /\ e.since \in Nat
      /\ e.holds \in BOOLEAN
  BY <1>n, <1>1, EvidenceAssumption DEF Types, View, Kinds
<1>5. /\ v.holds => IsOnset(R, v.since)
      /\ ~v.holds => v.since = Unset
  BY <1>n DEF OnsetInv
<1>6. LiveChecks(s)' = IF e.kind = "adherence" /\ e.subject = s /\ v.at <= e.at
                         THEN LiveChecks(s) \cup {n} ELSE LiveChecks(s)
  BY <1>n, ChecksAfter
<1>7. CASE ~(e.kind = "adherence" /\ e.subject = s /\ v.at <= e.at)
  <2>1. Run(s)' = R
    BY <1>n, <1>6, <1>7, RunAfter
  <2>2. live'["adherence"][s] = v
    <3>1. CASE e.kind = "adherence" /\ e.subject = s
      <4>1. v.at > e.at
        BY <1>4, <1>7, <3>1
      <4>2. QED BY <1>n, <3>1, <4>1, CheckIsBuilt
    <3>2. CASE ~(e.kind = "adherence" /\ e.subject = s)
      BY <1>n, <1>1, <3>2, AcceptMoves DEF Kinds
    <3>3. QED BY <3>1, <3>2
  <2>3. v.holds => IsOnset(R, v.since)'
    BY <1>2, <1>3, <1>5, OnsetStays
  <2>4. QED BY <1>5, <2>1, <2>2, <2>3
<1>8. CASE e.kind = "adherence" /\ e.subject = s /\ v.at <= e.at
  <2>1. live'["adherence"][s] = Candidate(v, e, position)
    BY <1>n, <1>8, CheckIsBuilt
  <2>2. live'["adherence"][s].holds = e.holds
        /\ live'["adherence"][s].since = KnownViolationSince(v, e)
    BY <1>8, <2>1 DEF Candidate
  <2>3. CASE ~e.holds
    BY <2>2, <2>3 DEF KnownViolationSince
  <2>4. CASE e.holds
    <3>1. Run(s)' = IF v.holds THEN R \cup {n} ELSE {n}
      BY <1>n, <1>6, <1>8, <2>4, RunAfter
    <3>2. \A j \in R : j \in Nat /\ j < n /\ accepted'[j] = accepted[j]
      BY <1>2, <1>3
    <3>3. CASE e.since # Unset
      <4>1. PICK Q : Q = Run(s)'
        OBVIOUS
      <4>2. n \in Q /\ \A j \in Q : j \in Nat /\ j <= n
        BY <1>2, <3>1, <3>2, <4>1
      <4>3. n \in Supplied(Q)' /\ Supplied(Q)' \subseteq Q
        BY <1>2, <3>3, <4>2 DEF Supplied, Since
      <4>4. Last(Supplied(Q), n)'
        BY <4>2, <4>3 DEF Last
      <4>5. IsOnset(Q, e.since)'
        BY <1>2, <4>2, <4>3, <4>4 DEF IsOnset, Since
      <4>6. QED BY <2>2, <2>4, <3>3, <4>1, <4>5 DEF KnownViolationSince
    <3>4. CASE e.since = Unset /\ v.holds
      <4>1. v.since # Unset
        BY <1>n, <1>1, <1>5, <3>4, OnsetIsSet
      <4>2. live'["adherence"][s].since = v.since
        BY <2>2, <2>4, <3>4, <4>1 DEF KnownViolationSince
      <4>3. IsOnset(R \cup {n}, v.since)'
        BY <1>2, <1>5, <3>2, <3>4, OnsetContinues
      <4>4. QED BY <2>2, <2>4, <3>1, <3>4, <4>2, <4>3
    <3>5. CASE e.since = Unset /\ ~v.holds
      <4>1. live'["adherence"][s].since = e.at
        BY <2>2, <2>4, <3>5 DEF KnownViolationSince
      <4>2. Supplied({n})' = {} /\ First({n}, n) /\ At(n)' = e.at
        BY <1>2, <3>5 DEF Supplied, Since, First, At
      <4>3. IsOnset({n}, e.at)'
        BY <4>2 DEF IsOnset, First
      <4>4. QED BY <2>2, <2>4, <3>1, <3>5, <4>1, <4>3
    <3>6. QED BY <1>4, <3>3, <3>4, <3>5
  <2>5. QED BY <1>4, <2>3, <2>4
<1>9. QED BY <1>7, <1>8

\* The onset of a live violation is the last one supplied since it began, or the time of
\* the check it began with, whatever checks come late.
THEOREM OnsetsFollowChecks == Spec => []OnsetFollowsLiveChecks
<1>1. Init => OnsetInv
  BY InitOnset
<1>2. ViewInv /\ OnsetInv /\ [Next]_vars => OnsetInv'
  <2>1. ASSUME OnsetInv, UNCHANGED vars PROVE OnsetInv'
    BY <2>1 DEF vars, OnsetInv, IsOnset, Run, LiveChecks, Of, Supplied, First, Last, At,
       Holds, Since
  <2>2. QED BY <2>1, StepsAccept, AcceptKeepsOnset
<1>3. ViewInv /\ OnsetInv => OnsetFollowsLiveChecks
  <2> SUFFICES ASSUME ViewInv, OnsetInv, NEW s \in Subjects
               PROVE  IF ~live["adherence"][s].holds THEN live["adherence"][s].since = Unset
                      ELSE live["adherence"][s].since = OnsetOfRun(Run(s))
    BY DEF OnsetFollowsLiveChecks, Run, Holds
  <2>1. CASE ~live["adherence"][s].holds
    BY <2>1 DEF OnsetInv
  <2>2. CASE live["adherence"][s].holds
    <3>1. PICK onset : onset = live["adherence"][s].since
      OBVIOUS
    <3>2. IsOnset(Run(s), onset)
      BY <2>2, <3>1 DEF OnsetInv
    <3>3. onset = OnsetOfRun(Run(s))
      BY <3>2, OnsetIsOnsetOfRun DEF ViewInv
    <3>4. QED BY <2>2, <3>1, <3>3
  <2>3. QED BY <2>1, <2>2
<1>4. QED BY <1>1, <1>2, <1>3, ViewInvHolds, PTL DEF Spec
=============================================================================
