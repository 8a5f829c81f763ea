---------------------------- MODULE Projections ----------------------------
(***************************************************************************)
(* Source projections: the in-memory builder                               *)
(* (internal/projections/projections.go, type Builder) and the tables that *)
(* mirror it (ApplyQueueSnapshot, ApplyAgentStateChange and                *)
(* ApplyAdherenceCheck in internal/storage/db.go).  An accepted occurrence *)
(* is built and stored in one transaction; both are idempotent, and the    *)
(* caller may repeat an occurrence, or confuse its identity.  Effective    *)
(* times come in any order.                                                *)
(***************************************************************************)
EXTENDS LiveViews, Sequences, FiniteSets

CONSTANTS
    Subjects,       \* queues and agents
    MaxPosition,    \* bound: ingestion positions (line numbers)
    Evidence        \* what an event says: [kind, subject, at, holds, since]

ASSUME ProjectionBounds == MaxPosition \in Nat
ASSUME EvidenceAssumption ==
    Evidence \subseteq [kind : Kinds, subject : Subjects, at : Nat \ {Unset},
                        holds : BOOLEAN, since : Nat]

VARIABLES
    accepted,       \* Builder's occurrences, admissions and histories, in order
    live,           \* Builder.queues, agents and adherence
    observations,   \* the three observation tables; a row's place is its ingest position
    pointer         \* the three *_current tables: row and effective time

vars == <<accepted, live, observations, pointer>>

-----------------------------------------------------------------------------

Init ==
    /\ accepted = <<>>
    /\ live = [k \in Kinds |-> [s \in Subjects |-> NoView]]
    /\ observations = <<>>
    /\ pointer = [k \in Kinds |-> [s \in Subjects |-> NoRow]]

\* Build refuses a position that does not follow the last one.
Follows(position) == \A i \in DOMAIN accepted : accepted[i].position < position

PointersAfter(kind, subject, row, at) ==
    [pointer EXCEPT ![kind][subject] = Moved(@, row, at)]

\* Build of a new occurrence and its observation.
Accept(e, position) ==
    /\ Follows(position)
    /\ accepted' = Append(accepted, [position |-> position, evidence |-> e])
    /\ live' = [live EXCEPT ![e.kind][e.subject] = Built(@, e, position)]
    /\ observations' = Append(observations, e)
    /\ pointer' = PointersAfter(e.kind, e.subject, Len(observations) + 1, e.at)

\* An occurrence that is stored again: the row that is there is returned, and its
\* subject and effective time are used, whatever evidence e the call brings.
\* Mutant: the call's own subject and time are used.
StoredAsCalled(row, e) == e
Stored(row, e) == observations[row]

\* Build only repeats what is live; an identity with different evidence is an error.
\* The agent and adherence adapters, called alone, take the conflicting evidence.
Repeat(row, e) ==
    LET stored == Stored(row, e) IN
    /\ row \in DOMAIN observations
    /\ e.kind = observations[row].kind
    /\ e.kind = "queue" => e = observations[row]
    /\ pointer' = PointersAfter(stored.kind, stored.subject, row, stored.at)
    /\ UNCHANGED <<accepted, live, observations>>

Next ==
    \/ \E e \in Evidence, position \in 1 .. MaxPosition : Accept(e, position)
    \/ \E row \in DOMAIN observations, e \in Evidence : Repeat(row, e)

Spec == Init /\ [][Next]_vars

-----------------------------------------------------------------------------

\* The occurrences of one source and subject, as places in the order of acceptance.
Of(k, s) == {i \in DOMAIN accepted :
               accepted[i].evidence.kind = k /\ accepted[i].evidence.subject = s}

Latest(S) == CHOOSE i \in S : \A j \in S :
    \/ accepted[j].evidence.at < accepted[i].evidence.at
    \/ accepted[j].evidence.at = accepted[i].evidence.at /\ j <= i

\* Whatever order evidence comes in, a live view shows the accepted occurrence with the
\* latest effective time, the last accepted of equal ones: late evidence moves no view
\* backwards and no other source's evidence moves it at all.
LiveIsLatest ==
    \A k \in Kinds, s \in Subjects :
        IF Of(k, s) = {} THEN live[k][s] = NoView
        ELSE LET o == accepted[Latest(Of(k, s))] IN
             /\ live[k][s].at = o.evidence.at
             /\ live[k][s].position = o.position
             /\ live[k][s].holds = o.evidence.holds

\* The current tables agree with the builder: they point at the observation the builder
\* shows, with that observation's own subject and effective time, although memory
\* compares line numbers and the tables compare the positions the database assigned,
\* and although occurrences are stored again, even with evidence that differs.
StoreFollowsBuilder ==
    \A k \in Kinds, s \in Subjects :
        IF Of(k, s) = {} THEN pointer[k][s] = NoRow
        ELSE LET i == pointer[k][s].row IN
             /\ i \in Of(k, s)
             /\ observations[i] = accepted[i].evidence
             /\ pointer[k][s].at = observations[i].at
             /\ live[k][s].position = accepted[i].position

\* The onset of a live violation is the last one a check supplied since the violation
\* began, or, if none did, the time of the check it began with; checks that were late
\* when they came neither begin, continue nor end it.
LiveChecks(s) ==
    {i \in Of("adherence", s) :
       \A j \in Of("adherence", s) :
          j < i => accepted[j].evidence.at <= accepted[i].evidence.at}

OnsetOfRun(run) ==
    LET supplied == {i \in run : accepted[i].evidence.since # Unset}
        first == CHOOSE i \in run : \A j \in run : i <= j
        last == CHOOSE i \in supplied : \A j \in supplied : j <= i
    IN IF supplied = {} THEN accepted[first].evidence.at ELSE accepted[last].evidence.since

OnsetFollowsLiveChecks ==
    \A s \in Subjects :
        IF ~live["adherence"][s].holds THEN live["adherence"][s].since = Unset
        ELSE
            LET run == {i \in LiveChecks(s) :
                          \A j \in LiveChecks(s) : j >= i => accepted[j].evidence.holds}
            IN live["adherence"][s].since = OnsetOfRun(run)
=============================================================================
