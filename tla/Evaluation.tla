----------------------------- MODULE Evaluation -----------------------------
(***************************************************************************)
(* The evaluation runtime (internal/evaluation/runtime.go, type Runtime):  *)
(* one condition reducer per active rule revision, behind one logical      *)
(* clock.  The caller advances the clock, evaluates an occurrence at the   *)
(* time the clock shows, and applies the result; it may hold a result      *)
(* across another Advance, or apply it twice.  The runtime is single       *)
(* threaded: while Advance or Apply has work left (target, queue), nothing *)
(* else is called.                                                         *)
(***************************************************************************)
EXTENDS Integers, Sequences, FiniteSets, Trackers, Orders

CONSTANTS
    Rules,            \* active revisions, numbered in the order of (rule ID, revision)
    Subjects,         \* evaluation targets, numbered in the order of (kind, ID)
    Targets,          \* Targets[r]: the subjects pinned when r was activated
    Durations,        \* Durations[r]: r's duration per direction
    Occurrences,      \* accepted occurrences: [subject, effectiveAt]
    Outcomes,         \* what evaluating every rule's two predicates may give
    MaxTime           \* bound: the last logical time

NoResult == <<>>
Outcome == [trigger : Results, clear : Results, trueSince : Nat]

ASSUME RulesAssumption == Rules \subseteq Nat /\ IsFiniteSet(Rules)
ASSUME EvaluationSubjects == Subjects \subseteq Nat /\ IsFiniteSet(Subjects)
ASSUME TargetsAssumption == Targets \in [Rules -> SUBSET Subjects]
ASSUME DurationsAssumption == Durations \in [Rules -> [Directions -> Nat]]
ASSUME OccurrencesAssumption ==
    Occurrences \subseteq [subject : Subjects, effectiveAt : Nat \ {Unset}]
ASSUME OutcomesAssumption == Outcomes \subseteq [Rules -> Outcome]
ASSUME MaxTimeAssumption == MaxTime \in Nat

VARIABLES
    logical,      \* Runtime.logical
    target,       \* the time a running Advance drains to, or Unset
    queue,        \* observations a running Apply has not passed on yet
    result,       \* the EvaluationResult the caller holds
    clock, tracker, seen, episodes, journal, heldSince,   \* per rule: its Reducer
    out           \* transitions in the order the runtime returned them: <<rule, position>>

reducers == <<clock, tracker, seen, episodes, journal, heldSince>>
vars == <<logical, target, queue, result, reducers, out>>

Reducer(r) == INSTANCE Conditions WITH
    TriggerDuration <- Durations[r].trigger, ClearDuration <- Durations[r].clear,
    ObservationIds <- Occurrences \X Directions, Inputs <- {}, Instants <- 0 .. MaxTime,
    MaxClaims <- 0, logical <- clock[r], tracker <- tracker[r], seen <- seen[r],
    episodes <- episodes[r], journal <- journal[r], claimed <- {},
    heldSince <- heldSince[r]

-----------------------------------------------------------------------------

Idle == target = Unset /\ queue = <<>>

\* nextDue and lessTimer: the first timer due by now, over all rules.
DueTimers(now) == 
    {timer \in Rules \X Subjects : timer[2] \in Reducer(timer[1])!DueBy(now)}

DueTime(timer) == DueAt(tracker[timer[1]][timer[2]], Durations[timer[1]])

\* Mutant: one rule after the other, not by due time.
LessByRule(a, b) ==
    \/ a[1] < b[1]
    \/ a[1] = b[1] /\ DueTime(a) < DueTime(b)
    \/ a[1] = b[1] /\ DueTime(a) = DueTime(b) /\ a[2] < b[2]
LessTimer(a, b) ==
    \/ DueTime(a) < DueTime(b)
    \/ DueTime(a) = DueTime(b) /\ a[1] < b[1]
    \/ DueTime(a) = DueTime(b) /\ a[1] = b[1] /\ a[2] < b[2]

\* Mutant: every pending timer is taken for due.
IsNextPending(timer, now) ==
    LET pending == {t \in Rules \X Subjects : Pending(tracker[t[1]][t[2]])} IN
    timer \in pending /\ \A other \in pending \ {timer} : LessTimer(timer, other)
\* Mutant: a timer due exactly now is left.
IsNextBefore(timer, now) ==
    LET past == {other \in DueTimers(now) : DueTime(other) < now} IN
    timer \in past /\ \A other \in past \ {timer} : LessTimer(timer, other)
IsNextDue(timer, now) ==
    /\ timer \in DueTimers(now)
    /\ \A other \in DueTimers(now) \ {timer} : LessTimer(timer, other)

\* observationID, within one rule's reducer.
ObservationId(occurrence, dir) == <<occurrence, dir>>

\* One predicate of one rule, evaluated on an occurrence.
ObservationOf(res, r, dir) ==
    [rule |-> r, id |-> ObservationId(res.occurrence, dir),
     observation |->
        [subject |-> res.occurrence.subject, direction |-> dir,
         result |-> res.outcome[r][dir],
         effectiveAt |-> res.occurrence.effectiveAt, processingAt |-> res.logical,
         trueSince |-> IF dir = "trigger" THEN res.outcome[r].trueSince ELSE Unset]]

\* lessObservation: the canonical order; all are of one subject.
LessObservation(a, b) ==
    \/ a.rule < b.rule
    \/ a.rule = b.rule /\ a.observation.direction = "trigger"
                      /\ b.observation.direction = "clear"

\* NewEvaluationResult: both predicates of every rule that selects the subject.
ObservationsOf(res) ==
    LET selected == {r \in Rules : res.occurrence.subject \in Targets[r]}
        made == {ObservationOf(res, r, dir) : r \in selected, dir \in Directions}
    IN SortedBy(made, {p \in made \X made : LessObservation(p[1], p[2])})

-----------------------------------------------------------------------------

Init ==
    /\ logical = Unset /\ target = Unset /\ queue = <<>> /\ result = NoResult
    /\ clock = [r \in Rules |-> Unset]
    /\ tracker = [r \in Rules |-> [s \in Subjects |-> NewTracker]]
    /\ seen = [r \in Rules |-> {}]
    /\ episodes = [r \in Rules |-> [s \in Subjects |-> <<>>]]
    /\ journal = [r \in Rules |-> <<>>]
    /\ heldSince = [r \in Rules |-> [s \in Subjects |-> [dir \in Directions |-> Unset]]]
    /\ out = <<>>

\* Advance(now) refuses the zero time and a time before the clock.
BeginAdvance(now) ==
    /\ Idle
    /\ now # Unset /\ now >= logical
    /\ target' = now
    /\ UNCHANGED <<logical, queue, result, reducers, out>>

\* One turn of Advance's loop: the next due timer fires in its reducer.
FireNext ==
    /\ target # Unset
    /\ \E timer \in Rules \X Subjects :
         LET r == timer[1]
             s == timer[2]
             t == tracker[r][s]
         IN /\ IsNextDue(timer, target)
            /\ clock' = [clock EXCEPT ![r] = target]
            /\ tracker' = [tracker EXCEPT ![r][s] = Committed(t)]
            /\ episodes' = [episodes EXCEPT ![r][s] =
                              Reducer(r)!EpisodesAfter(@, t, DueTime(timer))]
            /\ journal' = [journal EXCEPT ![r] =
                             Append(@, Reducer(r)!TransitionOf(s, t, DueTime(timer), target))]
            /\ out' = Append(out, <<r, Len(journal[r]) + 1>>)
    /\ UNCHANGED <<logical, target, queue, result, seen, heldSince>>

\* No timer is due any more: every reducer's clock, then the runtime's, is set.
FinishAdvance ==
    /\ target # Unset
    /\ \A timer \in Rules \X Subjects : ~IsNextDue(timer, target)
    /\ clock' = [r \in Rules |-> target]
    /\ logical' = target
    /\ target' = Unset
    /\ UNCHANGED <<queue, result, tracker, seen, episodes, journal, heldSince, out>>

\* NewEvaluationRequest: the occurrence must not lie in the future of the clock.
ValidRequest(occurrence) == logical # Unset /\ occurrence.effectiveAt <= logical

\* Evaluate: nothing but the result the caller receives is changed.
Evaluate(occurrence, outcome) ==
    /\ Idle
    /\ ValidRequest(occurrence)
    /\ result' = [occurrence |-> occurrence, logical |-> logical, outcome |-> outcome]
    /\ UNCHANGED <<logical, target, queue, reducers, out>>

\* validateResult: Apply accepts observations only at the logical time they were made
\* at; a result without any is accepted at all times.
ValidResult(res) ==
    \A i \in DOMAIN ObservationsOf(res) :
        LET o == ObservationsOf(res)[i].observation
        IN o.processingAt = logical /\ o.effectiveAt <= o.processingAt

BeginApply ==
    /\ Idle
    /\ result # NoResult /\ ValidResult(result)
    /\ queue' = ObservationsOf(result)
    /\ UNCHANGED <<logical, target, result, reducers, out>>

\* The reducer drops an observation it has seen.
\* Mutant: it takes it again.
FreshAlways(r, id) == TRUE
Fresh(r, id) == id \notin seen[r]

\* One turn of Apply's loop: the reducer of the observation's rule takes it.
ApplyNext ==
    /\ queue # <<>>
    /\ queue' = Tail(queue)
    /\ \E r \in Rules :
       LET id == Head(queue).id
           o == Head(queue).observation
           s == o.subject
           at == Reducer(r)!Later(o.processingAt, clock[r])
           t == Reducer(r)!DrainedTracker(at)[s]
           opened == Reducer(r)!OpenedBy(t, o)
           commit == Reducer(r)!CommitAt(opened, at)
           drained == journal[r] \o Reducer(r)!Drained(at)
           atOnce == Reducer(r)!CommitsAtOnce(t, o, at)
       IN r = Head(queue).rule /\
          IF ~Fresh(r, id) THEN UNCHANGED <<reducers, out>>
          ELSE
            /\ seen' = [seen EXCEPT ![r] = @ \cup {id}]
            /\ clock' = [clock EXCEPT ![r] = at]
            /\ tracker' = [tracker EXCEPT ![r] =
                 [Reducer(r)!DrainedTracker(at) EXCEPT ![s] = Reducer(r)!Observed(t, o, at)]]
            /\ episodes' = [episodes EXCEPT ![r] =
                 IF atOnce THEN [Reducer(r)!DrainedEpisodes(at) EXCEPT ![s] =
                                   Reducer(r)!EpisodesAfter(@, opened, commit)]
                           ELSE Reducer(r)!DrainedEpisodes(at)]
            /\ journal' = [journal EXCEPT ![r] =
                 IF atOnce THEN Append(drained, Reducer(r)!TransitionOf(s, opened, commit, at))
                           ELSE drained]
            /\ heldSince' = [heldSince EXCEPT ![r][s][o.direction] =
                               Reducer(r)!HeldAfter(@, o, at)]
            /\ out' = out \o [i \in 1 .. Len(journal'[r]) - Len(journal[r]) |->
                                <<r, Len(journal[r]) + i>>]
    /\ UNCHANGED <<logical, target, result>>

Next ==
    \/ \E now \in 1 .. MaxTime : BeginAdvance(now)
    \/ FireNext
    \/ FinishAdvance
    \/ \E occurrence \in Occurrences, outcome \in Outcomes :
         Evaluate(occurrence, outcome)
    \/ BeginApply
    \/ ApplyNext

Spec == Init /\ [][Next]_vars

-----------------------------------------------------------------------------

\* What all reducers emit leaves the runtime, each transition once, in the order of their
\* times, so that an alert series two revisions contribute to never sees a later episode
\* change before an earlier one.
TimeOf(entry) == journal[entry[1]][entry[2]].at
EmittedInOrder ==
    /\ {out[i] : i \in DOMAIN out} = UNION {{r} \X DOMAIN journal[r] : r \in Rules}
    /\ \A i, j \in DOMAIN out : i < j => out[i] # out[j] /\ TimeOf(out[i]) <= TimeOf(out[j])

\* Between two calls no reducer holds a timer that is due: what the next evaluation
\* meets has qualified or is still running, for every rule.
NothingOverdue == target = Unset => \A r \in Rules : Reducer(r)!DueBy(logical) = {}

\* Which timer fires first does not change what an Advance arrives at: each turn of the
\* loop leaves what every single reducer would drain to, alone, as it was.
DrainOutcome ==
    LET now == IF target # Unset THEN target ELSE logical IN
    [r \in Rules |-> <<Reducer(r)!DrainedTracker(now), Reducer(r)!DrainedEpisodes(now),
                       journal[r] \o Reducer(r)!Drained(now)>>]
DrainOutcomeIsFixed == [][target # Unset => DrainOutcome' = DrainOutcome]_vars

\* The runtime uses each reducer only through the operations Conditions describes: for
\* every rule the runtime's steps are Advance, Apply and Fire steps of its reducer, or
\* leave it alone.  What Conditions shows of one reducer holds of each.
ReducerStep(r) ==
    \/ target # Unset /\ Reducer(r)!Advance(target)
    \/ target # Unset /\ \E s \in Subjects : Reducer(r)!Fire(Reducer(r)!TimerOf(s), target)
    \/ queue # <<>> /\ Reducer(r)!Apply(Head(queue).observation, Head(queue).id)

ReducersFollowConditions ==
    [][\A r \in Rules : ReducerStep(r) \/ UNCHANGED Reducer(r)!vars]_vars
=============================================================================
