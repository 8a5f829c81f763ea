------------------------------- MODULE Replay -------------------------------
(***************************************************************************)
(* The replay (internal/runtime/replay.go, Run): a file of events is read  *)
(* line by line, and each line is one transaction that stores the          *)
(* occurrence, fires due timers, builds the source view, evaluates the     *)
(* rules, and stores alert transitions, intents and deliveries as they     *)
(* come.  Views, trackers, alerts and planned intents live in memory only; *)
(* the tables hold what was committed.  A run may stop anywhere, by a      *)
(* crash or an error, and the replay may be started again on the tables it *)
(* left.  The active rule revisions do not change between runs.            *)
(***************************************************************************)
EXTENDS Integers, Sequences, FiniteSets, Trackers, AlertSeries, Orders

CONSTANTS
    Rules,        \* active revisions, numbered in the order of (rule ID, revision)
    Subjects,     \* agents and queues, numbered in the order of (kind, ID)
    Targets,      \* Targets[r]: the subjects of r
    Reads,        \* Reads[r]: the source view r's two predicates read
    Durations,    \* Durations[r]: r's duration per direction
    NotifyOn,     \* NotifyOn[r]: the kinds of transition r's policy notifies of
    Evidence,     \* what a line says: [kind, subject, at, holds, since]
    FileLength,   \* bound: lines of the file
    MaxRuns       \* bound: runs

Views == INSTANCE LiveViews
Seqs == INSTANCE SequencesExt

\* The reducer's operators that do not look at its state.
Reducer(r) == INSTANCE Conditions WITH
    TriggerDuration <- Durations[r].trigger, ClearDuration <- Durations[r].clear,
    ObservationIds <- {}, Inputs <- {}, Instants <- {}, MaxClaims <- 0, logical <- Unset,
    tracker <- <<>>, seen <- {}, episodes <- <<>>, journal <- <<>>, claimed <- {},
    heldSince <- <<>>

ASSUME ReplayRules == Rules \subseteq Nat /\ IsFiniteSet(Rules)
ASSUME ReplaySubjects == Subjects \subseteq Nat /\ IsFiniteSet(Subjects)
ASSUME ReplayTargets == Targets \in [Rules -> SUBSET Subjects]
ASSUME ReplayReads == Reads \in [Rules -> Views!Kinds]
ASSUME ReplayDurations == Durations \in [Rules -> [Directions -> Nat]]
ASSUME ReplayPolicies == NotifyOn \in [Rules -> SUBSET Kinds]
ASSUME ReplayEvidence ==
    Evidence \subseteq [kind : Views!Kinds, subject : Subjects, at : Nat \ {Unset},
                        holds : BOOLEAN, since : Nat]
ASSUME ReplayBounds == FileLength \in Nat /\ MaxRuns \in Nat

VARIABLES
    file,       \* the lines read so far by any run; a file does not change
    mode,       \* whether Run is executing, has returned nil, or stopped otherwise
    runs,       \* runs started
    line,       \* the line Run is at
    stage,      \* how far that line is: "none" (no transaction is open), "admitted",
                \* "advanced", "built" or "applied"
    emitting,   \* condition transitions a running emit has not stored yet
    logical,    \* Run's logical time
    mem,        \* the memory of a run
    work,       \* the tables as the open transaction sees them
    db          \* the tables as committed

vars == <<file, mode, runs, line, stage, emitting, logical, mem, work, db>>

EmptyMemory ==
    [view |-> [k \in Views!Kinds |-> [s \in Subjects |-> Views!NoView]],
     tracker |-> [r \in Rules |-> [s \in Subjects |-> NewTracker]],
     alerts |-> [series |-> [s \in Rules \X Subjects |-> NewSeries], closed |-> {}],
     planned |-> {}]

EmptyTables ==
    [lines |-> {}, processed |-> {},
     pointer |-> [k \in Views!Kinds |-> [s \in Subjects |-> Views!NoRow]],
     generations |-> << >>, transitions |-> {}, intents |-> << >>]

-----------------------------------------------------------------------------
(* Storing the alert transition, a, that a condition transition, t, brings. *)

\* What the alert reducer makes of t.
AlertsAfter(alerts, t) ==
    IF t.direction = "trigger" THEN AfterStart(alerts, <<t.rule, t.subject>>, t.episode)
                               ELSE AfterClear(alerts, <<t.rule, t.subject>>, t.episode)

AlertTransitions(alerts, t) ==
    IF t.direction = "trigger" THEN OpenTransition(alerts, <<t.rule, t.subject>>, t.episode)
                               ELSE RecoveryTransition(alerts, <<t.rule, t.subject>>, t.episode)

Generation(a) == <<a.series, a.generation>>
Row(a) == <<a.series, a.generation, a.kind>>

\* persistAlert inserts the generation's row or updates it.
\* Mutant: a recovery is only dated.
GenerationsNotClosed(a, at) ==
    [g \in DOMAIN work.generations \cup {Generation(a)} |->
       IF g # Generation(a) THEN work.generations[g]
       ELSE IF a.kind = "open"
         THEN [status |-> "open", openedAt |-> at, recoveredAt |-> Unset]
         ELSE [work.generations[g] EXCEPT !.recoveredAt = at]]
GenerationsAfter(a, at) ==
    [g \in DOMAIN work.generations \cup {Generation(a)} |->
       IF g # Generation(a) THEN work.generations[g]
       ELSE IF a.kind = "open"
         THEN [status |-> "open", openedAt |-> at, recoveredAt |-> Unset]
         ELSE [work.generations[g] EXCEPT !.status = "recovered", !.recoveredAt = at]]

\* A generation that exists already, or is missing, is an error, and so is a transition
\* that exists.
\* Mutant: a generation that exists is overwritten.
NeverConflicts(a) == FALSE
Conflicts(a) ==
    \/ a.kind = "open" /\ Generation(a) \in DOMAIN work.generations
    \/ a.kind = "recovery" /\ Generation(a) \notin DOMAIN work.generations
    \/ Row(a) \in work.transitions

\* Planner.Plan: what the policy asks for and was not planned before.
Planned(planned, a, r) == IF a.kind \in NotifyOn[r] THEN {Row(a)} \ planned ELSE {}

\* What is planned for what t brings.
PlannedFor(m, t) ==
    LET made == AlertTransitions(m.alerts, t)
    IN UNION {Planned(m.planned, made[i], t.rule) : i \in DOMAIN made}

\* EnsureNotificationIntentForTransition and deliver: the intent is stored, claimed,
\* attempted and delivered.  deliver claims the oldest intent there is to claim, and
\* fails if that is another one.
\* Mutant: the intent is left to a worker.
StateAfterPlanning == "pending"
StateAfterDelivery == "delivered"

IntentsAfter(planned) ==
    [i \in DOMAIN work.intents \cup planned |->
       IF i \in DOMAIN work.intents THEN work.intents[i] ELSE StateAfterDelivery]

Undelivered(tables) == {i \in DOMAIN tables.intents : tables.intents[i] # "delivered"}

Fails(a, r) == Conflicts(a) \/ (Planned(mem.planned, a, r) # {} /\ Undelivered(work) # {})

-----------------------------------------------------------------------------
(* The condition transitions of the two calls into the evaluation runtime. *)

\* A transition of pending tracker t, as its reducer emits it.
TransitionOf(r, s, t, at) ==
    [rule |-> r, subject |-> s, direction |-> DirectionFor(t.phase), at |-> at,
     episode |-> <<r, s, IF t.phase = "triggering" THEN t.sequence + 1 ELSE t.episode>>]

\* Runtime.Advance(now): everything due by now, in the order of due time and key.
DueBy(trackers, now) ==
    {timer \in Rules \X Subjects :
       /\ Pending(trackers[timer[1]][timer[2]])
       /\ DueAt(trackers[timer[1]][timer[2]], Durations[timer[1]]) <= now}

Drained(trackers, now) ==
    [r \in Rules |-> [s \in Subjects |->
       IF <<r, s>> \in DueBy(trackers, now) THEN Committed(trackers[r][s]) ELSE trackers[r][s]]]

Due(trackers, timer) == DueAt(trackers[timer[1]][timer[2]], Durations[timer[1]])

Less(trackers, a, b) ==
    \/ Due(trackers, a) < Due(trackers, b)
    \/ Due(trackers, a) = Due(trackers, b) /\ a[1] < b[1]
    \/ Due(trackers, a) = Due(trackers, b) /\ a[1] = b[1] /\ a[2] < b[2]

FiredBy(trackers, now) ==
    LET due == DueBy(trackers, now)
        q == SortedBy(due, {p \in due \X due : Less(trackers, p[1], p[2])})
    IN [i \in DOMAIN q |-> TransitionOf(q[i][1], q[i][2], trackers[q[i][1]][q[i][2]],
                                        Due(trackers, q[i]))]

\* evidenceProvider and Runtime.Evaluate: a view that was never built is unknown, and
\* the clear predicate negates the trigger predicate.  The onset of a live violation
\* goes with every rule's trigger, whatever the rule reads.
ResultOf(view, r, s, dir) ==
    LET v == view[Reads[r]][s] IN
    IF v = Views!NoView THEN "unknown"
    ELSE IF v.holds <=> dir = "trigger" THEN "true" ELSE "false"

TrueSince(view, s, dir) ==
    IF dir = "trigger" THEN view["adherence"][s].since ELSE Unset

ObservationOf(view, r, e, dir, now) ==
    [subject |-> e.subject, direction |-> dir, result |-> ResultOf(view, r, e.subject, dir),
     effectiveAt |-> e.at, processingAt |-> now, trueSince |-> TrueSince(view, e.subject, dir)]

\* Runtime.Apply: rule by rule, the trigger's observation before the clear's.
Observe(r, t, o, now) ==
    LET opened == Reducer(r)!OpenedBy(t, o)
    IN [tracker |-> Reducer(r)!Observed(t, o, now),
        fired |-> IF Reducer(r)!CommitsAtOnce(t, o, now)
                    THEN <<TransitionOf(r, o.subject, opened, Reducer(r)!CommitAt(opened, now))>>
                    ELSE <<>>]

ObserveBoth(m, r, e, now) ==
    LET up == Observe(r, m.tracker[r][e.subject],
                      ObservationOf(m.view, r, e, "trigger", now), now)
        down == Observe(r, up.tracker, ObservationOf(m.view, r, e, "clear", now), now)
    IN [tracker |-> down.tracker, fired |-> up.fired \o down.fired]

\* Per rule: its tracker of the subject, and what it emits.
Applied(m, e, now) ==
    [r \in Rules |-> IF e.subject \in Targets[r]
                       THEN ObserveBoth(m, r, e, now)
                       ELSE [tracker |-> m.tracker[r][e.subject], fired |-> <<>>]]

RuleOrder == SortedBy(Rules, {p \in Rules \X Rules : p[1] < p[2]})

-----------------------------------------------------------------------------

Init ==
    /\ file = <<>>
    /\ mode = "stopped"
    /\ runs = 0
    /\ line = 1
    /\ stage = "none"
    /\ emitting = <<>>
    /\ logical = Unset
    /\ mem = EmptyMemory
    /\ db = EmptyTables
    /\ work = EmptyTables

\* Run begins with nothing in memory and reads the file from its first line.
Start ==
    /\ mode # "running" /\ runs < MaxRuns
    /\ mode' = "running"
    /\ runs' = runs + 1
    /\ line' = 1
    /\ logical' = Unset
    /\ mem' = EmptyMemory
    /\ UNCHANGED <<file, stage, emitting, work, db>>

\* A crash, a lost connection, or an error returned: the transaction is rolled back
\* and the memory is gone.
Stopped ==
    /\ mode' = "stopped"
    /\ stage' = "none"
    /\ emitting' = <<>>
    /\ work' = db
    /\ mem' = EmptyMemory
    /\ UNCHANGED <<runs, line, logical, db>>

Stop == mode = "running" /\ Stopped /\ UNCHANGED file

At(s) == mode = "running" /\ stage = s /\ emitting = <<>>

\* Where Stream goes after a line that was done.
\* Mutant: it stays.
SameLine == line
NextLine == line + 1

\* The next line, e: logical time moves before the transaction begins.  An occurrence
\* that was inserted by an earlier run is left as it is, and the line is done.
Inserted(n) == n \notin db.lines

Admit(e) ==
    /\ At("none") /\ line <= FileLength
    /\ IF line <= Len(file) THEN e = file[line] /\ file' = file ELSE file' = Append(file, e)
    /\ logical' = IF e.at > logical THEN e.at ELSE logical
    /\ IF Inserted(line)
         THEN /\ stage' = "admitted"
              /\ work' = [db EXCEPT !.lines = @ \cup {line}]
              /\ line' = line
         ELSE /\ stage' = stage
              /\ work' = work
              /\ line' = NextLine
    /\ UNCHANGED <<mode, runs, emitting, mem, db>>

\* A line that does not decode ends this run, and every other that gets there.
Malformed == [kind |-> "malformed"]

DecodeFails ==
    /\ At("none") /\ line <= FileLength
    /\ file' = IF line <= Len(file) THEN file ELSE Append(file, Malformed)
    /\ file'[line] = Malformed
    /\ Stopped

\* One turn of emit's loop: the alert transition that t brings, if any, is stored with
\* what is planned for it, or is an error.
Emitting == mode = "running" /\ emitting # <<>>

StoredFor(t) ==
    IF AlertTransitions(mem.alerts, t) = <<>> THEN work
    ELSE LET a == Head(AlertTransitions(mem.alerts, t)) IN
         [work EXCEPT !.generations = GenerationsAfter(a, t.at),
                      !.transitions = @ \cup {Row(a)},
                      !.intents = IntentsAfter(Planned(mem.planned, a, t.rule))]

EmissionFails(t) ==
    LET made == AlertTransitions(mem.alerts, t)
    IN \E i \in DOMAIN made : Fails(made[i], t.rule)

EmitStored ==
    /\ Emitting
    /\ LET t == Head(emitting) IN
       /\ ~EmissionFails(t)
       /\ mem' = [mem EXCEPT !.alerts = AlertsAfter(mem.alerts, t),
                             !.planned = @ \cup PlannedFor(mem, t)]
       /\ work' = StoredFor(t)
    /\ emitting' = Tail(emitting)
    /\ UNCHANGED <<file, mode, runs, line, stage, logical, db>>

EmitFails == Emitting /\ EmissionFails(Head(emitting)) /\ Stopped /\ UNCHANGED file

FireDue ==
    /\ At("admitted")
    /\ mem' = [mem EXCEPT !.tracker = Drained(@, logical)]
    /\ emitting' = FiredBy(mem.tracker, logical)
    /\ stage' = "advanced"
    /\ UNCHANGED <<file, mode, runs, line, logical, work, db>>

\* builder.Build and persistProjection; the database numbers what it inserts, and the
\* lines it has are a prefix of the file.
BuildView ==
    LET e == file[line] IN
    /\ At("advanced")
    /\ mem' = [mem EXCEPT !.view[e.kind][e.subject] = Views!Built(@, e, line)]
    /\ work' = [work EXCEPT !.pointer[e.kind][e.subject] = Views!Moved(@, line, e.at)]
    /\ stage' = "built"
    /\ UNCHANGED <<file, mode, runs, line, emitting, logical, db>>

EvaluateAndApply ==
    LET e == file[line] IN
    /\ At("built")
    /\ \E applied \in {Applied(mem, e, logical)} :
         /\ mem' = [mem EXCEPT !.tracker =
                      [r \in Rules |-> [@[r] EXCEPT ![e.subject] = applied[r].tracker]]]
         /\ emitting' = Seqs!FlattenSeq([i \in DOMAIN RuleOrder |-> applied[RuleOrder[i]].fired])
    /\ stage' = "applied"
    /\ UNCHANGED <<file, mode, runs, line, logical, work, db>>

\* MarkProcessed and the commit.
Commit ==
    /\ At("applied")
    /\ db' = [work EXCEPT !.processed = @ \cup {line}]
    /\ work' = db'
    /\ stage' = "none"
    /\ line' = NextLine
    /\ UNCHANGED <<file, mode, runs, emitting, logical, mem>>

\* The end of the file: Advance once more, and what it returns is dropped.
EndOfFile ==
    /\ At("none") /\ line > FileLength
    /\ mode' = "ended"
    /\ mem' = [mem EXCEPT !.tracker = Drained(@, logical)]
    /\ UNCHANGED <<file, runs, line, stage, emitting, logical, work, db>>

RunStep ==
    \/ \E e \in Evidence : Admit(e)
    \/ DecodeFails
    \/ FireDue
    \/ EmitStored
    \/ EmitFails
    \/ BuildView
    \/ EvaluateAndApply
    \/ Commit
    \/ EndOfFile

Next == Start \/ Stop \/ RunStep

\* Run is one loop over a finite file: unless it is stopped, it goes on.  Nothing says
\* that it is not stopped, or that it is ever started again.
Spec == Init /\ [][Next]_vars /\ WF_vars(RunStep)

-----------------------------------------------------------------------------

\* Between two lines of a run on empty tables, the tables say what the memory says: the
\* lines read, each view's row, and for every series the generations the reducer has
\* counted, all recovered but the last one if the series is open.
Follows(tables) ==
    /\ \A k \in Views!Kinds, s \in Subjects :
         /\ tables.pointer[k][s].row = mem.view[k][s].position
         /\ tables.pointer[k][s].at = mem.view[k][s].at
    /\ DOMAIN tables.generations =
         UNION {{s} \X (1 .. mem.alerts.series[s].generation) : s \in Rules \X Subjects}
    /\ \A g \in DOMAIN tables.generations :
         tables.generations[g].status = "open" <=>
             /\ mem.alerts.series[g[1]].open
             /\ g[2] = mem.alerts.series[g[1]].generation

StoreFollowsMemory ==
    mode = "running" /\ stage = "none" /\ runs = 1 =>
        db.lines = 1 .. line - 1 /\ Follows(db)

\* Wherever runs stop, a line is stored with everything it brought about or not at all:
\* it is processed, each generation has its transitions, each transition that its rule
\* notifies of has an intent, and every intent is delivered.
Whole(tables) ==
    /\ tables.transitions =
         UNION {{<<g[1], g[2], "open">>}
                  \cup (IF tables.generations[g].status = "open"
                          THEN {} ELSE {<<g[1], g[2], "recovery">>}) :
                g \in DOMAIN tables.generations}
    /\ DOMAIN tables.intents = {t \in tables.transitions : t[3] \in NotifyOn[t[1][1]]}
    /\ Undelivered(tables) = {}

CommittedLinesAreWhole == db.processed = db.lines /\ Whole(db)

\* Later lines, late ones too, and later runs never rewrite what was committed: lines,
\* transitions and intents stay, and a generation's times do.
Keeps(old, new) ==
    /\ old.lines \subseteq new.lines
    /\ old.transitions \subseteq new.transitions
    /\ \A i \in DOMAIN old.intents : i \in DOMAIN new.intents /\ new.intents[i] = old.intents[i]
    /\ \A g \in DOMAIN old.generations :
         /\ g \in DOMAIN new.generations
         /\ new.generations[g].openedAt = old.generations[g].openedAt
         /\ old.generations[g].status = "recovered" =>
              new.generations[g] = old.generations[g]

CommittedAlertsStand == [][Keeps(db, db')]_vars

\* At the end of the file everything due by the latest observed time has fired and is
\* stored, so the transitions the last Advance returns, which nobody stores, are none.
NothingDroppedAtEnd ==
    [][mode = "running" /\ mode' = "ended" => mem'.tracker = mem.tracker]_vars

\* A run comes to its end, whatever an earlier run left in the tables, unless stopped.
RunEnds == mode = "running" ~> mode # "running"

\* An alert opens only when its predicate has been true for the rule's duration
\* (docs/product.md): some stored line about what the rule reads said so that long before.
OpensAfterHolding ==
    \A g \in DOMAIN db.generations :
        LET r == g[1][1]
            s == g[1][2]
        IN Reads[r] # "adherence" =>
             \E i \in db.lines :
                /\ file[i].kind = Reads[r] /\ file[i].subject = s /\ file[i].holds
                /\ file[i].at + Durations[r].trigger <= db.generations[g].openedAt
=============================================================================
