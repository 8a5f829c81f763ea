# Watchtower in TLA+

Watchtower replays a file of contact-centre events (queue snapshots, agent
state changes, adherence checks), evaluates alert rules on them, and records
alerts and notifications in PostgreSQL. Its hard part is time: a condition must
hold for a while before it counts, evidence comes late, timers are claimed by
workers, a replay may stop at any line, and rules are saved while a file of rules
is seeded. This directory models that part, checks it with TLC and proves most of
its safety with TLAPS. Source paths are relative to `src/`.

## The system

| Part | State | Operations | What makes it correct |
|---|---|---|---|
| Condition reducer, `internal/conditions` | a tracker per subject (phase, attempt, interval start, episode), episodes, the transitions emitted, observations seen, logical time | `Apply`, `Advance`, `Fire`, `Timers` | one open episode at a time, none overlapping; an interval qualifies once, only if it was held, and is not lost when it is due |
| Evaluation runtime, `internal/evaluation` | a reducer per active rule revision, one logical clock | `Advance`, `Evaluate`, `Apply` | transitions of all rules in the order of time, nothing overdue between calls, reducers used only through their operations |
| Rule predicates, `internal/rules` | none: a compiled list of comparisons | `Validate`, `Compile`, `EvaluateTrigger`, `EvaluateClear` | what is decided on partial evidence stays decided |
| Projections, `internal/projections` and `internal/storage/db.go` | live views in memory; observation and current tables | `Build`; `ApplyQueueSnapshot`, `ApplyAgentStateChange`, `ApplyAdherenceCheck` | late evidence moves no view backwards; tables and memory show the same; the onset of a violation |
| Alerts, `internal/alerts` | contributors, generation and openness per series; closed episodes | `ApplyStart`, `ApplyClear`, `ApplyEpisode` | an alert is open exactly while an episode runs |
| Notifications, `internal/notifications` | intents planned; deliveries and their attempts | `Plan`, `Ensure`, `Begin`, `Complete`, `Fail` | one intent per transition, one live attempt per intent |
| Outbox, `internal/storage/work.go` | tables of intents, attempts, deliveries | `EnsureNotificationIntent`, `ClaimNotificationIntents`, `BeginDeliveryAttempt`, `FinishDeliveryAttempt` | one delivery, exclusive claims, finished rows stay |
| Timer store, `internal/storage/work.go` | tables of timers and tracker generations | `ReplaceTimer`, `ClaimDueTimers`, `CompleteTimer` | one live timer per condition; no stale callback completes one |
| Replay, `internal/runtime/replay.go` | all of the memory above, and the tables | `Run` | a line is stored whole or not at all; committed alerts stand; nothing is lost at the end of the file |
| Preview, `internal/runtime/preview.go` | memory of its own | `Replay` | the same notifications as the replay |
| Rule store, `internal/runtime/rules.go` and `replay.go` | tables of rules and of their revisions | `SaveRule`, `seedRules`, `activeFromDB` | a save keeps its revision; the one saved last is active, whatever is seeded |
| Clock and pending occurrences, `internal/storage/clock.go` | one row of time, processing states | `LockClock`, `AdvanceClock`, `NextPendingOccurrence` | file order; logical time never goes back |
| Migrations, `internal/storage/migrate.go` | schema, table of migrations, advisory lock | `EnsureMigrationTable`, `ApplyMigrations`, `Reset` | each version applied once and in order, whoever starts, stops or resets; a process that is ready has the schema |
| Application contracts, `internal/app/contracts.go` | none: requests and results of an evaluation | `NewEvaluationRequest`, `NewEvaluationResult` | no evidence from the future; one order of observations |
| Event decoding, rule JSON, site, API, command line | none of interest | pure functions, queries, flags | |

How they interact: `Run` reads a line, moves the logical time and opens a
transaction. In it the runtime advances (every reducer's due timers fire, in
one order over all rules), the builder updates a view, the rules that select
the subject are evaluated on the views, and the reducers take the results. Each
condition transition passes through the alert reducer and the planner and is
stored with its intent and delivery. Everything in memory is called by this one
goroutine. The timer store and the outbox are tables which several workers use
in transactions at read committed; their leases are compared with the time the
worker passes. The replay uses the outbox functions inside its own transaction. Server,
replay and the migrate command are processes on one database: each migrates it
first; the server saves rules, a replay seeds those of its file and evaluates what
is active then. A preview is a function inside the server.

What is hard here:

- *Order.* Late evidence, backdated starts, several rules' timers in one
  advance, evidence at the very instant a timer is due.
- *Stale state.* A timer callback for an interval that is over, an evaluation
  result held across an advance, an onset carried from check to check, a source
  that has not been seen yet.
- *Interleaving.* Leases that run out between two statements of one function;
  saves, seedings and migrations of several processes, statement by statement.
- *Failure.* A transaction that rolls back while memory has moved on; a run
  that starts again with empty memory on tables that are not; a process that
  stops in a migration.
- *Two of a kind.* Memory and tables, preview and replay, which keep the same
  things by code of their own.

`PROJECT.json` lists the hazards, each at its line with the properties that
cover it.

## Modules

Timestamps are natural numbers and 0 is Go's zero time. An identity is the
thing it identifies (an attempt is its number, a transition its series,
generation and kind). Texts, and timestamps that are only carried along, are
left out.

- `Trackers`: the tracker of a condition and the functions on it: `Started`,
  `Cancelled`, `Committed` are `start`, the two resets in `Apply`, and `commit`.
- `Conditions`: one rule's reducer. `Advance`, `Apply`, `Fire` are the
  methods; `Claim` and `Drop` stand for a caller that keeps a timer from
  `Timers` and delivers it late, repeatedly or never. `Advance` is a loop in
  the code; a commit starts no new interval, so its effect is one drain of all
  due timers in `timers()` order. `heldSince` is an observation variable: since
  when the evaluations of a direction have been true without a break.
- `Evaluation`: the runtime over several rules, each an INSTANCE of
  `Conditions` on its own components of the state. The loops of `Advance` and
  `Apply` are turned into steps (`FireNext`, `ApplyNext`) so that what holds
  between two turns can be stated. The checks of `NewEvaluationRequest` and the
  order `NewEvaluationResult` brings observations into are part of it
  (`ValidRequest`, `ObservationsOf`). That its steps are steps of the reducers is
  a refinement, `ReducersFollowConditions`: what `Conditions` shows of one
  reducer holds of each.
- `Predicates`: validation, flattening and the three-valued evaluation of an
  expression. A count, duration, boolean or state is an integer with a type;
  `Second` and `Year` are scaled so that fractions and excess occur.
- `AlertSeries`: the alert reducer's two operations as functions on its memory.
  `Alerting` makes actions of them and adds the planner and the delivery
  reducer. Starts, clears and plans may come repeatedly and in any order. `Complete`
  and `Fail` may be called whenever an intent has a delivery, with the token of any
  attempt that was begun, the current one or not, reported before or not and as what,
  and with the empty token of a worker whose `Begin` was rejected; what
  rejects a call is `Accepts`, the checks of the two methods. `reports` is an
  observation variable: what was first said of each attempt. `AlertLog` is what a
  reader of the transitions may rely on: of each series its first opening, its first
  recovery, its second opening, and so on, each episode standing for one of either at
  most. `Alerting` implements it (`ImplementsAlertLog`).
- `Orders`: sorting, as the calls of `sort.Slice` in the runtime and in a replay do it.
- `LiveViews`: a live view, the comparison `newer`, the derived onset, and a row
  of a current table. `Projections` accepts and stores occurrences with it.
- `TimerStore`: the timer tables. `ReplaceTimer` takes a row lock with its first
  statement and keeps it to the commit, hence three actions; a claim skips locked
  rows and is one statement. The phase column is left out.
- `Outbox`: the notification tables. `FinishDeliveryAttempt` is three statements
  whose locks differ, hence three actions; `Crash` loses what is not committed.
  Ensuring an intent that is stored is no step: it changes nothing, with other
  immutable data it is an error.
- `Replay`: `Run`, composed of `Trackers`, `Conditions`' operators,
  `AlertSeries` and `LiveViews`. The steps of a line's transaction are actions,
  so that `Stop` may come between any two; `work` is what the open transaction
  sees and `db` what is committed. The file grows as it is first read and is the
  same for every run; a line may be one that does not decode, which ends the run.
  The clear predicate is the negation of the trigger, as in each rule the guided
  form and the demo data make.
- `Preview`: `preview.go`'s `Replay` as a function of the lines of `Replay`'s file,
  on the same reducers and over views of its own. Beside the replay's steps it
  tells what a preview of the lines so far would put out (`Previewed`). Both take what
  fires, what an evaluation yields and what is planned from the same operators
  (`FiredBy`, `Applied`, `PlannedFor`), as both programs call the same packages.
- `Migrations`: `EnsureMigrationTable`, `ApplyMigrations` and `Reset` in several
  processes, one action per statement that another process can come before. A
  database may be fresh, partly migrated, or have rows without checksums. A version
  that has a row by the time it is inserted violates the primary key of
  `schema_migrations`, and its transaction rolls back (`RowExists`). Of a
  version's SQL the model knows what it needs and whether it may be repeated.
- `RuleStore`: `SaveRule` and `seedRules` in processes that have migrated, hence
  an extension of `Migrations`. A transaction is a record of what it has inserted
  and updated; a statement waits for a transaction that holds its key or its row,
  and what is committed is seen by the next statement. `ActiveRules` is
  `activeFromDB`.

The `MC` modules fix the constants. The modules named after a component with `Proofs`
hold its theorems; `RuleProofs` has those of `Migrations`, `RuleStore` and
`Predicates`, and `ReplayProofs` those of `Replay` and `Preview`. The inductive
invariants stand in the proof modules.

## Runs

| Run | Instance | What it shows |
|---|---|---|
| `conditions` | 2 subjects, durations 2 and 1, 4 observations, time to 4, one claimed timer; 111,000 states | `EpisodeMatchesPhase`, `JournalTellsEpisodes`, `EpisodesDoNotOverlap`: episodes, trackers and journal agree and episodes follow one another whatever arrives late. `PendingIsHeld`: an interval runs only over unbroken evidence. `OneCommitPerAttempt`, `DueIntervalIsNotLost`: a due interval commits, once. |
| `evaluation` | 2 rules, 2 subjects, 3 occurrences, time to 4; 375,000 states | `EmittedInOrder`, `NothingOverdue`, `DrainOutcomeIsFixed` (the order of firing decides nothing else) and `ReducersFollowConditions`. |
| `predicates` | 15 expressions over 5 fields, all partial evidence; 5,800 states | `DecidedIsForced`: no missing field can change what is decided, and what is undecided waits for a field the predicate names. |
| `alerting` | 3 episodes in 2 series, 2 attempts; 46,000 states | `OpenWhileRunning`, `ImplementsAlertLog` (the refinement of `AlertLog`), `EpisodeAlertsOnce`, `EachTransitionItsIntent`, `OneLiveAttempt`, `AttemptsAreFinal`. |
| `projections` | 5 occurrences of 10 kinds of evidence, some stored again; 161,000 states | `LiveIsLatest`, `StoreFollowsBuilder`, `OnsetFollowsLiveChecks`: views, tables and onsets against definitions over the whole history. |
| `timers` | 2 conditions, 2 workers, batches up to 2, 2 generations; 2,060,000 states | `OneLiveTimer`, `OneGoodClaim`, `CompletesOnlyIfCurrent`, `ClaimIsProtected`. |
| `outbox` | 2 intents, 2 workers, 2 attempts, lease 1, time to 3; 475,000 states | `DeliveredOnce`, `ExclusiveClaim`, `FinishedIsFinal`. |
| `outbox_race` | 1 intent, 2 workers | finding 1, below |
| `replay` | files of 4 lines over 7 kinds of evidence and lines that do not decode, 2 rules, 2 runs; 134,000 states | `StoreFollowsMemory`, `CommittedLinesAreWhole`, `CommittedAlertsStand`, `NothingDroppedAtEnd`, `PreviewAgreesOnAdherence` (for rules on adherence a preview plans what a run stores, at the same times) and `RunEnds`. |
| `replay_onset` | the same | finding 2, below |
| `preview_differs` | the same, 1 run | finding 3, below |
| `rule_store` | 2 processes, 2 versions, 5 databases to start from, 1 reset, 2 rules, 2 definitions, 2 revisions, a file of 2 rules; 446,000 states | Of migrations `AppliedAsRecorded`, `FoundMissingApplies`, `ReadyIsMigrated` and `MigrationEnds`; of the rules `SavedRevisionsStand`, `LastSaveIsActive`, `NoCircularWait`. |

Every property has a mutant in `PROJECT.json`: a plausible slip in a mapped
definition that makes TLC report it. Type correctness is part of the inductive
invariants that are proved, below.

Why the bounds are enough. Each instance has the fewest actors that can collide
and enough time for it: two subjects or rules for the order of timers, two
workers for a lease that changes hands, two contributors for a series, two
generations for a stale timer, two runs for tables that are not empty, two
processes for a lock and for a key both insert, two revisions for a save that
meets the file's. Durations
of 1 and 2 in a time of 4 allow an interval to start, be interrupted, qualify and
clear, with evidence a unit late. Four lines let a rule open, recover and open
again, and three checks of one subject with two between them cover every way an
onset is carried.

Deadlock is checked in `conditions`, `evaluation`, `alerting` and `rule_store`. Elsewhere the
behaviours end by design: times, claims, attempts, positions or runs are used up.

### Fairness

`Replay` assumes `WF_vars(RunStep)`. `Run` is one goroutine in a loop
over a file, every turn of which either goes on or returns. `Stop` and `Start`
are not fair: a run need not be stopped and nobody has to start another.
`RunEnds` says that a run does come to an end on whatever tables.

`RuleStore` assumes weak fairness of a process's `Migrates` steps, which are the
statements of one loop, and strong fairness of `TakesLock`: PostgreSQL grants an
advisory lock in the order in which it was asked for, so a process that waits is
not passed over for ever. Starting, stopping, resetting, saving and seeding are not
fair. `MigrationEnds` says that a process that migrates gets ready or exits.

The other specifications state safety only. No worker loop in the repository calls the
timer store, or the outbox other than the replay, so there is no scheduling that
would justify fairness there.

### Findings

1. `outbox_race`, `RecordedIsDelivered`. `FinishDeliveryAttempt` checks the claim
   in its first statement without locking the intent, and does not look at the
   number of rows its last one changes (`work.go:212` and `225`). If the lease
   runs out and another worker claims in between, the delivery is recorded, the
   function returns true, and the intent stays claimed by the other worker, whose
   own delivery then fails on the key of `notification_deliveries`. The delivery
   reducer's comments ask for a compare-and-swap in one transaction
   (`notifications.go:120` and `137`).
2. `replay_onset`, `OpensAfterHolding`. The replay gives the onset of an adherence
   violation to every rule of the agent (`replay.go:269-271`), so a rule on the
   agent's state opens as soon as the state is seen if the agent has been out of
   adherence for long enough. `docs/product.md:26` and the comment on
   `Evidence.TrueSince` (`evaluation/runtime.go:26-29`) say otherwise. With the
   onset restricted to rules that read adherence, TLC finds no violation.
3. `preview_differs`, `SamePathAsReplay`. The preview takes the onset of an
   adherence violation from the last check, also when that check ends the violation,
   and never derives one (`preview.go:142-144`); the replay takes the builder's
   (`replay.go:269-271`). For a rule on the agent's state a preview announces openings
   which the replay of the same lines does not make. `app/contracts.go:262-264` asks
   for the same path. For rules that read adherence there is no difference
   (`PreviewAgreesOnAdherence`, checked in run `replay` and proved by `PreviewAgrees`).

## Proofs

`ConditionsProofs` proves, for every set of subjects that are natural numbers,
every pair of durations and every set of inputs:

- `TypeCorrect`, `EpisodesMatchPhases`, `EpisodesAreDisjoint`,
  `PendingIntervalsAreHeld`, `AttemptsCommitOnce`, `DueIntervalsAreNotLost` and
  `JournalMatchesEpisodes`, which state the six properties of run `conditions` and
  its type invariant.

The invariants are not inductive alone. `EpisodesDoNotOverlap` needs to know that
a pending interval, even one that started in the past, falls due no earlier than
the subject's last change (`DueAfterLastChange`), since its commit is dated at its
due time; and `EpisodeMatchesPhase` needs episode identities to increase along the
list (`IdsIncrease`), since a clear closes every episode of the identity the
tracker holds. Together they are `EpisodeInv`. `OneCommitPerAttempt` needs that a
pending interval's attempt has not been journalled (`AttemptsUsed`), giving
`AttemptInv`. The proofs reduce `Apply` to a drain followed by an observation
on one subject: `CoreCommits`, `CoreStarts` and `CoreCancels` show what each of
the tracker's three changes preserves, and the steps of `Next` cite them.
`DueIntervalsAreNotLost` further needs that the order of firing exists and reaches
every due timer (`FiringOrderExists`, `TimerOrderIsOnto`), by least elements of
sets of naturals. `JournalMatchesEpisodes` is about counts of journal entries; the
proof names the entries instead (`Tells`: one entry opens an episode, one after it
closes it, and none speaks of an episode that is not there), which together with
`EpisodeInv` is inductive. That a clear closes one episode and no earlier one is again
that identities increase. How many entries there are follows at the end
(`TellsIsJournalTells`).

`EvaluationProofs` proves all of run `evaluation` for any rules, targets, durations,
occurrences and outcomes: `NothingIsOverdue`, `TransitionsLeaveInOrder`,
`ReducersAreUsedAsDescribed`, `DrainOutcomeStays`, and type correctness. What an `Apply`
relies on comes first (`ApplyInv`): all reducers' clocks agree with the runtime's,
nothing is due by them, and every observation in the queue was evaluated at the present
time. Hence a reducer has nothing to drain when it takes a result, and what it starts
either qualifies at once or falls due later. `RuntimeInv` adds that what has been
emitted lies before everything an advance in progress still has to fire
(`EmittedInPast`), which makes `TransitionsLeaveInOrder` inductive. For
`ReducersAreUsedAsDescribed` a firing is shown to be a `Fire` of its reducer and the end
of an advance to be an `Advance` with nothing left to drain. `DrainOutcomeStays`
compares two sorted sequences, the one before a firing and the one after it: a
strictly ordered finite set has one sorted sequence only (`OrderIsUnique`), and the
timer that fires is the first of its reducer, so the second is the tail of the
first (`FiringShiftsDrain`). What is known of sorted sequences is taken from
`ConditionsProofs`, by an INSTANCE of it.

`EachReducerIsSound` and `EachReducerKeepsDueIntervals` bring the two together: what is
proved of one reducer holds of each reducer behind the runtime. The invariants of
`ConditionsProofs` are shown for `Uses`, every operation with any arguments in their
types, of which `Conditions!Next` is a part; by the refinement each step of the runtime
is such a use or leaves the reducer alone (`OneIsUsed`). The prover cites no theorem of
an instance with a parameter, so the rule is a constant of the proof module,
`AnyRule`, about which nothing else is assumed, and the lemmas named `Same` say that the
operators of that instance are those of `Reducer(AnyRule)`.

`RuleProofs` proves of the predicates `DecisionsAreForced`
(`PlanSpec => []DecidedIsForced`) for every catalog, expression and evidence: a comparison, and hence a conjunction,
keeps its value when evidence is added; and `PlanStaysValid`, only validated
comparisons are evaluated, so the only reason to be undecided is a missing field.

`ProjectionsProofs` proves, for any evidence and any bound on positions,
`ViewsAreLatest`, `TablesFollowViews` and `OnsetsFollowChecks`: all of run
`projections`. Its invariant (`ShowsLatest`) names for every source and subject the
one occurrence that is the latest, and says that both the view and the current
table show it; since the table's row is the occurrence's place, storing an
observation again changes nothing (`RepeatStutters`). The onset (`OnsetInv`) is
tied to the run of live checks by the check that determines it, rather than by a
least or greatest element, so that no induction is needed.

`TimerStoreProofs` proves all of run `timers` for any number of conditions, workers,
batches and generations: `OneTimerIsLive`, `OneClaimIsGood`, `OnlyCurrentCompletes`,
`ClaimsAreProtected`. Besides `OneLiveTimer` the invariant says
that the row a replacement is going to write was never used (`Unused`) and that tokens
are fresh: what a worker holds no other does (`TokensAreFresh`).

`OutboxProofs` proves all of run `outbox` for any number of intents, workers and
attempts: `DeliveriesAreUnique`, `ClaimsExclude`, `FinishedStays`. Its invariant says
what a worker in the middle of `FinishDeliveryAttempt` relies on: its token and its
attempt are its own (`TokensAreFresh`, `AttemptsAreOwned`) and a delivery it has
inserted is nobody else's (`InsertsAlone`). That the row still is in its claim is no
part of it, which is finding 1.

`AlertingProofs` proves all of run `alerting` for any series and episodes:
`SeriesOpenWhileRunning`, `EpisodesAlertOnce`, `TransitionsHaveTheirIntents`,
`AttemptsAreLiveOnce`, `AttemptsStayFinal`, and `ReducerImplementsLog`, the refinement
of `AlertLog`. Contributors are the running episodes (`Tells`), and the transitions
emitted tell the same of each series as the reducer's memory does (`Told`); every step
of the reducer then appends what one step of the log appends, or nothing. Of attempts,
whatever is reported in whatever order, contradictions included: nothing is said of one
that was not begun, the first report of one ends it as that report says
(`RejectedIsHeard`, `Unheard`), and no later report changes any.

`RuleProofs` also proves, for any number of processes, versions, rules and files, all
but the liveness of run `rule_store`. `MigrationInv`: who is past
`TakesLock` holds the lock, what it found absent is absent, and the versions before
its own are recorded; hence `VersionsAppliedOnce`, `MissingVersionsApply`,
`ReadyProcessesAreMigrated`. `StoreInv`: what a transaction has inserted is neither in
the tables nor in another transaction, a seeding activates only rules whose resource
it inserted itself, a save only a revision it inserted (`Fits`); hence `SavesStand` and
`LastSaveStaysActive`. `RankedFilesDoNotDeadlock` gives each statement a level (the
rank of its rule, then resource, revision, activation): what a transaction holds it
left below its level (`Climbing`), so who waits waits for one at a higher level, and
one at the highest waits for none. It assumes that all files list their rules in the
order of one rank, as the single file of the run does; two files in opposite orders
do wait for each other.

`ReplayProofs` proves the safety of run `replay`, for any rules, subjects, policies and
evidence, any length of file and any number of runs, stopped anywhere. Of a run and
its tables it proves `LinesAreWhole`, `AlertsStand`, `NothingIsDropped`,
`TablesFollowMemory` and type correctness, with four invariants, one on the other.

- `TransactionInv`: a transaction is open exactly while a run works on a line, which it
  has inserted itself; otherwise the tables are those committed, and nothing waits to
  be stored.
- `WholeInv`: the tables are whole after each turn of the emit loop, not only at a
  commit, and the transaction only adds to what is committed. Each turn stores one
  generation's row with its transition, its intent and its delivery, and the checks
  whose failure ends the run (`Fails`) are what keeps a run that starts again with
  empty memory from writing over rows of the one before. The one link between memory
  and tables is that what the planner remembers is stored.
- `ProgressInv`: the lines in the tables are the first of the file, so a run first
  skips lines and then stores them. While it skips, no interval is pending;
  afterwards nothing is due once the due timers of a line have fired, because what an
  observation starts either commits at once or is due later. So the last `Advance`
  has nothing to fire.
- `FollowInv`: in the first run the tables follow the memory in an open transaction
  too. Positions of views are below the line the run is at, so a view and its row
  decide alike which evidence is later. This does not hold of later runs, whose memory
  starts empty, and `StoreFollowsMemory` does not claim it.

`FirstRunStores` follows from them: a run on empty tables never fails to store what it
is about to store, since generations that follow the memory are not in the way of the
one the reducer opens next.

`AlertsFollow` is about every run, whatever is in the tables: when nothing is left to
emit, an alert is open just while its condition's tracker is active, and the
condition's present episode is its one contributor. The trackers are ahead of the
alerts while transitions are being emitted, so the invariant (`ConditionsMatch`) speaks
of the alerts that the rest of the list will bring. A list has at most one transition of
each condition, and that one takes its alert where its tracker has gone (`Goes`). With
`TablesFollowMemory` it gives `TablesShow`: after each line of the first run the
database holds one open alert for every condition that is active, and none for any other.

`PreviewAgrees` says that a preview of the lines so far and the first run come to the
same notifications, at the same times, of the rules that read adherence. The preview is
a function of lines and a run takes a step for each transition it stores, so `AgreeInv`
compares the preview at the same point of the line (`Ahead`) with what the run's memory
comes to when the rest of its list is emitted. On top of `WholeInv` and `FollowInv` it
says:

- Of the rules that read adherence both have the same trackers, series, closed episodes,
  plans and notifications, and both show the same check of every agent (`Agree`). Of
  other rules nothing is said, and the two do differ there (finding 3). What is emitted
  for one series changes nothing of another, so what other rules emit in between does
  not matter, and two emissions can be compared series by series (`EmitElsewhere`,
  `EmitOnly`).
- The phases of such a rule follow the last check: its condition is active, or on the
  way there, just if that check was a violation (`PhasesFollow`). So an interval starts
  only where a check has just begun or ended a violation.
- Where a violation is about to start an interval, both give it the same onset
  (`OnsetsAgree`, `BuiltOnset`). An onset that comes with the check is used by both.
  Without one the builder derives the time of the check, where an interval
  without an onset starts in any case; only of a violation that continues does it
  derive an earlier one, and that has started its interval before.

The recursions of `Preview` and of `FlattenSeq` cannot be unfolded by an induction
theorem. They are proved about by paths: what satisfies the equation step by step up to
`n` exists and is unique, by a least counterexample (`FlatteningExists`, `PathExists`,
`SamePath`).

The assumptions are the named ASSUMEs on the constants; TLC evaluates them in
each run.

Only model-checked:

- `RunEnds` and `MigrationEnds`: liveness under fairness is out of the prover's reach.
- `RecordedIsDelivered`, `OpensAfterHolding` and `SamePathAsReplay`, which the code
  violates.

## Not modelled

- The clock and pending occurrences (`clock.go`): they have no caller outside the
  integration tests.
- Event decoding and rule JSON: functions on text without state. That a line which
  does not decode ends a run is part of `Replay`.
- Site, API, HTML, command line: queries, rendering, flags. The edit form carries the
  revision its user saw, and nothing reads it (`main.go:223`); the ID of a new rule is
  made from its name, so names may collide (`rules.go:58`).
- `SemanticCommit` and the identities of an occurrence in `contracts.go`: the first has
  no caller, the second are made from the line by the one caller.
- Configured groups: no resolver exists.
- A queue snapshot stored again with other evidence: no caller does that, and the
  three adapters differ in what they make of it (`db.go:133` against `218-249`).
- Wrap-around of unsigned counts and of durations in nanoseconds.
- In `Replay`, several files, a stored line that was changed in the file (refused by
  `InsertOccurrence`, `db.go:92`) and changing rules: a run reads one file, with the
  revisions that are active when it starts. Which these are is in `RuleStore`.

## Plan

Done, in this order: `Conditions` with its proofs, `Evaluation`, `Alerting`,
`Outbox`, `Projections`, `TimerStore`, `Replay`, `Predicates` with its proofs;
`Migrations`, `RuleStore`, `Preview`, `AlertLog`; the proofs of `TimerStore`,
`Outbox`, `Alerting`, `RuleStore` and `Projections`; the proofs of `Evaluation`,
`Replay` and the journal of `Conditions`; the proofs that preview and replay agree and
that alerts follow conditions.

Next:

1. That the trackers of `Replay` take only steps which `Conditions` allows, as those of
   `Evaluation` do, by the lemmas of `EvaluationProofs`.
2. `Intake`, once something calls it: `NextPendingOccurrence`, `AdvanceClock` and
   `MarkProcessed` with two workers, commits out of order and stops.
