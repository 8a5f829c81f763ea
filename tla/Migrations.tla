----------------------------- MODULE Migrations -----------------------------
(***************************************************************************)
(* Schema migrations (internal/storage/migrate.go).  Every process, a      *)
(* server, a replay or the migrate command, applies the embedded           *)
(* migrations before it does anything else; several may start at once, on  *)
(* a fresh database, on one an earlier version left, or on one that is     *)
(* being reset.  A migration is one READ COMMITTED transaction under an    *)
(* advisory lock; the table of migrations is created before any lock is    *)
(* taken.  A process may stop anywhere and be started again.               *)
(***************************************************************************)
EXTENDS Naturals

CONSTANTS
    Procs,
    Last,          \* the embedded migrations are 1 .. Last
    Databases,     \* what may be recorded when the first process starts
    MaxResets      \* bound: resets

Versions == 1 .. Last

\* schema_migrations.checksum of a version: no row, a row of before checksums were kept,
\* the checksum of the embedded file, that of a file since edited.
Checksums == {"absent", "empty", "same", "other"}

ASSUME LastAssumption == Last \in Nat \ {0}
ASSUME MigrationBounds == MaxResets \in Nat
ASSUME DatabasesAssumption ==
    /\ Databases \subseteq [Versions -> Checksums]
    /\ \A d \in Databases, v \in Versions :
         d[v] # "absent" => \A u \in 1 .. v : d[u] # "absent"

VARIABLES
    table,         \* whether schema_migrations exists
    recorded,      \* its checksum per version
    applied,       \* observation variable: how often a version's SQL was committed
    lock,          \* who holds the advisory lock
    proc,          \* per process: where it is, and its version
    bereft,        \* observation variable: who was running when the schema was dropped
    resets         \* resets so far

migrationVars == <<table, recorded, applied, lock, proc, bereft, resets>>

None == "none"
ASSUME ProcsAssumption == None \notin Procs

Steps == {"down", "looking", "creating", "locking", "checking", "applying", "applied", "ready"}
Down == [step |-> "down", version |-> 1]

-----------------------------------------------------------------------------

Init ==
    /\ recorded \in Databases
    /\ table = (\E v \in Versions : recorded[v] # "absent")
    /\ applied = [v \in Versions |-> IF recorded[v] = "absent" THEN 0 ELSE 1]
    /\ lock = None
    /\ proc = [p \in Procs |-> Down]
    /\ bereft = {}
    /\ resets = 0

At(p, step) == proc[p].step = step
Goes(p, step) == proc' = [proc EXCEPT ![p].step = step]

StartProcess(p) ==
    /\ At(p, "down") /\ Goes(p, "looking")
    /\ UNCHANGED <<table, recorded, applied, lock, bereft, resets>>

\* EnsureMigrationTable: CREATE TABLE IF NOT EXISTS looks for the table and creates it
\* later; when another process has done so in between it fails.
LooksForTable(p) ==
    /\ At(p, "looking")
    /\ Goes(p, IF table THEN "locking" ELSE "creating")
    /\ UNCHANGED <<table, recorded, applied, lock, bereft, resets>>

CreatesTable(p) ==
    /\ At(p, "creating") /\ ~table
    /\ table' = TRUE
    /\ Goes(p, "locking")
    /\ UNCHANGED <<recorded, applied, lock, bereft, resets>>

\* BeginTx and pg_advisory_xact_lock, held to the end of the transaction.
\* Mutant: the lock is a shared one.
SharedLock == TRUE
LockIsFree == lock = None

TakesLock(p) ==
    /\ At(p, "locking") /\ LockIsFree
    /\ lock' = p
    /\ Goes(p, "checking")
    /\ UNCHANGED <<table, recorded, applied, bereft, resets>>

\* Mutant: it is held by the session.
LockedForGood(p) == lock
Unlocked(p) == IF lock = p THEN None ELSE lock

\* After a migration that is done: the next one, or the process is ready.
AfterVersion(p) ==
    proc' = [proc EXCEPT ![p] = IF @.version = Last
                                  THEN [step |-> "ready", version |-> Last]
                                  ELSE [step |-> "locking", version |-> @.version + 1]]

\* What is recorded of the version: with its checksum, or with none, it is skipped.
\* Mutant: the table's being there is enough.
SkippedIfTable(p) == table
Skipped(p) == recorded[proc[p].version] \in {"same", "empty"}

SkipsVersion(p) ==
    /\ At(p, "checking") /\ table /\ Skipped(p)
    /\ AfterVersion(p)
    /\ lock' = Unlocked(p)
    /\ UNCHANGED <<table, recorded, applied, bereft, resets>>

FindsVersionMissing(p) ==
    /\ At(p, "checking") /\ table
    /\ ~Skipped(p) /\ recorded[proc[p].version] # "other"
    /\ Goes(p, "applying")
    /\ UNCHANGED <<table, recorded, applied, lock, bereft, resets>>

\* The SQL of a version works on what the earlier ones made; the first, a CREATE of each
\* table, fails where they are.  002 may be run again.
SqlFails(v) ==
    \/ v = 1 /\ applied[1] # 0
    \/ \E u \in 1 .. v - 1 : applied[u] = 0

\* Mutant: it is run outside of the transaction.
AppliesSqlAlone(p) ==
    /\ At(p, "applying") /\ ~SqlFails(proc[p].version)
    /\ applied' = [applied EXCEPT ![proc[p].version] = @ + 1]
    /\ Goes(p, "applied")
    /\ UNCHANGED <<table, recorded, lock, bereft, resets>>
AppliesSql(p) ==
    /\ At(p, "applying") /\ ~SqlFails(proc[p].version)
    /\ Goes(p, "applied")
    /\ UNCHANGED <<table, recorded, applied, lock, bereft, resets>>

\* The version is the key of schema_migrations.
RowExists(p) == recorded[proc[p].version] # "absent"

\* The version's row is inserted, and the SQL and the row become visible together.
CommitsVersion(p) ==
    /\ At(p, "applied") /\ ~RowExists(p)
    /\ recorded' = [recorded EXCEPT ![proc[p].version] = "same"]
    /\ applied' = [applied EXCEPT ![proc[p].version] = @ + 1]
    /\ AfterVersion(p)
    /\ lock' = Unlocked(p)
    /\ UNCHANGED <<table, bereft, resets>>

\* A statement fails: the process exits, its transaction is rolled back.
StatementFails(p) ==
    \/ At(p, "creating") /\ table
    \/ At(p, "checking") /\ ~table
    \/ At(p, "checking") /\ recorded[proc[p].version] = "other"
    \/ At(p, "applying") /\ SqlFails(proc[p].version)
    \/ At(p, "applied") /\ RowExists(p)

Exits(p) ==
    /\ proc' = [proc EXCEPT ![p] = Down]
    /\ lock' = Unlocked(p)
    /\ bereft' = bereft \ {p}
    /\ UNCHANGED <<table, recorded, applied, resets>>

Fails(p) == StatementFails(p) /\ Exits(p)

\* The process is stopped, or done.
Stops(p) == ~At(p, "down") /\ Exits(p)

\* Reset drops the schema, which waits for the transactions that have used a table of
\* it, and goes on like any process.
Resets(p) ==
    /\ At(p, "down") /\ resets < MaxResets
    /\ \A q \in Procs : ~At(q, "applying") /\ ~At(q, "applied")
    /\ table' = FALSE
    /\ recorded' = [v \in Versions |-> "absent"]
    /\ applied' = [v \in Versions |-> 0]
    /\ bereft' = {q \in Procs : ~At(q, "down")}
    /\ resets' = resets + 1
    /\ Goes(p, "looking")
    /\ UNCHANGED lock

Migrates(p) ==
    \/ LooksForTable(p)
    \/ CreatesTable(p)
    \/ TakesLock(p)
    \/ SkipsVersion(p)
    \/ FindsVersionMissing(p)
    \/ AppliesSql(p)
    \/ CommitsVersion(p)
    \/ Fails(p)

MigrationNext == \E p \in Procs : StartProcess(p) \/ Migrates(p) \/ Stops(p) \/ Resets(p)

MigrationSpec == Init /\ [][MigrationNext]_migrationVars

-----------------------------------------------------------------------------

\* However processes start, stop and reset, no version is applied twice or out of order,
\* and the table of migrations says which were: also for rows without a checksum.
AppliedAsRecorded ==
    \A v \in Versions :
        /\ applied[v] = IF recorded[v] = "absent" THEN 0 ELSE 1
        /\ recorded[v] # "absent" => \A u \in 1 .. v : recorded[u] # "absent"

\* The check and the migration under one lock leave nothing to go wrong: a process that
\* found a version missing can apply it, whatever the others do short of a reset.
FoundMissingApplies ==
    \A p \in Procs \ bereft : At(p, "applying") => ~SqlFails(proc[p].version)

\* A process that is ready has the whole schema, unless it was dropped under it.
ReadyIsMigrated ==
    \A p \in Procs \ bereft : At(p, "ready") =>
        \A v \in Versions : applied[v] = 1

\* A process that migrates gets ready or exits, however many want the lock.
Migrating(p) == proc[p].step \notin {"down", "ready"}
MigrationEnds == \A p \in Procs : Migrating(p) ~> ~Migrating(p)
=============================================================================
