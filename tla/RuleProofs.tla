----------------------------- MODULE RuleProofs -----------------------------
(***************************************************************************)
(* Theorems about rules: the migrations and the rule store, for every set  *)
(* of processes, rules and files and every number of migrations, and the   *)
(* predicates that the stored definitions come with.                       *)
(***************************************************************************)
EXTENDS RuleStore, Predicates, WellFoundedInduction, TLAPS

-----------------------------------------------------------------------------
(* Migrations.                                                             *)

MigrationTypes ==
    /\ table \in BOOLEAN
    /\ recorded \in [Versions -> Checksums]
    /\ applied \in [Versions -> Nat]
    /\ lock \in Procs \cup {None}
    /\ proc \in [Procs -> [step : Steps, version : Versions]]
    /\ bereft \in SUBSET Procs

\* Who checks or applies a version holds the lock.
LockIsHeld ==
    \A p \in Procs : proc[p].step \in {"checking", "applying", "applied"} => lock = p

\* What is being applied is not recorded, and once the SQL has run it had what it needs.
AbsentUnderLock ==
    \A p \in Procs :
        /\ proc[p].step \in {"applying", "applied"} => recorded[proc[p].version] = "absent"
        /\ proc[p].step = "applied" => ~SqlFails(proc[p].version)

\* A process has all the versions before its own, unless the schema was dropped since.
EarlierAreRecorded ==
    \A p \in Procs :
        /\ proc[p].step = "down" => proc[p].version = 1
        /\ p \notin bereft => \A u \in Versions : u < proc[p].version => recorded[u] # "absent"
        /\ p \notin bereft /\ proc[p].step = "ready" => \A u \in Versions : recorded[u] # "absent"

MigrationInv ==
    /\ MigrationTypes /\ LockIsHeld /\ AbsentUnderLock /\ EarlierAreRecorded
    /\ AppliedAsRecorded

LEMMA FirstVersion ==
    /\ 1 \in Versions /\ Versions \subseteq Nat /\ Last \in Versions
    /\ \A u \in Versions : ~(u < 1)
BY LastAssumption DEF Versions

LEMMA InitMigration == Init => MigrationInv
<1> SUFFICES ASSUME Init PROVE MigrationInv
  OBVIOUS
<1>1. /\ recorded \in [Versions -> Checksums] /\ lock = None /\ bereft = {}
      /\ applied = [v \in Versions |-> IF recorded[v] = "absent" THEN 0 ELSE 1]
      /\ table = (\E v \in Versions : recorded[v] # "absent")
      /\ proc = [p \in Procs |-> Down]
  BY DatabasesAssumption DEF Init
<1>2. Down \in [step : Steps, version : Versions] /\ Down.step = "down" /\ Down.version = 1
  BY FirstVersion DEF Down, Steps
<1>3. MigrationTypes
  BY <1>1, <1>2 DEF MigrationTypes
<1>4. LockIsHeld /\ AbsentUnderLock
  BY <1>1, <1>2 DEF LockIsHeld, AbsentUnderLock
<1>5. EarlierAreRecorded
  BY <1>1, <1>2, FirstVersion DEF EarlierAreRecorded
<1>6. AppliedAsRecorded
  BY <1>1, DatabasesAssumption DEF Init, AppliedAsRecorded
<1>7. QED BY <1>3, <1>4, <1>5, <1>6 DEF MigrationInv

\* A step that moves p on, and neither applies nor records anything.
LEMMA MovesOn ==
    ASSUME MigrationInv, NEW p \in Procs, NEW r \in [step : Steps, version : Versions],
           proc' = [proc EXCEPT ![p] = r], UNCHANGED <<recorded, applied>>,
           table' \in BOOLEAN,
           \/ lock' = lock
           \/ lock = None /\ lock' = p
           \/ lock' = None /\ (lock = p \/ lock = None),
           bereft' = bereft \/ (bereft' = bereft \ {p} /\ r.step = "down"),
           r.step \in {"checking", "applying", "applied"} => lock' = p,
           r.step \in {"applying", "applied"} => recorded[r.version] = "absent",
           r.step = "applied" => ~SqlFails(r.version),
           r.step = "down" => r.version = 1,
           p \notin bereft /\ r.step # "down" =>
              \A u \in Versions : u < r.version => recorded[u] # "absent",
           p \notin bereft /\ r.step = "ready" => \A u \in Versions : recorded[u] # "absent"
    PROVE  MigrationInv'
<1>1. \A q \in Procs : proc'[q] = IF q = p THEN r ELSE proc[q]
  BY DEF MigrationInv, MigrationTypes
<1>2. MigrationTypes'
  BY DEF MigrationInv, MigrationTypes
<1>3. LockIsHeld'
  BY <1>1, ProcsAssumption DEF MigrationInv, LockIsHeld
<1>4. AbsentUnderLock'
  BY <1>1 DEF MigrationInv, AbsentUnderLock, SqlFails
<1>5. EarlierAreRecorded'
  BY <1>1, FirstVersion DEF MigrationInv, EarlierAreRecorded
<1>6. AppliedAsRecorded'
  BY DEF MigrationInv, AppliedAsRecorded
<1>7. QED BY <1>2, <1>3, <1>4, <1>5, <1>6 DEF MigrationInv

LEMMA Now ==
    ASSUME MigrationInv, NEW p \in Procs
    PROVE  /\ proc[p] \in [step : Steps, version : Versions]
           /\ proc[p].step \in Steps /\ proc[p].version \in Versions
BY DEF MigrationInv, MigrationTypes

\* A step that only moves p on.
LEMMA GoesOn ==
    ASSUME MigrationInv, NEW p \in Procs, NEW step \in Steps, Goes(p, step),
           step \notin {"down", "applying", "applied", "ready"},
           UNCHANGED <<recorded, applied, bereft>>, table' \in BOOLEAN,
           lock' = lock \/ (lock = None /\ lock' = p),
           step = "checking" => lock' = p
    PROVE  MigrationInv'
<1> DEFINE r == [proc[p] EXCEPT !.step = step]
<1>1. r \in [step : Steps, version : Versions] /\ r.step = step /\ r.version = proc[p].version
  BY Now
<1>2. proc' = [proc EXCEPT ![p] = r]
  BY DEF Goes, MigrationInv, MigrationTypes
<1>3. p \notin bereft => \A u \in Versions : u < r.version => recorded[u] # "absent"
  BY <1>1 DEF MigrationInv, EarlierAreRecorded
<1> HIDE DEF r
<1>4. QED BY <1>1, <1>2, <1>3, MovesOn

LEMMA FindsVersionMissingKeeps ==
    ASSUME MigrationInv, NEW p \in Procs, FindsVersionMissing(p) PROVE MigrationInv'
<1> DEFINE r == [proc[p] EXCEPT !.step = "applying"]
<1>1. r \in [step : Steps, version : Versions] /\ r.step = "applying" /\ r.version = proc[p].version
  BY Now DEF Steps
<1>2. /\ proc' = [proc EXCEPT ![p] = r] /\ UNCHANGED <<table, recorded, applied, lock, bereft>>
      /\ lock = p /\ recorded[proc[p].version] = "absent"
  <2>1. recorded[proc[p].version] \in Checksums
    BY Now DEF MigrationInv, MigrationTypes
  <2>2. QED BY <2>1 DEF FindsVersionMissing, Goes, At, Skipped, Checksums, MigrationInv,
            MigrationTypes, LockIsHeld
<1>3. p \notin bereft => \A u \in Versions : u < r.version => recorded[u] # "absent"
  BY <1>1 DEF MigrationInv, EarlierAreRecorded
<1>4. table' \in BOOLEAN
  BY <1>2 DEF MigrationInv, MigrationTypes
<1> HIDE DEF r
<1>5. QED BY <1>1, <1>2, <1>3, <1>4, MovesOn

LEMMA AppliesSqlKeeps ==
    ASSUME MigrationInv, NEW p \in Procs, AppliesSql(p) PROVE MigrationInv'
<1> DEFINE r == [proc[p] EXCEPT !.step = "applied"]
<1>1. r \in [step : Steps, version : Versions] /\ r.step = "applied" /\ r.version = proc[p].version
  BY Now DEF Steps
<1>2. /\ proc' = [proc EXCEPT ![p] = r] /\ UNCHANGED <<table, recorded, applied, lock, bereft>>
      /\ lock = p /\ recorded[proc[p].version] = "absent" /\ ~SqlFails(proc[p].version)
  BY DEF AppliesSql, Goes, At, MigrationInv, MigrationTypes, LockIsHeld, AbsentUnderLock
<1>3. p \notin bereft => \A u \in Versions : u < r.version => recorded[u] # "absent"
  BY <1>1 DEF MigrationInv, EarlierAreRecorded
<1>4. table' \in BOOLEAN
  BY <1>2 DEF MigrationInv, MigrationTypes
<1> HIDE DEF r
<1>5. QED BY <1>1, <1>2, <1>3, <1>4, MovesOn

\* Where a process is after a version.
LEMMA AfterAVersion ==
    ASSUME MigrationInv, NEW p \in Procs, AfterVersion(p)
    PROVE  \E r \in [step : Steps, version : Versions] :
             /\ proc' = [proc EXCEPT ![p] = r]
             /\ \/ r.step = "ready" /\ proc[p].version = Last /\ r.version = Last
                \/ /\ r.step = "locking" /\ proc[p].version # Last
                   /\ r.version = proc[p].version + 1
<1>1. proc[p].version \in Versions
  BY Now
<1>2. CASE proc[p].version = Last
  <2> DEFINE r == [step |-> "ready", version |-> Last]
  <2>1. r \in [step : Steps, version : Versions]
    BY FirstVersion DEF Steps
  <2>2. proc' = [proc EXCEPT ![p] = r]
    BY <1>2 DEF AfterVersion
  <2>3. r.step = "ready" /\ r.version = Last
    OBVIOUS
  <2> HIDE DEF r
  <2>4. QED BY <1>2, <2>1, <2>2, <2>3
<1>3. CASE proc[p].version # Last
  <2> DEFINE r == [step |-> "locking", version |-> proc[p].version + 1]
  <2>1. r \in [step : Steps, version : Versions]
    BY <1>1, <1>3, LastAssumption DEF Steps, Versions
  <2>2. proc' = [proc EXCEPT ![p] = r]
    BY <1>3 DEF AfterVersion
  <2>3. r.step = "locking" /\ r.version = proc[p].version + 1
    OBVIOUS
  <2> HIDE DEF r
  <2>4. QED BY <1>3, <2>1, <2>2, <2>3
<1>4. QED BY <1>2, <1>3

LEMMA SkipsVersionKeeps ==
    ASSUME MigrationInv, NEW p \in Procs, SkipsVersion(p) PROVE MigrationInv'
<1>1. PICK r \in [step : Steps, version : Versions] :
             /\ proc' = [proc EXCEPT ![p] = r]
             /\ \/ r.step = "ready" /\ proc[p].version = Last /\ r.version = Last
                \/ /\ r.step = "locking" /\ proc[p].version # Last
                   /\ r.version = proc[p].version + 1
  BY AfterAVersion DEF SkipsVersion
<1>2. /\ UNCHANGED <<table, recorded, applied, bereft>> /\ lock = p /\ lock' = None
      /\ recorded[proc[p].version] # "absent" /\ proc[p].version \in Versions
      /\ table' \in BOOLEAN
  BY Now DEF SkipsVersion, Skipped, Unlocked, At, MigrationInv, LockIsHeld, MigrationTypes
<1>3. p \notin bereft => \A u \in Versions : u <= proc[p].version => recorded[u] # "absent"
  <2>1. \A u \in Versions : u <= proc[p].version => u < proc[p].version \/ u = proc[p].version
    BY <1>2, LastAssumption DEF Versions
  <2>2. QED BY <1>2, <2>1 DEF MigrationInv, EarlierAreRecorded
<1>4. /\ p \notin bereft => \A u \in Versions : u < r.version => recorded[u] # "absent"
      /\ p \notin bereft /\ r.step = "ready" => \A u \in Versions : recorded[u] # "absent"
  <2>1. \A u \in Versions : u < r.version => u <= proc[p].version
    BY <1>1, <1>2, LastAssumption DEF Versions
  <2>2. r.step = "ready" => \A u \in Versions : u <= proc[p].version
    BY <1>1, LastAssumption DEF Versions
  <2>3. QED BY <1>3, <2>1, <2>2
<1>5. QED BY <1>1, <1>2, <1>4, MovesOn

LEMMA ExitsKeeps ==
    ASSUME MigrationInv, NEW p \in Procs, Exits(p) PROVE MigrationInv'
<1>1. Down \in [step : Steps, version : Versions] /\ Down.step = "down" /\ Down.version = 1
  BY FirstVersion DEF Down, Steps
<1>2. /\ proc' = [proc EXCEPT ![p] = Down] /\ UNCHANGED <<table, recorded, applied>>
      /\ (lock' = lock \/ (lock' = None /\ lock = p)) /\ bereft' = bereft \ {p}
      /\ table' \in BOOLEAN
  BY DEF Exits, Unlocked, MigrationInv, MigrationTypes
<1>3. QED BY <1>1, <1>2, MovesOn

LEMMA CommitsVersionKeeps ==
    ASSUME MigrationInv, NEW p \in Procs, CommitsVersion(p) PROVE MigrationInv'
<1> DEFINE v == proc[p].version
<1>1. PICK r \in [step : Steps, version : Versions] :
             /\ proc' = [proc EXCEPT ![p] = r]
             /\ \/ r.step = "ready" /\ v = Last /\ r.version = Last
                \/ r.step = "locking" /\ v # Last /\ r.version = v + 1
  BY AfterAVersion DEF CommitsVersion
<1>2. /\ UNCHANGED <<table, bereft>> /\ lock = p /\ lock' = None
      /\ recorded' = [recorded EXCEPT ![v] = "same"]
      /\ applied' = [applied EXCEPT ![v] = @ + 1]
      /\ recorded[v] = "absent" /\ v \in Versions /\ ~SqlFails(v)
  BY Now DEF CommitsVersion, Unlocked, At, MigrationInv, LockIsHeld, MigrationTypes,
     AbsentUnderLock
<1>3. /\ recorded' \in [Versions -> Checksums] /\ applied' \in [Versions -> Nat]
      /\ recorded'[v] = "same" /\ \A u \in Versions \ {v} : recorded'[u] = recorded[u]
      /\ applied[v] = 0 /\ applied'[v] = 1 /\ \A u \in Versions \ {v} : applied'[u] = applied[u]
  BY <1>2 DEF MigrationInv, MigrationTypes, Checksums, AppliedAsRecorded
<1>4. \A q \in Procs : proc'[q] = IF q = p THEN r ELSE proc[q]
  BY <1>1 DEF MigrationInv, MigrationTypes
<1>5. MigrationTypes'
  BY <1>1, <1>2, <1>3 DEF MigrationInv, MigrationTypes
<1>6. \A q \in Procs : proc'[q].step \notin {"checking", "applying", "applied"}
  <2>1. \A q \in Procs \ {p} : proc[q].step \notin {"checking", "applying", "applied"}
    BY <1>2 DEF MigrationInv, LockIsHeld
  <2>2. QED BY <1>1, <1>4, <2>1
<1>7. LockIsHeld' /\ AbsentUnderLock'
  BY <1>6 DEF LockIsHeld, AbsentUnderLock
<1>8. EarlierAreRecorded'
  <2>1. ASSUME NEW u \in Versions, recorded[u] # "absent" PROVE recorded'[u] # "absent"
    BY <2>1, <1>3
  <2>2. p \notin bereft => \A u \in Versions : u <= v => recorded'[u] # "absent"
    <3>1. \A u \in Versions : u <= v => u < v \/ u = v
      BY <1>2, LastAssumption DEF Versions
    <3>2. QED BY <1>3, <2>1, <3>1 DEF MigrationInv, EarlierAreRecorded
  <2>3. /\ p \notin bereft => \A u \in Versions : u < r.version => recorded'[u] # "absent"
        /\ p \notin bereft /\ r.step = "ready" => \A u \in Versions : recorded'[u] # "absent"
    <3>1. \A u \in Versions : u < r.version => u <= v
      BY <1>1, <1>2, LastAssumption DEF Versions
    <3>2. r.step = "ready" => \A u \in Versions : u <= v
      BY <1>1, LastAssumption DEF Versions
    <3>3. QED BY <2>2, <3>1, <3>2
  <2>4. r.step # "down"
    BY <1>1
  <2>5. QED BY <1>2, <1>4, <2>1, <2>3, <2>4 DEF MigrationInv, EarlierAreRecorded
<1>9. AppliedAsRecorded'
  <2>1. ASSUME NEW u \in Versions PROVE applied'[u] = IF recorded'[u] = "absent" THEN 0 ELSE 1
    BY <1>3 DEF MigrationInv, AppliedAsRecorded
  <2>2. ASSUME NEW w \in Versions, recorded'[w] # "absent", NEW u \in 1 .. w
        PROVE  recorded'[u] # "absent"
    <3>0. u \in Versions
      BY LastAssumption DEF Versions
    <3>1. CASE w = v /\ u # v
      <4>1. u \in 1 .. v - 1
        BY <1>2, <3>1, LastAssumption DEF Versions
      <4>2. applied[u] # 0
        BY <1>2, <4>1 DEF SqlFails
      <4>3. QED BY <1>3, <3>0, <4>2 DEF MigrationInv, AppliedAsRecorded
    <3>2. CASE w # v
      BY <1>3, <2>2, <3>0, <3>2 DEF MigrationInv, AppliedAsRecorded
    <3>3. CASE u = v
      BY <1>3, <3>3
    <3>4. QED BY <3>1, <3>2, <3>3
  <2>3. QED BY <2>1, <2>2 DEF AppliedAsRecorded
<1>10. QED BY <1>5, <1>7, <1>8, <1>9 DEF MigrationInv

LEMMA ResetsKeeps ==
    ASSUME MigrationInv, NEW p \in Procs, Resets(p) PROVE MigrationInv'
<1>1. /\ table' = FALSE /\ lock' = lock
      /\ recorded' = [v \in Versions |-> "absent"] /\ applied' = [v \in Versions |-> 0]
      /\ bereft' = {q \in Procs : ~At(q, "down")} /\ At(p, "down")
      /\ \A q \in Procs : ~At(q, "applying") /\ ~At(q, "applied")
      /\ proc' = [proc EXCEPT ![p].step = "looking"]
  BY DEF Resets, Goes
<1> DEFINE r == [proc[p] EXCEPT !.step = "looking"]
<1>2. r \in [step : Steps, version : Versions] /\ r.step = "looking" /\ r.version = 1
  BY <1>1, Now DEF Steps, At, MigrationInv, EarlierAreRecorded
<1>3. \A q \in Procs : proc'[q] = IF q = p THEN r ELSE proc[q]
  BY <1>1 DEF MigrationInv, MigrationTypes
<1>4. proc' \in [Procs -> [step : Steps, version : Versions]]
  BY <1>1, <1>2 DEF MigrationInv, MigrationTypes
<1> HIDE DEF r
<1>5. MigrationTypes'
  BY <1>1, <1>4 DEF MigrationInv, MigrationTypes, Checksums
<1>6. LockIsHeld' /\ AbsentUnderLock'
  BY <1>1, <1>2, <1>3 DEF MigrationInv, LockIsHeld, AbsentUnderLock, At
<1>7. EarlierAreRecorded'
  BY <1>1, <1>2, <1>3, FirstVersion DEF MigrationInv, EarlierAreRecorded, At
<1>8. AppliedAsRecorded'
  BY <1>1, LastAssumption DEF AppliedAsRecorded, Versions
<1>9. QED BY <1>5, <1>6, <1>7, <1>8 DEF MigrationInv

LEMMA SameMigration ==
    ASSUME MigrationInv, UNCHANGED migrationVars PROVE MigrationInv'
BY DEF migrationVars, MigrationInv, MigrationTypes, LockIsHeld, AbsentUnderLock,
   EarlierAreRecorded, AppliedAsRecorded, SqlFails

LEMMA MigratesKeeps ==
    ASSUME MigrationInv, NEW p \in Procs, StartProcess(p) \/ Migrates(p) \/ Stops(p) \/ Resets(p)
    PROVE  MigrationInv'
<1>1. CASE StartProcess(p)
  BY <1>1, GoesOn DEF StartProcess, Steps, MigrationInv, MigrationTypes
<1>2. CASE LooksForTable(p)
  BY <1>2, GoesOn DEF LooksForTable, Steps, MigrationInv, MigrationTypes
<1>3. CASE CreatesTable(p)
  BY <1>3, GoesOn DEF CreatesTable, Steps
<1>4. CASE TakesLock(p)
  BY <1>4, GoesOn DEF TakesLock, LockIsFree, Steps, MigrationInv, MigrationTypes
<1>5. CASE Fails(p) \/ Stops(p)
  BY <1>5, ExitsKeeps DEF Fails, Stops
<1>6. QED BY <1>1, <1>2, <1>3, <1>4, <1>5, SkipsVersionKeeps, FindsVersionMissingKeeps,
     AppliesSqlKeeps, CommitsVersionKeeps, ResetsKeeps DEF Migrates

\* Of the store's steps only those of a migration touch what it is about.
LEMMA StepsAreMigrations ==
    ASSUME StoreNext
    PROVE  \/ \E p \in Procs : StartProcess(p) \/ Migrates(p) \/ Stops(p) \/ Resets(p)
           \/ UNCHANGED migrationVars
BY DEF StoreNext, Step, StopsWithSession, ResetsStore, SaveBegins, SeedBegins, Begins,
   InsertsResource, InsertsRevision, UpdatesActive, Commits, RollsBack

LEMMA NextMigration == MigrationInv /\ [StoreNext]_vars => MigrationInv'
<1>1. ASSUME MigrationInv, UNCHANGED vars PROVE MigrationInv'
  BY <1>1, SameMigration DEF vars
<1>2. ASSUME MigrationInv, StoreNext PROVE MigrationInv'
  BY <1>2, StepsAreMigrations, MigratesKeeps, SameMigration
<1>3. QED BY <1>1, <1>2

\* The invariant of the migrations.
THEOREM MigrationInvHolds == StoreSpec => []MigrationInv
<1>1. StoreInit => MigrationInv
  BY InitMigration DEF StoreInit
<1>2. MigrationInv /\ [StoreNext]_vars => MigrationInv'
  BY NextMigration
<1>3. QED BY <1>1, <1>2, PTL DEF StoreSpec

\* No version is applied twice or out of order, and the table says which were.
THEOREM VersionsAppliedOnce == StoreSpec => []AppliedAsRecorded
BY MigrationInvHolds, PTL DEF MigrationInv

\* What a process found missing under the lock it can apply.
THEOREM MissingVersionsApply == StoreSpec => []FoundMissingApplies
<1>1. MigrationInv => FoundMissingApplies
  <2> SUFFICES ASSUME MigrationInv, NEW p \in Procs \ bereft, proc[p].step = "applying"
               PROVE  ~SqlFails(proc[p].version)
    BY DEF FoundMissingApplies, At
  <2> DEFINE v == proc[p].version
  <2>1. v \in Versions /\ recorded[v] = "absent" /\ applied[v] = 0
    BY Now DEF MigrationInv, AbsentUnderLock, AppliedAsRecorded
  <2>2. \A u \in 1 .. v - 1 : applied[u] # 0
    <3>1. \A u \in 1 .. v - 1 : u \in Versions /\ u < v
      BY <2>1, LastAssumption DEF Versions
    <3>2. QED BY <3>1 DEF MigrationInv, EarlierAreRecorded, AppliedAsRecorded
  <2>3. QED BY <2>1, <2>2 DEF SqlFails
<1>2. QED BY <1>1, MigrationInvHolds, PTL

\* A process that is ready has the whole schema, unless it was dropped under it.
THEOREM ReadyProcessesAreMigrated == StoreSpec => []ReadyIsMigrated
<1>1. MigrationInv => ReadyIsMigrated
  BY DEF MigrationInv, EarlierAreRecorded, AppliedAsRecorded, ReadyIsMigrated, At
<1>2. QED BY <1>1, MigrationInvHolds, PTL

-----------------------------------------------------------------------------
(* The rule store.                                                         *)

Kinds == {"none", "save", "seed"}
Statements == {"resource", "revision", "active"}
Session == [kind : Kinds, step : Statements, todo : Seq(Entry), resources : SUBSET Rules,
            entries : SUBSET Entry, activated : SUBSET Entry]

StoreTypes ==
    /\ active \in [Rules -> Nat]
    /\ revisions \in SUBSET Entry
    /\ session \in [Procs -> Session]
    /\ saved \in SUBSET Entry
    /\ lastSaved \in [Rules -> Nat]

\* The rule has a resource, inserted by the transaction or committed before.
Present(t, r) == r \in t.resources \/ active[r] # Nothing

\* The transaction t of p fits to what is committed and to what the others do.  What it
\* has inserted is there neither in the tables nor in another transaction; the rules it
\* goes on with are present; seeding activates only rules of its own, and saving only
\* revisions of its own.
Fits(p, t) ==
    /\ \A e \in t.entries :
         /\ \A f \in revisions : ~SameKey(e, f)
         /\ \A f \in t.entries : SameKey(e, f) => e = f
         /\ \A q \in Procs \ {p} : \A f \in session[q].entries : ~SameKey(e, f)
    /\ \A r \in t.resources :
         active[r] = Nothing /\ \A q \in Procs \ {p} : r \notin session[q].resources
    /\ t.todo # <<>> /\ t.step # "resource" => Present(t, Head(t.todo).rule)
    /\ \A e \in t.activated :
         Present(t, e.rule) /\ (t.kind = "seed" => e.rule \in t.resources)
    /\ t.kind = "save" =>
         /\ t.activated \subseteq t.entries
         /\ t.todo # <<>> /\ t.step = "active" => Head(t.todo) \in t.entries

LastSaved(r) ==
    lastSaved[r] # Nothing =>
        /\ active[r] = lastSaved[r]
        /\ \E e \in saved : e.rule = r /\ e.revision = lastSaved[r]

StoreInv ==
    /\ StoreTypes
    /\ \A p \in Procs : Fits(p, session[p])
    /\ \A e, f \in revisions : SameKey(e, f) => e = f
    /\ saved \subseteq revisions
    /\ \A r \in Rules : LastSaved(r)

LEMMA ClosedFields ==
    /\ Closed \in Session /\ Closed.kind = "none" /\ Closed.todo = <<>>
    /\ Closed.resources = {} /\ Closed.entries = {} /\ Closed.activated = {}
BY DEF Closed, Session, Kinds, Statements

LEMMA ClosedFits == ASSUME NEW p PROVE Fits(p, Closed)
BY ClosedFields DEF Fits

LEMMA InitStore == StoreInit => StoreInv
<1> SUFFICES ASSUME StoreInit PROVE StoreInv
  OBVIOUS
<1>1. /\ active = [r \in Rules |-> Nothing] /\ revisions = {} /\ saved = {}
      /\ lastSaved = [r \in Rules |-> Nothing] /\ session = [p \in Procs |-> Closed]
  BY DEF StoreInit, NoRules
<1>2. StoreTypes
  BY <1>1, ClosedFields DEF StoreTypes, Nothing
<1>3. \A p \in Procs : Fits(p, session[p])
  BY <1>1, ClosedFits
<1>4. QED BY <1>1, <1>2, <1>3 DEF StoreInv, LastSaved

\* Keys are the same both ways.
LEMMA KeysBothWays == ASSUME NEW e, NEW f, SameKey(e, f) PROVE SameKey(f, e)
BY DEF SameKey

\* A transaction goes on in a way that fits.
LEMMA Continues ==
    ASSUME StoreInv, NEW p \in Procs, NEW t \in Session, Fits(p, t),
           session' = [session EXCEPT ![p] = t],
           UNCHANGED <<active, revisions, saved, lastSaved>>
    PROVE  StoreInv'
<1>1. \A q \in Procs : session'[q] = IF q = p THEN t ELSE session[q]
  BY DEF StoreInv, StoreTypes
<1>2. StoreTypes'
  BY DEF StoreInv, StoreTypes
<1>3. Fits(p, session[p])'
  <2>1. session'[p] = t /\ \A q \in Procs \ {p} : session'[q] = session[q]
    BY <1>1
  <2> HIDE DEF StoreInv
  <2>2. QED BY <2>1 DEF Fits, Present
<1>4. ASSUME NEW q \in Procs \ {p} PROVE Fits(q, session[q])'
  <2>1. Fits(q, session[q]) /\ session'[q] = session[q]
    BY <1>1 DEF StoreInv
  <2>2. \A e \in session[q].entries : \A f \in t.entries : ~SameKey(e, f)
    BY KeysBothWays DEF Fits
  <2>3. \A r \in session[q].resources : r \notin t.resources
    BY DEF Fits
  <2>4. \A e \in session[q].entries : \A x \in Procs \ {q} : \A f \in session'[x].entries :
          ~SameKey(e, f)
    BY <1>1, <2>1, <2>2 DEF Fits
  <2>5. \A r \in session[q].resources : \A x \in Procs \ {q} : r \notin session'[x].resources
    BY <1>1, <2>1, <2>3 DEF Fits
  <2>6. QED BY <2>1, <2>4, <2>5 DEF Fits, Present
<1>5. \A q \in Procs : Fits(q, session[q])'
  BY <1>3, <1>4
<1>6. QED BY <1>2, <1>5 DEF StoreInv, LastSaved

LEMMA BeginsKeeps ==
    ASSUME StoreInv, NEW p \in Procs, NEW kind \in {"save", "seed"}, NEW todo \in Seq(Entry),
           Begins(p, kind, todo)
    PROVE  StoreInv'
<1> DEFINE k == [Closed EXCEPT !.kind = kind]
<1> DEFINE t == Opened(kind, todo)
<1>1. k \in Session /\ k.kind = kind /\ k.step = "resource"
      /\ k.resources = {} /\ k.entries = {} /\ k.activated = {}
  BY ClosedFields DEF Session, Closed, Kinds
<1> HIDE DEF k
<1>2. t = [k EXCEPT !.todo = todo]
  BY Zenon DEF Opened, k
<1>3. t \in Session /\ t.step = "resource" /\ t.resources = {} /\ t.entries = {}
      /\ t.activated = {}
  BY <1>1, <1>2 DEF Session
<1>4. session' = [session EXCEPT ![p] = t] /\ UNCHANGED <<active, revisions, saved, lastSaved>>
  BY DEF Begins
<1> HIDE DEF t
<1>5. Fits(p, t)
  BY <1>3 DEF Fits
<1>6. QED BY <1>3, <1>4, <1>5, Continues

LEMMA RollsBackKeeps ==
    ASSUME StoreInv, NEW p \in Procs, session' = [session EXCEPT ![p] = Closed],
           UNCHANGED <<active, revisions, saved, lastSaved>>
    PROVE  StoreInv'
BY ClosedFields, ClosedFits, Continues

\* The transaction as it is.
LEMMA SessionNow ==
    ASSUME StoreInv, NEW p \in Procs
    PROVE  /\ session[p] \in Session /\ Fits(p, session[p])
           /\ session[p].todo # <<>> => EntryOf(p) \in Entry /\ EntryOf(p).rule \in Rules
<1>1. session[p] \in Session /\ Fits(p, session[p])
  BY DEF StoreInv, StoreTypes
<1>2. session[p].todo \in Seq(Entry)
  BY <1>1 DEF Session
<1>3. ASSUME session[p].todo # <<>> PROVE EntryOf(p) \in Entry
  BY <1>2, <1>3 DEF EntryOf
<1>4. \A e \in Entry : e.rule \in Rules
  BY DEF Entry
<1>5. QED BY <1>1, <1>3, <1>4

LEMMA InsertsResourceKeeps ==
    ASSUME StoreInv, NEW p \in Procs, InsertsResource(p) PROVE StoreInv'
<1> DEFINE s == session[p]
<1> DEFINE R == IF active[EntryOf(p).rule] = Nothing
                  THEN s.resources \cup {EntryOf(p).rule} ELSE s.resources
<1> DEFINE u == [s EXCEPT !.step = "revision"]
<1> DEFINE t == [u EXCEPT !.resources = R]
<1>1. s \in Session /\ Fits(p, s) /\ s.todo # <<>> /\ EntryOf(p) \in Entry
      /\ EntryOf(p).rule \in Rules /\ EntryOf(p) = Head(s.todo)
  BY SessionNow DEF InsertsResource, Busy, EntryOf
<1>2. u \in Session /\ u.step = "revision" /\ u.kind = s.kind /\ u.todo = s.todo
      /\ u.resources = s.resources /\ u.entries = s.entries /\ u.activated = s.activated
  BY <1>1 DEF Session, Statements
<1>3. session' = [session EXCEPT ![p] = t] /\ UNCHANGED <<active, revisions, saved, lastSaved>>
  BY DEF InsertsResource, StoreInv, StoreTypes
<1>4. \A q \in Procs \ {p} : EntryOf(p).rule \notin session[q].resources
  BY DEF InsertsResource, ResourceAwaits, Others
<1>5. R \in SUBSET Rules
  BY <1>1 DEF Session
<1> HIDE DEF u
<1>6. t \in Session /\ t.step = "revision" /\ t.kind = s.kind /\ t.todo = s.todo
      /\ t.resources = R /\ t.entries = s.entries /\ t.activated = s.activated
  BY <1>2, <1>5 DEF Session
<1> HIDE DEF t
<1>7. \A r : Present(s, r) => Present(t, r)
  BY <1>6 DEF Present
<1>8. Present(t, EntryOf(p).rule)
  BY <1>6 DEF Present
<1>9. \A r \in R : active[r] = Nothing /\ \A q \in Procs \ {p} : r \notin session[q].resources
  BY <1>1, <1>4 DEF Fits
<1>10. Fits(p, t)
  BY <1>1, <1>6, <1>7, <1>8, <1>9 DEF Fits
<1>11. QED BY <1>3, <1>6, <1>10, Continues

\* Inserting a revision that is nowhere yet.
LEMMA InsertsRevisionKeeps ==
    ASSUME StoreInv, NEW p \in Procs, InsertsRevision(p) PROVE StoreInv'
<1> DEFINE s == session[p]
<1> DEFINE e == EntryOf(p)
<1> DEFINE E == IF RevisionExists(p) THEN s.entries ELSE s.entries \cup {e}
<1> DEFINE u == [s EXCEPT !.step = "active"]
<1> DEFINE t == [u EXCEPT !.entries = E]
<1>1. s \in Session /\ Fits(p, s) /\ s.todo # <<>> /\ s.step = "revision" /\ e \in Entry
      /\ e = Head(s.todo)
  BY SessionNow DEF InsertsRevision, Busy, EntryOf
<1>2. u \in Session /\ u.step = "active" /\ u.kind = s.kind /\ u.todo = s.todo
      /\ u.resources = s.resources /\ u.entries = s.entries /\ u.activated = s.activated
  BY <1>1 DEF Session, Statements
<1>3. session' = [session EXCEPT ![p] = t] /\ UNCHANGED <<active, revisions, saved, lastSaved>>
  BY DEF InsertsRevision, StoreInv, StoreTypes
<1>4. \A q \in Procs \ {p} : \A f \in session[q].entries : ~SameKey(e, f)
  BY KeysBothWays DEF InsertsRevision, RevisionAwaits, Others
<1>5. E \in SUBSET Entry /\ s.entries \subseteq E
  BY <1>1 DEF Session
<1>6. \A f \in E : f \in s.entries \/ (f = e /\ ~RevisionExists(p))
  OBVIOUS
<1>7. s.kind = "save" => e \in E
  BY DEF InsertsRevision, SaveConflicts
<1>8. ~RevisionExists(p) =>
        /\ \A f \in revisions : ~SameKey(e, f) /\ ~SameKey(f, e)
        /\ \A f \in s.entries : ~SameKey(e, f) /\ ~SameKey(f, e)
  BY KeysBothWays DEF RevisionExists
<1> HIDE DEF u, E
<1>9. t \in Session /\ t.step = "active" /\ t.kind = s.kind /\ t.todo = s.todo
      /\ t.resources = s.resources /\ t.entries = E /\ t.activated = s.activated
  BY <1>2, <1>5 DEF Session
<1> HIDE DEF t
<1>10. \A r : Present(s, r) <=> Present(t, r)
  BY <1>9 DEF Present
<1>11. ASSUME NEW x \in E
       PROVE  /\ \A f \in revisions : ~SameKey(x, f)
              /\ \A f \in E : SameKey(x, f) => x = f
              /\ \A q \in Procs \ {p} : \A f \in session[q].entries : ~SameKey(x, f)
  BY <1>1, <1>4, <1>6, <1>8 DEF Fits
<1>12. Fits(p, t)
  <2>1. \A r \in t.resources :
          active[r] = Nothing /\ \A q \in Procs \ {p} : r \notin session[q].resources
    BY <1>1, <1>9 DEF Fits
  <2>2. Present(t, Head(t.todo).rule)
    BY <1>1, <1>9, <1>10 DEF Fits
  <2>3. \A x \in t.activated :
          Present(t, x.rule) /\ (t.kind = "seed" => x.rule \in t.resources)
    BY <1>1, <1>9, <1>10 DEF Fits
  <2>4. t.kind = "save" => t.activated \subseteq t.entries /\ Head(t.todo) \in t.entries
    BY <1>1, <1>5, <1>7, <1>9 DEF Fits
  <2>5. QED BY <1>9, <1>11, <2>1, <2>2, <2>3, <2>4 DEF Fits
<1>13. QED BY <1>3, <1>9, <1>12, Continues

\* The last statement about an entry.
LEMMA UpdatesActiveKeeps ==
    ASSUME StoreInv, NEW p \in Procs, UpdatesActive(p) PROVE StoreInv'
<1> DEFINE s == session[p]
<1> DEFINE e == EntryOf(p)
<1> DEFINE A == IF Activates(p) THEN s.activated \cup {e} ELSE s.activated
<1> DEFINE k == [s EXCEPT !.step = "resource"]
<1> DEFINE u == [k EXCEPT !.todo = Tail(s.todo)]
<1> DEFINE t == [u EXCEPT !.activated = A]
<1>1. s \in Session /\ Fits(p, s) /\ s.todo # <<>> /\ s.step = "active" /\ e \in Entry
      /\ e = Head(s.todo)
  BY SessionNow DEF UpdatesActive, Busy, EntryOf
<1>2. k \in Session /\ k.step = "resource" /\ k.kind = s.kind /\ k.todo = s.todo
      /\ k.resources = s.resources /\ k.entries = s.entries /\ k.activated = s.activated
  BY <1>1 DEF Session, Statements
<1>3. Tail(s.todo) \in Seq(Entry)
  <2>1. s.todo \in Seq(Entry)
    BY <1>1 DEF Session
  <2>2. QED BY <1>1, <2>1
<1>4. session' = [session EXCEPT ![p] = t] /\ UNCHANGED <<active, revisions, saved, lastSaved>>
  BY DEF UpdatesActive, StoreInv, StoreTypes
<1>5. A \in SUBSET Entry
  BY <1>1 DEF Session
<1>6. \A x \in A : x \in s.activated \/ (x = e /\ Activates(p))
  OBVIOUS
<1>7. Activates(p) => s.kind = "save" \/ e.rule \in s.resources
  BY DEF Activates
<1> HIDE DEF k
<1>8. u \in Session /\ u.step = "resource" /\ u.kind = s.kind
      /\ u.resources = s.resources /\ u.entries = s.entries /\ u.activated = s.activated
  BY <1>2, <1>3 DEF Session
<1> HIDE DEF u, A
<1>9. t \in Session /\ t.step = "resource" /\ t.kind = s.kind
      /\ t.resources = s.resources /\ t.entries = s.entries /\ t.activated = A
  BY <1>5, <1>8 DEF Session
<1> HIDE DEF t
<1>10. \A r : Present(s, r) <=> Present(t, r)
  BY <1>9 DEF Present
<1>11. Present(s, e.rule) /\ (s.kind = "save" => e \in s.entries)
  BY <1>1 DEF Fits
<1>12. Fits(p, t)
  <2>1. \A x \in t.entries :
          /\ \A f \in revisions : ~SameKey(x, f)
          /\ \A f \in t.entries : SameKey(x, f) => x = f
          /\ \A q \in Procs \ {p} : \A f \in session[q].entries : ~SameKey(x, f)
    BY <1>1, <1>9 DEF Fits
  <2>2. \A r \in t.resources :
          active[r] = Nothing /\ \A q \in Procs \ {p} : r \notin session[q].resources
    BY <1>1, <1>9 DEF Fits
  <2>3. ASSUME NEW x \in t.activated
        PROVE  Present(t, x.rule) /\ (t.kind = "seed" => x.rule \in t.resources)
    BY <1>1, <1>6, <1>7, <1>9, <1>10, <1>11 DEF Fits
  <2>4. t.kind = "save" => t.activated \subseteq t.entries
    BY <1>1, <1>6, <1>9, <1>11 DEF Fits
  <2>5. QED BY <1>9, <2>1, <2>2, <2>3, <2>4 DEF Fits
<1>13. QED BY <1>4, <1>9, <1>12, Continues

\* A commit: what it has inserted is nobody else's, and the rules it activates are its own
\* or were there before.
LEMMA CommitsKeeps ==
    ASSUME StoreInv, NEW p \in Procs, Commits(p) PROVE StoreInv'
<1> DEFINE s == session[p]
<1> DEFINE new == [r \in Rules |-> {e \in s.activated : e.rule = r}]
<1> DEFINE pick(r) == CHOOSE e \in new[r] : TRUE
<1>1. s \in Session /\ Fits(p, s) /\ s.entries \in SUBSET Entry /\ s.activated \in SUBSET Entry
      /\ s.kind \in {"save", "seed"}
  BY SessionNow DEF Session, Kinds, Commits
<1>2. /\ revisions' = revisions \cup s.entries
      /\ active' = [r \in Rules |-> IF new[r] = {} THEN active[r] ELSE pick(r).revision]
      /\ saved' = IF s.kind = "save" THEN saved \cup s.activated ELSE saved
      /\ lastSaved' = [r \in Rules |-> IF s.kind = "save" /\ new[r] # {}
                                         THEN pick(r).revision ELSE lastSaved[r]]
      /\ session' = [session EXCEPT ![p] = Closed]
  BY Zenon DEF Commits
<1>3. \A r \in Rules : new[r] # {} => pick(r) \in new[r]
  OBVIOUS
<1>4. \A r \in Rules : \A e \in new[r] : e \in s.activated /\ e.rule = r
  OBVIOUS
<1>5. \A e \in s.activated : e.rule \in Rules /\ e \in new[e.rule]
  BY <1>1 DEF Entry
<1> HIDE DEF pick, new
<1>6. \A e \in Entry : e.rule \in Rules /\ e.revision \in Nat /\ e.revision # Nothing
  BY RuleStoreBounds DEF Entry, Revisions, Nothing
<1>7. \A r \in Rules : new[r] # {} =>
        pick(r) \in s.activated /\ pick(r) \in Entry /\ pick(r).rule = r
        /\ pick(r).revision \in Nat /\ pick(r).revision # Nothing
  BY <1>1, <1>3, <1>4, <1>6
<1>8. \A r \in Rules : /\ new[r] = {} => active'[r] = active[r]
                       /\ new[r] # {} => active'[r] = pick(r).revision
  BY <1>2
<1>9. \A r \in Rules : /\ s.kind # "save" \/ new[r] = {} => lastSaved'[r] = lastSaved[r]
                       /\ s.kind = "save" /\ new[r] # {} => lastSaved'[r] = pick(r).revision
  BY <1>2
<1>10. session' \in [Procs -> Session] /\ session'[p] = Closed
       /\ \A q \in Procs \ {p} : session'[q] = session[q]
  BY <1>2, ClosedFields DEF StoreInv, StoreTypes
<1>11. active' \in [Rules -> Nat] /\ lastSaved' \in [Rules -> Nat]
  BY <1>2, <1>7 DEF StoreInv, StoreTypes
<1>12. StoreTypes'
  BY <1>1, <1>2, <1>10, <1>11 DEF StoreInv, StoreTypes
<1>13. \A r \in Rules : active[r] # Nothing => active'[r] # Nothing
  BY <1>7, <1>8
<1>14. ASSUME NEW q \in Procs \ {p} PROVE Fits(q, session[q])'
  <2> DEFINE t == session[q]
  <2>1. Fits(q, t) /\ t \in Session /\ session'[q] = t
    BY <1>10, SessionNow
  <2>2. t.resources \subseteq Rules /\ t.activated \subseteq Entry
    BY <2>1 DEF Session
  <2>3. ASSUME t.todo # <<>> PROVE Head(t.todo).rule \in Rules
    BY <2>3, SessionNow DEF EntryOf
  <2> HIDE DEF t
  <2>4. \A e \in t.entries : \A f \in revisions' : ~SameKey(e, f)
    <3>1. \A e \in t.entries : \A f \in s.entries : ~SameKey(e, f)
      BY <2>1, p \in Procs \ {q} DEF Fits
    <3>2. \A e \in t.entries : \A f \in revisions : ~SameKey(e, f)
      BY <2>1 DEF Fits
    <3>3. QED BY <1>2, <3>1, <3>2
  <2>5. \A e \in t.entries : \A f \in t.entries : SameKey(e, f) => e = f
    BY <2>1 DEF Fits
  <2>6. \A e \in t.entries : \A x \in Procs \ {q} : \A f \in session'[x].entries : ~SameKey(e, f)
    BY <1>10, <2>1, ClosedFields DEF Fits
  <2>7. ASSUME NEW r \in t.resources
        PROVE  active'[r] = Nothing /\ \A x \in Procs \ {q} : r \notin session'[x].resources
    <3>1. active[r] = Nothing /\ \A x \in Procs \ {q} : r \notin session[x].resources
      BY <2>1 DEF Fits
    <3>2. r \notin s.resources
      BY <3>1
    <3>3. \A e \in s.activated : e.rule # r
      BY <1>1, <3>1, <3>2 DEF Fits, Present
    <3>4. new[r] = {}
      BY <1>4, <2>2, <3>3
    <3>5. active'[r] = Nothing
      BY <1>8, <2>2, <3>1, <3>4
    <3>6. QED BY <1>10, <3>1, <3>5, ClosedFields
  <2>8. \A r \in Rules : Present(t, r) => r \in t.resources \/ active'[r] # Nothing
    BY <1>13 DEF Present
  <2>9. t.todo # <<>> /\ t.step # "resource" =>
          Head(t.todo).rule \in t.resources \/ active'[Head(t.todo).rule] # Nothing
    BY <2>1, <2>3, <2>8 DEF Fits
  <2>10. ASSUME NEW e \in t.activated
         PROVE  /\ e.rule \in t.resources \/ active'[e.rule] # Nothing
                /\ t.kind = "seed" => e.rule \in t.resources
    BY <1>6, <2>1, <2>2, <2>8 DEF Fits
  <2>11. t.kind = "save" =>
           /\ t.activated \subseteq t.entries
           /\ t.todo # <<>> /\ t.step = "active" => Head(t.todo) \in t.entries
    BY <2>1 DEF Fits
  <2>12. QED BY <2>1, <2>4, <2>5, <2>6, <2>7, <2>9, <2>10, <2>11 DEF Fits, Present
<1>15. Fits(p, session[p])'
  BY <1>10, ClosedFields DEF Fits
<1>16. \A e, f \in revisions' : SameKey(e, f) => e = f
  <2>1. \A e \in s.entries : /\ \A f \in revisions : ~SameKey(e, f)
                             /\ \A f \in s.entries : SameKey(e, f) => e = f
    BY <1>1 DEF Fits
  <2>2. \A e, f \in revisions : SameKey(e, f) => e = f
    BY DEF StoreInv
  <2>3. QED BY <1>2, <2>1, <2>2, KeysBothWays
<1>17. saved' \subseteq revisions'
  BY <1>1, <1>2 DEF StoreInv, Fits
<1>18. ASSUME NEW r \in Rules PROVE LastSaved(r)'
  <2>1. LastSaved(r)
    BY DEF StoreInv
  <2>2. CASE new[r] = {}
    BY <1>2, <1>8, <1>9, <2>1, <2>2 DEF LastSaved
  <2>3. CASE new[r] # {} /\ s.kind = "save"
    <3>1. active'[r] = pick(r).revision /\ lastSaved'[r] = pick(r).revision
      BY <1>8, <1>9, <2>3
    <3>2. pick(r) \in saved' /\ pick(r).rule = r
      BY <1>2, <1>7, <2>3
    <3>3. QED BY <3>1, <3>2 DEF LastSaved
  <2>4. CASE new[r] # {} /\ s.kind = "seed"
    <3>1. r \in s.resources
      BY <1>1, <1>7, <2>4 DEF Fits
    <3>2. active[r] = Nothing
      BY <1>1, <3>1 DEF Fits
    <3>3. lastSaved'[r] = Nothing
      BY <1>9, <2>1, <2>4, <3>2 DEF LastSaved
    <3>4. QED BY <3>3 DEF LastSaved
  <2>5. QED BY <1>1, <2>2, <2>3, <2>4
<1>19. QED BY <1>12, <1>14, <1>15, <1>16, <1>17, <1>18 DEF StoreInv

\* Resetting happens between the transactions.
LEMMA ResetsStoreKeeps ==
    ASSUME StoreInv, NEW p \in Procs, ResetsStore(p) PROVE StoreInv'
<1>1. /\ active' = [r \in Rules |-> Nothing] /\ revisions' = {} /\ saved' = {}
      /\ lastSaved' = [r \in Rules |-> Nothing] /\ session' = session
      /\ \A q \in Procs : session[q] = Closed
  BY DEF ResetsStore
<1>2. StoreTypes'
  BY <1>1 DEF StoreInv, StoreTypes, Nothing
<1>3. \A q \in Procs : Fits(q, session[q])'
  BY <1>1, ClosedFields DEF Fits
<1>4. QED BY <1>1, <1>2, <1>3 DEF StoreInv, LastSaved

LEMMA SameStore == ASSUME StoreInv, UNCHANGED storeVars PROVE StoreInv'
BY DEF storeVars, StoreInv, StoreTypes, Fits, Present, LastSaved

\* What a save or a seeding begins with are entries.
LEMMA SaveBeginsKeeps ==
    ASSUME StoreInv, NEW p \in Procs, NEW r \in Rules, NEW d \in Definitions,
           SaveBegins(p, r, d)
    PROVE  StoreInv'
<1> DEFINE e == [rule |-> r, revision |-> NextRevision(r), definition |-> d]
<1>1. e \in Entry /\ Begins(p, "save", <<e>>)
  BY DEF SaveBegins, Entry
<1>2. <<e>> \in Seq(Entry)
  BY <1>1
<1> HIDE DEF e
<1>3. QED BY <1>1, <1>2, BeginsKeeps

LEMMA SeedBeginsKeeps ==
    ASSUME StoreInv, NEW p \in Procs, NEW file \in Files, SeedBegins(p, file)
    PROVE  StoreInv'
<1>1. file \in Seq(Entry) /\ Begins(p, "seed", file)
  BY FilesAssumption DEF SeedBegins, SeedOrders
<1>2. QED BY <1>1, BeginsKeeps

LEMMA StepKeepsStore == ASSUME StoreInv, NEW p \in Procs, Step(p) PROVE StoreInv'
<1>1. CASE UNCHANGED storeVars
  BY <1>1, SameStore
<1>2. CASE StopsWithSession(p) \/ RollsBack(p)
  BY <1>2, RollsBackKeeps DEF StopsWithSession, RollsBack
<1>3. CASE \E r \in Rules, d \in Definitions : SaveBegins(p, r, d)
  BY <1>3, SaveBeginsKeeps
<1>4. CASE \E file \in Files : SeedBegins(p, file)
  BY <1>4, SeedBeginsKeeps
<1>5. QED
  BY <1>1, <1>2, <1>3, <1>4, ResetsStoreKeeps, InsertsResourceKeeps, InsertsRevisionKeeps,
     UpdatesActiveKeeps, CommitsKeeps DEF Step

\* The invariant of the rule store.
THEOREM StoreInvHolds == StoreSpec => []StoreInv
<1>1. StoreInit => StoreInv
  BY InitStore
<1>2. StoreInv /\ [StoreNext]_vars => StoreInv'
  <2>1. ASSUME StoreInv, UNCHANGED vars PROVE StoreInv'
    BY <2>1, SameStore DEF vars
  <2>2. ASSUME StoreInv, StoreNext PROVE StoreInv'
    BY <2>2, StepKeepsStore DEF StoreNext
  <2>3. QED BY <2>1, <2>2
<1>3. QED BY <1>1, <1>2, PTL DEF StoreSpec

\* A save that succeeded has its revision for itself.
THEOREM SavesStand == StoreSpec => []SavedRevisionsStand
<1>1. StoreInv => SavedRevisionsStand
  BY DEF StoreInv, SavedRevisionsStand
<1>2. QED BY <1>1, StoreInvHolds, PTL

\* Whatever is seeded, the definition saved last is the active one.
THEOREM LastSaveStaysActive == StoreSpec => []LastSaveIsActive
<1>1. StoreInv => LastSaveIsActive
  <2> SUFFICES ASSUME StoreInv, NEW r \in Rules, lastSaved[r] # Nothing
               PROVE  \E e \in saved : /\ {f \in ActiveRules : f.rule = r} = {e}
                                      /\ e.revision = lastSaved[r]
    BY DEF LastSaveIsActive
  <2>1. active[r] = lastSaved[r] /\ \E e \in saved : e.rule = r /\ e.revision = lastSaved[r]
    BY DEF StoreInv, LastSaved
  <2>2. PICK e \in saved : e.rule = r /\ e.revision = lastSaved[r]
    BY <2>1
  <2>3. e \in revisions /\ e \in ActiveRules
    BY <2>1, <2>2 DEF StoreInv, ActiveRules
  <2>4. ASSUME NEW f \in ActiveRules, f.rule = r PROVE f = e
    <3>1. f \in revisions /\ f.revision = e.revision /\ f.rule = e.rule
      BY <2>1, <2>2, <2>4 DEF ActiveRules
    <3>2. QED BY <2>3, <3>1 DEF StoreInv, SameKey
  <2>5. QED BY <2>2, <2>3, <2>4
<1>2. QED BY <1>1, StoreInvHolds, PTL
-----------------------------------------------------------------------------
(* Waiting.  Every file lists its rules in the order of some rank.  Then   *)
(* the statements of a transaction climb: each has a level, what it leaves *)
(* behind is held at that level, and who waits for it waits at that level  *)
(* for a transaction that is further up.                                   *)

\* A non-empty set of naturals has a least element.
LEMMA LeastNatural ==
    ASSUME NEW S \in SUBSET Nat, S # {}
    PROVE  \E m \in S : \A x \in S : m <= x
<1>1. PICK m \in S : \A y \in S : ~ (<<y, m>> \in OpToRel(<, Nat))
  BY NatLessThanWellFounded, WFMin, Zenon
<1>2. \A y \in S : ~ (y < m)
  BY <1>1 DEF OpToRel
<1>3. QED BY <1>2

Listed(todo, rank) ==
    \A i, j \in DOMAIN todo : i < j => rank[todo[i].rule] < rank[todo[j].rule]

StepLevel == [resource |-> 0, revision |-> 1, active |-> 2]
Level(t, rank) == 3 * rank[Head(t.todo).rule] + StepLevel[t.step]

\* What the transaction t holds it has left below.
HoldsBelow(t, rank) ==
    /\ Listed(t.todo, rank)
    /\ t.todo # <<>> =>
         /\ \A r \in t.resources : 3 * rank[r] < Level(t, rank)
         /\ \A e \in t.entries : 3 * rank[e.rule] + 1 < Level(t, rank)
         /\ \A e \in t.activated : 3 * rank[e.rule] + 2 < Level(t, rank)

Climbing(rank) == \A p \in Procs : HoldsBelow(session[p], rank)

LEMMA LevelsOfSteps ==
    StepLevel["resource"] = 0 /\ StepLevel["revision"] = 1 /\ StepLevel["active"] = 2
BY DEF StepLevel

LEMMA ClosedClimbs == ASSUME NEW rank PROVE HoldsBelow(Closed, rank)
BY ClosedFields DEF HoldsBelow, Listed

\* One transaction goes on.
LEMMA OneClimbs ==
    ASSUME StoreTypes, NEW rank, Climbing(rank), NEW p \in Procs, NEW t,
           session' = [session EXCEPT ![p] = t], HoldsBelow(t, rank)
    PROVE  Climbing(rank)'
<1>1. \A q \in Procs : session'[q] = IF q = p THEN t ELSE session[q]
  BY DEF StoreTypes
<1>2. \A q \in Procs : HoldsBelow(session'[q], rank)
  BY <1>1 DEF Climbing
<1>3. QED BY <1>2 DEF Climbing

\* A statement of p's entry, and what it leaves at its level.
LEMMA StatementClimbs ==
    ASSUME NEW rank \in [Rules -> Nat], NEW s \in Session, HoldsBelow(s, rank),
           s.todo # <<>>, NEW e \in Entry, e = Head(s.todo), NEW t,
           t.todo = s.todo,
           \/ s.step = "resource" /\ t.step = "revision"
           \/ s.step = "revision" /\ t.step = "active",
           s.step = "resource" => t.entries = s.entries
                                 /\ \A r \in t.resources : r \in s.resources \/ r = e.rule,
           s.step = "revision" => t.resources = s.resources
                                 /\ \A x \in t.entries : x \in s.entries \/ x = e,
           t.activated = s.activated
    PROVE  HoldsBelow(t, rank)
<1> DEFINE k == rank[e.rule]
<1>1. k \in Nat
  BY DEF Entry
<1>2. Level(s, rank) = 3 * k + StepLevel[s.step] /\ Level(t, rank) = 3 * k + StepLevel[t.step]
  BY DEF Level
<1>3. Listed(t.todo, rank)
  BY DEF HoldsBelow
<1>4. s.resources \subseteq Rules /\ s.entries \subseteq Entry /\ s.activated \subseteq Entry
  BY DEF Session
<1>5. (\A r \in Rules : rank[r] \in Nat) /\ (\A x \in Entry : rank[x.rule] \in Nat)
  BY DEF Entry
<1>6. /\ \A r \in s.resources : 3 * rank[r] < Level(s, rank)
      /\ \A x \in s.entries : 3 * rank[x.rule] + 1 < Level(s, rank)
      /\ \A x \in s.activated : 3 * rank[x.rule] + 2 < Level(s, rank)
  BY DEF HoldsBelow
<1> HIDE DEF k
<1>7. CASE s.step = "resource" /\ t.step = "revision"
  <2>1. Level(s, rank) = 3 * k /\ Level(t, rank) = 3 * k + 1
    BY <1>1, <1>2, <1>7, LevelsOfSteps
  <2>2. \A r \in t.resources : 3 * rank[r] < Level(t, rank)
    BY <1>1, <1>4, <1>5, <1>6, <1>7, <2>1 DEF k
  <2>3. \A x \in t.entries : 3 * rank[x.rule] + 1 < Level(t, rank)
    BY <1>1, <1>4, <1>5, <1>6, <1>7, <2>1
  <2>4. \A x \in t.activated : 3 * rank[x.rule] + 2 < Level(t, rank)
    BY <1>1, <1>4, <1>5, <1>6, <2>1
  <2>5. QED BY <1>3, <2>2, <2>3, <2>4 DEF HoldsBelow
<1>8. CASE s.step = "revision" /\ t.step = "active"
  <2>1. Level(s, rank) = 3 * k + 1 /\ Level(t, rank) = 3 * k + 2
    BY <1>1, <1>2, <1>8, LevelsOfSteps
  <2>2. \A r \in t.resources : 3 * rank[r] < Level(t, rank)
    BY <1>1, <1>4, <1>5, <1>6, <1>8, <2>1
  <2>3. \A x \in t.entries : 3 * rank[x.rule] + 1 < Level(t, rank)
    BY <1>1, <1>4, <1>5, <1>6, <1>8, <2>1 DEF k
  <2>4. \A x \in t.activated : 3 * rank[x.rule] + 2 < Level(t, rank)
    BY <1>1, <1>4, <1>5, <1>6, <2>1
  <2>5. QED BY <1>3, <2>2, <2>3, <2>4 DEF HoldsBelow
<1>9. QED BY <1>7, <1>8

\* The last statement of an entry leads to the next entry, which ranks higher.
LEMMA NextEntryClimbs ==
    ASSUME NEW rank \in [Rules -> Nat], NEW s \in Session, HoldsBelow(s, rank),
           s.todo # <<>>, NEW e \in Entry, e = Head(s.todo), s.step = "active", NEW t,
           t.todo = Tail(s.todo), t.step = "resource",
           t.resources = s.resources, t.entries = s.entries,
           \A x \in t.activated : x \in s.activated \/ x = e
    PROVE  HoldsBelow(t, rank)
<1>1. s.todo \in Seq(Entry)
  BY DEF Session
<1>2. /\ t.todo \in Seq(Entry) /\ Len(t.todo) = Len(s.todo) - 1 /\ Len(s.todo) \in Nat \ {0}
      /\ \A i \in 1 .. Len(t.todo) : t.todo[i] = s.todo[i + 1]
  BY <1>1
<1>3. Listed(t.todo, rank)
  <2>1. Listed(s.todo, rank)
    BY DEF HoldsBelow
  <2>2. \A i, j \in 1 .. Len(s.todo) : i < j => rank[s.todo[i].rule] < rank[s.todo[j].rule]
    BY <1>1, <2>1 DEF Listed
  <2>3. DOMAIN t.todo = 1 .. Len(t.todo)
    BY <1>2
  <2>4. ASSUME NEW i \in 1 .. Len(t.todo), NEW j \in 1 .. Len(t.todo), i < j
        PROVE  rank[t.todo[i].rule] < rank[t.todo[j].rule]
    <3>1. i + 1 \in 1 .. Len(s.todo) /\ j + 1 \in 1 .. Len(s.todo) /\ i + 1 < j + 1
      BY <1>2, <2>4
    <3>2. QED BY <1>2, <2>2, <3>1
  <2>5. QED BY <2>3, <2>4 DEF Listed
<1>4. ASSUME t.todo # <<>>
      PROVE  /\ \A r \in t.resources : 3 * rank[r] < Level(t, rank)
             /\ \A x \in t.entries : 3 * rank[x.rule] + 1 < Level(t, rank)
             /\ \A x \in t.activated : 3 * rank[x.rule] + 2 < Level(t, rank)
  <2>1. Len(s.todo) > 1 /\ Head(t.todo) = s.todo[2] /\ e = s.todo[1] /\ s.todo[2] \in Entry
    BY <1>1, <1>2, <1>4
  <2>2. rank[e.rule] < rank[Head(t.todo).rule]
    BY <1>1, <2>1 DEF HoldsBelow, Listed
  <2> DEFINE k == rank[e.rule]
  <2> DEFINE m == rank[Head(t.todo).rule]
  <2>3. k \in Nat /\ m \in Nat /\ k < m
    BY <2>1, <2>2 DEF Entry
  <2>4. Level(s, rank) = 3 * k + StepLevel[s.step] /\ Level(t, rank) = 3 * m + StepLevel[t.step]
    BY DEF Level
  <2> HIDE DEF k, m
  <2>a. Level(s, rank) = 3 * k + 2 /\ Level(t, rank) = 3 * m
    BY <2>3, <2>4, LevelsOfSteps
  <2>b. Level(s, rank) < Level(t, rank) /\ 3 * k + 2 < Level(t, rank)
    BY <2>3, <2>a
  <2>5. Level(s, rank) < Level(t, rank) /\ 3 * rank[e.rule] + 2 < Level(t, rank)
    BY <2>b DEF k
  <2>6. s.resources \subseteq Rules /\ s.entries \subseteq Entry /\ s.activated \subseteq Entry
    BY DEF Session
  <2>7. (\A r \in Rules : rank[r] \in Nat) /\ (\A x \in Entry : rank[x.rule] \in Nat)
    BY DEF Entry
  <2>8. /\ \A r \in s.resources : 3 * rank[r] < Level(s, rank)
        /\ \A x \in s.entries : 3 * rank[x.rule] + 1 < Level(s, rank)
        /\ \A x \in s.activated : 3 * rank[x.rule] + 2 < Level(s, rank)
    BY DEF HoldsBelow
  <2>9. Level(s, rank) \in Nat /\ Level(t, rank) \in Nat
    BY <2>3, <2>a
  <2>10. \A r \in t.resources : 3 * rank[r] < Level(t, rank)
    BY <2>5, <2>6, <2>7, <2>8, <2>9
  <2>11. \A x \in t.entries : 3 * rank[x.rule] + 1 < Level(t, rank)
    BY <2>5, <2>6, <2>7, <2>8, <2>9
  <2>12. \A x \in t.activated : 3 * rank[x.rule] + 2 < Level(t, rank)
    BY <2>5, <2>6, <2>7, <2>8, <2>9
  <2>13. QED BY <2>10, <2>11, <2>12
<1>5. QED BY <1>3, <1>4 DEF HoldsBelow

LEMMA StatementsClimb ==
    ASSUME StoreInv, NEW rank \in [Rules -> Nat], Climbing(rank), NEW p \in Procs,
           InsertsResource(p) \/ InsertsRevision(p) \/ UpdatesActive(p)
    PROVE  Climbing(rank)'
<1>s. PICK s, e : s = session[p] /\ e = EntryOf(p)
  OBVIOUS
<1>1. s \in Session /\ s.todo # <<>> /\ e \in Entry /\ e = Head(s.todo) /\ StoreTypes
      /\ HoldsBelow(s, rank)
  BY <1>s, SessionNow
     DEF InsertsResource, InsertsRevision, UpdatesActive, Busy, EntryOf, StoreInv, Climbing
<1>2. CASE InsertsResource(p)
  <2> DEFINE R == IF active[e.rule] = Nothing THEN s.resources \cup {e.rule} ELSE s.resources
  <2> DEFINE u == [s EXCEPT !.step = "revision"]
  <2> DEFINE t == [u EXCEPT !.resources = R]
  <2>1. u.step = "revision" /\ u.todo = s.todo /\ u.entries = s.entries
        /\ u.activated = s.activated /\ u \in Session /\ s.step = "resource"
    BY <1>s, <1>1, <1>2 DEF Session, Statements, InsertsResource, Busy
  <2>2. session' = [session EXCEPT ![p] = t]
    BY <1>s, <1>2 DEF InsertsResource, StoreInv, StoreTypes
  <2>3. \A r \in R : r \in s.resources \/ r = e.rule
    OBVIOUS
  <2> HIDE DEF u, R
  <2>4. t.step = "revision" /\ t.todo = s.todo /\ t.entries = s.entries
        /\ t.activated = s.activated /\ t.resources = R
    BY <2>1 DEF Session
  <2> HIDE DEF t
  <2>5. HoldsBelow(t, rank)
    BY <1>1, <2>1, <2>3, <2>4, StatementClimbs
  <2>6. QED BY <1>1, <2>2, <2>5, OneClimbs
<1>3. CASE InsertsRevision(p)
  <2> DEFINE E == IF RevisionExists(p) THEN s.entries ELSE s.entries \cup {e}
  <2> DEFINE u == [s EXCEPT !.step = "active"]
  <2> DEFINE t == [u EXCEPT !.entries = E]
  <2>1. u.step = "active" /\ u.todo = s.todo /\ u.resources = s.resources
        /\ u.activated = s.activated /\ u \in Session /\ s.step = "revision"
    BY <1>s, <1>1, <1>3 DEF Session, Statements, InsertsRevision, Busy
  <2>2. session' = [session EXCEPT ![p] = t]
    BY <1>s, <1>3 DEF InsertsRevision, StoreInv, StoreTypes
  <2>3. \A x \in E : x \in s.entries \/ x = e
    OBVIOUS
  <2> HIDE DEF u, E
  <2>4. t.step = "active" /\ t.todo = s.todo /\ t.resources = s.resources
        /\ t.activated = s.activated /\ t.entries = E
    BY <2>1 DEF Session
  <2> HIDE DEF t
  <2>5. HoldsBelow(t, rank)
    BY <1>1, <2>1, <2>3, <2>4, StatementClimbs
  <2>6. QED BY <1>1, <2>2, <2>5, OneClimbs
<1>4. CASE UpdatesActive(p)
  <2> DEFINE A == IF Activates(p) THEN s.activated \cup {e} ELSE s.activated
  <2> DEFINE k == [s EXCEPT !.step = "resource"]
  <2> DEFINE u == [k EXCEPT !.todo = Tail(s.todo)]
  <2> DEFINE t == [u EXCEPT !.activated = A]
  <2>1. k.step = "resource" /\ k.resources = s.resources /\ k.entries = s.entries
        /\ k \in Session /\ s.step = "active"
    BY <1>s, <1>1, <1>4 DEF Session, Statements, UpdatesActive, Busy
  <2>2. session' = [session EXCEPT ![p] = t]
    BY <1>s, <1>4 DEF UpdatesActive, StoreInv, StoreTypes
  <2>3. \A x \in A : x \in s.activated \/ x = e
    OBVIOUS
  <2>4. Tail(s.todo) \in Seq(Entry)
    <3>1. s.todo \in Seq(Entry)
      BY <1>1 DEF Session
    <3>2. QED BY <1>1, <3>1
  <2> HIDE DEF k, A
  <2>5. u.step = "resource" /\ u.todo = Tail(s.todo) /\ u.resources = s.resources
        /\ u.entries = s.entries /\ u \in Session
    BY <2>1, <2>4 DEF Session
  <2> HIDE DEF u
  <2>6. t.step = "resource" /\ t.todo = Tail(s.todo) /\ t.resources = s.resources
        /\ t.entries = s.entries /\ t.activated = A
    BY <2>5 DEF Session
  <2> HIDE DEF t
  <2>7. HoldsBelow(t, rank)
    BY <1>1, <2>1, <2>3, <2>6, NextEntryClimbs
  <2>8. QED BY <1>1, <2>2, <2>7, OneClimbs
<1>5. QED BY <1>2, <1>3, <1>4

\* A transaction that has only begun holds nothing.
LEMMA BeginsClimbing ==
    ASSUME StoreInv, NEW rank, Climbing(rank), NEW p \in Procs, NEW kind, NEW todo,
           Listed(todo, rank), Begins(p, kind, todo)
    PROVE  Climbing(rank)'
<1> DEFINE k == [Closed EXCEPT !.kind = kind]
<1> DEFINE t == Opened(kind, todo)
<1>1. k.resources = {} /\ k.entries = {} /\ k.activated = {} /\ k.step = "resource"
      /\ DOMAIN k = DOMAIN Closed
  BY DEF Closed
<1>2. t = [k EXCEPT !.todo = todo]
  BY Zenon DEF Opened, k
<1>3. t.todo = todo /\ t.resources = {} /\ t.entries = {} /\ t.activated = {}
  BY <1>2 DEF Closed
<1>4. session' = [session EXCEPT ![p] = t]
  BY DEF Begins
<1> HIDE DEF t, k
<1>5. HoldsBelow(t, rank)
  BY <1>3 DEF HoldsBelow
<1>6. QED BY <1>4, <1>5, OneClimbs DEF StoreInv

Ranked(rank) == \A file \in Files : Listed(file, rank)

LEMMA StepClimbs ==
    ASSUME StoreInv, NEW rank \in [Rules -> Nat], Ranked(rank), Climbing(rank),
           NEW p \in Procs, Step(p)
    PROVE  Climbing(rank)'
<1>1. CASE session' = session
  BY <1>1 DEF Climbing
<1>2. CASE session' = [session EXCEPT ![p] = Closed]
  BY <1>2, ClosedClimbs, OneClimbs DEF StoreInv
<1>3. ASSUME NEW r \in Rules, NEW d \in Definitions, SaveBegins(p, r, d)
      PROVE  Climbing(rank)'
  <2> DEFINE todo == <<[rule |-> r, revision |-> NextRevision(r), definition |-> d]>>
  <2>1. Listed(todo, rank)
    BY DEF Listed
  <2>2. Begins(p, "save", todo)
    BY <1>3 DEF SaveBegins
  <2> HIDE DEF todo
  <2>3. QED BY <2>1, <2>2, BeginsClimbing
<1>4. ASSUME NEW file \in Files, SeedBegins(p, file) PROVE Climbing(rank)'
  BY <1>4, BeginsClimbing DEF SeedBegins, SeedOrders, Ranked
<1>5. CASE InsertsResource(p) \/ InsertsRevision(p) \/ UpdatesActive(p)
  BY <1>5, StatementsClimb
<1>6. QED BY <1>1, <1>2, <1>3, <1>4, <1>5
          DEF Step, storeVars, StopsWithSession, ResetsStore, Commits, RollsBack

\* Who waits, waits for a transaction that is further up, or for one that waits for none.
LEMMA WaitsUpwards ==
    ASSUME StoreInv, NEW rank \in [Rules -> Nat], Climbing(rank), NEW p \in Procs,
           NEW q \in Awaits(p), Awaits(q) # {}
    PROVE  /\ Level(session[p], rank) \in Nat /\ Level(session[q], rank) \in Nat
           /\ Level(session[p], rank) < Level(session[q], rank)
<1>1. q \in Procs /\ session[p].todo # <<>> /\ session[q].todo # <<>>
  BY DEF Awaits, Busy, ResourceAwaits, RevisionAwaits, ActiveAwaits, Others
<1>2. /\ EntryOf(p) \in Entry /\ EntryOf(q) \in Entry
      /\ session[p] \in Session /\ session[q] \in Session
  BY <1>1, SessionNow
<1>3. /\ rank[EntryOf(p).rule] \in Nat /\ rank[EntryOf(q).rule] \in Nat
      /\ StepLevel[session[p].step] \in Nat /\ StepLevel[session[q].step] \in Nat
  BY <1>2, LevelsOfSteps DEF Entry, Session, Statements
<1>4. /\ Level(session[p], rank) = 3 * rank[EntryOf(p).rule] + StepLevel[session[p].step]
      /\ Level(session[q], rank) = 3 * rank[EntryOf(q).rule] + StepLevel[session[q].step]
  BY DEF Level, EntryOf
<1>5. Level(session[p], rank) \in Nat /\ Level(session[q], rank) \in Nat
  BY <1>3, <1>4
<1>6. /\ \A r \in session[q].resources : 3 * rank[r] < Level(session[q], rank)
      /\ \A e \in session[q].entries : 3 * rank[e.rule] + 1 < Level(session[q], rank)
      /\ \A e \in session[q].activated : 3 * rank[e.rule] + 2 < Level(session[q], rank)
  BY <1>1 DEF Climbing, HoldsBelow
<1>7. CASE session[p].step = "resource"
  <2>1. EntryOf(p).rule \in session[q].resources
    BY <1>7 DEF Awaits, Busy, ResourceAwaits
  <2>2. Level(session[p], rank) = 3 * rank[EntryOf(p).rule]
    BY <1>3, <1>4, <1>7, LevelsOfSteps
  <2>3. QED BY <1>5, <1>6, <2>1, <2>2
<1>8. CASE session[p].step = "revision"
  <2>1. \E e \in session[q].entries : e.rule = EntryOf(p).rule
    BY <1>8 DEF Awaits, Busy, RevisionAwaits, SameKey
  <2>2. Level(session[p], rank) = 3 * rank[EntryOf(p).rule] + 1
    BY <1>4, <1>8, LevelsOfSteps
  <2>3. QED BY <1>5, <1>6, <2>1, <2>2
<1>9. CASE session[p].step = "active"
  <2>1. \E e \in session[q].activated : e.rule = EntryOf(p).rule
    BY <1>9 DEF Awaits, Busy, ActiveAwaits
  <2>2. Level(session[p], rank) = 3 * rank[EntryOf(p).rule] + 2
    BY <1>4, <1>9, LevelsOfSteps
  <2>3. QED BY <1>5, <1>6, <2>1, <2>2
<1>10. QED BY <1>2, <1>7, <1>8, <1>9 DEF Session, Statements

\* Of transactions that all wait, one at the highest level waits for none of them.
LEMMA NobodyWaitsInACircle ==
    ASSUME StoreInv, NEW K \in Nat, NEW rank \in [Rules -> 0 .. K], Climbing(rank)
    PROVE  NoCircularWait
<1> SUFFICES ASSUME NEW S \in SUBSET Procs, S # {}, \A p \in S : Awaits(p) \cap S # {}
             PROVE  FALSE
  BY DEF NoCircularWait
<1> DEFINE Left(p) == 3 * K + 3 - Level(session[p], rank)
<1>0. rank \in [Rules -> Nat]
  OBVIOUS
<1>1. ASSUME NEW p \in S
      PROVE  Level(session[p], rank) \in Nat /\ Left(p) \in Nat
  <2>1. session[p].todo # <<>>
    BY DEF Awaits, Busy
  <2>2. EntryOf(p) \in Entry /\ session[p] \in Session
    BY <2>1, SessionNow
  <2>3. rank[EntryOf(p).rule] \in 0 .. K /\ StepLevel[session[p].step] \in 0 .. 2
    BY <2>2, LevelsOfSteps DEF Entry, Session, Statements
  <2>4. Level(session[p], rank) = 3 * rank[EntryOf(p).rule] + StepLevel[session[p].step]
    BY DEF Level, EntryOf
  <2>5. QED BY <2>3, <2>4
<1>2. PICK m \in {Left(p) : p \in S} : \A x \in {Left(p) : p \in S} : m <= x
  <2>1. {Left(p) : p \in S} \in SUBSET Nat /\ {Left(p) : p \in S} # {}
    BY <1>1
  <2>2. QED BY <2>1, LeastNatural
<1>3. PICK p \in S : m = Left(p)
  BY <1>2
<1>4. PICK q \in Awaits(p) \cap S : TRUE
  OBVIOUS
<1>5. Level(session[p], rank) < Level(session[q], rank)
  BY <1>0, <1>4, WaitsUpwards
<1>6. Left(p) <= Left(q)
  BY <1>2, <1>3, <1>4
<1>7. QED BY <1>1, <1>4, <1>5, <1>6

\* Saves and seedings of any number of files never wait for one another in a circle,
\* provided all files list their rules in the order of one rank.
THEOREM RankedFilesDoNotDeadlock ==
    ASSUME NEW K \in Nat, NEW rank \in [Rules -> 0 .. K], Ranked(rank)
    PROVE  StoreSpec => []NoCircularWait
<1>0. rank \in [Rules -> Nat]
  OBVIOUS
<1>1. StoreInit => Climbing(rank)
  BY ClosedClimbs DEF StoreInit, Climbing
<1>2. StoreInv /\ Climbing(rank) /\ [StoreNext]_vars => Climbing(rank)'
  <2>1. ASSUME Climbing(rank), UNCHANGED vars PROVE Climbing(rank)'
    BY <2>1 DEF vars, storeVars, Climbing
  <2>2. ASSUME StoreInv, Climbing(rank), StoreNext PROVE Climbing(rank)'
    BY <1>0, <2>2, StepClimbs DEF StoreNext
  <2>3. QED BY <2>1, <2>2
<1>3. StoreInv /\ Climbing(rank) => NoCircularWait
  BY NobodyWaitsInACircle
<1>4. QED BY <1>1, <1>2, <1>3, StoreInvHolds, PTL DEF StoreSpec

-----------------------------------------------------------------------------
(* Predicates, for every catalog, every set of expressions and every offer *)
(* of values.  A comparison keeps its value when evidence is added, hence  *)
(* so does a conjunction; and the plan holds validated comparisons only,   *)
(* which are unknown for want of a field.                                  *)

\* An operand that resolves keeps its value when evidence is added.
LEMMA OperandStands ==
    ASSUME NEW o, NEW e, NEW f, Extends(f, e), Resolves(o, e)
    PROVE  Resolves(o, f) /\ Resolved(o, f) = Resolved(o, e)
<1>1. CASE o.kind = "field"
  <2>1. Answers(o.field, e) /\ o.field \in DOMAIN e
    BY <1>1 DEF Resolves, Answers
  <2>2. o.field \in DOMAIN f /\ f[o.field] = e[o.field]
    BY <2>1 DEF Extends
  <2> QED BY <1>1, <2>1, <2>2 DEF Resolves, Resolved, Answers
<1>2. CASE o.kind # "field"
  BY <1>2 DEF Resolves, Resolved
<1> QED BY <1>1, <1>2

\* Resolved operands decide a comparison.
LEMMA ComparisonIsThreeValued ==
    ASSUME NEW c, NEW e
    PROVE  /\ EvaluateComparison(c, e) \in {"true", "false", "unknown"}
           /\ EvaluateComparison(c, e) # "unknown" => Resolves(c.left, e) /\ Resolves(c.right, e)
BY DEF EvaluateComparison

\* A comparison that is decided keeps its value when evidence is added.
LEMMA ComparisonStands ==
    ASSUME NEW c, NEW e, NEW f, Extends(f, e), EvaluateComparison(c, e) # "unknown"
    PROVE  EvaluateComparison(c, f) = EvaluateComparison(c, e)
<1>1. Resolves(c.left, e) /\ Resolves(c.right, e)
  BY ComparisonIsThreeValued
<1>2. Resolves(c.left, f) /\ Resolved(c.left, f) = Resolved(c.left, e)
  BY <1>1, OperandStands
<1>3. Resolves(c.right, f) /\ Resolved(c.right, f) = Resolved(c.right, e)
  BY <1>1, OperandStands
<1> QED BY <1>1, <1>2, <1>3 DEF EvaluateComparison

\* So does a conjunction.
LEMMA ConjunctionStands ==
    ASSUME NEW p, NEW e, NEW f, Extends(f, e), EvaluateAll(p, e) # "unknown"
    PROVE  EvaluateAll(p, f) = EvaluateAll(p, e)
<1>1. CASE \E i \in DOMAIN p : EvaluateComparison(p[i], e) = "false"
  <2>1. PICK i \in DOMAIN p : EvaluateComparison(p[i], e) = "false"
    BY <1>1
  <2>2. EvaluateComparison(p[i], f) = "false"
    BY <2>1, ComparisonStands
  <2> QED BY <1>1, <2>2 DEF EvaluateAll
<1>2. CASE ~\E i \in DOMAIN p : EvaluateComparison(p[i], e) = "false"
  <2>1. \A i \in DOMAIN p : EvaluateComparison(p[i], e) = "true"
    BY <1>2, ComparisonIsThreeValued DEF EvaluateAll
  <2>2. \A i \in DOMAIN p : EvaluateComparison(p[i], f) = "true"
    BY <2>1, ComparisonStands
  <2> QED BY <2>1, <2>2 DEF EvaluateAll
<1> QED BY <1>1, <1>2

\* The comparisons of the plan passed validation.
PlanIsValid == \A i \in DOMAIN plan : \E subject \in Subjects : ValidCompare(plan[i], subject)

\* Compile puts validated comparisons in the plan and nothing else does.
THEOREM PlanStaysValid == PlanSpec => []PlanIsValid
<1>1. PlanInit => PlanIsValid
  BY DEF PlanInit, PlanIsValid
<1>2. PlanIsValid /\ [PlanNext]_planVars => PlanIsValid'
  <2> SUFFICES ASSUME PlanIsValid, [PlanNext]_planVars PROVE PlanIsValid'
    OBVIOUS
  <2>1. ASSUME NEW x \in Expressions, NEW subject \in Subjects, Compile(x, subject)
        PROVE  PlanIsValid'
    <3>1. CASE x.kind = "compare"
      <4>1. plan' = <<x>> /\ ValidCompare(x, subject)
        BY <2>1, <3>1 DEF Compile, ValidExpression, Flatten
      <4> QED BY <4>1 DEF PlanIsValid
    <3>2. CASE x.kind # "compare"
      <4>1. plan' = x.conditions
        BY <2>1, <3>2 DEF Compile, Flatten
      <4>2. \A i \in DOMAIN x.conditions : ValidCompare(x.conditions[i], subject)
        BY <2>1, <3>2 DEF Compile, ValidExpression
      <4> QED BY <4>1, <4>2 DEF PlanIsValid
    <3> QED BY <3>1, <3>2
  <2>2. ASSUME NEW e \in Evidence, Observe(e) PROVE PlanIsValid'
    BY <2>2 DEF Observe, PlanIsValid
  <2>3. CASE UNCHANGED planVars
    BY <2>3 DEF planVars, PlanIsValid
  <2> QED BY <2>1, <2>2, <2>3 DEF PlanNext
<1> QED BY <1>1, <1>2, PTL DEF PlanSpec

\* A validated operand is unresolved only if it is a field that is not usable, and
\* resolves to a value of its type otherwise.
LEMMA ValidOperandResolves ==
    ASSUME NEW o, NEW subject, ValidOperand(o, subject), NEW e
    PROVE  \/ o.kind = "field" /\ ~Answers(o.field, e)
           \/ Resolves(o, e) /\ Resolved(o, e).type = OperandType(o)
BY DEF ValidOperand, ValidValue, Resolves, Resolved, Answers, OperandType

\* Hence a validated comparison is unknown only for want of a field it names.
LEMMA ValidCompareWaits ==
    ASSUME NEW c, NEW subject, ValidCompare(c, subject), NEW e,
           EvaluateComparison(c, e) = "unknown"
    PROVE  \E o \in {c.left, c.right} : o.kind = "field" /\ ~Answers(o.field, e)
<1> SUFFICES ASSUME \A o \in {c.left, c.right} : ~(o.kind = "field" /\ ~Answers(o.field, e))
             PROVE  FALSE
  OBVIOUS
<1>1. Resolves(c.left, e) /\ Resolved(c.left, e).type = OperandType(c.left)
  BY ValidOperandResolves DEF ValidCompare
<1>2. Resolves(c.right, e) /\ Resolved(c.right, e).type = OperandType(c.right)
  BY ValidOperandResolves DEF ValidCompare
<1>3. OperandType(c.left) = OperandType(c.right) /\ c.op \in Operators
  BY DEF ValidCompare, AllowedOperators, Operators
<1> QED BY <1>1, <1>2, <1>3 DEF EvaluateComparison

\* A decided predicate stands, and an undecided one waits for a field of its own
\* (evaluateAll and evaluateComparison, with the validation Compile begins with).
THEOREM DecisionsAreForced == PlanSpec => []DecidedIsForced
<1>1. PlanIsValid => DecidedIsForced
  <2> SUFFICES ASSUME PlanIsValid PROVE DecidedIsForced
    OBVIOUS
  <2>1. ASSUME EvaluateAll(plan, evidence) # "unknown", NEW e \in Evidence,
               Extends(e, evidence)
        PROVE  EvaluateAll(plan, e) = EvaluateAll(plan, evidence)
    BY <2>1, ConjunctionStands
  <2>2. ASSUME EvaluateAll(plan, evidence) = "unknown"
        PROVE  \E i \in DOMAIN plan : \E o \in {plan[i].left, plan[i].right} :
                  o.kind = "field" /\ ~Answers(o.field, evidence)
    <3>1. PICK i \in DOMAIN plan : EvaluateComparison(plan[i], evidence) = "unknown"
      BY <2>2 DEF EvaluateAll
    <3>2. PICK subject \in Subjects : ValidCompare(plan[i], subject)
      BY DEF PlanIsValid
    <3>3. \E o \in {plan[i].left, plan[i].right} :
             o.kind = "field" /\ ~Answers(o.field, evidence)
      BY <3>1, <3>2, ValidCompareWaits
    <3> QED BY <3>3
  <2> QED BY <2>1, <2>2 DEF DecidedIsForced
<1> QED BY <1>1, PlanStaysValid, PTL
=============================================================================
