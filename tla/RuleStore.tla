----------------------------- MODULE RuleStore -----------------------------
(***************************************************************************)
(* The rule store in PostgreSQL: the tables rule_resources and             *)
(* rule_revisions, the server's SaveRule (internal/runtime/rules.go) and   *)
(* the replay's seedRules and activeFromDB (internal/runtime/replay.go),   *)
(* in processes that have migrated the database.  A save is one            *)
(* transaction about one rule; seeding goes through the rules of a file    *)
(* in one transaction.  Transactions are READ COMMITTED: each statement    *)
(* sees what is committed when it begins, and waits for another            *)
(* transaction that has inserted the same key or updated the same row.     *)
(***************************************************************************)
EXTENDS Migrations, Sequences, FiniteSets

CONSTANTS
    Rules,         \* rule IDs
    Definitions,   \* what a form may save
    Files,         \* rule files: sequences of [rule, revision, definition]
    MaxRevision    \* bound: revisions of a rule

Sets == INSTANCE FiniteSetsExt

Revisions == 1 .. MaxRevision
Entry == [rule : Rules, revision : Revisions, definition : Definitions]

ASSUME RulesFinite == IsFiniteSet(Rules)
ASSUME FilesAssumption == Files \subseteq Seq(Entry)
ASSUME RuleStoreBounds == MaxRevision \in Nat

VARIABLES
    active,        \* rule_resources.active_revision; Nothing if there is no such rule
    revisions,     \* rule_revisions: the entries committed
    session,       \* per process: its open transaction
    saved,         \* observation variable: the entries whose save succeeded
    lastSaved      \* observation variable: per rule the revision saved last, or Nothing

storeVars == <<active, revisions, session, saved, lastSaved>>
vars == <<migrationVars, storeVars>>

Nothing == 0

\* todo is what is left of the entries, each in three statements; the other fields are
\* what the transaction has inserted and updated.
Closed == [kind |-> "none", step |-> "resource", todo |-> <<>>,
           resources |-> {}, entries |-> {}, activated |-> {}]
Opened(kind, todo) == [Closed EXCEPT !.kind = kind, !.todo = todo]

NoRules ==
    /\ active = [r \in Rules |-> Nothing]
    /\ revisions = {}
    /\ saved = {}
    /\ lastSaved = [r \in Rules |-> Nothing]

StoreInit == Init /\ NoRules /\ session = [p \in Procs |-> Closed]

-----------------------------------------------------------------------------

\* The tables of the rules come with the first migration.
Usable == applied[1] # 0
Idle(p) == At(p, "ready") /\ session[p] = Closed

Begins(p, kind, todo) ==
    /\ Idle(p) /\ Usable
    /\ session' = [session EXCEPT ![p] = Opened(kind, todo)]
    /\ UNCHANGED <<migrationVars, active, revisions, saved, lastSaved>>

\* SaveRule's first statement: the revision after the highest committed one.
RevisionsOf(r) == {e.revision : e \in {x \in revisions : x.rule = r}}
NextRevision(r) == Sets!Max(RevisionsOf(r) \cup {0}) + 1

SaveBegins(p, r, definition) ==
    /\ NextRevision(r) \in Revisions
    /\ Begins(p, "save", <<[rule |-> r, revision |-> NextRevision(r), definition |-> definition]>>)

\* Seeding takes the rules of a file in its order.
\* Mutant: they are kept in a map.
SeedOrdersOfMap(file) == {file, [i \in DOMAIN file |-> file[Len(file) + 1 - i]]}
SeedOrders(file) == {file}

SeedBegins(p, file) == \E todo \in SeedOrders(file) : Begins(p, "seed", todo)

Busy(p, step) == session[p].todo # <<>> /\ session[p].step = step
EntryOf(p) == Head(session[p].todo)
Others(p) == Procs \ {p}

\* INSERT INTO rule_resources ... ON CONFLICT DO NOTHING.
ResourceAwaits(p) == {q \in Others(p) : EntryOf(p).rule \in session[q].resources}

InsertsResource(p) ==
    /\ Busy(p, "resource") /\ ResourceAwaits(p) = {}
    /\ session' = [session EXCEPT
                     ![p].step = "revision",
                     ![p].resources = IF active[EntryOf(p).rule] = Nothing
                                        THEN @ \cup {EntryOf(p).rule} ELSE @]
    /\ UNCHANGED <<migrationVars, active, revisions, saved, lastSaved>>

\* INSERT INTO rule_revisions: seeding leaves a revision that is there alone, saving
\* fails on it.
SameKey(e, f) == e.rule = f.rule /\ e.revision = f.revision
RevisionAwaits(p) ==
    {q \in Others(p) : \E e \in session[q].entries : SameKey(e, EntryOf(p))}
RevisionExists(p) ==
    \E e \in revisions \cup session[p].entries : SameKey(e, EntryOf(p))

\* Mutant: saving leaves it alone, too.
SaveNeverConflicts(p) == FALSE
SaveConflicts(p) == session[p].kind = "save" /\ RevisionExists(p)

InsertsRevision(p) ==
    /\ Busy(p, "revision") /\ RevisionAwaits(p) = {} /\ ~SaveConflicts(p)
    /\ session' = [session EXCEPT
                     ![p].step = "active",
                     ![p].entries = IF RevisionExists(p) THEN @ ELSE @ \cup {EntryOf(p)}]
    /\ UNCHANGED <<migrationVars, active, revisions, saved, lastSaved>>

\* UPDATE rule_resources: saving activates its revision, seeding that of a rule without
\* one, which only its own transaction can have inserted.
\* Mutant: seeding activates the file's revision.
ActivatesAlways(p) == TRUE
Activates(p) ==
    \/ session[p].kind = "save"
    \/ EntryOf(p).rule \in session[p].resources
       /\ \A e \in session[p].activated : e.rule # EntryOf(p).rule

ActiveAwaits(p) ==
    {q \in Others(p) : \E e \in session[q].activated : e.rule = EntryOf(p).rule}

UpdatesActive(p) ==
    /\ Busy(p, "active")
    /\ Activates(p) => ActiveAwaits(p) = {}
    /\ session' = [session EXCEPT
                     ![p].step = "resource",
                     ![p].todo = Tail(@),
                     ![p].activated = IF Activates(p) THEN @ \cup {EntryOf(p)} ELSE @]
    /\ UNCHANGED <<migrationVars, active, revisions, saved, lastSaved>>

Commits(p) ==
    LET s == session[p]
        new == [r \in Rules |-> {e \in s.activated : e.rule = r}]
    IN
    /\ s.kind # "none" /\ s.todo = <<>>
    /\ revisions' = revisions \cup s.entries
    /\ active' = [r \in Rules |-> IF new[r] = {} THEN active[r]
                                  ELSE (CHOOSE e \in new[r] : TRUE).revision]
    /\ saved' = IF s.kind = "save" THEN saved \cup s.activated ELSE saved
    /\ lastSaved' = [r \in Rules |-> IF s.kind = "save" /\ new[r] # {}
                                       THEN (CHOOSE e \in new[r] : TRUE).revision
                                       ELSE lastSaved[r]]
    /\ session' = [session EXCEPT ![p] = Closed]
    /\ UNCHANGED migrationVars

RollsBack(p) ==
    /\ session[p] # Closed
    /\ session' = [session EXCEPT ![p] = Closed]
    /\ UNCHANGED <<migrationVars, active, revisions, saved, lastSaved>>

-----------------------------------------------------------------------------
(* The migrations, in processes that may have a transaction open. *)

StopsWithSession(p) ==
    /\ Stops(p)
    /\ session' = [session EXCEPT ![p] = Closed]
    /\ UNCHANGED <<active, revisions, saved, lastSaved>>

ResetsStore(p) ==
    /\ Resets(p)
    /\ \A q \in Procs : session[q] = Closed
    /\ active' = [r \in Rules |-> Nothing]
    /\ revisions' = {} /\ saved' = {}
    /\ lastSaved' = [r \in Rules |-> Nothing]
    /\ UNCHANGED session

Step(p) ==
    \/ StartProcess(p) /\ UNCHANGED storeVars
    \/ Migrates(p) /\ UNCHANGED storeVars
    \/ StopsWithSession(p)
    \/ ResetsStore(p)
    \/ \E r \in Rules, d \in Definitions : SaveBegins(p, r, d)
    \/ \E file \in Files : SeedBegins(p, file)
    \/ InsertsResource(p)
    \/ InsertsRevision(p)
    \/ UpdatesActive(p)
    \/ Commits(p)
    \/ RollsBack(p)

StoreNext == \E p \in Procs : Step(p)

\* A process goes on unless it is stopped, and the database grants a lock in the order
\* it was asked for.
Fairness ==
    \A p \in Procs : /\ WF_vars(Migrates(p) /\ UNCHANGED storeVars)
                    /\ SF_vars(TakesLock(p) /\ UNCHANGED storeVars)

StoreSpec == StoreInit /\ [][StoreNext]_vars /\ Fairness

-----------------------------------------------------------------------------

\* A save that succeeded has a revision of its own: nobody else's save or file has
\* taken its number, before or after.
SavedRevisionsStand ==
    /\ saved \subseteq revisions
    /\ \A e, f \in revisions : SameKey(e, f) => e = f

\* activeFromDB: what the next replay evaluates.
ActiveRules == {e \in revisions : e.revision = active[e.rule]}

\* Whatever is seeded meanwhile, it evaluates the definition that was saved last.
LastSaveIsActive ==
    \A r \in Rules : lastSaved[r] # Nothing =>
        \E e \in saved : /\ {f \in ActiveRules : f.rule = r} = {e}
                        /\ e.revision = lastSaved[r]

\* Saves and replays of one file never wait for one another in a circle.
Awaits(p) ==
    IF Busy(p, "resource") THEN ResourceAwaits(p)
    ELSE IF Busy(p, "revision") THEN RevisionAwaits(p)
    ELSE IF Busy(p, "active") /\ Activates(p) THEN ActiveAwaits(p)
    ELSE {}

NoCircularWait ==
    \A S \in (SUBSET Procs) \ {{}} : \E p \in S : Awaits(p) \cap S = {}
=============================================================================
