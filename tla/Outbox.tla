------------------------------- MODULE Outbox -------------------------------
(***************************************************************************)
(* The notification outbox in PostgreSQL (internal/storage/work.go): the   *)
(* tables notification_intents, delivery_attempts and                      *)
(* notification_deliveries, and the transactions workers run on them.      *)
(* Transactions are READ COMMITTED (WithTx in internal/storage/db.go).     *)
(* Claiming and beginning an attempt work under the lock of the intent's   *)
(* row and are single steps here; FinishDeliveryAttempt is not: its first  *)
(* statement reads the intent without a lock, so its statements are steps  *)
(* of their own.                                                           *)
(***************************************************************************)
EXTENDS Naturals, Sequences, FiniteSets

CONSTANTS
    Intents,       \* numbered in the order of (created_at, intent_id)
    Workers,
    Lease,         \* how long a claim lasts
    MaxTime,       \* bound: the last instant
    MaxAttempts    \* bound: attempts per intent

ASSUME IntentsAssumption == Intents \subseteq Nat \ {0}
ASSUME LeaseAssumption == Lease \in Nat \ {0}
ASSUME OutboxBounds == MaxTime \in Nat /\ MaxAttempts \in Nat

VARIABLES
    now,           \* the workers' clock
    row,           \* notification_intents: state, claim_token, claimed_until
    attempts,      \* delivery_attempts per intent, by attempt_number: their states
    delivery,      \* notification_deliveries per intent: the attempt, or None
    tokens,        \* claim tokens handed out; each claim brings a fresh one
    worker         \* what each worker holds and where in Finish it is

vars == <<now, row, attempts, delivery, tokens, worker>>

None == 0          \* NULL, and the absent delivery, token, intent or attempt

States == {"absent", "pending", "claimed", "delivered", "failed"}
Outcomes == {"succeeded", "failed"}

Row == [state : States, token : Nat, until : Nat]

\* step: between calls, or after the first or the second statement of Finish.
Worker == [intent : Intents \cup {None}, token : Nat, attempt : Nat,
           step : {"called", "recorded", "inserted"}, outcome : Outcomes]
Resting == [intent |-> None, token |-> None, attempt |-> None,
            step |-> "called", outcome |-> "failed"]

-----------------------------------------------------------------------------

Init ==
    /\ now = 0
    /\ row = [i \in Intents |-> [state |-> "absent", token |-> None, until |-> None]]
    /\ attempts = [i \in Intents |-> <<>>]
    /\ delivery = [i \in Intents |-> None]
    /\ tokens = 0
    /\ worker = [w \in Workers |-> Resting]

\* EnsureNotificationIntent, of either kind: inserts the intent of an alert transition.
\* The one that is there it leaves alone, whether its data are the same, which is a
\* success, or others, which is an error; either changes nothing and is no step here.
Ensure(i) ==
    /\ \A j \in Intents : j < i => row[j].state # "absent"
    /\ row[i].state = "absent"
    /\ row' = [row EXCEPT ![i].state = "pending"]
    /\ UNCHANGED <<now, attempts, delivery, tokens, worker>>

\* A transaction that has inserted the delivery of i holds a key lock on i's row.
Locked(i) == \E w \in Workers : worker[w].intent = i /\ worker[w].step = "inserted"

\* claimed_until IS NULL OR claimed_until <= now; a claimed row always has it set.
\* Mutant: a delivered intent may be claimed again.
ClaimableDelivered(i) == row[i].state # "absent" /\ row[i].until <= now
Claimable(i) ==
    /\ row[i].state \in {"pending", "claimed", "failed"}
    /\ row[i].until <= now

\* The caller's claim token, fresh for each claim.
\* Mutant: the token names the intent only.
IntentToken(i) == i
FreshToken(i) == tokens + 1

\* ClaimNotificationIntents with limit 1: the oldest claimable intent not locked.
Claim(w) ==
    /\ worker[w].step = "called"
    /\ \E i \in Intents :
         /\ Claimable(i) /\ ~Locked(i)
         /\ \A j \in Intents : j < i => ~(Claimable(j) /\ ~Locked(j))
         /\ row' = [row EXCEPT ![i] =
                      [state |-> "claimed", token |-> FreshToken(i), until |-> now + Lease]]
         /\ worker' = [worker EXCEPT ![w] =
                         [Resting EXCEPT !.intent = i, !.token = FreshToken(i)]]
    /\ tokens' = tokens + 1
    /\ UNCHANGED <<now, attempts, delivery>>

\* The condition every later statement puts on the intent's row.
HoldsClaim(w, i) == row[i].state = "claimed" /\ row[i].token = worker[w].token
LiveClaim(w, i) == HoldsClaim(w, i) /\ row[i].until > now

\* BeginDeliveryAttempt locks the row, numbers the attempt and inserts it.
Begin(w) ==
    LET i == worker[w].intent IN
    /\ worker[w].step = "called" /\ i # None
    /\ LiveClaim(w, i) /\ ~Locked(i)
    /\ Len(attempts[i]) < MaxAttempts
    /\ attempts' = [attempts EXCEPT ![i] = Append(@, "started")]
    /\ worker' = [worker EXCEPT ![w].attempt = Len(attempts[i]) + 1]
    /\ UNCHANGED <<now, row, delivery, tokens>>

\* FinishDeliveryAttempt, first statement: the attempt's new state, if the claim is
\* live.  It becomes visible with the commit.
FinishRecords(w, outcome) ==
    LET i == worker[w].intent IN
    /\ worker[w].step = "called" /\ worker[w].attempt # None
    /\ LiveClaim(w, i)
    /\ worker' = [worker EXCEPT ![w].step = "recorded", ![w].outcome = outcome]
    /\ UNCHANGED <<now, row, attempts, delivery, tokens>>

\* Otherwise nothing is changed and the worker learns that it is too late.
FinishTooLate(w) ==
    LET i == worker[w].intent IN
    /\ worker[w].step = "called" /\ worker[w].attempt # None
    /\ ~LiveClaim(w, i)
    /\ worker' = [worker EXCEPT ![w] = Resting]
    /\ UNCHANGED <<now, row, attempts, delivery, tokens>>

\* Second statement, after success: the visible delivery, one per intent.  It waits for
\* a transaction that inserts the same key, and fails if the key is there.
FinishInserts(w) ==
    LET i == worker[w].intent IN
    /\ worker[w].step = "recorded" /\ worker[w].outcome = "succeeded"
    /\ ~Locked(i)
    /\ worker' = [worker EXCEPT ![w] =
                    [@ EXCEPT !.step = IF delivery[i] = None THEN "inserted" ELSE "called"]]
    /\ UNCHANGED <<now, row, attempts, delivery, tokens>>

\* Third statement and commit: the intent is closed if the claim is still the worker's,
\* whether or not its lease has run out; how many rows that changed is not looked at.
ReadyToCommit(w) ==
    \/ worker[w].step = "inserted"
    \/ worker[w].step = "recorded" /\ worker[w].outcome = "failed"

\* Mutant: a failed attempt is recorded as the intent's delivery, too.
DeliveredByAny(w, i) == worker[w].attempt
DeliveredBy(w, i) ==
    IF worker[w].step = "inserted" THEN worker[w].attempt ELSE delivery[i]

Closed(r, outcome) ==
    [r EXCEPT !.state = IF outcome = "succeeded" THEN "delivered" ELSE "failed",
              !.until = None]

FinishCommits(w) ==
    LET i == worker[w].intent
        outcome == worker[w].outcome
    IN
    /\ ReadyToCommit(w)
    /\ attempts' = [attempts EXCEPT ![i][worker[w].attempt] = outcome]
    /\ delivery' = [delivery EXCEPT ![i] = DeliveredBy(w, i)]
    /\ row' = IF HoldsClaim(w, i) THEN [row EXCEPT ![i] = Closed(@, outcome)] ELSE row
    /\ worker' = [worker EXCEPT ![w] = Resting]
    /\ UNCHANGED <<now, tokens>>

\* A worker stops, or its connection is lost: its open transaction is rolled back.
Crash(w) ==
    /\ worker[w] # Resting
    /\ worker' = [worker EXCEPT ![w] = Resting]
    /\ UNCHANGED <<now, row, attempts, delivery, tokens>>

Tick ==
    /\ now < MaxTime
    /\ now' = now + 1
    /\ UNCHANGED <<row, attempts, delivery, tokens, worker>>

Next ==
    \/ \E i \in Intents : Ensure(i)
    \/ \E w \in Workers : Claim(w)
    \/ \E w \in Workers : Begin(w)
    \/ \E w \in Workers, outcome \in Outcomes : FinishRecords(w, outcome)
    \/ \E w \in Workers : FinishTooLate(w)
    \/ \E w \in Workers : FinishInserts(w)
    \/ \E w \in Workers : FinishCommits(w)
    \/ \E w \in Workers : Crash(w)
    \/ Tick

Spec == Init /\ [][Next]_vars

-----------------------------------------------------------------------------

\* Every table and worker keeps its shape.
TypeOK ==
    /\ now \in Nat
    /\ tokens \in Nat
    /\ row \in [Intents -> Row]
    /\ attempts \in [Intents -> Seq({"started"} \cup Outcomes)]
    /\ delivery \in [Intents -> Nat]
    /\ worker \in [Workers -> Worker]

\* However leases run out under running workers: an intent has at most one delivery, by
\* the one attempt that is recorded as succeeded, and it counts as delivered only then.
DeliveredOnce ==
    \A i \in Intents :
        /\ {k \in DOMAIN attempts[i] : attempts[i][k] = "succeeded"} =
             IF delivery[i] = None THEN {} ELSE {delivery[i]}
        /\ row[i].state = "delivered" => delivery[i] # None

\* Two workers never hold the same intent under live claims.
ExclusiveClaim ==
    \A v, w \in Workers, i \in Intents :
        worker[v].intent = i /\ worker[w].intent = i /\ LiveClaim(v, i) /\ LiveClaim(w, i)
            => v = w

\* What is finished stays: a delivered intent is never claimed again, and no attempt's
\* outcome and no delivery is overwritten by a late worker.
FinishedIsFinal ==
    [][\A i \in Intents :
         /\ row[i].state = "delivered" => row'[i] = row[i]
         /\ delivery[i] # None => delivery'[i] = delivery[i]
         /\ \A k \in DOMAIN attempts[i] :
              attempts[i][k] # "started" => attempts'[i][k] = attempts[i][k]]_vars

\* What the delivery reducer promises and asks of storage adapters
\* (notifications.go:120, 137): completion succeeds only for the current claim, so an
\* intent whose delivery is recorded is delivered and not handed out again.
RecordedIsDelivered == \A i \in Intents : delivery[i] # None => row[i].state = "delivered"
=============================================================================
