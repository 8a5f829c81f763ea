---------------------------- MODULE OutboxProofs ----------------------------
(***************************************************************************)
(* Theorems about the notification outbox, for every set of intents and    *)
(* workers and every lease.                                                *)
(***************************************************************************)
EXTENDS Outbox, SequenceTheorems, TLAPS

\* A token is held by the worker that claimed with it, and by no other.
TokensAreFresh ==
    /\ \A w \in Workers : worker[w].token <= tokens
    /\ \A v, w \in Workers :
         worker[v].token = worker[w].token /\ worker[v].token # None => v = w
    /\ \A i \in Intents : row[i].state = "claimed" => row[i].token # None

\* An attempt is open while a worker has it, and it belongs to one worker.
Has(w, i, k) == worker[w].intent = i /\ worker[w].attempt = k

AttemptsAreOwned ==
    /\ \A w \in Workers : worker[w].attempt # None =>
         /\ worker[w].intent # None
         /\ worker[w].attempt \in DOMAIN attempts[worker[w].intent]
         /\ attempts[worker[w].intent][worker[w].attempt] = "started"
    /\ \A v, w \in Workers, i \in Intents, k \in Nat \ {None} :
         Has(v, i, k) /\ Has(w, i, k) => v = w

\* The insertion into notification_deliveries is exclusive until the commit.
InsertsAlone ==
    /\ \A w \in Workers : worker[w].step # "called" => worker[w].attempt # None
    /\ \A w \in Workers : worker[w].step = "inserted" =>
         worker[w].outcome = "succeeded" /\ delivery[worker[w].intent] = None
    /\ \A v, w \in Workers :
         worker[v].step = "inserted" /\ worker[w].step = "inserted"
         /\ worker[v].intent = worker[w].intent => v = w

OutboxInv == TypeOK /\ TokensAreFresh /\ AttemptsAreOwned /\ InsertsAlone /\ DeliveredOnce

LEMMA NoneIsNoIntent == None \notin Intents
BY IntentsAssumption DEF None

LEMMA InitOutboxInv == Init => OutboxInv
<1> SUFFICES ASSUME Init PROVE OutboxInv
  OBVIOUS
<1>1. TypeOK
  BY DEF Init, TypeOK, Row, States, None, Worker, Resting, Outcomes
<1>2. /\ tokens = 0 /\ \A i \in Intents : row[i].state = "absent"
      /\ \A w \in Workers : /\ worker[w].token = 0 /\ worker[w].attempt = 0
                            /\ worker[w].step = "called"
  BY DEF Init, Resting, None
<1>5. TokensAreFresh
  BY <1>2 DEF TokensAreFresh, None
<1>6. AttemptsAreOwned
  BY <1>2 DEF AttemptsAreOwned, Has, None
<1>7. InsertsAlone
  BY <1>2 DEF InsertsAlone
<1>3. DeliveredOnce
  BY DEF Init, DeliveredOnce, None
<1>4. QED BY <1>1, <1>3, <1>5, <1>6, <1>7 DEF OutboxInv

\* The steps that touch neither attempts nor deliveries nor what a worker inserted.
Same == UNCHANGED <<attempts, delivery>>

\* A worker that rests, or has just claimed, has no attempt and no open statement.
LEMMA LoseAttempt ==
    ASSUME OutboxInv, NEW w \in Workers, NEW r \in Worker, r.attempt = None, r.step = "called",
           worker' = [worker EXCEPT ![w] = r], Same
    PROVE  AttemptsAreOwned' /\ InsertsAlone'
<1>1. \A v \in Workers : worker'[v] = IF v = w THEN r ELSE worker[v]
  BY DEF OutboxInv, TypeOK
<1>2. AttemptsAreOwned'
  BY <1>1 DEF OutboxInv, AttemptsAreOwned, Has, Same
<1>3. InsertsAlone'
  <2>1. \A v \in Workers : worker'[v].step # "called" => v # w /\ worker'[v] = worker[v]
    BY <1>1
  <2>2. delivery' = delivery
    BY DEF Same
  <2>3. QED BY <2>1, <2>2 DEF OutboxInv, InsertsAlone
<1>4. QED BY <1>2, <1>3

LEMMA RestingIsWorker == Resting \in Worker
BY DEF Resting, Worker, Outcomes, None

\* The worker stops having anything.
LEMMA Rests ==
    ASSUME OutboxInv, NEW w \in Workers, worker' = [worker EXCEPT ![w] = Resting],
           UNCHANGED <<now, row, attempts, delivery, tokens>>
    PROVE  OutboxInv'
<1>1. TypeOK'
  BY RestingIsWorker DEF OutboxInv, TypeOK
<1>2. TokensAreFresh'
  BY DEF OutboxInv, TypeOK, TokensAreFresh, Resting, None
<1>3. AttemptsAreOwned' /\ InsertsAlone'
  BY LoseAttempt, RestingIsWorker DEF Resting, Same
<1>4. DeliveredOnce'
  BY DEF OutboxInv, DeliveredOnce
<1>5. QED BY <1>1, <1>2, <1>3, <1>4 DEF OutboxInv

LEMMA EnsureKeeps ==
    ASSUME OutboxInv, NEW i \in Intents, Ensure(i) PROVE OutboxInv'
<1> USE DEF OutboxInv, Ensure
<1>1. TypeOK'
  BY DEF TypeOK, Row, States
<1>2. TokensAreFresh'
  BY DEF TypeOK, TokensAreFresh, Row
<1>3. AttemptsAreOwned' /\ InsertsAlone'
  BY DEF AttemptsAreOwned, InsertsAlone, Has
<1>4. DeliveredOnce'
  BY DEF DeliveredOnce, TypeOK, Row
<1>5. QED BY <1>1, <1>2, <1>3, <1>4

LEMMA ClaimKeeps ==
    ASSUME OutboxInv, NEW w \in Workers, Claim(w) PROVE OutboxInv'
<1>1. PICK i \in Intents :
        /\ Claimable(i)
        /\ row' = [row EXCEPT ![i] =
                     [state |-> "claimed", token |-> FreshToken(i), until |-> now + Lease]]
        /\ worker' = [worker EXCEPT ![w] = [Resting EXCEPT !.intent = i, !.token = FreshToken(i)]]
  BY DEF Claim
<1> DEFINE mine == [Resting EXCEPT !.intent = i, !.token = FreshToken(i)]
<1>2. tokens' = tokens + 1 /\ FreshToken(i) = tokens + 1 /\ tokens \in Nat
      /\ UNCHANGED <<now, attempts, delivery>>
  BY DEF Claim, FreshToken, OutboxInv, TypeOK
<1>3. mine \in Worker /\ mine.attempt = None /\ mine.step = "called" /\ mine.token = tokens + 1
  <2> DEFINE some == [Resting EXCEPT !.intent = i]
  <2>2. Resting \in Worker /\ Resting.attempt = None /\ Resting.step = "called"
    BY RestingIsWorker DEF Resting
  <2>1. some \in Worker /\ some.attempt = None /\ some.step = "called"
    BY <2>2 DEF Worker
  <2> HIDE DEF some
  <2>3. mine = [some EXCEPT !.token = FreshToken(i)]
    BY Zenon DEF some
  <2> HIDE DEF mine
  <2>4. mine \in Worker /\ mine.attempt = None /\ mine.step = "called" /\ mine.token = FreshToken(i)
    BY <1>2, <2>1, <2>3 DEF Worker
  <2>5. QED BY <1>2, <2>4
<1>4. [state |-> "claimed", token |-> FreshToken(i), until |-> now + Lease] \in Row
  BY <1>2, LeaseAssumption DEF Row, States, OutboxInv, TypeOK
<1>5. TypeOK'
  BY <1>1, <1>2, <1>3, <1>4 DEF OutboxInv, TypeOK
<1>6. TokensAreFresh'
  <2>1. \A v \in Workers : worker'[v].token = IF v = w THEN tokens + 1 ELSE worker[v].token
    BY <1>1, <1>3 DEF OutboxInv, TypeOK
  <2>2. \A v \in Workers : worker[v].token \in Nat /\ worker[v].token <= tokens
    BY DEF OutboxInv, TypeOK, Worker, TokensAreFresh
  <2>3. \A j \in Intents : row'[j].state = "claimed" => row'[j].token # None
    BY <1>1, <1>2 DEF OutboxInv, TypeOK, TokensAreFresh, None
  <2>4. QED BY <1>2, <2>1, <2>2, <2>3 DEF OutboxInv, TokensAreFresh, None
<1>7. AttemptsAreOwned' /\ InsertsAlone'
  BY <1>1, <1>2, <1>3, LoseAttempt DEF Same
<1>8. DeliveredOnce'
  BY <1>1, <1>2 DEF OutboxInv, DeliveredOnce, TypeOK
<1>9. QED BY <1>5, <1>6, <1>7, <1>8 DEF OutboxInv

LEMMA BeginKeeps ==
    ASSUME OutboxInv, NEW w \in Workers, Begin(w) PROVE OutboxInv'
<1> DEFINE i == worker[w].intent
<1> DEFINE n == Len(attempts[i]) + 1
<1>1. /\ worker[w].step = "called" /\ i \in Intents /\ LiveClaim(w, i)
      /\ attempts' = [attempts EXCEPT ![i] = Append(@, "started")]
      /\ worker' = [worker EXCEPT ![w].attempt = n]
      /\ UNCHANGED <<now, row, delivery, tokens>>
  BY DEF Begin, OutboxInv, TypeOK, Worker, None
<1>2. attempts[i] \in Seq({"started"} \cup Outcomes) /\ n \in Nat \ {None}
  BY <1>1 DEF OutboxInv, TypeOK, None
<1>3. /\ attempts'[i] = Append(attempts[i], "started")
      /\ attempts'[i] \in Seq({"started"} \cup Outcomes)
      /\ DOMAIN attempts'[i] = DOMAIN attempts[i] \cup {n} /\ n \notin DOMAIN attempts[i]
      /\ \A k \in DOMAIN attempts[i] : attempts'[i][k] = attempts[i][k]
      /\ attempts'[i][n] = "started"
  BY <1>1, <1>2 DEF OutboxInv, TypeOK
<1>4. \A j \in Intents \ {i} : attempts'[j] = attempts[j]
  BY <1>1 DEF OutboxInv, TypeOK
<1>5. /\ worker'[w] = [worker[w] EXCEPT !.attempt = n]
      /\ \A v \in Workers \ {w} : worker'[v] = worker[v]
  BY <1>1 DEF OutboxInv, TypeOK
<1>6. worker'[w] \in Worker /\ worker'[w].intent = i /\ worker'[w].attempt = n
      /\ worker'[w].step = "called" /\ worker'[w].token = worker[w].token
  BY <1>1, <1>2, <1>5 DEF OutboxInv, TypeOK, Worker
<1>7. TypeOK'
  BY <1>1, <1>3, <1>5, <1>6 DEF OutboxInv, TypeOK
<1>8. TokensAreFresh'
  BY <1>1, <1>5, <1>6 DEF OutboxInv, TokensAreFresh
<1>9. AttemptsAreOwned'
  <2>1. \A v \in Workers \ {w} : worker'[v].attempt # None =>
          /\ worker'[v].intent \in Intents
          /\ worker'[v].attempt \in DOMAIN attempts[worker'[v].intent]
          /\ attempts[worker'[v].intent][worker'[v].attempt] = "started"
    BY <1>5 DEF OutboxInv, AttemptsAreOwned, TypeOK, Worker
  <2>2. ASSUME NEW v \in Workers \ {w}, worker'[v].intent = i, worker'[v].attempt = n PROVE FALSE
    <3>1. worker'[v].attempt # None /\ worker'[v].attempt \in DOMAIN attempts[worker'[v].intent]
      BY <2>1, <2>2, <1>2
    <3>2. n \in DOMAIN attempts[i]
      BY <3>1, <2>2
    <3>3. QED BY <3>2, <1>3
  <2>3. \A v \in Workers : worker'[v].attempt # None =>
          /\ worker'[v].intent # None
          /\ worker'[v].attempt \in DOMAIN attempts'[worker'[v].intent]
          /\ attempts'[worker'[v].intent][worker'[v].attempt] = "started"
    <3>1. ASSUME NEW v \in Workers \ {w}, worker'[v].attempt # None
          PROVE  /\ worker'[v].attempt \in DOMAIN attempts'[worker'[v].intent]
                 /\ attempts'[worker'[v].intent][worker'[v].attempt] = "started"
      <4>1. CASE worker'[v].intent = i
        BY <4>1, <3>1, <2>1, <1>3
      <4>2. CASE worker'[v].intent # i
        BY <4>2, <3>1, <2>1, <1>4
      <4>3. QED BY <4>1, <4>2
    <3>2. n \in DOMAIN attempts'[i] /\ attempts'[i][n] = "started"
      BY <1>3
    <3>3. QED BY <3>1, <3>2, <1>1, <1>6, <2>1, NoneIsNoIntent
  <2>4. ASSUME NEW u \in Workers, NEW v \in Workers, NEW j \in Intents, NEW k \in Nat \ {None},
               Has(u, j, k)', Has(v, j, k)'
        PROVE  u = v
    <3>1. CASE u = w \/ v = w
      <4>1. worker'[u].intent = j /\ worker'[v].intent = j /\ worker'[u].attempt = k
            /\ worker'[v].attempt = k
        BY <2>4 DEF Has
      <4>2. j = i /\ k = n
        BY <3>1, <4>1, <1>6
      <4>3. QED BY <3>1, <4>1, <4>2, <2>2
    <3>2. CASE u # w /\ v # w
      BY <3>2, <2>4, <1>5 DEF Has, OutboxInv, AttemptsAreOwned
    <3>3. QED BY <3>1, <3>2
  <2>5. QED BY <2>3, <2>4 DEF AttemptsAreOwned
<1>10. InsertsAlone'
  BY <1>1, <1>2, <1>5, <1>6 DEF OutboxInv, InsertsAlone
<1>11. DeliveredOnce'
  <2>1. ASSUME NEW j \in Intents
        PROVE  {k \in DOMAIN attempts'[j] : attempts'[j][k] = "succeeded"}
                 = {k \in DOMAIN attempts[j] : attempts[j][k] = "succeeded"}
    BY <1>3, <1>4
  <2>2. QED BY <1>1, <2>1 DEF OutboxInv, DeliveredOnce
<1>12. QED BY <1>7, <1>8, <1>9, <1>10, <1>11 DEF OutboxInv

\* A statement of Finish that moves the worker on without showing anything.
LEMMA StepsOn ==
    ASSUME OutboxInv, NEW w \in Workers, worker[w].attempt # None,
           NEW r \in Worker, worker' = [worker EXCEPT ![w] = r],
           r.intent = worker[w].intent, r.token = worker[w].token,
           r.attempt = worker[w].attempt,
           r.step = "inserted" =>
              /\ r.outcome = "succeeded" /\ delivery[r.intent] = None /\ ~Locked(r.intent),
           UNCHANGED <<now, row, attempts, delivery, tokens>>
    PROVE  OutboxInv'
<1>1. \A v \in Workers : worker'[v] = IF v = w THEN r ELSE worker[v]
  BY DEF OutboxInv, TypeOK
<1>2. TypeOK'
  BY DEF OutboxInv, TypeOK
<1>3. TokensAreFresh'
  BY <1>1 DEF OutboxInv, TokensAreFresh
<1>4. AttemptsAreOwned'
  BY <1>1 DEF OutboxInv, AttemptsAreOwned, Has
<1>5. InsertsAlone'
  <2>1. \A v \in Workers : worker'[v].step # "called" => worker'[v].attempt # None
    BY <1>1 DEF OutboxInv, InsertsAlone
  <2>2. \A v \in Workers : worker'[v].step = "inserted" =>
          worker'[v].outcome = "succeeded" /\ delivery'[worker'[v].intent] = None
    BY <1>1 DEF OutboxInv, InsertsAlone
  <2>3. ASSUME NEW u \in Workers, NEW v \in Workers, worker'[u].step = "inserted",
               worker'[v].step = "inserted", worker'[u].intent = worker'[v].intent
        PROVE  u = v
    <3>1. CASE u # w /\ v # w
      BY <3>1, <2>3, <1>1 DEF OutboxInv, InsertsAlone
    <3>2. CASE u = w
      BY <3>2, <2>3, <1>1 DEF Locked
    <3>3. CASE v = w
      BY <3>3, <2>3, <1>1 DEF Locked
    <3>4. QED BY <3>1, <3>2, <3>3
  <2>4. QED BY <2>1, <2>2, <2>3 DEF InsertsAlone
<1>6. DeliveredOnce'
  BY DEF OutboxInv, DeliveredOnce
<1>7. QED BY <1>2, <1>3, <1>4, <1>5, <1>6 DEF OutboxInv

LEMMA FinishRecordsKeeps ==
    ASSUME OutboxInv, NEW w \in Workers, NEW outcome \in Outcomes, FinishRecords(w, outcome)
    PROVE  OutboxInv'
<1> DEFINE r == [worker[w] EXCEPT !.step = "recorded", !.outcome = outcome]
<1>1. worker' = [worker EXCEPT ![w] = r]
  BY DEF FinishRecords, OutboxInv, TypeOK
<1>2. r \in Worker /\ r.intent = worker[w].intent /\ r.token = worker[w].token
      /\ r.attempt = worker[w].attempt /\ r.step = "recorded"
  BY DEF OutboxInv, TypeOK, Worker
<1>3. worker[w].attempt # None /\ UNCHANGED <<now, row, attempts, delivery, tokens>>
  BY DEF FinishRecords
<1>4. QED BY <1>1, <1>2, <1>3, StepsOn

LEMMA FinishInsertsKeeps ==
    ASSUME OutboxInv, NEW w \in Workers, FinishInserts(w)
    PROVE  OutboxInv'
<1> DEFINE i == worker[w].intent
<1> DEFINE r == [worker[w] EXCEPT !.step = IF delivery[i] = None THEN "inserted" ELSE "called"]
<1>1. worker' = [worker EXCEPT ![w] = r]
  BY DEF FinishInserts, OutboxInv, TypeOK
<1>2. r \in Worker /\ r.intent = i /\ r.token = worker[w].token
      /\ r.attempt = worker[w].attempt /\ r.outcome = worker[w].outcome
  BY DEF OutboxInv, TypeOK, Worker
<1>3. /\ worker[w].step = "recorded" /\ worker[w].outcome = "succeeded" /\ ~Locked(i)
      /\ UNCHANGED <<now, row, attempts, delivery, tokens>>
  BY DEF FinishInserts
<1>4. worker[w].attempt # None
  BY <1>3 DEF OutboxInv, InsertsAlone
<1>5. r.step = "inserted" => delivery[i] = None
  BY DEF OutboxInv, TypeOK, Worker
<1>6. QED BY <1>1, <1>2, <1>3, <1>4, <1>5, StepsOn

\* What the commit of Finish works on.
LEMMA Committing ==
    ASSUME OutboxInv, NEW w \in Workers, ReadyToCommit(w)
    PROVE  /\ worker[w].intent \in Intents
           /\ worker[w].attempt \in DOMAIN attempts[worker[w].intent]
           /\ worker[w].attempt \in Nat \ {None}
           /\ attempts[worker[w].intent][worker[w].attempt] = "started"
           /\ worker[w].step = "inserted" => /\ worker[w].outcome = "succeeded"
                                             /\ delivery[worker[w].intent] = None
           /\ worker[w].step # "inserted" => worker[w].outcome = "failed"
BY DEF OutboxInv, ReadyToCommit, InsertsAlone, AttemptsAreOwned, TypeOK, Worker, None

LEMMA ClosedRow ==
    ASSUME NEW r \in Row, NEW outcome \in Outcomes
    PROVE  /\ Closed(r, outcome) \in Row /\ Closed(r, outcome).state # "claimed"
           /\ Closed(r, outcome).state = "delivered" => outcome = "succeeded"
<1> DEFINE new == IF outcome = "succeeded" THEN "delivered" ELSE "failed"
<1>1. new \in States /\ new # "claimed" /\ (new = "delivered" => outcome = "succeeded")
  BY DEF States
<1> HIDE DEF new
<1> DEFINE moved == [r EXCEPT !.state = new]
<1>2. moved \in Row /\ moved.state = new
  BY <1>1 DEF Row
<1> HIDE DEF moved
<1>3. Closed(r, outcome) = [moved EXCEPT !.until = None]
  BY Zenon DEF Closed, new, moved
<1>4. QED BY <1>1, <1>2, <1>3 DEF Row, None

LEMMA FinishCommitsKeeps ==
    ASSUME OutboxInv, NEW w \in Workers, FinishCommits(w)
    PROVE  OutboxInv'
<1> DEFINE i == worker[w].intent
<1> DEFINE k == worker[w].attempt
<1> DEFINE outcome == worker[w].outcome
<1>1. /\ ReadyToCommit(w)
      /\ attempts' = [attempts EXCEPT ![i][k] = outcome]
      /\ delivery' = [delivery EXCEPT ![i] = DeliveredBy(w, i)]
      /\ row' = IF HoldsClaim(w, i) THEN [row EXCEPT ![i] = Closed(@, outcome)] ELSE row
      /\ worker' = [worker EXCEPT ![w] = Resting]
      /\ UNCHANGED <<now, tokens>>
  BY DEF FinishCommits
<1>2. /\ i \in Intents /\ k \in DOMAIN attempts[i] /\ k \in Nat \ {None}
      /\ attempts[i][k] = "started" /\ outcome \in Outcomes
      /\ worker[w].step = "inserted" => outcome = "succeeded" /\ delivery[i] = None
      /\ worker[w].step # "inserted" => outcome = "failed"
  BY <1>1, Committing DEF OutboxInv, TypeOK, Worker
<1>3. /\ attempts'[i] = [attempts[i] EXCEPT ![k] = outcome]
      /\ \A j \in Intents \ {i} : attempts'[j] = attempts[j]
  BY <1>1, <1>2 DEF OutboxInv, TypeOK
<1>4. /\ attempts'[i] \in Seq({"started"} \cup Outcomes)
      /\ DOMAIN attempts'[i] = DOMAIN attempts[i]
      /\ \A m \in DOMAIN attempts[i] : attempts'[i][m] = IF m = k THEN outcome ELSE attempts[i][m]
  BY <1>2, <1>3 DEF OutboxInv, TypeOK
<1>5. /\ delivery'[i] = IF worker[w].step = "inserted" THEN k ELSE delivery[i]
      /\ \A j \in Intents \ {i} : delivery'[j] = delivery[j]
      /\ delivery' \in [Intents -> Nat]
  BY <1>1, <1>2 DEF DeliveredBy, OutboxInv, TypeOK
<1>6. \A v \in Workers : worker'[v] = IF v = w THEN Resting ELSE worker[v]
  BY <1>1 DEF OutboxInv, TypeOK
<1>7. /\ \A j \in Intents : row'[j] = row[j] \/ (j = i /\ row'[j] = Closed(row[i], outcome))
      /\ row' \in [Intents -> Row]
  <2>1. row \in [Intents -> Row] /\ row[i] \in Row /\ outcome \in Outcomes
    BY <1>2 DEF OutboxInv, TypeOK
  <2>3. Closed(row[i], outcome) \in Row
    BY <2>1, ClosedRow
  <2>2. QED BY <1>1, <1>2, <2>1, <2>3
<1>8. TypeOK'
  BY <1>1, <1>3, <1>4, <1>5, <1>7, RestingIsWorker DEF OutboxInv, TypeOK
<1>9. TokensAreFresh'
  <2>1. \A j \in Intents : row'[j].state = "claimed" => row'[j] = row[j]
    BY <1>2, <1>7, ClosedRow DEF OutboxInv, TypeOK
  <2>2. \A j \in Intents : row'[j].state = "claimed" => row'[j].token # None
    BY <2>1 DEF OutboxInv, TokensAreFresh
  <2>3. QED BY <1>1, <1>6, <2>2 DEF OutboxInv, TokensAreFresh, TypeOK, Resting, None
<1>10. AttemptsAreOwned'
  <2>1. ASSUME NEW v \in Workers, worker'[v].attempt # None
        PROVE  /\ v # w /\ worker'[v] = worker[v]
               /\ worker[v].intent \in Intents
               /\ worker[v].attempt \in DOMAIN attempts[worker[v].intent]
               /\ attempts[worker[v].intent][worker[v].attempt] = "started"
               /\ worker[v].attempt \in Nat \ {None}
    BY <2>1, <1>6 DEF Resting, OutboxInv, AttemptsAreOwned, TypeOK, Worker, None
  <2>2. ASSUME NEW v \in Workers, worker'[v].attempt # None
        PROVE  ~(worker[v].intent = i /\ worker[v].attempt = k)
    BY <2>1, <2>2, <1>2 DEF OutboxInv, AttemptsAreOwned, Has
  <2>3. ASSUME NEW v \in Workers, worker'[v].attempt # None
        PROVE  /\ worker'[v].intent # None
               /\ worker'[v].attempt \in DOMAIN attempts'[worker'[v].intent]
               /\ attempts'[worker'[v].intent][worker'[v].attempt] = "started"
    BY <2>1, <2>2, <2>3, <1>3, <1>4, NoneIsNoIntent
  <2>4. ASSUME NEW u \in Workers, NEW v \in Workers, NEW j \in Intents, NEW m \in Nat \ {None},
               Has(u, j, m)', Has(v, j, m)'
        PROVE  u = v
    BY <2>4, <2>1 DEF Has, OutboxInv, AttemptsAreOwned
  <2>5. QED BY <2>3, <2>4 DEF AttemptsAreOwned
<1>11. InsertsAlone'
  <2>1. \A v \in Workers : worker'[v].step # "called" => v # w /\ worker'[v] = worker[v]
    BY <1>6 DEF Resting
  <2>2. \A v \in Workers : worker'[v].step = "inserted" =>
          /\ worker'[v].outcome = "succeeded"
          /\ delivery'[worker'[v].intent] = delivery[worker[v].intent]
          /\ delivery[worker[v].intent] = None
    <3>1. ASSUME NEW v \in Workers, worker'[v].step = "inserted"
          PROVE  /\ worker[v].outcome = "succeeded" /\ delivery[worker[v].intent] = None
                 /\ worker[v].intent \in Intents
                 /\ worker[w].step = "inserted" => worker[v].intent # i
      BY <3>1, <2>1 DEF OutboxInv, InsertsAlone, AttemptsAreOwned, TypeOK, Worker
    <3>2. QED BY <3>1, <2>1, <1>5
  <2>3. QED
    <3>1. \A u, v \in Workers :
            worker'[u].step = "inserted" /\ worker'[v].step = "inserted"
            /\ worker'[u].intent = worker'[v].intent => u = v
      BY <2>1 DEF OutboxInv, InsertsAlone
    <3>2. \A v \in Workers : worker'[v].step # "called" => worker'[v].attempt # None
      BY <2>1 DEF OutboxInv, InsertsAlone
    <3>3. QED BY <2>1, <2>2, <3>1, <3>2 DEF InsertsAlone
<1>12. DeliveredOnce'
  <2> DEFINE won(j) == {m \in DOMAIN attempts[j] : attempts[j][m] = "succeeded"}
  <2>1. ASSUME NEW j \in Intents
        PROVE  won(j)' = IF delivery'[j] = None THEN {} ELSE {delivery'[j]}
    <3>1. won(j) = IF delivery[j] = None THEN {} ELSE {delivery[j]}
      BY DEF OutboxInv, DeliveredOnce
    <3>2. CASE j # i
      BY <3>1, <3>2, <1>3, <1>5
    <3>3. CASE j = i /\ worker[w].step = "inserted"
      <4>1. won(j)' = won(j) \cup {k}
        BY <3>3, <1>2, <1>4
      <4>2. QED BY <3>1, <3>3, <4>1, <1>2, <1>5
    <3>4. CASE j = i /\ worker[w].step # "inserted"
      <4>1. won(j)' = won(j)
        BY <3>4, <1>2, <1>4
      <4>2. QED BY <3>1, <3>4, <4>1, <1>5
    <3>5. QED BY <3>2, <3>3, <3>4
  <2>2. ASSUME NEW j \in Intents, row'[j].state = "delivered" PROVE delivery'[j] # None
    <3>1. CASE row'[j] = row[j]
      BY <2>2, <3>1, <1>2, <1>5 DEF OutboxInv, DeliveredOnce
    <3>2. CASE j = i /\ row'[j] = Closed(row[i], outcome)
      <4>1. outcome = "succeeded"
        BY <2>2, <3>2, <1>2, ClosedRow DEF OutboxInv, TypeOK
      <4>2. QED BY <3>2, <4>1, <1>2, <1>5
    <3>3. QED BY <3>1, <3>2, <1>7
  <2>3. QED BY <2>1, <2>2 DEF DeliveredOnce
<1>13. QED BY <1>8, <1>9, <1>10, <1>11, <1>12 DEF OutboxInv

LEMMA NextOutboxInv == OutboxInv /\ [Next]_vars => OutboxInv'
<1> SUFFICES ASSUME OutboxInv, [Next]_vars PROVE OutboxInv'
  OBVIOUS
<1>1. ASSUME NEW w \in Workers, FinishTooLate(w) PROVE OutboxInv'
  BY <1>1, Rests DEF FinishTooLate
<1>2. ASSUME NEW w \in Workers, Crash(w) PROVE OutboxInv'
  BY <1>2, Rests DEF Crash
<1>3. CASE Tick
  BY <1>3 DEF Tick, OutboxInv, TypeOK, TokensAreFresh, AttemptsAreOwned, Has, InsertsAlone,
     DeliveredOnce
<1>4. CASE UNCHANGED vars
  BY <1>4 DEF vars, OutboxInv, TypeOK, TokensAreFresh, AttemptsAreOwned, Has, InsertsAlone,
     DeliveredOnce
<1>5. QED BY <1>1, <1>2, <1>3, <1>4, EnsureKeeps, ClaimKeeps, BeginKeeps, FinishRecordsKeeps,
     FinishInsertsKeeps, FinishCommitsKeeps DEF Next

\* The invariant on which the others rest.
THEOREM OutboxInvHolds == Spec => []OutboxInv
<1>1. Init => OutboxInv
  BY InitOutboxInv
<1>2. OutboxInv /\ [Next]_vars => OutboxInv'
  BY NextOutboxInv
<1>3. QED BY <1>1, <1>2, PTL DEF Spec

\* However leases run out, an intent has one delivery at most, by the one attempt that
\* succeeded.
THEOREM DeliveriesAreUnique == Spec => []DeliveredOnce
BY OutboxInvHolds, PTL DEF OutboxInv

\* Two workers never hold live claims on one intent.
THEOREM ClaimsExclude == Spec => []ExclusiveClaim
<1>1. OutboxInv => ExclusiveClaim
  BY DEF OutboxInv, ExclusiveClaim, TokensAreFresh, LiveClaim, HoldsClaim
<1>2. QED BY <1>1, OutboxInvHolds, PTL

\* A delivered intent, a recorded delivery and the outcome of an attempt never change:
\* a late worker's attempt is its own, and it commits only what it alone inserted.
THEOREM FinishedStays == Spec => FinishedIsFinal
<1> DEFINE Step == \A i \in Intents :
         /\ row[i].state = "delivered" => row'[i] = row[i]
         /\ delivery[i] # None => delivery'[i] = delivery[i]
         /\ \A k \in DOMAIN attempts[i] :
              attempts[i][k] # "started" => attempts'[i][k] = attempts[i][k]
<1>1. OutboxInv /\ [Next]_vars => Step
  <2> SUFFICES ASSUME OutboxInv, [Next]_vars, NEW i \in Intents
               PROVE  /\ row[i].state = "delivered" => row'[i] = row[i]
                      /\ delivery[i] # None => delivery'[i] = delivery[i]
                      /\ \A k \in DOMAIN attempts[i] :
                           attempts[i][k] # "started" => attempts'[i][k] = attempts[i][k]
    OBVIOUS
  <2>1. CASE UNCHANGED <<row, attempts, delivery>>
    BY <2>1
  <2>2. ASSUME NEW j \in Intents, Ensure(j) PROVE Step
    BY <2>2 DEF Ensure, OutboxInv, TypeOK
  <2>3. ASSUME NEW w \in Workers, Claim(w) PROVE Step
    <3>1. PICK j \in Intents :
            Claimable(j) /\ row' = [row EXCEPT ![j] =
                     [state |-> "claimed", token |-> FreshToken(j), until |-> now + Lease]]
      BY <2>3 DEF Claim
    <3>2. QED BY <2>3, <3>1 DEF Claim, Claimable, OutboxInv, TypeOK
  <2>4. ASSUME NEW w \in Workers, Begin(w) PROVE Step
    <3>1. attempts' = [attempts EXCEPT ![worker[w].intent] = Append(@, "started")]
          /\ UNCHANGED <<row, delivery>>
      BY <2>4 DEF Begin
    <3>2. \A j \in Intents : attempts[j] \in Seq({"started"} \cup Outcomes)
      BY DEF OutboxInv, TypeOK
    <3>3. \A j \in Intents : \A k \in DOMAIN attempts[j] : attempts'[j][k] = attempts[j][k]
      BY <3>1, <3>2 DEF OutboxInv, TypeOK
    <3>4. QED BY <3>1, <3>3
  <2>5. ASSUME NEW w \in Workers, FinishCommits(w) PROVE Step
    <3>1. /\ worker[w].intent \in Intents
          /\ worker[w].attempt \in DOMAIN attempts[worker[w].intent]
          /\ attempts[worker[w].intent][worker[w].attempt] = "started"
          /\ worker[w].step = "inserted" => delivery[worker[w].intent] = None
      BY <2>5, Committing DEF FinishCommits
    <3>2. \A j \in Intents : row[j].state = "delivered" => row'[j] = row[j]
      BY <2>5, <3>1 DEF FinishCommits, HoldsClaim, OutboxInv, TypeOK
    <3>3. \A j \in Intents : delivery[j] # None => delivery'[j] = delivery[j]
      BY <2>5, <3>1 DEF FinishCommits, DeliveredBy, OutboxInv, TypeOK
    <3>4. \A j \in Intents : \A k \in DOMAIN attempts[j] :
            attempts[j][k] # "started" => attempts'[j][k] = attempts[j][k]
      BY <2>5, <3>1 DEF FinishCommits, OutboxInv, TypeOK
    <3>5. QED BY <3>2, <3>3, <3>4
  <2>6. QED BY <2>1, <2>2, <2>3, <2>4, <2>5
        DEF Next, vars, FinishRecords, FinishTooLate, FinishInserts, Crash, Tick
<1>2. QED BY <1>1, OutboxInvHolds, PTL DEF Spec, FinishedIsFinal
=============================================================================
