-------------------------- MODULE TimerStoreProofs --------------------------
(***************************************************************************)
(* Theorems about the timer tables, for every set of condition keys and    *)
(* workers, every lease and every batch.                                   *)
(***************************************************************************)
EXTENDS TimerStore, TLAPS

\* What a replacement writes to is a row nobody has used.
Unused == \A r \in Rows : r[2] > generation[r[1]] => timer[r] = NoRow

\* A token is held by the worker that claimed with it, and by no other.
TokensAreFresh ==
    /\ \A w \in Workers : \A c \in held[w] : c.token <= tokens
    /\ \A v, w \in Workers : \A c \in held[v], d \in held[w] : c.token = d.token => v = w

StoreInv == TypeOK /\ OneLiveTimer /\ Unused /\ TokensAreFresh

LEMMA RowParts ==
    ASSUME NEW r \in Rows
    PROVE  r[1] \in Keys /\ r[2] \in Nat /\ r = <<r[1], r[2]>>
BY TimerBounds DEF Rows

LEMMA InitStoreInv == Init => StoreInv
<1> SUFFICES ASSUME Init PROVE StoreInv
  OBVIOUS
<1>1. TypeOK
  BY DEF Init, TypeOK, Row, NoRow, Statuses, None, Idle
<1>2. OneLiveTimer
  BY DEF Init, OneLiveTimer, Live, NoRow
<1>3. Unused /\ TokensAreFresh
  BY DEF Init, Unused, TokensAreFresh
<1>4. QED BY <1>1, <1>2, <1>3 DEF StoreInv

\* Cancelling leaves no live row, and leaves alone what was not live.
LEMMA CancelledRow ==
    ASSUME NEW row \in Row
    PROVE  /\ Cancelled(row) \in Row
           /\ ~Live(Cancelled(row))
           /\ Live(row) => Cancelled(row).status = "cancelled"
           /\ ~Live(row) => Cancelled(row) = row
           /\ Cancelled(row).token = row.token
BY DEF Cancelled, Live, Row, Statuses, None

\* What a claim does to the rows of its batch, and to what its worker holds.
Leased(row) ==
    [row EXCEPT !.status = "claimed", !.token = tokens + 1, !.until = now + Lease]

LEMMA ClaimedBatch ==
    ASSUME TypeOK, NEW w \in Workers, NEW limit \in 1 .. MaxBatch, ClaimDue(w, limit)
    PROVE  \E S \in SUBSET Rows :
             /\ \A r \in S : Live(timer[r]) /\ timer[r].until <= now
             /\ \A r \in S : timer'[r] = Leased(timer[r])
             /\ \A r \in Rows \ S : timer'[r] = timer[r]
             /\ held' = [held EXCEPT ![w] = @ \cup {[row |-> r, token |-> tokens + 1] : r \in S}]
             /\ timer' \in [Rows -> Row]
             /\ held' \in [Workers -> SUBSET Claimed]
<1>1. PICK S \in (SUBSET Rows) \ {{}} :
        /\ IsBatch(S, limit)
        /\ timer' = [r \in Rows |->
               IF r \in S THEN [timer[r] EXCEPT !.status = "claimed", !.token = tokens + 1,
                                                !.until = now + Lease]
                          ELSE timer[r]]
        /\ held' = [held EXCEPT ![w] = @ \cup {[row |-> r, token |-> tokens + 1] : r \in S}]
  BY DEF ClaimDue
<1>2. timer' = [r \in Rows |-> IF r \in S THEN Leased(timer[r]) ELSE timer[r]]
  BY <1>1 DEF Leased
<1>3. \A row \in Row : Leased(row) \in Row
  <2>1. tokens + 1 \in Nat /\ now + Lease \in Nat
    BY TimerLeaseAssumption DEF TypeOK
  <2>2. QED BY <2>1 DEF Leased, Row, Statuses
<1>4. timer' \in [Rows -> Row]
  BY <1>2, <1>3 DEF TypeOK
<1>5. {[row |-> r, token |-> tokens + 1] : r \in S} \subseteq Claimed
  BY DEF TypeOK, Claimed
<1>6. held' \in [Workers -> SUBSET Claimed]
  BY <1>1, <1>5 DEF TypeOK
<1>7. \A r \in S : Live(timer[r]) /\ timer[r].until <= now
  BY <1>1 DEF IsBatch, Claimable
<1>8. QED BY <1>1, <1>2, <1>4, <1>6, <1>7

LEMMA NextStoreInv == StoreInv /\ [Next]_vars => StoreInv'
<1> SUFFICES ASSUME StoreInv, [Next]_vars PROVE StoreInv'
  OBVIOUS
<1> USE DEF StoreInv, TypeOK
<1>1. ASSUME NEW k \in Keys, NEW due \in Dues, ReplaceAdvances(k, due) PROVE StoreInv'
  <2>1. TypeOK'
    BY <1>1, DuesAssumption DEF ReplaceAdvances
  <2>2. QED BY <1>1, <2>1 DEF ReplaceAdvances, OneLiveTimer, Unused, TokensAreFresh
<1>2. ASSUME NEW k \in Keys, ReplaceCancels(k) PROVE StoreInv'
  BY <1>2 DEF ReplaceCancels, OneLiveTimer, Unused, TokensAreFresh
<1>3. ASSUME NEW k \in Keys, ReplaceCommits(k) PROVE StoreInv'
  <2> DEFINE g == generation[k] + 1
  <2> DEFINE fresh == [NoRow EXCEPT !.status = "pending", !.due = replacing[k].due]
  <2>1. generation' = [generation EXCEPT ![k] = g] /\ g \in Nat
    BY <1>3 DEF ReplaceCommits
  <2>2. \A r \in Rows :
          timer'[r] = IF r = <<k, g>> THEN fresh
                      ELSE IF r[1] = k THEN Cancelled(timer[r]) ELSE timer[r]
    BY <1>3 DEF ReplaceCommits
  <2>3. fresh \in Row
    BY DEF Row, NoRow, Statuses, None
  <2>4. TypeOK'
    <3>1. timer' \in [Rows -> Row]
      BY <1>3, <2>3, CancelledRow DEF ReplaceCommits
    <3>2. QED BY <1>3, <2>1, <3>1 DEF ReplaceCommits, Idle
  <2>5. OneLiveTimer'
    <3>1. ASSUME NEW r \in Rows, Live(timer[r])' PROVE (r[2] = generation[r[1]])'
      <4>1. CASE r = <<k, g>>
        BY <4>1, <2>1
      <4>2. CASE r # <<k, g>> /\ r[1] = k
        BY <4>2, <2>2, <3>1, CancelledRow DEF Live
      <4>3. CASE r[1] # k
        BY <4>3, <2>1, <2>2, <3>1, RowParts DEF OneLiveTimer, Live
      <4>4. QED BY <4>1, <4>2, <4>3
    <3>2. QED BY <3>1 DEF OneLiveTimer
  <2>6. Unused'
    <3>1. ASSUME NEW r \in Rows, (r[2] > generation[r[1]])' PROVE timer'[r] = NoRow
      <4>1. r # <<k, g>>
        BY <3>1, <2>1
      <4>2. timer[r] = NoRow
        BY <3>1, <2>1, RowParts DEF Unused
      <4>3. Cancelled(NoRow) = NoRow
        BY DEF Cancelled, Live, NoRow
      <4>4. QED BY <4>1, <4>2, <4>3, <2>2
    <3>2. QED BY <3>1 DEF Unused
  <2>7. TokensAreFresh'
    BY <1>3 DEF ReplaceCommits, TokensAreFresh
  <2>8. QED BY <2>4, <2>5, <2>6, <2>7
<1>4. ASSUME NEW k \in Keys, ReplaceRollsBack(k) PROVE StoreInv'
  BY <1>4 DEF ReplaceRollsBack, OneLiveTimer, Unused, TokensAreFresh, Idle
<1>5. ASSUME NEW w \in Workers, NEW limit \in 1 .. MaxBatch, ClaimDue(w, limit)
      PROVE  StoreInv'
  <2>1. PICK S \in SUBSET Rows :
          /\ \A r \in S : Live(timer[r]) /\ timer[r].until <= now
          /\ \A r \in S : timer'[r] = Leased(timer[r])
          /\ \A r \in Rows \ S : timer'[r] = timer[r]
          /\ held' = [held EXCEPT ![w] = @ \cup {[row |-> r, token |-> tokens + 1] : r \in S}]
          /\ timer' \in [Rows -> Row]
          /\ held' \in [Workers -> SUBSET Claimed]
    BY <1>5, ClaimedBatch
  <2>2. tokens' = tokens + 1 /\ UNCHANGED <<now, generation, replacing>>
    BY <1>5 DEF ClaimDue
  <2>3. \A r \in S : Live(timer[r])
    BY <2>1
  <2>4. TypeOK'
    BY <2>1, <2>2
  <2>5. OneLiveTimer'
    <3>1. ASSUME NEW r \in Rows, Live(timer[r])' PROVE Live(timer[r])
      BY <3>1, <2>1, <2>3 DEF Live
    <3>2. QED BY <3>1, <2>2 DEF OneLiveTimer
  <2>6. Unused'
    <3>1. \A r \in S : timer[r] # NoRow
      BY <2>3 DEF Live, NoRow
    <3>2. QED BY <3>1, <2>1, <2>2 DEF Unused
  <2>7. TokensAreFresh'
    <3>1. ASSUME NEW v \in Workers, NEW c \in held'[v]
          PROVE  \/ c \in held[v] /\ c.token <= tokens
                 \/ c.token = tokens + 1 /\ v = w
      <4>1. CASE c \in held[v]
        BY <4>1 DEF TokensAreFresh
      <4>2. CASE c \notin held[v]
        BY <4>2, <2>1
      <4>3. QED BY <4>1, <4>2
    <3>2. \A v \in Workers : \A c \in held'[v] : c.token \in Nat
      BY <2>4 DEF Claimed
    <3>3. QED BY <3>1, <3>2, <2>2 DEF TokensAreFresh
  <2>8. QED BY <2>4, <2>5, <2>6, <2>7
<1>6. ASSUME NEW w \in Workers, NEW c \in held[w], Complete(w, c) PROVE StoreInv'
  <2>1. c.row \in Rows /\ timer[c.row].status = "claimed"
    BY <1>6 DEF Claimed, Complete, Current
  <2>2. TypeOK'
    BY <1>6, <2>1 DEF Complete, Row, Statuses, None
  <2>3. OneLiveTimer' /\ Unused'
    BY <1>6, <2>1 DEF Complete, OneLiveTimer, Unused, Live, NoRow, Row
  <2>4. TokensAreFresh'
    BY <1>6 DEF Complete, TokensAreFresh
  <2>5. QED BY <2>2, <2>3, <2>4
<1>7. ASSUME NEW w \in Workers, NEW c \in held[w], Drop(w, c) PROVE StoreInv'
  <2>1. \A v \in Workers : held'[v] \subseteq held[v]
    BY <1>7 DEF Drop
  <2>2. TypeOK'
    BY <1>7 DEF Drop
  <2>3. TokensAreFresh'
    BY <1>7, <2>1 DEF Drop, TokensAreFresh
  <2>4. QED BY <1>7, <2>2, <2>3 DEF Drop, OneLiveTimer, Unused
<1>8. CASE Tick
  BY <1>8 DEF Tick, OneLiveTimer, Unused, TokensAreFresh
<1>9. CASE UNCHANGED vars
  BY <1>9 DEF vars, OneLiveTimer, Unused, TokensAreFresh
<1>10. QED BY <1>1, <1>2, <1>3, <1>4, <1>5, <1>6, <1>7, <1>8, <1>9 DEF Next

\* The invariant on which the others rest.
THEOREM StoreInvHolds == Spec => []StoreInv
<1>1. Init => StoreInv
  BY InitStoreInv
<1>2. StoreInv /\ [Next]_vars => StoreInv'
  BY NextStoreInv
<1>3. QED BY <1>1, <1>2, PTL DEF Spec

\* However replacements are interrupted and leases run out, a condition never has two
\* timers that can fire, and the live one is of its tracker's generation.
THEOREM OneTimerIsLive == Spec => []OneLiveTimer
BY StoreInvHolds, PTL DEF StoreInv

\* Two workers never both hold a claim on a timer that CompleteTimer would accept: the
\* row names one token, and a token is held by one worker.
THEOREM OneClaimIsGood == Spec => []OneGoodClaim
<1>1. StoreInv => OneGoodClaim
  BY DEF StoreInv, OneGoodClaim, TokensAreFresh, Current
<1>2. QED BY <1>1, StoreInvHolds, PTL

\* A claim CompleteTimer accepts is on a live row, hence on the tracker's generation.
THEOREM OnlyCurrentCompletes == Spec => CompletesOnlyIfCurrent
<1> DEFINE Step == \A r \in Rows : Completes(r) =>
         /\ r[2] = generation[r[1]] /\ r[2] = generation'[r[1]]
         /\ \E w \in Workers : [row |-> r, token |-> timer[r].token] \in held[w]
<1>1. StoreInv /\ [Next]_vars => Step
  <2> SUFFICES ASSUME StoreInv, [Next]_vars, NEW r \in Rows, Completes(r)
               PROVE  /\ r[2] = generation[r[1]] /\ r[2] = generation'[r[1]]
                      /\ \E w \in Workers : [row |-> r, token |-> timer[r].token] \in held[w]
    OBVIOUS
  <2> USE DEF StoreInv, TypeOK, Completes
  <2>1. ASSUME NEW w \in Workers, NEW c \in held[w], Complete(w, c)
        PROVE  /\ r[2] = generation[r[1]] /\ r[2] = generation'[r[1]]
               /\ [row |-> r, token |-> timer[r].token] \in held[w]
    <3>1. c.row = r
      BY <2>1 DEF Complete
    <3>2. c = [row |-> r, token |-> timer[r].token]
      BY <2>1, <3>1 DEF Complete, Current, Claimed
    <3>3. Live(timer[r]) /\ generation' = generation
      BY <2>1, <3>1 DEF Complete, Current, Live
    <3>4. QED BY <3>2, <3>3 DEF OneLiveTimer
  <2>2. ASSUME NEW k \in Keys, ReplaceCommits(k) PROVE FALSE
    <3>1. timer[r] \in Row
      OBVIOUS
    <3>2. Cancelled(timer[r]).status = "done" => timer[r].status = "done"
      BY <3>1, CancelledRow DEF Live
    <3>3. QED BY <2>2, <3>2 DEF ReplaceCommits, NoRow
  <2>3. ASSUME NEW w \in Workers, NEW limit \in 1 .. MaxBatch, ClaimDue(w, limit)
        PROVE  FALSE
    <3>1. timer'[r] = Leased(timer[r]) \/ timer'[r] = timer[r]
      BY <2>3, ClaimedBatch
    <3>2. Leased(timer[r]).status = "claimed"
      BY DEF Leased, Row
    <3>3. QED BY <3>1, <3>2
  <2>4. CASE UNCHANGED timer
    BY <2>4
  <2>5. \/ \E w \in Workers : \E c \in held[w] : Complete(w, c)
        \/ \E k \in Keys : ReplaceCommits(k)
        \/ \E w \in Workers, limit \in 1 .. MaxBatch : ClaimDue(w, limit)
        \/ UNCHANGED timer
    BY DEF Next, vars, ReplaceAdvances, ReplaceCancels, ReplaceRollsBack, Drop, Tick
  <2>6. QED BY <2>1, <2>2, <2>3, <2>4, <2>5
<1>2. QED BY <1>1, StoreInvHolds, PTL DEF Spec, CompletesOnlyIfCurrent

\* A running lease is never taken over, and a timer that is done or cancelled stays so:
\* the row a replacement writes was never used.
THEOREM ClaimsAreProtected == Spec => ClaimIsProtected
<1> DEFINE Step == \A r \in Rows :
         /\ timer[r].status = "claimed" /\ timer[r].until > now =>
              timer'[r].token = timer[r].token
         /\ timer[r].status \in {"done", "cancelled"} => timer'[r] = timer[r]
<1>1. StoreInv /\ [Next]_vars => Step
  <2> SUFFICES ASSUME StoreInv, [Next]_vars, NEW r \in Rows
               PROVE  /\ timer[r].status = "claimed" /\ timer[r].until > now =>
                           timer'[r].token = timer[r].token
                      /\ timer[r].status \in {"done", "cancelled"} => timer'[r] = timer[r]
    OBVIOUS
  <2> USE DEF StoreInv, TypeOK
  <2>1. ASSUME NEW w \in Workers, NEW c \in held[w], Complete(w, c)
        PROVE  /\ timer'[r].token = timer[r].token
               /\ timer[r].status \in {"done", "cancelled"} => timer'[r] = timer[r]
    BY <2>1 DEF Complete, Current, Row, Claimed
  <2>2. ASSUME NEW k \in Keys, ReplaceCommits(k), timer[r].status # "absent"
        PROVE  /\ timer'[r].token = timer[r].token
               /\ timer[r].status \in {"done", "cancelled"} => timer'[r] = timer[r]
    <3>1. r # <<k, generation[k] + 1>>
      BY <2>2, RowParts DEF Unused, NoRow
    <3>2. timer'[r] = IF r[1] = k THEN Cancelled(timer[r]) ELSE timer[r]
      BY <2>2, <3>1 DEF ReplaceCommits
    <3>3. QED BY <3>2, CancelledRow DEF Live
  <2>3. ASSUME NEW w \in Workers, NEW limit \in 1 .. MaxBatch, ClaimDue(w, limit)
        PROVE  /\ timer[r].status = "claimed" /\ timer[r].until > now => timer'[r] = timer[r]
               /\ timer[r].status \in {"done", "cancelled"} => timer'[r] = timer[r]
    <3>1. \/ Live(timer[r]) /\ timer[r].until <= now
          \/ timer'[r] = timer[r]
      BY <2>3, ClaimedBatch
    <3>2. timer[r].until \in Nat
      BY DEF Row
    <3>3. QED BY <3>1, <3>2 DEF Live
  <2>4. CASE UNCHANGED timer
    BY <2>4
  <2>5. \/ \E w \in Workers : \E c \in held[w] : Complete(w, c)
        \/ \E k \in Keys : ReplaceCommits(k)
        \/ \E w \in Workers, limit \in 1 .. MaxBatch : ClaimDue(w, limit)
        \/ UNCHANGED timer
    BY DEF Next, vars, ReplaceAdvances, ReplaceCancels, ReplaceRollsBack, Drop, Tick
  <2>6. QED BY <2>1, <2>2, <2>3, <2>4, <2>5
<1>2. QED BY <1>1, StoreInvHolds, PTL DEF Spec, ClaimIsProtected
=============================================================================
