----------------------------- MODULE TimerStore -----------------------------
(***************************************************************************)
(* Durable condition timers in PostgreSQL (internal/storage/work.go): the  *)
(* tables condition_trackers and timers.  A tracker's owner replaces its   *)
(* timer; workers claim what is due under a lease and complete it.         *)
(* ReplaceTimer is three statements of one READ COMMITTED transaction, and *)
(* its steps are apart here, for workers run between them: the first locks *)
(* the tracker, the second the timers it cancels.  ClaimDueTimers and      *)
(* CompleteTimer are single statements.                                    *)
(***************************************************************************)
EXTENDS Naturals, FiniteSets

CONSTANTS
    Keys,             \* condition keys, numbered in the order of their names
    Workers,
    Lease,            \* how long a claim lasts
    MaxBatch,         \* the limits workers pass
    Dues,             \* the due times of timers
    MaxTime,          \* bound: the last instant
    MaxClaims,        \* bound: calls that claim
    MaxGeneration     \* bound: timers per key

ASSUME KeysAssumption == Keys \subseteq Nat \ {0}
ASSUME TimerLeaseAssumption == Lease \in Nat \ {0}
ASSUME DuesAssumption == Dues \subseteq Nat
ASSUME TimerBounds ==
    MaxBatch \in Nat /\ MaxTime \in Nat /\ MaxClaims \in Nat /\ MaxGeneration \in Nat

VARIABLES
    now,           \* the workers' clock
    generation,    \* condition_trackers.timer_generation
    timer,         \* timers: per (condition_key, generation)
    replacing,     \* where an open ReplaceTimer of a key is, and the due time it brings
    tokens,        \* claim tokens handed out; each claim brings a fresh one
    held           \* per worker: the timers it claimed, with the claim's token

vars == <<now, generation, timer, replacing, tokens, held>>

None == 0

Statuses == {"absent", "pending", "claimed", "done", "cancelled"}
Rows == Keys \X (1 .. MaxGeneration)
Row == [status : Statuses, due : Nat, token : Nat, until : Nat]
NoRow == [status |-> "absent", due |-> 0, token |-> None, until |-> None]
Claimed == [row : Rows, token : Nat]
Idle == [step |-> "idle", due |-> 0]

-----------------------------------------------------------------------------

Init ==
    /\ now = 0
    /\ generation = [k \in Keys |-> 0]
    /\ timer = [r \in Rows |-> NoRow]
    /\ replacing = [k \in Keys |-> Idle]
    /\ tokens = 0
    /\ held = [w \in Workers |-> {}]

\* First statement: the tracker's row is locked; the new generation shows on commit.
ReplaceAdvances(k, due) ==
    /\ replacing[k] = Idle
    /\ generation[k] < MaxGeneration
    /\ replacing' = [replacing EXCEPT ![k] = [step |-> "advanced", due |-> due]]
    /\ UNCHANGED <<now, generation, timer, tokens, held>>

\* Second statement: the key's live timers are locked and will be cancelled.
ReplaceCancels(k) ==
    /\ replacing[k].step = "advanced"
    /\ replacing' = [replacing EXCEPT ![k].step = "cancelled"]
    /\ UNCHANGED <<now, generation, timer, tokens, held>>

Live(row) == row.status \in {"pending", "claimed"}
Locked(r) == replacing[r[1]].step = "cancelled" /\ Live(timer[r])

\* Mutant: a timer a worker has claimed is left to it.
CancelledUnlessClaimed(row) ==
    IF row.status = "pending" THEN [row EXCEPT !.status = "cancelled"] ELSE row
Cancelled(row) ==
    IF Live(row) THEN [row EXCEPT !.status = "cancelled", !.until = None] ELSE row

\* Third statement and commit.
ReplaceCommits(k) ==
    LET g == generation[k] + 1 IN
    /\ replacing[k].step = "cancelled"
    /\ generation' = [generation EXCEPT ![k] = g]
    /\ timer' = [r \in Rows |->
                   IF r = <<k, g>>
                     THEN [NoRow EXCEPT !.status = "pending", !.due = replacing[k].due]
                   ELSE IF r[1] = k THEN Cancelled(timer[r])
                   ELSE timer[r]]
    /\ replacing' = [replacing EXCEPT ![k] = Idle]
    /\ UNCHANGED <<now, tokens, held>>

\* The transaction fails, here or in a later statement of its caller.
ReplaceRollsBack(k) ==
    /\ replacing[k] # Idle
    /\ replacing' = [replacing EXCEPT ![k] = Idle]
    /\ UNCHANGED <<now, generation, timer, tokens, held>>

\* Mutant: a lease that has not run out is taken over.
ClaimableAnyTime(r) == Live(timer[r]) /\ timer[r].due <= now
Claimable(r) ==
    /\ Live(timer[r])
    /\ timer[r].due <= now
    /\ timer[r].until <= now

\* ORDER BY due_at, condition_key, generation
Before(q, r) ==
    \/ timer[q].due < timer[r].due
    \/ timer[q].due = timer[r].due /\ q[1] < r[1]
    \/ timer[q].due = timer[r].due /\ q[1] = r[1] /\ q[2] < r[2]

\* The first timers, at most limit, that are claimable and not locked.
IsBatch(S, limit) ==
    LET open == {r \in Rows : Claimable(r) /\ ~Locked(r)} IN
    /\ S \subseteq open
    /\ Cardinality(S) = IF Cardinality(open) < limit THEN Cardinality(open) ELSE limit
    /\ \A q \in S, r \in open \ S : Before(q, r)

ClaimDue(w, limit) ==
    /\ tokens < MaxClaims
    /\ \E S \in (SUBSET Rows) \ {{}} :
         /\ IsBatch(S, limit)
         /\ timer' = [r \in Rows |->
                        IF r \in S
                          THEN [timer[r] EXCEPT !.status = "claimed", !.token = tokens + 1,
                                                !.until = now + Lease]
                          ELSE timer[r]]
         /\ held' = [held EXCEPT ![w] = @ \cup {[row |-> r, token |-> tokens + 1] : r \in S}]
    /\ tokens' = tokens + 1
    /\ UNCHANGED <<now, generation, replacing>>

\* What CompleteTimer asks of the row; its generation comes with its identity.
\* Mutant: the row may be claimed by anybody.
CurrentAnyToken(c) == timer[c.row].status = "claimed" /\ timer[c.row].until > now
Current(c) ==
    /\ timer[c.row].status = "claimed"
    /\ timer[c.row].token = c.token
    /\ timer[c.row].until > now

\* It waits for a transaction that is cancelling the row.
Complete(w, c) ==
    /\ Current(c) /\ ~Locked(c.row)
    /\ timer' = [timer EXCEPT ![c.row].status = "done", ![c.row].until = None]
    /\ UNCHANGED <<now, generation, replacing, tokens, held>>

\* The worker learns that it is too late, is done, or has crashed.
Drop(w, c) ==
    /\ held' = [held EXCEPT ![w] = @ \ {c}]
    /\ UNCHANGED <<now, generation, timer, replacing, tokens>>

Tick ==
    /\ now < MaxTime
    /\ now' = now + 1
    /\ UNCHANGED <<generation, timer, replacing, tokens, held>>

Next ==
    \/ \E k \in Keys, due \in Dues : ReplaceAdvances(k, due)
    \/ \E k \in Keys : ReplaceCancels(k)
    \/ \E k \in Keys : ReplaceCommits(k)
    \/ \E k \in Keys : ReplaceRollsBack(k)
    \/ \E w \in Workers, limit \in 1 .. MaxBatch : ClaimDue(w, limit)
    \/ \E w \in Workers : \E c \in held[w] : Complete(w, c)
    \/ \E w \in Workers : \E c \in held[w] : Drop(w, c)
    \/ Tick

Spec == Init /\ [][Next]_vars

-----------------------------------------------------------------------------

\* Every table keeps its shape.
TypeOK ==
    /\ now \in Nat
    /\ tokens \in Nat
    /\ generation \in [Keys -> Nat]
    /\ timer \in [Rows -> Row]
    /\ replacing \in [Keys -> [step : {"idle", "advanced", "cancelled"}, due : Nat]]
    /\ held \in [Workers -> SUBSET Claimed]

\* Interrupted replacements and expired leases included, a key never has two timers
\* that can fire, and the one it has is of the tracker's generation.
OneLiveTimer == \A r \in Rows : Live(timer[r]) => r[2] = generation[r[1]]

\* A callback of an older generation is stale, even one leased before the timer was
\* replaced: no timer completes unless its generation is the tracker's, before and
\* after, and no claim but the one the row names completes it.
Completes(r) == timer[r].status # "done" /\ timer'[r].status = "done"

CompletesOnlyIfCurrent ==
    [][\A r \in Rows : Completes(r) =>
         /\ r[2] = generation[r[1]] /\ r[2] = generation'[r[1]]
         /\ \E w \in Workers : [row |-> r, token |-> timer[r].token] \in held[w]]_vars

\* Nobody takes a timer from a worker whose lease runs except by cancelling it, and
\* what is done or cancelled never comes back.
ClaimIsProtected ==
    [][\A r \in Rows :
         /\ timer[r].status = "claimed" /\ timer[r].until > now =>
              timer'[r].token = timer[r].token
         /\ timer[r].status \in {"done", "cancelled"} => timer'[r] = timer[r]]_vars

\* Two workers' claims on one timer are never both good for completing it.
OneGoodClaim ==
    \A v, w \in Workers : \A c \in held[v], d \in held[w] :
        c.row = d.row /\ Current(c) /\ Current(d) => v = w
=============================================================================
