------------------------------ MODULE Alerting ------------------------------
(***************************************************************************)
(* From episodes to notifications, in memory: the alert reducer            *)
(* (internal/alerts/alerts.go) turns starts and clears of episodes into    *)
(* alert transitions; the planner and the delivery reducer                 *)
(* (internal/notifications/notifications.go) turn a transition into at     *)
(* most one intent and an intent into delivery attempts.  Starts, clears   *)
(* and plans may be repeated and come in any order; a delivery worker may  *)
(* report an attempt late, repeatedly, one way and the other, or after     *)
(* another worker began the next.                                          *)
(***************************************************************************)
EXTENDS AlertSeries, Sequences

CONSTANTS
    Series,          \* rule and subject
    Episodes,        \* identities of condition episodes
    SeriesOf,        \* SeriesOf[e]: the series e contributes to
    NotifyOn,        \* NotifyOn[e]: the kinds the policy of e's rule revision notifies of
    MaxAttempts      \* bound: delivery attempts per intent

ASSUME SeriesOfAssumption == SeriesOf \in [Episodes -> Series]
ASSUME NotifyOnAssumption == NotifyOn \in [Episodes -> SUBSET Kinds]

VARIABLES
    alerts,          \* Reducer.series and Reducer.closed
    transitions,     \* Reducer.transitions
    intents,         \* Planner.intents: transition identity -> intent
    deliveries,      \* DeliveryReducer.deliveries: transition identity -> delivery
    running,         \* observation variable: episodes started and not cleared since
    reports          \* observation variable: what was said first of each attempt

vars == <<alerts, transitions, intents, deliveries, running, reports>>

SeriesState == [generation : Nat, open : BOOLEAN, contributors : SUBSET Episodes]
Alerts == [series : [Series -> SeriesState], closed : SUBSET Episodes]
Transition == [series : Series, generation : Nat \ {0}, kind : Kinds, episode : Episodes]

\* IntentID: the transition's identity, which names series, generation and kind.
\* Mutant: it leaves out the generation.
IntentIdPerSeries(t) == <<t.series, t.kind>>
IntentId(t) == <<t.series, t.generation, t.kind>>

Statuses == {"claimed", "delivered", "failed"}
NoClaim == 0

\* Attempt k's token is derived from k; ClaimToken is 0 when empty.
Delivery == [status : Statuses \cup {"pending"}, token : Nat, attempts : Seq(Statuses)]

-----------------------------------------------------------------------------

Init ==
    /\ alerts = [series |-> [s \in Series |-> NewSeries], closed |-> {}]
    /\ transitions = <<>>
    /\ intents = << >>
    /\ deliveries = << >>
    /\ running = {}
    /\ reports = {}

ApplyStart(e) ==
    /\ alerts' = AfterStart(alerts, SeriesOf[e], e)
    /\ transitions' = transitions \o OpenTransition(alerts, SeriesOf[e], e)
    /\ running' = IF e \in alerts.closed THEN running ELSE running \cup {e}
    /\ UNCHANGED <<intents, deliveries, reports>>

ApplyClear(e) ==
    /\ alerts' = AfterClear(alerts, SeriesOf[e], e)
    /\ transitions' = transitions \o RecoveryTransition(alerts, SeriesOf[e], e)
    /\ running' = running \ {e}
    /\ UNCHANGED <<intents, deliveries, reports>>

\* ApplyEpisode of an episode that has ended: its start, then its clear.
ApplyEpisode(e) ==
    LET started == AfterStart(alerts, SeriesOf[e], e) IN
    /\ alerts' = AfterClear(started, SeriesOf[e], e)
    /\ transitions' = transitions \o OpenTransition(alerts, SeriesOf[e], e)
                                  \o RecoveryTransition(started, SeriesOf[e], e)
    /\ running' = running \ {e}
    /\ UNCHANGED <<intents, deliveries, reports>>

With(f, id, value) == [x \in DOMAIN f \cup {id} |-> IF x = id THEN value ELSE f[x]]

\* Plan returns the intent of a transition that was planned before.
Plan(t) ==
    LET id == IntentId(t) IN
    /\ t.kind \in NotifyOn[t.episode]
    /\ intents' = IF id \in DOMAIN intents THEN intents ELSE With(intents, id, t)
    /\ UNCHANGED <<alerts, transitions, deliveries, running, reports>>

\* Ensure leaves a delivery that exists alone.
Ensure(id) ==
    /\ deliveries' =
         IF id \in DOMAIN deliveries
           THEN deliveries
           ELSE With(deliveries, id,
                     [status |-> "pending", token |-> NoClaim, attempts |-> <<>>])
    /\ UNCHANGED <<alerts, transitions, intents, running, reports>>

\* Begin rejects an intent that is claimed or delivered.
Beginnable(d) == d.status \notin {"delivered", "claimed"}

Begin(id) ==
    LET d == deliveries[id] IN
    /\ Beginnable(d)
    /\ Len(d.attempts) < MaxAttempts
    /\ deliveries' = [deliveries EXCEPT ![id] =
                        [status |-> "claimed", token |-> Len(d.attempts) + 1,
                         attempts |-> Append(d.attempts, "claimed")]]
    /\ UNCHANGED <<alerts, transitions, intents, running, reports>>

\* Complete and Fail take a callback only from the holder of the current claim.
Accepts(d, token) ==
    /\ d.status = "claimed" /\ d.token = token /\ Len(d.attempts) > 0
    /\ d.attempts[Len(d.attempts)] = "claimed" /\ token = Len(d.attempts)

\* A callback that is not accepted changes nothing but what has been said.
Finish(id, token, status, accepted) ==
    LET d == deliveries[id] IN
    /\ reports' =
         IF token = NoClaim \/ \E other \in Statuses : <<id, token, other>> \in reports
           THEN reports
           ELSE reports \cup {<<id, token, status>>}
    /\ deliveries' =
         IF accepted
           THEN [deliveries EXCEPT ![id] =
                   [status |-> status, token |-> NoClaim,
                    attempts |-> [d.attempts EXCEPT ![Len(d.attempts)] = status]]]
           ELSE deliveries
    /\ UNCHANGED <<alerts, transitions, intents, running>>

\* Mutant: any token is taken while the intent is claimed.
CompleteOfAnyToken(id, token) ==
    Finish(id, token, "delivered", deliveries[id].status = "claimed")
Complete(id, token) == Finish(id, token, "delivered", Accepts(deliveries[id], token))

\* Mutant: the token is compared with the last attempt's, whatever that one came to.
FailOfLastAttempt(id, token) ==
    Finish(id, token, "failed", token # NoClaim /\ token = Len(deliveries[id].attempts))
Fail(id, token) == Finish(id, token, "failed", Accepts(deliveries[id], token))

\* A worker knows the tokens of the attempts that were begun; one whose Begin was
\* rejected has the empty token.
TokensAtHand(id) == {NoClaim} \cup DOMAIN deliveries[id].attempts

Next ==
    \/ \E e \in Episodes : ApplyStart(e)
    \/ \E e \in Episodes : ApplyClear(e)
    \/ \E e \in Episodes : ApplyEpisode(e)
    \/ \E i \in DOMAIN transitions : Plan(transitions[i])
    \/ \E id \in DOMAIN intents : Ensure(id)
    \/ \E id \in DOMAIN deliveries : Begin(id)
    \/ \E id \in DOMAIN deliveries : \E token \in TokensAtHand(id) : Complete(id, token)
    \/ \E id \in DOMAIN deliveries : \E token \in TokensAtHand(id) : Fail(id, token)

Spec == Init /\ [][Next]_vars

-----------------------------------------------------------------------------

\* Every variable keeps its shape.
TypeOK ==
    /\ alerts \in Alerts
    /\ transitions \in Seq(Transition)
    /\ DOMAIN intents \subseteq Series \X Nat \X Kinds
    /\ \A id \in DOMAIN intents : intents[id] \in Transition
    /\ \A id \in DOMAIN deliveries : deliveries[id] \in Delivery
    /\ running \subseteq Episodes

\* Over all repetitions and orders of starts and clears, a series is open exactly while
\* an episode that started has not cleared, whichever rule revisions they belong to:
\* the first clear of several does not recover it and the last one does.
OpenWhileRunning ==
    \A s \in Series :
        /\ alerts.series[s].open <=> \E e \in running : SeriesOf[e] = s
        /\ alerts.series[s].contributors = {e \in running : SeriesOf[e] = s}

\* What the reducer emits is a log of openings and recoveries: for each series open 1,
\* recovery 1, open 2, ..., no generation twice and none left out, in agreement with
\* the state.
OfKind(kind) == {i \in DOMAIN transitions : transitions[i].kind = kind}

Log == INSTANCE AlertLog WITH
    log <- transitions,
    open <- [s \in Series |-> alerts.series[s].open],
    generation <- [s \in Series |-> alerts.series[s].generation],
    opened <- {transitions[i].episode : i \in OfKind("open")},
    recovered <- {transitions[i].episode : i \in OfKind("recovery")}

ImplementsAlertLog == Log!LogSpec

\* One episode accounts for at most one opening and one recovery: heard of again after
\* it closed, it never raises the alert a second time.
EpisodeAlertsOnce ==
    \A i, j \in DOMAIN transitions :
        transitions[i].episode = transitions[j].episode
        /\ transitions[i].kind = transitions[j].kind => i = j

\* Every intent is of one transition that was emitted, however often that is planned, and
\* no two transitions share one.
EachTransitionItsIntent ==
    \A id \in DOMAIN intents : \E i \in DOMAIN transitions :
        /\ intents[id] = transitions[i] /\ IntentId(transitions[i]) = id
        /\ \A j \in DOMAIN transitions : IntentId(transitions[j]) = id => i = j

\* A delivery is claimed by the last attempt only and delivered by at most one, the
\* last; and an attempt ends when its token is first reported, and as that report says:
\* no report of another attempt and no later one of its own, the contrary included, counts.
OneLiveAttempt ==
    \A id \in DOMAIN deliveries :
        LET d == deliveries[id]
            n == Len(d.attempts)
        IN /\ \A k \in 1 .. n - 1 : d.attempts[k] = "failed"
           /\ d.status = IF n = 0 THEN "pending" ELSE d.attempts[n]
           /\ d.token = IF d.status = "claimed" THEN n ELSE NoClaim
           /\ \A k \in 1 .. n :
                {status \in Statuses : <<id, k, status>> \in reports}
                  = {d.attempts[k]} \ {"claimed"}

\* What an attempt came to is final: a failed one is never delivered by a late Complete, a
\* delivered one never failed, and ensuring the intent again does not start it over.
AttemptsAreFinal ==
    [][\A id \in DOMAIN deliveries :
         /\ id \in DOMAIN deliveries'
         /\ \A k \in DOMAIN deliveries[id].attempts :
              /\ k \in DOMAIN deliveries'[id].attempts
              /\ deliveries[id].attempts[k] # "claimed" =>
                   deliveries'[id].attempts[k] = deliveries[id].attempts[k]]_vars
=============================================================================
