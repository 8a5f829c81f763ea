---------------------------- MODULE AlertSeries ----------------------------
(***************************************************************************)
(* The two operations of the alert reducer (internal/alerts/alerts.go) as  *)
(* functions on its memory: alerts.series is Reducer.series, and           *)
(* alerts.closed is Reducer.closed.  An alert series stays open while any  *)
(* episode of any revision of its rule contributes to it; times travel     *)
(* with a transition but decide nothing and are left out.                  *)
(***************************************************************************)
EXTENDS Naturals

Kinds == {"open", "recovery"}

NewSeries == [generation |-> 0, open |-> FALSE, contributors |-> {}]

Contributes(alerts, s, e) == e \in alerts.series[s].contributors

\* ApplyStart ignores an episode that was closed or already contributes.
\* Mutant: an episode that was closed may start again.
StartsWhenAbsent(alerts, s, e) == ~Contributes(alerts, s, e)
Starting(alerts, s, e) == e \notin alerts.closed /\ ~Contributes(alerts, s, e)

Opens(alerts, s, e) == Starting(alerts, s, e) /\ ~alerts.series[s].open

\* Mutant: every contribution counts as a new generation.
StartedPerEpisode(series, e) ==
    [contributors |-> series.contributors \cup {e}, open |-> TRUE,
     generation |-> series.generation + 1]
StartedSeries(series, e) ==
    [contributors |-> series.contributors \cup {e}, open |-> TRUE,
     generation |-> IF series.open THEN series.generation ELSE series.generation + 1]

AfterStart(alerts, s, e) ==
    IF Starting(alerts, s, e)
      THEN [alerts EXCEPT !.series[s] = StartedSeries(@, e)]
      ELSE alerts

\* ApplyClear ignores an episode that does not contribute, closed or never started; it
\* remembers as closed only one that does.
Clearing(alerts, s, e) == e \notin alerts.closed /\ Contributes(alerts, s, e)

\* Mutant: the first contributor to clear closes the series.
RecoversAtFirst(alerts, s, e) == Clearing(alerts, s, e) /\ alerts.series[s].open
Recovers(alerts, s, e) ==
    /\ Clearing(alerts, s, e)
    /\ alerts.series[s].contributors = {e}
    /\ alerts.series[s].open

ClearedSeries(alerts, s, e) ==
    [alerts.series[s] EXCEPT !.contributors = @ \ {e}, !.open = @ /\ ~Recovers(alerts, s, e)]

AfterClear(alerts, s, e) ==
    IF Clearing(alerts, s, e)
      THEN [closed |-> alerts.closed \cup {e},
            series |-> [alerts.series EXCEPT ![s] = ClearedSeries(alerts, s, e)]]
      ELSE alerts

\* The transition an operation returns: none, or one of the series' generation.
OpenTransition(alerts, s, e) ==
    IF Opens(alerts, s, e)
      THEN <<[series |-> s, generation |-> alerts.series[s].generation + 1,
              kind |-> "open", episode |-> e]>>
      ELSE <<>>

RecoveryTransition(alerts, s, e) ==
    IF Recovers(alerts, s, e)
      THEN <<[series |-> s, generation |-> alerts.series[s].generation,
              kind |-> "recovery", episode |-> e]>>
      ELSE <<>>
=============================================================================
