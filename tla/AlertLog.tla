------------------------------ MODULE AlertLog ------------------------------
(***************************************************************************)
(* What the reader of alert transitions may rely on, whatever the episodes *)
(* behind them do: the transitions of a series are its first opening, its  *)
(* first recovery, its second opening, and so on, and an episode stands    *)
(* for at most one opening and one recovery.  Alerting implements this.    *)
(***************************************************************************)
EXTENDS Naturals, Sequences

CONSTANTS
    Series,
    Episodes,
    SeriesOf     \* SeriesOf[e]: the series of episode e

VARIABLES
    log,         \* the transitions, in order
    open,        \* open[s]: the last transition of s is an opening
    generation,  \* generation[s]: openings of s so far
    opened,      \* the episodes that stand for an opening
    recovered    \* the episodes that stand for a recovery

logVars == <<log, open, generation, opened, recovered>>

LogInit ==
    /\ log = <<>>
    /\ open = [s \in Series |-> FALSE]
    /\ generation = [s \in Series |-> 0]
    /\ opened = {}
    /\ recovered = {}

Entry(e, n, kind) == [series |-> SeriesOf[e], generation |-> n, kind |-> kind, episode |-> e]

Opens(e) ==
    LET s == SeriesOf[e] IN
    /\ ~open[s] /\ e \notin opened
    /\ log' = Append(log, Entry(e, generation[s] + 1, "open"))
    /\ open' = [open EXCEPT ![s] = TRUE]
    /\ generation' = [generation EXCEPT ![s] = @ + 1]
    /\ opened' = opened \cup {e}
    /\ UNCHANGED recovered

Recovers(e) ==
    LET s == SeriesOf[e] IN
    /\ open[s] /\ e \notin recovered
    /\ log' = Append(log, Entry(e, generation[s], "recovery"))
    /\ open' = [open EXCEPT ![s] = FALSE]
    /\ recovered' = recovered \cup {e}
    /\ UNCHANGED <<generation, opened>>

\* An episode that is reported when it is over opens and recovers at once.
OpensAndRecovers(e) ==
    LET s == SeriesOf[e] IN
    /\ ~open[s] /\ e \notin opened /\ e \notin recovered
    /\ log' = Append(Append(log, Entry(e, generation[s] + 1, "open")),
                     Entry(e, generation[s] + 1, "recovery"))
    /\ generation' = [generation EXCEPT ![s] = @ + 1]
    /\ opened' = opened \cup {e}
    /\ recovered' = recovered \cup {e}
    /\ UNCHANGED open

LogNext == \E e \in Episodes : Opens(e) \/ Recovers(e) \/ OpensAndRecovers(e)

LogSpec == LogInit /\ [][LogNext]_logVars
=============================================================================
