------------------------------ MODULE Preview ------------------------------
(***************************************************************************)
(* The preview of rules (internal/runtime/preview.go, Replay): a function  *)
(* from a file of events to the notifications its rules would bring.  It   *)
(* takes the lines through the same reducers as the replay, in memory      *)
(* only, over views of its own; it is defined here beside the Replay, on   *)
(* the file the replay reads.                                              *)
(***************************************************************************)
EXTENDS Replay

\* The preview's memory, and the notifications it has put out, with their times.
EmptyPreview == [mem |-> EmptyMemory, logical |-> Unset, output |-> {}]

\* queues, agents, adherence: of two events with one time the later line counts.
\* Mutant: the earlier one.
ShownIfAfter(old, e) == e.at > old.at
Shown(old, e) == e.at >= old.at

\* An event is kept as it is: its onset is the one it supplies, if any.
Kept(old, e, position) ==
    IF Shown(old, e)
      THEN [at |-> e.at, position |-> position, holds |-> e.holds, since |-> e.since]
      ELSE old

\* emit: as Replay's, without the tables.
EmitOne(p, t) ==
    LET rows == PlannedFor(p.mem, t)
    IN [p EXCEPT !.mem.alerts = AlertsAfter(@, t),
                 !.mem.planned = @ \cup rows,
                 !.output = @ \cup {<<row, t.at>> : row \in rows}]

Emit(p, transitions) ==
    LET after[i \in 0 .. Len(transitions)] ==
          IF i = 0 THEN p ELSE EmitOne(after[i - 1], transitions[i])
    IN after[Len(transitions)]

\* runtime.Advance and emit.
AdvanceTo(p, now) ==
    Emit([p EXCEPT !.logical = now, !.mem.tracker = Drained(@, now)],
         FiredBy(p.mem.tracker, now))

BuildKept(p, e, position) ==
    [p EXCEPT !.mem.view[e.kind][e.subject] = Kept(@, e, position)]

\* runtime.Evaluate, Apply, and emit.
EvaluateLine(p, e) ==
    LET applied == Applied(p.mem, e, p.logical)
    IN Emit([p EXCEPT !.mem.tracker =
               [r \in Rules |-> [@[r] EXCEPT ![e.subject] = applied[r].tracker]]],
            Seqs!FlattenSeq([i \in DOMAIN RuleOrder |-> applied[RuleOrder[i]].fired]))

Process(p, e, position) ==
    LET now == IF e.at > p.logical THEN e.at ELSE p.logical
    IN EvaluateLine(BuildKept(AdvanceTo(p, now), e, position), e)

\* What the first n of the events bring.
Lines(events, n) ==
    LET after[k \in 0 .. n] == IF k = 0 THEN EmptyPreview ELSE Process(after[k - 1], events[k], k)
    IN after[n]

AtEnd(p) == AdvanceTo(p, p.logical).output
Previewed(n) == AtEnd(Lines(file, n))

-----------------------------------------------------------------------------

\* What tables hold: the intents with the times of their transitions.
TimeIn(tables, i) ==
    LET g == tables.generations[<<i[1], i[2]>>]
    IN IF i[3] = "open" THEN g.openedAt ELSE g.recoveredAt

NotedIn(tables) == {<<i, TimeIn(tables, i)>> : i \in DOMAIN tables.intents}
Notified == NotedIn(db)

\* Between two lines of a run on empty tables.
Settled == mode = "running" /\ stage = "none" /\ runs = 1

\* The semantic path is the same for preview and replay (internal/app/contracts.go):
\* of the lines so far a preview plans what the replay stores, at the same times.
SamePathAsReplay == Settled => Previewed(line - 1) = Notified

\* For rules that read adherence it does, whatever onsets are supplied, derived or late,
\* although the two keep different onsets.
Of(output, kind) == {x \in output : Reads[x[1][1][1]] = kind}

PreviewAgreesOnAdherence ==
    Settled => Of(Previewed(line - 1), "adherence") = Of(Notified, "adherence")
=============================================================================
