---------------------------- MODULE MCPredicates ----------------------------
(***************************************************************************)
(* A small instance of Predicates: a second is two units of time and a     *)
(* year two seconds, so that a duration may be a fraction or too long.     *)
(***************************************************************************)
EXTENDS Predicates

MCCatalog ==
    [wait |-> [type |-> "duration", subject |-> "queue"],
     sla |-> [type |-> "duration", subject |-> "queue"],
     forecast |-> [type |-> "count", subject |-> "queue"],
     state |-> [type |-> "agent_state", subject |-> "agent"],
     violation |-> [type |-> "boolean", subject |-> "agent"]]

V(t, n) == [type |-> t, value |-> n]
F(f) == [kind |-> "field", field |-> f]
L(t, n) == [kind |-> "literal", literal |-> V(t, n)]
Cmp(l, op, r) == [kind |-> "compare", left |-> l, op |-> op, right |-> r]
All(cs) == [kind |-> "all", conditions |-> cs]

MCOffers ==
    [wait |-> {V("duration", 0), V("duration", 2), V("duration", 3), V("duration", 6)},
     sla |-> {V("duration", 0), V("duration", 2)},
     forecast |-> {V("count", -1), V("count", 0), V("count", 1)},
     state |-> {V("agent_state", 1), V("agent_state", 2), V("count", 1)},
     violation |-> {V("boolean", 0), V("boolean", 1)}]

Breach == Cmp(F("wait"), "gt", F("sla"))
Met == Cmp(F("wait"), "lte", F("sla"))
Long == Cmp(F("wait"), "gte", L("duration", 2))
Busy == Cmp(F("forecast"), "ne", L("count", 0))
OnCall == Cmp(F("state"), "eq", L("agent_state", 1))
Out == Cmp(F("violation"), "eq", L("boolean", 1))

MCExpressions ==
    {Breach, Met, All(<<Long, Busy>>), All(<<Breach, Busy, Met>>), All(<<OnCall, Out>>),
     Cmp(L("count", 1), "lt", F("forecast")), Cmp(L("count", 1), "eq", L("count", 1)),
     Cmp(F("wait"), "eq", L("count", 0)), Cmp(F("wait"), "gt", L("duration", 3)),
     Cmp(F("state"), "gt", L("agent_state", 1)), Cmp(F("unheard"), "eq", L("count", 1)),
     All(<<OnCall, Busy>>), All(<<>>), All(<<All(<<Out>>)>>),
     All(<<Out, OnCall, Out, OnCall>>)}
=============================================================================
