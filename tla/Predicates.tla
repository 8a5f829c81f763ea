----------------------------- MODULE Predicates -----------------------------
(***************************************************************************)
(* A rule's predicate (internal/rules): validated, flattened into a list   *)
(* of comparisons when the rule is compiled, and evaluated in three-valued *)
(* logic on whatever evidence there is.  Values are integers with a type;  *)
(* an agent state is a number, and so is a boolean.                        *)
(***************************************************************************)
EXTENDS Integers, Sequences

CONSTANTS
    Catalog,      \* field name -> [type, subject]
    States,       \* the valid agent states
    Second,       \* units of time in a second
    Year,         \* the longest duration, in the same units
    MaxNodes,     \* MaxExpressionNodes
    Expressions,  \* the predicates a definition may come with, valid or not
    Offers        \* field name -> values a lookup of the field may answer

Types == {"count", "duration", "boolean", "agent_state"}
Subjects == {"queue", "agent"}
Operators == {"eq", "ne", "gt", "gte", "lt", "lte"}

ASSUME PredicatesCatalog ==
    \A f \in DOMAIN Catalog : Catalog[f].type \in Types /\ Catalog[f].subject \in Subjects
ASSUME PredicatesUnits == Second \in Nat \ {0} /\ Year \in Nat /\ MaxNodes \in Nat
ASSUME PredicatesStates == States \subseteq Nat

VARIABLES plan,      \* the comparisons of the compiled predicate; none before Compile
          evidence   \* what the lookups answer: a function on the fields that are known

planVars == <<plan, evidence>>

Evidence == UNION {{e \in [D -> UNION {Offers[f] : f \in D}] : \A f \in D : e[f] \in Offers[f]} :
                   D \in SUBSET DOMAIN Offers}

-----------------------------------------------------------------------------
(* Validation.                                                             *)

ValidDuration(d) == d >= 0 /\ d % Second = 0 /\ d <= Year

\* validFieldValue, and the checks validateOperand makes of a literal.
ValidValue(v, type) ==
    /\ v.type = type
    /\ type \in Types
    /\ type = "count" => v.value >= 0
    /\ type = "duration" => ValidDuration(v.value)
    /\ type = "agent_state" => v.value \in States

ValidOperand(o, subject) ==
    IF o.kind = "field"
      THEN o.field \in DOMAIN Catalog /\ Catalog[o.field].subject = subject
      ELSE ValidValue(o.literal, o.literal.type)

OperandType(o) == IF o.kind = "field" THEN Catalog[o.field].type ELSE o.literal.type

AllowedOperators(type) ==
    IF type \in {"count", "duration"} THEN Operators ELSE {"eq", "ne"}

ValidCompare(c, subject) ==
    /\ ValidOperand(c.left, subject)
    /\ ValidOperand(c.right, subject)
    /\ OperandType(c.left) = OperandType(c.right)
    /\ c.op \in AllowedOperators(OperandType(c.left))

\* A comparison, or a conjunction of comparisons: at least one, and not nested.
ValidExpression(x, subject) ==
    IF x.kind = "compare"
      THEN ValidCompare(x, subject) /\ MaxNodes >= 1
      ELSE /\ x.kind = "all"
           /\ Len(x.conditions) \in 1 .. MaxNodes - 1
           /\ \A i \in DOMAIN x.conditions :
                x.conditions[i].kind = "compare" /\ ValidCompare(x.conditions[i], subject)

Flatten(x) == IF x.kind = "compare" THEN <<x>> ELSE x.conditions

-----------------------------------------------------------------------------
(* Evaluation.                                                             *)

\* A lookup answers, and with a value its field may have.
Answers(f, e) == f \in DOMAIN e /\ f \in DOMAIN Catalog /\ ValidValue(e[f], Catalog[f].type)

Resolves(o, e) == IF o.kind = "field" THEN Answers(o.field, e) ELSE o.literal.type \in Types
Resolved(o, e) == IF o.kind = "field" THEN e[o.field] ELSE o.literal

Holds(op, left, right) ==
    CASE op = "eq" -> left = right
      [] op = "ne" -> left # right
      [] op = "gt" -> left > right
      [] op = "gte" -> left >= right
      [] op = "lt" -> left < right
      [] op = "lte" -> left <= right

EvaluateComparison(c, e) ==
    IF ~Resolves(c.left, e) \/ ~Resolves(c.right, e) THEN "unknown"
    ELSE IF Resolved(c.left, e).type # Resolved(c.right, e).type \/ c.op \notin Operators
      THEN "unknown"
    ELSE IF Holds(c.op, Resolved(c.left, e).value, Resolved(c.right, e).value) THEN "true"
    ELSE "false"

\* Mutant: what is unknown does not count.
EvaluateAllKnown(comparisons, e) ==
    IF \E i \in DOMAIN comparisons : EvaluateComparison(comparisons[i], e) = "false"
      THEN "false" ELSE "true"
EvaluateAll(comparisons, e) ==
    IF \E i \in DOMAIN comparisons : EvaluateComparison(comparisons[i], e) = "false"
      THEN "false"
    ELSE IF \E i \in DOMAIN comparisons : EvaluateComparison(comparisons[i], e) = "unknown"
      THEN "unknown"
    ELSE "true"

-----------------------------------------------------------------------------

PlanInit == plan = <<>> /\ evidence = << >>

\* Compile: a definition that does not validate is an error.
Compile(x, subject) ==
    /\ plan = <<>>
    /\ ValidExpression(x, subject)
    /\ plan' = Flatten(x)
    /\ UNCHANGED evidence

\* The source views change: a queue's snapshot is replaced as a whole, an agent's state
\* and adherence come one by one, and an optional field may be missing again.
Observe(e) == evidence' = e /\ UNCHANGED plan

PlanNext ==
    \/ \E x \in Expressions, subject \in Subjects : Compile(x, subject)
    \/ \E e \in Evidence : Observe(e)

PlanSpec == PlanInit /\ [][PlanNext]_planVars

-----------------------------------------------------------------------------

\* e says all that is usable in the present evidence, and perhaps more.
Extends(e, f) == \A x \in DOMAIN f : Answers(x, f) => x \in DOMAIN e /\ e[x] = f[x]

\* A predicate that is decided on partial evidence keeps its value whatever the missing
\* fields turn out to be; and one that is not decided waits for a field of its own, so
\* no valid rule is unknown for good.
DecidedIsForced ==
    /\ EvaluateAll(plan, evidence) # "unknown" =>
         \A e \in Evidence :
            Extends(e, evidence) => EvaluateAll(plan, e) = EvaluateAll(plan, evidence)
    /\ EvaluateAll(plan, evidence) = "unknown" =>
         \E i \in DOMAIN plan : \E o \in {plan[i].left, plan[i].right} :
            o.kind = "field" /\ ~Answers(o.field, evidence)
=============================================================================
