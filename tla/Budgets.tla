------------------------------ MODULE Budgets ------------------------------
(***************************************************************************)
(* Budgets (budgets/engine.py, config/budgets.py): what a change does to   *)
(* every budget whose scope it touches, and the rules that come of it.     *)
(*                                                                         *)
(* A component is [resource, type, dimension, current, proposed,           *)
(* confidence], a side None where it could not be established; a context   *)
(* is a partial function from attribution dimensions to values; a budget   *)
(* is [id, scope, limit, warning, approval, blocking, cap, capAction,      *)
(* group, actual], None for what it does not set.  Amounts are whole.      *)
(***************************************************************************)
EXTENDS Absence, GateLattice, SequencesExt, FiniteSetsExt

IsUnknown(c) == c.current = None \/ c.proposed = None
KnownOf(components) == {c \in components : ~IsUnknown(c)}

SumOf(components, side) == SumFunction([c \in KnownOf(components) |-> c[side]])

(* The delta of a component that is known.                                 *)
DeltaOf(c) == c.proposed - c.current

(* Every dimension the scope names must be there and be equal.             *)
InScope(scope, context) ==
  \A d \in DOMAIN scope : d \in DOMAIN context /\ context[d] = scope[d]

(* Thresholds rise from warning to blocking, and need a limit.             *)
Thresholds(b) == SelectSeq(<<b.warning, b.approval, b.blocking>>, LAMBDA t : t # None)

BudgetLoads(b) ==
  /\ b.limit # None \/ b.cap # None
  /\ b.limit = None => Thresholds(b) = <<>>
  /\ \A i \in 1 .. Len(Thresholds(b)) - 1 : Thresholds(b)[i] <= Thresholds(b)[i + 1]

(* Ids are unique, and no two budgets have the same scope.                 *)
BudgetsLoad(bs) ==
  /\ \A b \in bs : BudgetLoads(b)
  /\ \A b, c \in bs : b.id = c.id \/ b.scope = c.scope => b = c

(* A budget applies if the run or some resource of the change is in scope. *)
Applies(b, contexts, fallback) ==
  InScope(b.scope, fallback) \/ \E r \in DOMAIN contexts : InScope(b.scope, contexts[r])

(* Each component counts for the context of its resource's key.            *)
ScopedTo(b, components, contexts, fallback) ==
  {c \in components :
    InScope(b.scope, IF c.resource \in DOMAIN contexts THEN contexts[c.resource] ELSE fallback)}

(* Measured against actual spend plus the change where that is supplied.   *)
EvaluateBudget(b, components, contexts, fallback) ==
  LET scoped == ScopedTo(b, components, contexts, fallback)
      current == SumOf(scoped, "current")
      proposed == SumOf(scoped, "proposed")
  IN  [budget |-> b, current |-> current, proposed |-> proposed, delta |-> proposed - current,
       measured |-> IF b.actual = None THEN proposed ELSE b.actual + proposed - current,
       unknown |-> Cardinality(scoped \ KnownOf(scoped))]

EvaluateBudgets(bs, components, contexts, fallback) ==
  {EvaluateBudget(b, components, contexts, fallback) :
     b \in {c \in bs : Applies(c, contexts, fallback)}}

(* Utilisation is strictly above a percentage; a limit that is not set, or *)
(* is zero, has none.                                                      *)
Above(e, percent) ==
  /\ e.budget.limit # None /\ e.budget.limit > 0
  /\ e.measured * 100 > percent * e.budget.limit

Crossed(e) ==
  {t \in {<<"WARN", e.budget.warning>>, <<"REQUIRE_APPROVAL", e.budget.approval>>,
          <<"BLOCK", e.budget.blocking>>} :
     t[2] # None /\ Above(e, t[2])}

Rule(id, action, group) ==
  [id |-> id, action |-> action, group |-> IF action = "REQUIRE_APPROVAL" THEN group ELSE None]

(* The most severe threshold passed becomes one rule.                      *)
ThresholdRules(e) ==
  {Rule(<<e.budget.id, "threshold">>, t[1], e.budget.group) :
     t \in {u \in Crossed(e) : \A v \in Crossed(e) : Rank(v[1]) <= Rank(u[1])}}

IncreaseRules(e) ==
  IF e.budget.cap = None \/ e.delta <= e.budget.cap THEN {}
  ELSE {Rule(<<e.budget.id, "increase">>, e.budget.capAction, e.budget.group)}

BudgetRules(evaluations) == UNION {ThresholdRules(e) \cup IncreaseRules(e) : e \in evaluations}
=============================================================================
