------------------------------ MODULE Policies ------------------------------
(***************************************************************************)
(* The policy engine (policies/, config/policies.py): conditions, the      *)
(* facts they may look at, and the rules that match.                       *)
(*                                                                         *)
(* Conditions are the nodes of a document, a constant: a combinator        *)
(* [predicate, of] names its children, a predicate [predicate, arg] has    *)
(* its argument.  Facts are [components, changes, budgets, region,         *)
(* context]; a change is [operation, type, resource, tags].                *)
(***************************************************************************)
EXTENDS Budgets

CONSTANT Condition  \* the conditions of a document, by name

Confidences == <<"UNKNOWN", "LOW", "MEDIUM", "HIGH">>
ConfidenceRank(c) == CHOOSE i \in DOMAIN Confidences : Confidences[i] = c
AtMost(c, d) == ConfidenceRank(c) <= ConfidenceRank(d)

Combinators == {"all_of", "any_of", "not"}
Amounts ==
  {"monthly_cost_delta_greater_than", "monthly_cost_delta_percent_greater_than",
   "one_time_cost_greater_than", "unknown_component_count_greater_than",
   "budget_utilization_percent_greater_than", "budget_increase_exceeds"}
Lists ==
  {"added_resource_types", "removed_resource_types", "replaced_resource_types",
   "unknown_resource_types", "required_tags_missing", "region_not_in"}

Children(n) == IF Condition[n].predicate \in Combinators THEN Condition[n].of ELSE {}

(* A document as it is read: every condition has one key of the closed      *)
(* vocabulary, with an argument of its kind, and holds what it combines.    *)
ASSUME ConditionAssumption ==
  /\ IsFiniteSet(DOMAIN Condition)
  /\ \A n \in DOMAIN Condition :
       /\ Condition[n].predicate \in Combinators \cup Amounts \cup Lists \cup {"confidence_at_most"}
       /\ Condition[n].predicate \in Amounts => Condition[n].arg \in Int
       /\ Condition[n].predicate = "confidence_at_most" => Condition[n].arg \in ToSet(Confidences)
       /\ Children(n) \subseteq DOMAIN Condition
  /\ \A T \in SUBSET DOMAIN Condition : T # {} => \E n \in T : Children(n) \cap T = {}

(* A component matters if its delta is unknown or a whole unit.            *)
Material(components) == {c \in components : IsUnknown(c) \/ DeltaOf(c) # 0}

(* Faulty variant: the worst of all, if nothing matters.                   *)
ReportConfidenceWorst(components) ==
  LET ranks(cs) == {ConfidenceRank(c.confidence) : c \in cs}
  IN  IF components = {} THEN "HIGH"
      ELSE IF Material(components) = {} THEN Confidences[Min(ranks(components))]
      ELSE Confidences[Min(ranks(Material(components)))]

(* The worst confidence among what matters; the best if nothing does.      *)
ReportConfidence(components) ==
  LET ranks(cs) == {ConfidenceRank(c.confidence) : c \in cs}
  IN  IF components = {} THEN "HIGH"
      ELSE IF Material(components) = {} THEN Confidences[Max(ranks(components))]
      ELSE Confidences[Min(ranks(Material(components)))]

TotalDelta(components) == SumOf(components, "proposed") - SumOf(components, "current")

(* A new stack has no cost to be a percentage of.                          *)
PercentAbove(components, percent) ==
  /\ SumOf(components, "current") > 0
  /\ TotalDelta(components) * 100 > percent * SumOf(components, "current")

Changed(facts, operation) == {c \in facts.changes : c.operation = operation}
TypesOf(changes) == {c.type : c \in changes}
UnknownOf(components) == components \ KnownOf(components)

(* The closed vocabulary of predicates.                                    *)
Predicate(name, arg, facts) ==
  CASE name = "monthly_cost_delta_greater_than"         -> TotalDelta(facts.components) > arg
    [] name = "monthly_cost_delta_percent_greater_than" -> PercentAbove(facts.components, arg)
    [] name = "one_time_cost_greater_than"              -> 0 > arg
    [] name = "added_resource_types"    -> TypesOf(Changed(facts, "ADD")) \cap arg # {}
    [] name = "removed_resource_types"  -> TypesOf(Changed(facts, "REMOVE")) \cap arg # {}
    [] name = "replaced_resource_types" -> TypesOf(Changed(facts, "REPLACE")) \cap arg # {}
    [] name = "unknown_resource_types"  -> {c.type : c \in UnknownOf(facts.components)} \cap arg # {}
    [] name = "unknown_component_count_greater_than" ->
         Cardinality(UnknownOf(facts.components)) > arg
    [] name = "confidence_at_most"      -> AtMost(ReportConfidence(facts.components), arg)
    [] name = "budget_utilization_percent_greater_than" -> \E e \in facts.budgets : Above(e, arg)
    [] name = "budget_increase_exceeds" -> \E e \in facts.budgets : e.delta > arg
    [] name = "required_tags_missing"   -> \E c \in Changed(facts, "ADD") : ~(arg \subseteq c.tags)
    [] name = "region_not_in"           -> facts.region \notin arg

(* A condition of the document.  Every child is evaluated; a predicate     *)
(* that does not apply is false, and its negation true.                    *)
Holds(name, facts) ==
  LET holds[n \in DOMAIN Condition] ==
        LET c == Condition[n]
        IN  CASE c.predicate = "all_of" -> \A m \in c.of : holds[m]
              [] c.predicate = "any_of" -> \E m \in c.of : holds[m]
              [] c.predicate = "not"    -> \A m \in c.of : ~holds[m]
              [] OTHER                  -> Predicate(c.predicate, c.arg, facts)
  IN  holds[name]

(* Whether neither a condition nor any below it is a negation.             *)
Affirms(name) ==
  \E T \in SUBSET DOMAIN Condition :
    name \in T /\ \A n \in T : Condition[n].predicate # "not" /\ Children(n) \subseteq T

(* A policy is [id, scope, when, action, group]: the scope names what the  *)
(* environment and the application must be among; a group is named exactly *)
(* if it can approve.                                                      *)
PolicyLoads(p) == (p.action = "REQUIRE_APPROVAL") <=> (p.group # None)

PoliciesLoad(ps) ==
  /\ \A p \in ps : PolicyLoads(p)
  /\ \A p, q \in ps : p.id = q.id => p = q

InForce(p, context) ==
  \A d \in DOMAIN p.scope : d \in DOMAIN context /\ context[d] \in p.scope[d]

PolicyRules(ps, facts) ==
  {Rule(<<p.id, "policy">>, p.action, p.group) :
     p \in {q \in ps : InForce(q, facts.context) /\ Holds(q.when, facts)}}

(* The decision on the rules that matched.                                 *)
DecisionOn(rules) ==
  BuildDecision({r.id : r \in rules},
                [i \in {r.id : r \in rules} |-> (CHOOSE r \in rules : r.id = i).action],
                [i \in {r.id : r \in rules} |-> (CHOOSE r \in rules : r.id = i).group])
=============================================================================
