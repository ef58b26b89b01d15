---------------------------- MODULE ChangeReport ----------------------------
(***************************************************************************)
(* From two snapshots to a report: resources are matched                   *)
(* (ResourceMatching), the matches become changes (diff/engine.py) and     *)
(* cost components (estimators/engine.py), and the report is reconciled    *)
(* before anything is published (reporting/reconcile.py, pipeline.py).     *)
(*                                                                         *)
(* An estimator is the constant Price: what each type in each state costs  *)
(* per pricing dimension, None where it cannot be established.             *)
(***************************************************************************)
EXTENDS ResourceMatching, Functions

CONSTANTS
  Price,       \* [<<type, state>> -> [dimensions of it -> cost or None]]
  Effect       \* [<<type, state, state>> -> what the difference amounts to]

ASSUME PriceAssumption ==
  \A b \in Body :
    /\ IsFiniteSet(DOMAIN Price[<<b.type, b.state>>])
    /\ \A d \in DOMAIN Price[<<b.type, b.state>>] : Price[<<b.type, b.state>>][d] \in Nat \cup {None}

ASSUME EffectAssumption ==
  \A b, c \in Body :
    (b.type = c.type /\ b.state # c.state) =>
      Effect[<<b.type, b.state, c.state>>] \in {"NO_COST_CHANGE", "MODIFY", "REPLACE"}

VARIABLES
  phase,       \* "matching", "compared", "estimated", "reported" or "failed"
  changes,     \* the change set
  components   \* the cost components, by pairing and dimension

vars == <<mvars, phase, changes, components>>

-----------------------------------------------------------------------------
(* The change set.                                                         *)

Renamed(m) == m.before.key.id # m.after.key.id
Differs(m) == m.before.state # m.after.state

Operation(m) ==
  LET op == IF Differs(m) THEN Effect[<<m.after.type, m.before.state, m.after.state>>]
            ELSE "NO_COST_CHANGE"
  IN  IF Renamed(m) /\ op = "NO_COST_CHANGE" THEN "MODIFY" ELSE op

(* Faulty variant: a rename with the same properties is not reported.      *)
ChangesInState(ms) ==
  {[key |-> m.after.key, operation |-> Operation(m), before |-> m.before, after |-> m.after] :
     m \in {n \in ms : Differs(n)}}

(* A matched pair is a change if a property differs or it was renamed.     *)
ChangedPairs(ms) ==
  {[key |-> m.after.key, operation |-> Operation(m), before |-> m.before, after |-> m.after] :
     m \in {n \in ms : Differs(n) \/ Renamed(n)}}

(* Faulty variant: a resource whose key is still in use is not removed.    *)
UnpairedByKey ==
  {[key |-> r.key, operation |-> "REMOVE", before |-> r, after |-> None] :
     r \in {x \in Removed : \A y \in Added : x.key # y.key}}
  \cup {[key |-> r.key, operation |-> "ADD", before |-> None, after |-> r] : r \in Added}

Unpaired ==
  {[key |-> r.key, operation |-> "REMOVE", before |-> r, after |-> None] : r \in Removed}
  \cup {[key |-> r.key, operation |-> "ADD", before |-> None, after |-> r] : r \in Added}

Unchanged == Cardinality(matches) - Cardinality(ChangedPairs(matches))

-----------------------------------------------------------------------------
(* The cost report.                                                        *)

NoPrices == [d \in {} |-> 0]
PricesOf(r) == IF r = None THEN NoPrices ELSE Price[<<r.type, r.state>>]

(* Faulty variant: resources that were removed are not estimated.          *)
PairingsKept ==
  {<<m.before, m.after>> : m \in matches} \cup {<<None, r>> : r \in Added}

(* What was in the baseline and what takes its place, None for nothing.    *)
Pairings ==
  {<<m.before, m.after>> : m \in matches}
  \cup {<<r, None>> : r \in Removed} \cup {<<None, r>> : r \in Added}

(* A side that does not exist costs nothing; one that exists and could not *)
(* be priced is unknown.                                                   *)
SideCost(r, d) == IF d \in DOMAIN PricesOf(r) THEN PricesOf(r)[d] ELSE 0

(* Faulty variant: a component is unknown only if its proposed side is.    *)
ComponentByProposed(p, d) ==
  LET current == SideCost(p[1], d)
      future == SideCost(p[2], d)
  IN  [resource |-> IF p[2] # None THEN p[2].key ELSE p[1].key, dimension |-> d,
       current |-> current, proposed |-> future, unknown |-> future = None]

(* Faulty variant: a component keeps the key of the baseline.              *)
ComponentByBaseline(p, d) ==
  LET current == SideCost(p[1], d)
      future == SideCost(p[2], d)
  IN  [resource |-> IF p[1] # None THEN p[1].key ELSE p[2].key, dimension |-> d,
       current |-> current, proposed |-> future,
       unknown |-> current = None \/ future = None]

Component(p, d) ==
  LET current == SideCost(p[1], d)
      future == SideCost(p[2], d)
  IN  [resource |-> IF p[2] # None THEN p[2].key ELSE p[1].key, dimension |-> d,
       current |-> current, proposed |-> future,
       unknown |-> current = None \/ future = None]

Components ==
  [i \in UNION {{<<p, d>> : d \in DOMAIN PricesOf(p[1]) \cup DOMAIN PricesOf(p[2])} :
                  p \in Pairings}
     |-> Component(i[1], i[2])]

Unknown == {i \in DOMAIN components : components[i].unknown}

CostOn(side, is) == SumFunction([i \in is |-> components[i][side]])

TotalCurrent == CostOn("current", DOMAIN components \ Unknown)
TotalProposed == CostOn("proposed", DOMAIN components \ Unknown)

(* Types by resource: where both snapshots hold a key, the proposal's.     *)
TypeByKey(k) ==
  IF \E r \in proposed : r.key = k THEN (CHOOSE r \in proposed : r.key = k).type
  ELSE (CHOOSE r \in baseline : r.key = k).type

UnknownTypes == {TypeByKey(components[i].resource) : i \in Unknown}

(* A component is identified by its resource's key and its dimension.      *)
ComponentId(c) == <<c.resource, c.dimension>>

Reconciles ==
  Cardinality({ComponentId(components[i]) : i \in DOMAIN components})
    = Cardinality(DOMAIN components)

-----------------------------------------------------------------------------
(* Behaviours.                                                             *)

Init ==
  /\ MatchInit
  /\ phase = "matching"
  /\ changes = {}
  /\ components = [i \in {} |-> None]

Match ==
  /\ phase = "matching"
  /\ Assign
  /\ UNCHANGED <<phase, changes, components>>

Compare ==
  /\ phase = "matching"
  /\ left = {}
  /\ changes' = ChangedPairs(matches) \cup Unpaired
  /\ phase' = "compared"
  /\ UNCHANGED <<mvars, components>>

EstimateGraphs ==
  /\ phase = "compared"
  /\ components' = Components
  /\ phase' = "estimated"
  /\ UNCHANGED <<mvars, changes>>

(* A report that does not add up is refused: the analysis ends in an error *)
(* and there is no artifact.                                               *)
Reconcile ==
  /\ phase = "estimated"
  /\ phase' = IF Reconciles THEN "reported" ELSE "failed"
  /\ UNCHANGED <<mvars, changes, components>>

Next == Match \/ Compare \/ EstimateGraphs \/ Reconcile

Spec == Init /\ [][Next]_vars

-----------------------------------------------------------------------------
(* Properties.                                                             *)

(* Every variable holds what its declaration says.                         *)
TypeOK ==
  /\ \A r \in baseline \cup proposed :
       r.key \in Key /\ [type |-> r.type, path |-> r.path, state |-> r.state] \in Body
  /\ left \cup matches \subseteq Candidates(baseline, proposed)
  /\ left \cap matches = {}
  /\ phase \in {"matching", "compared", "estimated", "reported", "failed"}
  /\ \A c \in changes :
       c.operation \in {"ADD", "REMOVE", "MODIFY", "REPLACE", "NO_COST_CHANGE"}
  /\ \A i \in DOMAIN components : components[i].unknown \in BOOLEAN

(* Every resource of either snapshot is reported exactly once: as          *)
(* unchanged, or in one change; the counts of the summary add up           *)
(* (diff/engine.py:120, artifact.py:91).                                   *)
EveryResourceOnce ==
  phase = "compared" =>
    /\ \A r \in baseline : Cardinality({c \in changes : c.before = r}) <= 1
    /\ \A r \in proposed : Cardinality({c \in changes : c.after = r}) <= 1
    /\ Unchanged + Cardinality({c \in changes : c.before # None}) = Cardinality(baseline)
    /\ Unchanged + Cardinality({c \in changes : c.after # None}) = Cardinality(proposed)

(* A snapshot compared with itself shows no change at all, even where its  *)
(* resources share a construct path or a base name; and no change is shown *)
(* only if the same keys hold the same types in the same states, so that a *)
(* rename or an exchange of two names is never hidden (engine.py:78-91).   *)
Deployed(g) == {<<r.key, r.type, r.state>> : r \in g}

NoChangeMeansSame ==
  phase = "compared" =>
    /\ baseline = proposed => changes = {}
    /\ changes = {} => Deployed(baseline) = Deployed(proposed)

Priced(r) == {d \in DOMAIN PricesOf(r) : PricesOf(r)[d] # None}

KnownCost(g) == SumFunction([r \in g |-> SumFunctionOnSet(PricesOf(r), Priced(r))])

Hidden(side) == CostOn(side, {i \in Unknown : components[i][side] # None})

(* However resources were matched, the totals are those of the whole       *)
(* snapshots: what is not in a total is the known side of a component that *)
(* is reported as unknown (cost.py:274, estimators/engine.py:175).         *)
CostConserved ==
  phase \in {"estimated", "reported"} =>
    /\ TotalCurrent + Hidden("current") = KnownCost(baseline)
    /\ TotalProposed + Hidden("proposed") = KnownCost(proposed)

(* What could not be priced in either snapshot is never folded into a      *)
(* known cost: each such dimension of each resource is in a component that *)
(* is reported as unknown (estimators/engine.py:104-106).                  *)
UnknownIsReported ==
  phase \in {"estimated", "reported"} =>
    \A r \in baseline \cup proposed : \A d \in DOMAIN PricesOf(r) :
      PricesOf(r)[d] = None =>
        \E i \in Unknown : i[2] = d /\ r \in {i[1][1], i[1][2]}

(* The reconciliation refuses a report only where a resource disappears    *)
(* and another one takes its key: renames, moved construct paths, new      *)
(* resources and unknown prices never make it fail (reconcile.py:71).      *)
OnlyReusedNamesFail ==
  phase = "failed" => \E r \in Removed, s \in proposed : r.key = s.key

(* The summary names every type that "produced at least one unknown        *)
(* component" (cost.py:225), which is what a policy on                     *)
(* unknown_resource_types reads.                                           *)
UnknownTypesNamed ==
  phase = "reported" =>
    \A i \in Unknown : LET r == IF i[1][2] # None THEN i[1][2] ELSE i[1][1]
                       IN  r.type \in UnknownTypes

(* Two snapshots that can be read and priced yield a report: when a        *)
(* logical ID changes its type, "this is reported faithfully as a REMOVE   *)
(* and an ADD that share a key" (changes.py:154-156).                      *)
LegalChangeIsReported == phase # "failed"
=============================================================================
