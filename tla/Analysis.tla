------------------------------ MODULE Analysis ------------------------------
(***************************************************************************)
(* One run of `cost-gate analyze` (cli/analyze.py, pipeline.py): the       *)
(* configuration is loaded, the templates are read, a pricing provider is  *)
(* built, every state of every resource is priced, and the report is       *)
(* judged by budgets and policies and reconciled before it is published.   *)
(*                                                                         *)
(* The estimators decide what to ask, the provider (Pricing) answers in    *)
(* steps of its own, and both meet in the reply.  A resource keeps its key *)
(* here, and is paired with the resource of its key and type; renamed      *)
(* resources are the subject of ChangeReport.                              *)
(***************************************************************************)
EXTENDS Pricing, Estimators, Policies

CONSTANTS
  Snapshots,   \* pairs [baseline, proposed] of partial functions from keys to resources
  Settings,    \* [profile, hours, budgets, policies, failOn], as written
  Fallback,    \* the attribution the run was started with
  Region,      \* the region it prices in
  Replacing,   \* the properties of each type whose change replaces the resource
  Running      \* no exit code yet

ASSUME AnalysisAssumption ==
  /\ DOMAIN Fallback \subseteq Attributes
  /\ None \notin GateResults /\ Running \notin 0 .. 30
  /\ \A s \in Settings :
       /\ s.failOn \in GateResults \ {"PASS"}
       /\ \A b \in s.budgets : b.cap # None => b.capAction \in PolicyActions
       /\ \A p \in s.policies : p.action \in PolicyActions /\ p.when \in DOMAIN Condition
       /\ \A e \in EntriesOf(s.profile) : IsEntry(e)
       /\ \A b \in s.budgets :
            /\ {b.limit, b.cap, b.actual} \subseteq {None} \cup Int
            /\ {b.warning, b.approval, b.blocking} \subseteq {None} \cup Nat
  /\ \A change \in Snapshots : \A side \in {change.baseline, change.proposed} :
       IsFiniteSet(DOMAIN side) /\ \A k \in DOMAIN side : IsResource(side[k])

VARIABLES
  snapshots,   \* what is analysed
  settings,    \* the configuration
  phase,       \* "start", "configured", "parsed", "estimating" or "ended"; or "idle"
  lookups,     \* the places whose prices are still to look up
  estimated,   \* the dimensions estimated so far
  report,      \* the components of the published report, or None
  result,      \* its verdict, or None
  exit         \* the exit code, or Running

avars == <<snapshots, settings, phase, lookups, estimated, report, result, exit>>
vars == <<pvars, avars>>

-----------------------------------------------------------------------------
(* The estimate.                                                           *)

(* Pairs of states: the matched ones, then what was removed, then what was *)
(* added; None is the side that does not exist.                            *)
Pairs(before, after) ==
  LET matched == {k \in DOMAIN before \cap DOMAIN after : before[k].type = after[k].type}
      pair(k, b, a) == [key |-> k, sides |-> <<b, a>>]
      each(ks, one(_)) == LET order == SetToSeq(ks) IN [i \in DOMAIN order |-> one(order[i])]
  IN  each(matched, LAMBDA k : pair(k, before[k], after[k]))
      \o each(DOMAIN before \ matched, LAMBDA k : pair(k, before[k], None))
      \o each(DOMAIN after \ matched, LAMBDA k : pair(k, None, after[k]))

PairsOf(change) == Pairs(change.baseline, change.proposed)

Context(setting) == [profile |-> setting.profile, hours |-> setting.hours, context |-> Fallback]

(* What a side of a pair is charged; a state that does not exist, nothing.  *)
ChargesOn(pair, side, setting) ==
  IF pair.sides[side] = None THEN <<>> ELSE Estimate(pair.sides[side], Context(setting))

(* Everything that is charged: <<n, side, i>> is the place of the charge i *)
(* of a side of the pair n.                                                *)
PlanOf(pairs, setting) ==
  LET at(p) == ChargesOn(pairs[p[1]], p[2], setting)
  IN  [p \in UNION {{<<s[1], s[2], i>> : i \in DOMAIN at(s)} : s \in (DOMAIN pairs) \X {1, 2}} |->
        [key |-> pairs[p[1]].key, sides |-> pairs[p[1]].sides, side |-> p[2],
         charge |-> at(p)[p[3]]]]

Plans ==
  [change \in Snapshots |-> [setting \in Settings |-> PlanOf(PairsOf(change), setting)]]

Plan == Plans[snapshots][settings]

(* The order of pricing: pair by pair, the baseline first.                 *)
Precedes(p, q) ==
  \/ p[1] < q[1]
  \/ p[1] = q[1] /\ p[2] < q[2]
  \/ p[1] = q[1] /\ p[2] = q[2] /\ p[3] < q[3]

IsNext(p) == p \in lookups /\ \A q \in lookups : p = q \/ Precedes(p, q)

Before == snapshots.baseline
After == snapshots.proposed

ToLookUp(plan) == {p \in DOMAIN plan : plan[p].charge.key # None}
NotToLookUp(plan) == DOMAIN plan \ ToLookUp(plan)

(* A dimension of one state of a resource, with its price or without.      *)
Dimension(l, answer) ==
  [key |-> l.key, sides |-> l.sides, side |-> l.side, dimension |-> l.charge.dimension,
   monthly |-> IF answer = Miss THEN None ELSE l.charge.quantity * answer,
   confidence |-> IF answer = Miss THEN "UNKNOWN" ELSE l.charge.confidence]

(* The cost of a dimension on one side: nothing if that side has no such   *)
(* dimension, and unknown if it could not be priced.                       *)
SideCost(dims, side) ==
  IF \E d \in dims : d.side = side THEN (CHOOSE d \in dims : d.side = side).monthly ELSE 0

LowestOf(confidences) ==
  CHOOSE c \in confidences : \A d \in confidences : AtMost(c, d)

(* One component of a pair from its one or two estimates of a dimension.   *)
Component(dims) ==
  LET one == CHOOSE d \in dims : TRUE
      current == SideCost(dims, 1)
      future == SideCost(dims, 2)
  IN  [resource |-> one.key, sides |-> one.sides, dimension |-> one.dimension,
       type |-> IF one.key \in DOMAIN After THEN After[one.key].type ELSE Before[one.key].type,
       current |-> current, proposed |-> future,
       confidence |-> IF current = None \/ future = None THEN "UNKNOWN"
                      ELSE LowestOf({d.confidence : d \in dims})]

Components ==
  {Component(dims) : dims \in
    {{d \in estimated : d.sides = e.sides /\ d.key = e.key /\ d.dimension = e.dimension} :
       e \in estimated}}

-----------------------------------------------------------------------------
(* The decision.                                                           *)

(* Faulty variant: the baseline is read over the proposal.                 *)
ContextsBefore ==
  [k \in DOMAIN Before \cup DOMAIN After |->
    ContextOf(IF k \in DOMAIN Before THEN Before[k] ELSE After[k], Fallback)]

(* The attribution of every key; the proposal is read over the baseline.   *)
Contexts ==
  [k \in DOMAIN Before \cup DOMAIN After |->
    ContextOf(IF k \in DOMAIN After THEN After[k] ELSE Before[k], Fallback)]

Differing(b, a) ==
  {p \in DOMAIN b.props \cup DOMAIN a.props :
    ~(p \in DOMAIN b.props /\ p \in DOMAIN a.props /\ b.props[p] = a.props[p])}

Operation(sides) ==
  IF sides[1] = None THEN "ADD"
  ELSE IF sides[2] = None THEN "REMOVE"
  ELSE IF Differing(sides[1], sides[2]) \cap Replacing[sides[2].type] # {} THEN "REPLACE"
  ELSE IF Differing(sides[1], sides[2]) # {} THEN "MODIFY"
  ELSE "UNCHANGED"

ChangeOf(pair) ==
  LET r == IF pair.sides[2] = None THEN pair.sides[1] ELSE pair.sides[2]
  IN  [operation |-> Operation(pair.sides), type |-> r.type, resource |-> pair.key,
       tags |-> DOMAIN r.tags]

ChangeSet == {ChangeOf(pair) : pair \in ToSet(PairsOf(snapshots))}

Facts(components) ==
  [components |-> components, changes |-> ChangeSet, region |-> Region, context |-> Fallback,
   budgets |-> EvaluateBudgets(settings.budgets, components, Contexts, Fallback)]

Rules(facts) == PolicyRules(settings.policies, facts) \cup BudgetRules(facts.budgets)

(* The checks of the finished artifact that its own arithmetic leaves open. *)
Reconciles(components, decision) ==
  /\ \A b, c \in components :
       b.resource = c.resource /\ b.dimension = c.dimension => b = c
  /\ decision.result = "REQUIRE_APPROVAL" => decision.groups # {}

ExitCode(r) ==
  CASE r \in {"PASS", "WARN"}  -> 0
    [] r = "REQUIRE_APPROVAL" -> 10
    [] r = "BLOCK"            -> 20
    [] r = "ERROR"            -> 30

(* Faulty variant: codes in the order of severity, a warning included.     *)
ExitCodeByRank(r, failOn) == IF Rank(r) < Rank(failOn) THEN 0 ELSE 10 * Rank(r)

ExitCodeFor(r, failOn) ==
  IF r # "ERROR" /\ Rank(r) < Rank(failOn) THEN 0 ELSE ExitCode(r)

Loads(s) ==
  /\ s.hours \in 1 .. MaxMonthlyHours
  /\ \A e \in EntriesOf(s.profile) : EntryLoads(e)
  /\ BudgetsLoad(s.budgets)
  /\ PoliciesLoad(s.policies)

-----------------------------------------------------------------------------

AnalysisInit ==
  /\ snapshots \in Snapshots
  /\ settings \in Settings
  /\ phase = "start"
  /\ lookups = {}
  /\ estimated = {}
  /\ report = None
  /\ result = None
  /\ exit = Running

End(code) == phase' = "ended" /\ exit' = code

Refuse(at) ==
  /\ phase = at
  /\ End(30)
  /\ UNCHANGED <<pvars, snapshots, settings, lookups, estimated, report, result>>

(* A configuration that does not validate is refused before anything runs. *)
LoadConfig ==
  \/ /\ phase = "start" /\ Loads(settings)
     /\ phase' = "configured"
     /\ UNCHANGED <<pvars, snapshots, settings, lookups, estimated, report, result, exit>>
  \/ Refuse("start") /\ ~Loads(settings)

(* A template that cannot be read, or is not a template, ends the run.     *)
ReadTemplates ==
  \/ /\ phase = "configured"
     /\ phase' = "parsed"
     /\ UNCHANGED <<pvars, snapshots, settings, lookups, estimated, report, result, exit>>
  \/ Refuse("configured")

(* So does a catalog that cannot be loaded, or a provider that is not      *)
(* installed; no other provider takes its place.                           *)
BuildProvider ==
  \/ /\ phase = "parsed"
     /\ phase' = "estimating"
     /\ \E plan \in {Plan} :
          /\ lookups' = ToLookUp(plan)
          /\ estimated' = {Dimension(plan[p], Miss) : p \in NotToLookUp(plan)}
     /\ UNCHANGED <<pvars, snapshots, settings, report, result, exit>>
  \/ Refuse("parsed")

(* An estimator asks for the next price.                                   *)
LookUp ==
  /\ phase = "estimating"
  /\ \E p \in lookups : IsNext(p) /\ \E k \in PriceKey : k = Plan[p].charge.key /\ Ask(k)
  /\ UNCHANGED avars

(* It takes the answer.                                                    *)
TakeAnswer ==
  /\ phase = "estimating" /\ reply # None /\ reply # Broken
  /\ TakeReply
  /\ \E p \in lookups :
       /\ IsNext(p)
       /\ estimated' = estimated \cup {Dimension(Plan[p], reply.answer)}
       /\ lookups' = lookups \ {p}
  /\ UNCHANGED <<snapshots, settings, phase, report, result, exit>>

(* Faulty variant: a provider that fails has no price.                     *)
CrashAsMiss ==
  /\ phase = "estimating" /\ reply = Broken
  /\ TakeReply
  /\ \E p \in lookups :
       /\ IsNext(p)
       /\ estimated' = estimated \cup {Dimension(Plan[p], Miss)}
       /\ lookups' = lookups \ {p}
  /\ UNCHANGED <<snapshots, settings, phase, report, result, exit>>

(* Nothing catches an exception here: the process ends with a traceback.   *)
Crash ==
  /\ phase = "estimating" /\ reply = Broken
  /\ TakeReply
  /\ End(1)
  /\ UNCHANGED <<snapshots, settings, lookups, estimated, report, result>>

(* All prices are in: the rest of the run makes no call.                   *)
Conclude ==
  /\ phase = "estimating" /\ lookups = {} /\ reply = None /\ call = None
  /\ \E components \in {Components} : \E facts \in {Facts(components)} :
     \E rules \in {Rules(facts)} : \E decision \in {DecisionOn(rules)} :
       IF Reconciles(components, decision)
       THEN /\ report' = components
            /\ result' = decision.result
            /\ End(ExitCodeFor(decision.result, settings.failOn))
       ELSE End(30) /\ UNCHANGED <<report, result>>
  /\ UNCHANGED <<pvars, snapshots, settings, lookups, estimated>>

(* The steps of the service, and of the clock, while prices are looked up. *)
Outside ==
  /\ phase = "estimating"
  /\ UNCHANGED avars
  /\ \/ \E k \in Mapped : Reprice(k)
     \/ \E k \in PriceKey : Expire(k)

Provide ==
  /\ UNCHANGED avars
  /\ GetPage \/ Throttle \/ RefuseCall

Step ==
  \/ LoadConfig \/ ReadTemplates \/ BuildProvider
  \/ LookUp \/ Provide \/ TakeAnswer \/ Crash \/ Conclude

AnalysisNext == Step \/ Outside

-----------------------------------------------------------------------------

Verdicts == {0, 10, 20}

TypeOK ==
  /\ phase \in {"idle", "start", "configured", "parsed", "estimating", "ended"}
  /\ exit \in {Running, 1, 30} \cup Verdicts
  /\ exit \in Verdicts <=> result # None
  /\ result # None => result \in GateResults \ {"ERROR"}
  /\ result = None => report = None
  /\ lookups # {} => phase = "estimating" \/ exit = 1
  /\ cache \in [PriceKey -> {None, Miss} \cup Nat]

(* PROPERTY: a provider that broke once never leads to a verdict ("A gate   *)
(* that opens when it is confused is not a gate.", enums.py:96):       *)
(* whatever was priced before, and whatever the configuration asks to fail  *)
(* on, no report is published and the exit code is none of pass, approval   *)
(* or block (pipeline.py:157).                                              *)
BrokenNeverPasses == [](reply = Broken => [](report = None /\ exit \notin Verdicts))

(* PROPERTY: what a change leaves alone costs nothing, with a live service  *)
(* that changes its prices in the middle of the run: both sides of a        *)
(* component are priced from one answer (pricing/cache.py:70), so long as   *)
(* no entry outlives its time to live before the run is over.               *)
UnchangedCostsNothing ==
  report # None /\ expiries = 0 =>
    \A c \in KnownOf(report) :
      (c.sides[1] # None /\ c.sides[1] = c.sides[2]) => c.current = c.proposed

(* The known cost of the proposed resources that belong to a budget by     *)
(* their own attribution.                                                  *)
ProposedIn(b) ==
  {c \in KnownOf(report) :
    c.sides[2] # None /\ InScope(b.scope, ContextOf(c.sides[2], Fallback))}

(* A run passes a threshold of a budget if its verdict is milder than the  *)
(* threshold's action, or if it exits 0 where it was asked to fail on       *)
(* that action or one below.  A warning exits 0 whatever was asked          *)
(* (ExitCode), so of a warning threshold only the verdict says anything.    *)
Passes(action) ==
  \/ Rank(result) < Rank(action)
  \/ exit = 0 /\ action # "WARN" /\ Rank(action) >= Rank(settings.failOn)

(* PROPERTY: a budget is within every threshold a run passes.  Over the     *)
(* proposed resources that are in the scope of a budget by their own tags,  *)
(* the costs that are known stay within a threshold, for a warning, an      *)
(* approval or a block, unless the verdict is at least that severe, and, but *)
(* for a warning, the exit code says so if the run was asked to fail on it  *)
(* (budgets/engine.py:85, pipeline.py:159, cli/analyze.py:61).  The budget *)
(* is one that is not measured against actual spend, with a limit above     *)
(* zero.                                                                    *)
PassingStaysWithin ==
  report # None =>
    \A b \in settings.budgets :
      (b.limit # None /\ b.limit > 0 /\ b.actual = None) =>
        \A t \in {<<"WARN", b.warning>>, <<"REQUIRE_APPROVAL", b.approval>>, <<"BLOCK", b.blocking>>} :
          (t[2] # None /\ Passes(t[1])) =>
            SumOf(ProposedIn(b), "proposed") * 100 <= t[2] * b.limit

(* PROPERTY: a dearer proposal is never judged more leniently.  If a known  *)
(* component that does not become cheaper became dearer still, the same     *)
(* configuration would give the same result or a more severe one, provided  *)
(* that no policy is a negation (predicates.py:86, domain/cost.py:342).     *)
DearerNeverPassesEasier ==
  (report # None /\ \A p \in settings.policies : Affirms(p.when)) =>
    \A c \in KnownOf(report) : \A more \in {1, 10, 100} :
      DeltaOf(c) >= 0 =>
        \A dearer \in {(report \ {c}) \cup {[c EXCEPT !.proposed = @ + more]}} :
          Rank(DecisionOn(Rules(Facts(dearer))).result) >= Rank(result)

(* PROPERTY: a run that starts ends with an exit code, however often the    *)
(* service throttles it (aws_price_list.py:318).  The run is one process:   *)
(* its own steps are taken while it has any, and calls are answered or fail. *)
EveryRunEnds == (phase = "start") ~> (exit # Running)
=============================================================================
