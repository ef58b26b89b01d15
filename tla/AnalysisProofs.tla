--------------------------- MODULE AnalysisProofs ---------------------------
(***************************************************************************)
(* Theorems about the analysis, for every change, every configuration,     *)
(* every catalog and every service.                                        *)
(*                                                                         *)
(* The run inherits what the providers promise, because it does nothing to *)
(* them but ask and take; it keeps its own types, which rest on every rule *)
(* having an action the lattice knows; and once a provider broke it is     *)
(* doomed: the only step of its own left to it is the crash.               *)
(*                                                                         *)
(* What it publishes is then followed back to where it came from. A run    *)
(* has planned its look-ups and takes one answer for each key, so that     *)
(* both sides of a component are priced alike; what exceeds a threshold    *)
(* has become a rule, and no rule is more severe than the verdict; and     *)
(* what the rules say of a proposal, they say at least as severely of a    *)
(* dearer one, condition by condition.                                     *)
(***************************************************************************)
EXTENDS EstimatorProofs, PricingProofs, TLAPS

-----------------------------------------------------------------------------
(* The providers within the run.                                           *)

LEMMA StepOfProviders == [Next]_<<vars, question>> => [PricingNext]_pvars
<1> SUFFICES ASSUME [Next]_<<vars, question>> PROVE [PricingNext]_pvars
  OBVIOUS
<1>1. CASE UNCHANGED <<vars, question>>
  BY <1>1 DEF vars
<1>2. ASSUME LoadConfig \/ ReadTemplates \/ BuildProvider \/ Conclude PROVE UNCHANGED pvars
  BY <1>2 DEF LoadConfig, ReadTemplates, BuildProvider, Conclude, Refuse
<1>3. ASSUME LookUp PROVE PricingNext
  BY <1>3 DEF LookUp, PricingNext
<1>4. ASSUME Provide PROVE PricingNext
  BY <1>4 DEF Provide, PricingNext
<1>5. ASSUME TakeAnswer \/ Crash PROVE PricingNext
  BY <1>5 DEF TakeAnswer, Crash, PricingNext
<1>6. ASSUME Outside PROVE PricingNext
  BY <1>6 DEF Outside, PricingNext
<1> QED  BY <1>1, <1>2, <1>3, <1>4, <1>5, <1>6 DEF Next, AnalysisNext, Step

LEMMA RunsProviders == Spec => PricingSpec
BY StepOfProviders, PTL DEF Spec, Init, PricingSpec

(* For one analysis a key has one price: whatever the run looks up, and    *)
(* whatever happens to the service meanwhile, its provider is one price    *)
(* book (pricing/cache.py:53).                                             *)
THEOREM RunKeepsPriceBook == Spec => KeepsPriceBook
BY RunsProviders, ProvidersImplementBook

(* No component of a report is priced from one of several candidates       *)
(* (aws_price_list.py:249).                                                *)
THEOREM RunRefusesAmbiguity == Spec => AmbiguityRefused
BY RunsProviders, PricesAreUnambiguous

-----------------------------------------------------------------------------
(* The verdict.                                                            *)

LEMMA RulesActions ==
  ASSUME settings \in Settings, NEW components, NEW r \in Rules(Facts(components))
  PROVE  r.action \in PolicyActions
<1> DEFINE facts == Facts(components)
<1>1. /\ \A b \in settings.budgets : b.cap # None => b.capAction \in PolicyActions
      /\ \A p \in settings.policies : p.action \in PolicyActions
  BY AnalysisAssumption
<1>2. CASE r \in PolicyRules(settings.policies, facts)
  <2>1. PICK p \in settings.policies : r = Rule(<<p.id, "policy">>, p.action, p.group)
    BY <1>2 DEF PolicyRules
  <2> QED  BY <1>1, <2>1 DEF Rule
<1>3. CASE r \in BudgetRules(facts.budgets)
  <2>1. facts.budgets = EvaluateBudgets(settings.budgets, components, Contexts, Fallback)
    BY DEF Facts
  <2>2. PICK e \in facts.budgets : r \in ThresholdRules(e) \/ r \in IncreaseRules(e)
    BY <1>3 DEF BudgetRules
  <2>3. e.budget \in settings.budgets
    <3>1. PICK b \in settings.budgets : e = EvaluateBudget(b, components, Contexts, Fallback)
      BY <2>1, <2>2 DEF EvaluateBudgets
    <3> QED  BY <3>1 DEF EvaluateBudget
  <2>4. CASE r \in ThresholdRules(e)
    <3>1. PICK t \in Crossed(e) : r = Rule(<<e.budget.id, "threshold">>, t[1], e.budget.group)
      BY <2>4 DEF ThresholdRules
    <3>2. t[1] \in PolicyActions
      BY DEF Crossed, PolicyActions
    <3> QED  BY <3>1, <3>2 DEF Rule
  <2>5. CASE r \in IncreaseRules(e)
    <3>1. e.budget.cap # None /\ r.action = e.budget.capAction
      BY <2>5 DEF IncreaseRules, Rule
    <3> QED  BY <1>1, <2>3, <3>1
  <2> QED  BY <2>2, <2>4, <2>5
<1> QED  BY <1>2, <1>3 DEF Rules

(* What is decided on rules whose actions the lattice knows is a verdict.  *)
LEMMA DecisionOnRules ==
  ASSUME NEW rules, \A r \in rules : r.action \in PolicyActions
  PROVE  DecisionOn(rules).result \in GateResults \ {"ERROR"}
<1> DEFINE ids == {r.id : r \in rules}
           action == [i \in ids |-> (CHOOSE r \in rules : r.id = i).action]
           group == [i \in ids |-> (CHOOSE r \in rules : r.id = i).group]
<1>1. ASSUME NEW i \in ids PROVE action[i] \in PolicyActions
  <2>1. \E r \in rules : r.id = i
    OBVIOUS
  <2>2. (CHOOSE r \in rules : r.id = i) \in rules
    BY <2>1
  <2> QED  BY <2>2
<1>2. DecisionOn(rules) = BuildDecision(ids, action, group)
  BY DEF DecisionOn
<1> HIDE DEF ids, action, group
<1> QED  BY <1>1, <1>2, DecisionOnMatched

LEMMA ExitIsVerdict ==
  ASSUME NEW r \in GateResults \ {"ERROR"}, NEW failOn
  PROVE  ExitCodeFor(r, failOn) \in Verdicts
BY DEF ExitCodeFor, ExitCode, Verdicts, GateResults

-----------------------------------------------------------------------------
(* The inductive invariant of the run: nothing is decided before it ends,  *)
(* and prices are asked for only while it estimates.                       *)

UndecidedUntilEnd == phase # "ended" => exit = Running
Configured == phase # "idle" => settings \in Settings
AsksWhileEstimating == call # None \/ reply # None => phase = "estimating"

RunInv == TypeOK /\ UndecidedUntilEnd /\ Configured /\ AsksWhileEstimating

LEMMA RunInitially == Init => RunInv
<1> SUFFICES ASSUME Init PROVE RunInv
  OBVIOUS
<1>1. /\ cache \in [PriceKey -> {None, Miss} \cup Nat] /\ call = None /\ reply = None
      /\ exit = Running /\ result = None /\ report = None /\ lookups = {}
      /\ phase = "idle" \/ (phase = "start" /\ settings \in Settings)
  BY DEF Init, PricingInit, AnalysisInit, NoRun
<1> QED  BY <1>1, AnalysisAssumption
         DEF RunInv, TypeOK, UndecidedUntilEnd, Configured, AsksWhileEstimating, Verdicts

LEMMA RunInductive == RunInv /\ PricingInv /\ PricingInv' /\ [Next]_<<vars, question>> => RunInv'
<1> SUFFICES ASSUME RunInv, PricingInv, PricingInv', [Next]_<<vars, question>> PROVE RunInv'
  OBVIOUS
<1> USE DEF UndecidedUntilEnd, Configured, AsksWhileEstimating
<1>1. cache' \in [PriceKey -> {None, Miss} \cup Nat]
  BY AnswersAreNumbers DEF PricingInv, Typed
<1>2. Running \notin Verdicts /\ Running # 1 /\ 1 \notin Verdicts /\ 30 \notin Verdicts
  BY AnalysisAssumption DEF Verdicts
<1>3. CASE UNCHANGED <<vars, question>>
  BY <1>1, <1>3 DEF vars, pvars, avars, RunInv, TypeOK
<1>4. ASSUME NEW at \in {"start", "configured", "parsed"}, Refuse(at) PROVE RunInv'
  BY <1>1, <1>2, <1>4 DEF RunInv, TypeOK, Refuse, End, pvars
<1>5. CASE LoadConfig
  BY <1>1, <1>2, <1>4, <1>5 DEF RunInv, TypeOK, LoadConfig, pvars
<1>6. CASE ReadTemplates
  BY <1>1, <1>2, <1>4, <1>6 DEF RunInv, TypeOK, ReadTemplates, pvars
<1>7. CASE BuildProvider
  BY <1>1, <1>2, <1>4, <1>7 DEF RunInv, TypeOK, BuildProvider, pvars
<1>8. CASE LookUp
  BY <1>1, <1>2, <1>8 DEF RunInv, TypeOK, LookUp, avars
<1>9. CASE Provide
  <2>1. call # None
    BY <1>9 DEF Provide, GetPage, Throttle, RefuseCall
  <2> QED  BY <1>1, <1>2, <1>9, <2>1 DEF RunInv, TypeOK, Provide, avars
<1>10. CASE TakeAnswer
  BY <1>1, <1>2, <1>10 DEF RunInv, TypeOK, TakeAnswer, TakeReply
<1>11. CASE Crash
  <2>1. call = None
    BY <1>11 DEF Crash, TakeReply, PricingInv, OneAtATime
  <2> QED  BY <1>1, <1>2, <1>11, <2>1 DEF RunInv, TypeOK, Crash, TakeReply, End
<1>12. CASE Conclude
  <2>1. /\ phase = "estimating" /\ lookups = {} /\ reply = None /\ call = None
        /\ UNCHANGED <<pvars, snapshots, settings, lookups, estimated>>
        /\ phase' = "ended"
    BY <1>12 DEF Conclude, End
  <2>2. PICK components, rules :
          /\ rules = Rules(Facts(components))
          /\ \/ /\ result' = DecisionOn(rules).result
                /\ exit' = ExitCodeFor(DecisionOn(rules).result, settings.failOn)
             \/ exit' = 30 /\ UNCHANGED <<report, result>>
    BY <1>12 DEF Conclude, End
  <2>3. \A r \in rules : r.action \in PolicyActions
    BY <2>1, <2>2, RulesActions DEF RunInv
  <2>4. DecisionOn(rules).result \in GateResults \ {"ERROR"}
    BY <2>3, DecisionOnRules
  <2>5. ExitCodeFor(DecisionOn(rules).result, settings.failOn) \in Verdicts
    BY <2>4, ExitIsVerdict
  <2>6. /\ exit' \in {Running, 1, 30} \cup Verdicts
        /\ exit' \in Verdicts <=> result' # None
        /\ result' # None => result' \in GateResults \ {"ERROR"}
        /\ result' = None => report' = None
    BY <1>2, <2>1, <2>2, <2>4, <2>5, AnalysisAssumption DEF RunInv, TypeOK
  <2> QED  BY <1>1, <2>1, <2>6 DEF RunInv, TypeOK, pvars
<1>13. CASE Outside
  <2>1. UNCHANGED <<avars, reply>> /\ phase = "estimating"
    BY <1>13 DEF Outside, Reprice, Expire
  <2> QED  BY <1>1, <1>2, <2>1 DEF RunInv, TypeOK, avars
<1> QED  BY <1>3, <1>5, <1>6, <1>7, <1>8, <1>9, <1>10, <1>11, <1>12, <1>13
         DEF Next, AnalysisNext, Step

LEMMA RunInvariant == Spec => []RunInv /\ []PricingInv
<1>1. Spec => []PricingInv
  BY RunsProviders, PricingInvariant, PTL
<1>2. Spec => []RunInv
  BY <1>1, RunInitially, RunInductive, PTL DEF Spec
<1> QED  BY <1>1, <1>2, PTL

(* Every variable keeps its type; a run has a verdict exactly when its     *)
(* exit code is one, and publishes nothing without (pipeline.py:157).      *)
THEOREM RunIsTyped == Spec => []TypeOK
BY RunInvariant, PTL DEF RunInv

-----------------------------------------------------------------------------
(* What becomes of a run whose provider broke.                             *)

Doomed ==
  /\ report = None /\ exit \notin Verdicts
  /\ (phase = "estimating" /\ reply = Broken) \/ phase = "ended"

LEMMA BrokenIsDoomed == RunInv /\ reply = Broken => Doomed
BY AnalysisAssumption, TellApartAssumption
   DEF RunInv, TypeOK, UndecidedUntilEnd, AsksWhileEstimating, Doomed, Verdicts

LEMMA DoomedStaysDoomed == RunInv /\ PricingInv /\ Doomed /\ [Next]_<<vars, question>> => Doomed'
<1> SUFFICES ASSUME RunInv, PricingInv, Doomed, [Next]_<<vars, question>> PROVE Doomed'
  OBVIOUS
<1>1. ASSUME LoadConfig \/ ReadTemplates \/ BuildProvider \/ LookUp \/ TakeAnswer \/ Conclude
      PROVE  FALSE
  BY <1>1, TellApartAssumption
     DEF Doomed, LoadConfig, ReadTemplates, BuildProvider, Refuse, LookUp, Ask, TakeAnswer, Conclude
<1>2. CASE Provide
  <2>1. phase = "ended"
    BY <1>2, TellApartAssumption
       DEF Doomed, Provide, GetPage, Throttle, RefuseCall, PricingInv, OneAtATime
  <2> QED  BY <1>2, <2>1 DEF Doomed, Provide, avars
<1>3. CASE Crash
  BY <1>3 DEF Doomed, Crash, End, Verdicts
<1>4. CASE Outside
  BY <1>4 DEF Doomed, Outside, avars, Reprice, Expire
<1>5. CASE UNCHANGED <<vars, question>>
  BY <1>5 DEF Doomed, vars, pvars, avars
<1> QED  BY <1>1, <1>2, <1>3, <1>4, <1>5 DEF Next, AnalysisNext, Step

(* A provider that broke once never leads to a verdict: from then on the   *)
(* run publishes nothing, and exits with none of pass, approval or block   *)
(* (enums.py:96).                                                          *)
THEOREM NoVerdictOnBroken == Spec => BrokenNeverPasses
<1>1. Doomed => report = None /\ exit \notin Verdicts
  BY DEF Doomed
<1> QED  BY <1>1, BrokenIsDoomed, DoomedStaysDoomed, RunInvariant, PTL DEF Spec, BrokenNeverPasses

-----------------------------------------------------------------------------
(* The files of the catalog.                                               *)

(* A catalog that loads quotes, for the key of any rate written in it,     *)
(* that rate (catalog.py:264).                                             *)
THEOREM LoadedCatalogIsUnambiguous == Spec => []CatalogMeansOneThing
<1>1. ASSUME NEW catalog, CatalogLoads(catalog), NEW e \in Entries(catalog)
      PROVE  Quote(catalog, KeyAt(catalog, e)) = RateAt(catalog, e).rate
  <2> DEFINE found == {d \in Entries(catalog) : KeyAt(catalog, d) = KeyAt(catalog, e)}
  <2>1. e \in found
    OBVIOUS
  <2>2. found = {e}
    BY <1>1, <2>1 DEF CatalogLoads
  <2>3. (CHOOSE d \in found : TRUE) = e
    BY <2>2
  <2>4. Quote(catalog, KeyAt(catalog, e)) = RateAt(catalog, CHOOSE d \in found : TRUE).rate
    BY <2>1 DEF Quote
  <2> QED  BY <2>3, <2>4
<1>2. CatalogMeansOneThing
  BY <1>1 DEF CatalogMeansOneThing
<1> QED  BY <1>2, PTL

(* A catalog that agrees with a lock prices everything as what was locked, *)
(* whichever files were added, removed or edited (catalog.py:182).         *)
THEOREM LockedCatalogIsPinned == Spec => []LockPinsPrices

<1>1. ASSUME NEW catalog, NEW locked, Problems(catalog, locked) = {}
      PROVE  /\ CatalogLoads(catalog) <=> CatalogLoads(locked)
             /\ \A e \in Entries(catalog) :
                  Quote(catalog, KeyAt(catalog, e)) = Quote(locked, KeyAt(catalog, e))
  <2>1. DOMAIN catalog = DOMAIN locked /\ \A f \in DOMAIN catalog : catalog[f] = locked[f]
    BY <1>1 DEF Problems
  <2>2. Services(catalog) = Services(locked) /\ Services(catalog) \subseteq DOMAIN catalog
    BY <2>1 DEF Services
  <2>3. Entries(catalog) = Entries(locked)
    <3>1. {s \in Services(catalog) : catalog[s].valid} = {s \in Services(locked) : locked[s].valid}
      BY <2>1, <2>2
    <3>2. \A f \in {s \in Services(catalog) : catalog[s].valid} :
            {f} \X DOMAIN catalog[f].prices = {f} \X DOMAIN locked[f].prices
      BY <2>1, <2>2
    <3>3. {{f} \X DOMAIN catalog[f].prices : f \in {s \in Services(catalog) : catalog[s].valid}}
          = {{f} \X DOMAIN locked[f].prices : f \in {s \in Services(locked) : locked[s].valid}}
      BY <3>1, <3>2, Zenon
    <3> QED  BY <3>3, Zenon DEF Entries
  <2>4. \A e \in Entries(catalog) : e[1] \in DOMAIN catalog
    BY <2>2 DEF Entries
  <2>5. \A e \in Entries(catalog) :
          KeyAt(catalog, e) = KeyAt(locked, e) /\ RateAt(catalog, e) = RateAt(locked, e)
    BY <2>1, <2>4 DEF KeyAt, RateAt
  <2>6. Readable(catalog) <=> Readable(locked)
    BY <2>1, <2>2 DEF Readable
  <2>7. CatalogLoads(catalog) <=> CatalogLoads(locked)
    BY <2>3, <2>5, <2>6 DEF CatalogLoads
  <2>8. ASSUME NEW key PROVE Quote(catalog, key) = Quote(locked, key)
    <3> DEFINE found(c) == {e \in Entries(c) : KeyAt(c, e) = key}
    <3>1. found(catalog) = found(locked)
      BY <2>3, <2>5
    <3>2. CASE found(catalog) = {}
      BY <3>1, <3>2 DEF Quote
    <3>3. CASE found(catalog) # {}
      <4>1. PICK e \in found(catalog) : e = CHOOSE d \in found(catalog) : TRUE
        BY <3>3
      <4>2. e = CHOOSE d \in found(locked) : TRUE
        BY <3>1, <4>1
      <4>3. Quote(catalog, key) = RateAt(catalog, e).rate
        BY <3>3, <4>1 DEF Quote
      <4>4. Quote(locked, key) = RateAt(locked, e).rate
        BY <3>1, <3>3, <4>2 DEF Quote
      <4> QED  BY <2>5, <4>3, <4>4
    <3> QED  BY <3>2, <3>3
  <2> QED  BY <2>7, <2>8
<1>2. LockPinsPrices
  BY <1>1 DEF LockPinsPrices
<1> QED  BY <1>2, PTL

-----------------------------------------------------------------------------
(* Places of the plan.                                                     *)

(* The keys of a snapshot can be gone through one by one.                  *)
LEMMA KeysInOrder ==
  ASSUME NEW S, IsFiniteSet(S)
  PROVE  SetToSeq(S) \in Seq(S)
<1>1. Cardinality(S) \in Nat /\ ExistsBijection(1 .. Cardinality(S), S)
  BY FS_CardinalityType
<1>2. PICK f \in [1 .. Cardinality(S) -> S] : IsInjective(f)
  BY <1>1 DEF ExistsBijection, Bijection, Injection, IsInjective
<1>3. SetToSeq(S) \in [1 .. Cardinality(S) -> S]
  BY <1>2 DEF SetToSeq
<1> QED  BY <1>1, <1>3

(* What a pair holds is what the snapshots hold for its key.               *)
IsPair(pair, before, after) ==
  /\ pair.sides[1] # None => pair.key \in DOMAIN before /\ pair.sides[1] = before[pair.key]
  /\ pair.sides[2] # None => pair.key \in DOMAIN after /\ pair.sides[2] = after[pair.key]

LEMMA PairsInOrder ==
  ASSUME NEW before, NEW after, IsFiniteSet(DOMAIN before), IsFiniteSet(DOMAIN after)
  PROVE  LET pairs == Pairs(before, after)
         IN  IsSequence(pairs) /\ \A n \in DOMAIN pairs : IsPair(pairs[n], before, after)
<1> DEFINE matched == {k \in DOMAIN before \cap DOMAIN after : before[k].type = after[k].type}
           m == SetToSeq(matched)
           b == SetToSeq(DOMAIN before \ matched)
           a == SetToSeq(DOMAIN after \ matched)
           ms == [i \in DOMAIN m |-> [key |-> m[i], sides |-> <<before[m[i]], after[m[i]]>>]]
           bs == [i \in DOMAIN b |-> [key |-> b[i], sides |-> <<before[b[i]], None>>]]
           as == [i \in DOMAIN a |-> [key |-> a[i], sides |-> <<None, after[a[i]]>>]]
           Good(s) == IsSequence(s) /\ \A n \in DOMAIN s : IsPair(s[n], before, after)
<1>1. Pairs(before, after) = ms \o bs \o as
  BY DEF Pairs
<1>2. m \in Seq(matched)
  <2>1. IsFiniteSet(matched)
    BY FS_Subset
  <2> QED  BY <2>1, KeysInOrder
<1>3. b \in Seq(DOMAIN before \ matched)
  <2>1. IsFiniteSet(DOMAIN before \ matched)
    BY FS_Difference
  <2> QED  BY <2>1, KeysInOrder
<1>4. a \in Seq(DOMAIN after \ matched)
  <2>1. IsFiniteSet(DOMAIN after \ matched)
    BY FS_Difference
  <2> QED  BY <2>1, KeysInOrder
<1>5. ASSUME NEW s, NEW len \in Nat, DOMAIN s = 1 .. len, s = [i \in 1 .. len |-> s[i]]
      PROVE  IsSequence(s)
  BY <1>5 DEF IsSequence, ToSet
<1>6. ASSUME NEW S, NEW s \in Seq(S)
      PROVE  \E len \in Nat : DOMAIN s = 1 .. len /\ s \in [1 .. len -> S]
  <2>1. Len(s) \in Nat /\ DOMAIN s = 1 .. Len(s) /\ s \in [1 .. Len(s) -> S]
    OBVIOUS
  <2> QED  BY <2>1
<1>7. Good(ms)
  <2>1. PICK len \in Nat : DOMAIN m = 1 .. len /\ m \in [1 .. len -> matched]
    BY <1>6, <1>2
  <2>2. IsSequence(ms)
    BY <1>5, <2>1
  <2>3. \A n \in DOMAIN ms : IsPair(ms[n], before, after)
    BY <2>1 DEF IsPair
  <2> QED  BY <2>2, <2>3
<1>8. Good(bs)
  <2>1. PICK len \in Nat : DOMAIN b = 1 .. len /\ b \in [1 .. len -> DOMAIN before \ matched]
    BY <1>6, <1>3
  <2>2. IsSequence(bs)
    BY <1>5, <2>1
  <2>3. \A n \in DOMAIN bs : IsPair(bs[n], before, after)
    BY <2>1 DEF IsPair
  <2> QED  BY <2>2, <2>3
<1>9. Good(as)
  <2>1. PICK len \in Nat : DOMAIN a = 1 .. len /\ a \in [1 .. len -> DOMAIN after \ matched]
    BY <1>6, <1>4
  <2>2. IsSequence(as)
    BY <1>5, <2>1
  <2>3. \A n \in DOMAIN as : IsPair(as[n], before, after)
    BY <2>1 DEF IsPair
  <2> QED  BY <2>2, <2>3
<1>10. ASSUME NEW s, NEW t, Good(s), Good(t) PROVE Good(s \o t)
  <2> DEFINE j == s \o t
  <2>1. /\ IsSequence(j)
        /\ Len(s) \in Nat /\ Len(t) \in Nat /\ DOMAIN s = 1 .. Len(s) /\ DOMAIN t = 1 .. Len(t)
        /\ DOMAIN j = 1 .. Len(s) + Len(t)
        /\ \A i \in DOMAIN s : j[i] = s[i]
        /\ \A i \in DOMAIN t : j[Len(s) + i] = t[i]
    BY <1>10, JoinedSequences
  <2> HIDE DEF j
  <2>2. ASSUME NEW n \in DOMAIN j, n \notin DOMAIN s PROVE IsPair(j[n], before, after)
    <3>1. n - Len(s) \in DOMAIN t /\ n = Len(s) + (n - Len(s))
      BY <2>1, <2>2
    <3>2. j[n] = t[n - Len(s)]
      BY <2>1, <3>1
    <3> QED  BY <1>10, <3>1, <3>2
  <2>3. \A n \in DOMAIN s : IsPair(j[n], before, after)
    BY <1>10, <2>1
  <2> QED  BY <2>1, <2>2, <2>3 DEF j
<1> HIDE DEF ms, bs, as, Good
<1>11. Good(ms \o bs \o as)
  <2>1. Good(ms \o bs)
    BY <1>7, <1>8, <1>10
  <2> QED  BY <1>9, <1>10, <2>1
<1> QED  BY <1>1, <1>11 DEF Good

LEMMA ChargesOnDistinct ==
  ASSUME NEW pair, NEW side, NEW setting
  PROVE  LET charges == ChargesOn(pair, side, setting)
         IN  /\ \E n \in Nat : DOMAIN charges = 1 .. n
             /\ \A i, j \in DOMAIN charges : charges[i].dimension = charges[j].dimension => i = j
<1> DEFINE charges == ChargesOn(pair, side, setting)
<1>1. CASE pair.sides[side] = None
  <2>1. charges = <<>>
    BY <1>1 DEF ChargesOn
  <2>2. 0 \in Nat /\ DOMAIN charges = 1 .. 0
    BY <2>1
  <2> HIDE DEF charges
  <2> QED  BY <2>1, <2>2 DEF charges
<1>2. CASE pair.sides[side] # None
  <2>1. charges = Estimate(pair.sides[side], Context(setting))
    BY <1>2 DEF ChargesOn
  <2>2. PICK D : Within(charges, D)
    BY <2>1, ChargesDistinct
  <2> HIDE DEF charges
  <2>3. Len(charges) \in Nat /\ DOMAIN charges = 1 .. Len(charges)
    BY <2>2 DEF Within, IsSequence
  <2> QED  BY <2>2, <2>3 DEF Within, charges
<1> QED  BY <1>1, <1>2

(* The place of a charge: its pair, its side, and where it is among the    *)
(* charges of that side.                                                   *)
LEMMA PlacesOfPlan ==
  ASSUME NEW pairs, NEW setting, IsSequence(pairs)
  PROVE  LET plan == PlanOf(pairs, setting)
         IN  /\ \A p \in DOMAIN plan :
                  /\ p \in Nat \X {1, 2} \X Nat
                  /\ p[1] \in DOMAIN pairs
                  /\ p[3] \in DOMAIN ChargesOn(pairs[p[1]], p[2], setting)
                  /\ plan[p] = [key |-> pairs[p[1]].key, sides |-> pairs[p[1]].sides, side |-> p[2],
                                charge |-> ChargesOn(pairs[p[1]], p[2], setting)[p[3]]]
             /\ \A n \in DOMAIN pairs : \A side \in {1, 2} :
                  \A i \in DOMAIN ChargesOn(pairs[n], side, setting) : <<n, side, i>> \in DOMAIN plan
<1> DEFINE plan == PlanOf(pairs, setting)
           at(p) == ChargesOn(pairs[p[1]], p[2], setting)
           sides == (DOMAIN pairs) \X {1, 2}
           places == UNION {{<<s[1], s[2], i>> : i \in DOMAIN at(s)} : s \in sides}
<1>1. plan = [p \in places |->
               [key |-> pairs[p[1]].key, sides |-> pairs[p[1]].sides, side |-> p[2],
                charge |-> at(p)[p[3]]]]
  BY DEF PlanOf
<1>2. DOMAIN pairs \subseteq Nat
  BY DEF IsSequence
<1>3. ASSUME NEW p \in places
      PROVE  /\ p \in Nat \X {1, 2} \X Nat /\ p[1] \in DOMAIN pairs
             /\ p[3] \in DOMAIN ChargesOn(pairs[p[1]], p[2], setting)
  <2>1. PICK s \in sides : \E i \in DOMAIN at(s) : p = <<s[1], s[2], i>>
    OBVIOUS
  <2>2. PICK i \in DOMAIN at(s) : p = <<s[1], s[2], i>>
    BY <2>1
  <2>3. s[1] \in DOMAIN pairs /\ s[2] \in {1, 2}
    OBVIOUS
  <2>4. i \in Nat
    <3>1. PICK len \in Nat : DOMAIN at(s) = 1 .. len
      BY ChargesOnDistinct
    <3> QED  BY <3>1
  <2>5. p[1] = s[1] /\ p[2] = s[2] /\ p[3] = i
    BY <2>2
  <2> QED  BY <1>2, <2>2, <2>3, <2>4, <2>5
<1>4. ASSUME NEW n \in DOMAIN pairs, NEW side \in {1, 2},
             NEW i \in DOMAIN ChargesOn(pairs[n], side, setting)
      PROVE  <<n, side, i>> \in places
  <2>1. <<n, side>> \in sides /\ i \in DOMAIN at(<<n, side>>)
    OBVIOUS
  <2> QED  BY <2>1
<1> HIDE DEF places
<1>5. DOMAIN plan = places
  BY <1>1
<1>6. \A p \in places : plan[p] = [key |-> pairs[p[1]].key, sides |-> pairs[p[1]].sides, side |-> p[2],
                                   charge |-> ChargesOn(pairs[p[1]], p[2], setting)[p[3]]]
  BY <1>1
<1> HIDE DEF plan, at
<1> QED  BY <1>3, <1>4, <1>5, <1>6 DEF plan

(* The plan of the run.                                                    *)
LEMMA PlanOfRun ==
  ASSUME snapshots \in Snapshots, settings \in Settings
  PROVE  /\ IsSequence(PairsOf(snapshots))
         /\ \A n \in DOMAIN PairsOf(snapshots) : IsPair(PairsOf(snapshots)[n], Before, After)
         /\ Plan = PlanOf(PairsOf(snapshots), settings)
<1>1. IsFiniteSet(DOMAIN Before) /\ IsFiniteSet(DOMAIN After)
  BY AnalysisAssumption DEF Before, After
<1>2. Plan = PlanOf(PairsOf(snapshots), settings)
  BY DEF Plan, Plans
<1> QED  BY <1>1, <1>2, PairsInOrder DEF PairsOf, Before, After

(* Prices are looked up one after the other.                               *)
LEMMA NextIsOne ==
  ASSUME snapshots \in Snapshots, settings \in Settings, lookups \subseteq DOMAIN Plan,
         NEW p, NEW q, IsNext(p), IsNext(q)
  PROVE  p = q
<1>1. p \in DOMAIN Plan /\ q \in DOMAIN Plan
  BY DEF IsNext
<1>2. p \in Nat \X {1, 2} \X Nat /\ q \in Nat \X {1, 2} \X Nat
  BY <1>1, PlanOfRun, PlacesOfPlan
<1>3. p = q \/ (Precedes(p, q) /\ Precedes(q, p))
  BY DEF IsNext
<1> QED  BY <1>2, <1>3 DEF Precedes

-----------------------------------------------------------------------------
(* The prices of the plan.                                                 *)

KeyOf(p) == Plan[p].charge.key

(* What has been found out about a key; a charge without a key has none.   *)
AnswerOn(key) == IF key = None THEN Miss ELSE KnownPrices[key]

HasAnswer(key) == key \in PriceKey /\ KnownPrices[key] # None

(* The run keeps to what it was given and to the places of its plan.       *)
KeepsPlan ==
  /\ phase # "idle" => snapshots \in Snapshots
  /\ expiries \in Nat
  /\ phase = "estimating" => lookups \subseteq ToLookUp(Plan)

(* While no entry expires, what was estimated is the plan at the prices    *)
(* known now, but for the places still to look up.                         *)
Priced ==
  phase = "estimating" /\ expiries = 0 =>
    /\ \A p \in DOMAIN Plan \ lookups : KeyOf(p) # None => HasAnswer(KeyOf(p))
    /\ estimated = {Dimension(Plan[p], AnswerOn(KeyOf(p))) : p \in DOMAIN Plan \ lookups}

(* The lookup under way, and the answer to it, are about the next place.   *)
InHand ==
  phase = "estimating" /\ expiries = 0 =>
    \A p \in lookups : IsNext(p) =>
      /\ call # None => call.key = KeyOf(p)
      /\ reply \notin {None, Broken} =>
           /\ HasAnswer(KeyOf(p))
           /\ reply = [key |-> KeyOf(p), answer |-> KnownPrices[KeyOf(p)]]

EstimateInv == KeepsPlan /\ Priced /\ InHand

LEMMA StepKeepsPlan ==
  ASSUME RunInv, KeepsPlan, [Next]_<<vars, question>>
  PROVE  KeepsPlan'
<1>1. CASE UNCHANGED <<vars, question>>
  BY <1>1 DEF KeepsPlan, vars, pvars, avars, Plan, ToLookUp
<1>2. ASSUME LoadConfig \/ ReadTemplates \/ Refuse("parsed") PROVE KeepsPlan'
  BY <1>2 DEF KeepsPlan, LoadConfig, ReadTemplates, Refuse, End, pvars
<1>3. CASE BuildProvider
  <2>1. CASE Refuse("parsed")
    BY <1>2, <2>1
  <2>2. CASE ~Refuse("parsed")
    <3>1. /\ phase = "parsed" /\ UNCHANGED <<pvars, snapshots, settings>>
          /\ lookups' = ToLookUp(Plan)
      BY <1>3, <2>2 DEF BuildProvider
    <3> QED  BY <3>1 DEF KeepsPlan, pvars, Plan, ToLookUp
  <2> QED  BY <2>1, <2>2
<1>4. ASSUME phase' = phase /\ UNCHANGED <<snapshots, settings>>, lookups' \subseteq lookups,
             expiries' \in Nat
      PROVE  KeepsPlan'
  BY <1>4 DEF KeepsPlan, Plan, ToLookUp
<1>5. CASE LookUp
  BY <1>4, <1>5 DEF LookUp, avars, Ask, KeepsPlan
<1>6. CASE Provide
  BY <1>4, <1>6 DEF Provide, avars, GetPage, Throttle, RefuseCall, KeepsPlan
<1>7. CASE TakeAnswer
  BY <1>4, <1>7 DEF TakeAnswer, TakeReply, KeepsPlan
<1>8. CASE Crash \/ Conclude
  BY <1>8 DEF Crash, Conclude, TakeReply, End, KeepsPlan, pvars
<1>9. CASE Outside
  <2>1. expiries' \in {expiries, expiries + 1} /\ UNCHANGED avars
    BY <1>9 DEF Outside, Reprice, Expire
  <2>2. expiries' \in Nat
    BY <2>1 DEF KeepsPlan
  <2> QED  BY <1>4, <2>1, <2>2 DEF avars
<1> QED  BY <1>1, <1>2, <1>3, <1>5, <1>6, <1>7, <1>8, <1>9 DEF Next, AnalysisNext, Step

(* Steps of the providers take back nothing and tell only what is known.   *)
LEMMA AnswersStay ==
  ASSUME PricingInv, [PricingNext]_pvars, expiries \in Nat, UNCHANGED expiries,
         NEW key, HasAnswer(key)
  PROVE  HasAnswer(key)' /\ KnownPrices'[key] = KnownPrices[key]
BY PricesStay DEF HasAnswer

LEMMA PricedStays ==
  ASSUME PricingInv, [PricingNext]_pvars, KeepsPlan, Priced, phase = "estimating",
         UNCHANGED <<snapshots, settings, lookups, estimated>>,
         expiries' = 0 => UNCHANGED expiries
  PROVE  Priced'
<1> SUFFICES ASSUME expiries' = 0 PROVE Priced'
  BY DEF Priced
<1>1. PICK plan : plan = Plan
  OBVIOUS
<1>2. plan = Plan'
  BY <1>1 DEF Plan
<1> DEFINE key(p) == plan[p].charge.key
           done == DOMAIN plan \ lookups
<1>3. /\ \A p \in done : key(p) # None => HasAnswer(key(p))
      /\ estimated = {Dimension(plan[p], AnswerOn(key(p))) : p \in done}
  BY <1>1 DEF Priced, KeyOf
<1>4. \A p \in done : key(p) # None => HasAnswer(key(p))' /\ KnownPrices'[key(p)] = KnownPrices[key(p)]
  BY <1>3, AnswersStay DEF KeepsPlan
<1>5. \A p \in done : AnswerOn(key(p)) = IF key(p) = None THEN Miss ELSE KnownPrices'[key(p)]
  BY <1>4 DEF AnswerOn
<1>6. estimated = {Dimension(plan[p], IF key(p) = None THEN Miss ELSE KnownPrices'[key(p)]) : p \in done}
  BY <1>3, <1>5
<1> QED  BY <1>2, <1>4, <1>6 DEF Priced, KeyOf, AnswerOn, HasAnswer

(* What is in hand stays in hand while the provider works.                 *)
LEMMA InHandStays ==
  ASSUME PricingInv, [PricingNext]_pvars, KeepsPlan, InHand, phase = "estimating",
         UNCHANGED <<snapshots, settings, lookups>>, expiries' = 0 => UNCHANGED expiries,
         call' # None => call # None /\ call'.key = call.key,
         reply' # reply => GetPage \/ reply' = Broken
  PROVE  InHand'
<1> SUFFICES ASSUME expiries' = 0 PROVE InHand'
  BY DEF InHand
<1>1. PICK plan : plan = Plan /\ plan = Plan'
  BY DEF Plan
<1> DEFINE key(p) == plan[p].charge.key
           Good(p) == /\ call' # None => call'.key = key(p)
                      /\ reply' \notin {None, Broken} =>
                           /\ HasAnswer(key(p))'
                           /\ reply' = [key |-> key(p), answer |-> KnownPrices'[key(p)]]
<1>2. ASSUME NEW p \in lookups, IsNext(p) PROVE Good(p)
  <2>1. /\ call # None => call.key = key(p)
        /\ reply \notin {None, Broken} =>
             /\ HasAnswer(key(p))
             /\ reply = [key |-> key(p), answer |-> KnownPrices[key(p)]]
    BY <1>1, <1>2 DEF InHand, KeyOf
  <2>2. CASE reply' = reply
    BY <2>1, <2>2, AnswersStay DEF KeepsPlan
  <2>3. CASE reply' # reply /\ GetPage
    <3>1. call # None /\ reply = None
      BY <2>3 DEF GetPage, PricingInv, OneAtATime
    <3>2. call.key \in PriceKey
      BY <3>1, PricingAssumption DEF PricingInv, Typed, Calls
    <3>3. reply' # None
      BY <2>3, <3>1
    <3>4. reply' = [key |-> call.key, answer |-> KnownPrices'[call.key]] /\ KnownPrices'[call.key] # None
      BY <2>3, <3>2, <3>3, AnswerIsKnown
    <3> QED  BY <2>1, <3>1, <3>2, <3>4 DEF HasAnswer
  <2>4. CASE reply' = Broken
    BY <2>1, <2>4
  <2> QED  BY <2>2, <2>3, <2>4
<1>3. \A p : IsNext(p)' <=> IsNext(p)
  BY DEF IsNext
<1> QED  BY <1>1, <1>2, <1>3 DEF InHand, KeyOf, HasAnswer

LEMMA BuildPrices ==
  ASSUME RunInv, BuildProvider, phase' = "estimating"
  PROVE  Priced' /\ InHand'
<1>1. /\ phase = "parsed" /\ UNCHANGED <<pvars, snapshots, settings>>
      /\ lookups' = ToLookUp(Plan)
      /\ estimated' = {Dimension(Plan[p], Miss) : p \in NotToLookUp(Plan)}
  BY DEF BuildProvider, Refuse, End
<1>2. call' = None /\ reply' = None
  BY <1>1 DEF RunInv, AsksWhileEstimating, pvars
<1>3. PICK plan : plan = Plan /\ plan = Plan'
  BY <1>1 DEF Plan
<1>4. DOMAIN plan \ lookups' = NotToLookUp(plan) /\ \A p \in NotToLookUp(plan) : plan[p].charge.key = None
  BY <1>1, <1>3 DEF ToLookUp, NotToLookUp
<1>5. Priced'
  BY <1>1, <1>3, <1>4 DEF Priced, KeyOf, AnswerOn
<1> QED  BY <1>2, <1>5 DEF InHand

LEMMA LookUpPrices ==
  ASSUME RunInv, PricingInv, EstimateInv, LookUp
  PROVE  Priced' /\ InHand'
<1>1. PICK p \in lookups : IsNext(p) /\ Ask(KeyOf(p)) /\ KeyOf(p) \in PriceKey
  BY DEF LookUp, KeyOf
<1>2. phase = "estimating" /\ UNCHANGED avars /\ UNCHANGED expiries /\ [PricingNext]_pvars
  BY <1>1 DEF LookUp, Ask, PricingNext
<1>3. Priced'
  BY <1>2, PricedStays DEF EstimateInv, avars
<1>4. PICK plan : plan = Plan /\ plan = Plan'
  BY <1>2 DEF Plan, avars
<1>5. PICK key : key = plan[p].charge.key /\ key \in PriceKey /\ Ask(key)
  BY <1>1, <1>4 DEF KeyOf
<1>6. call' # None => call'.key = key
  BY <1>5 DEF Ask, Call
<1>7. reply' # None => HasAnswer(key)' /\ reply' = [key |-> key, answer |-> KnownPrices'[key]]
  BY <1>5, AnswerIsKnown DEF HasAnswer
<1>8. \A q \in lookups' : IsNext(q)' => q = p
  <2>1. snapshots \in Snapshots /\ settings \in Settings /\ lookups \subseteq DOMAIN Plan
    BY <1>2 DEF RunInv, Configured, EstimateInv, KeepsPlan, ToLookUp
  <2>2. ASSUME NEW q \in lookups', IsNext(q)' PROVE q = p
    <3>1. IsNext(q)
      BY <1>2, <2>2 DEF IsNext, avars
    <3> QED  BY <1>1, <2>1, <3>1, NextIsOne
  <2> QED  BY <2>2
<1> QED  BY <1>3, <1>4, <1>5, <1>6, <1>7, <1>8 DEF InHand, KeyOf, HasAnswer

LEMMA TakeAnswerPrices ==
  ASSUME RunInv, PricingInv, EstimateInv, TakeAnswer
  PROVE  Priced' /\ InHand'
<1>1. PICK p \in lookups : /\ IsNext(p)
                           /\ estimated' = estimated \cup {Dimension(Plan[p], reply.answer)}
                           /\ lookups' = lookups \ {p}
  BY DEF TakeAnswer
<1>2. /\ phase = "estimating" /\ reply \notin {None, Broken}
      /\ reply' = None /\ UNCHANGED <<kind, call, cache, expiries, snapshots, settings, phase>>
  BY DEF TakeAnswer, TakeReply
<1>3. call' = None
  BY <1>2 DEF PricingInv, OneAtATime
<1>4. InHand'
  BY <1>2, <1>3 DEF InHand
<1>5. ASSUME expiries' = 0 PROVE Priced'
  <2>1. PICK plan : plan = Plan /\ plan = Plan'
    BY <1>2 DEF Plan
  <2>2. PICK known : known = KnownPrices /\ known = KnownPrices'
    BY <1>2 DEF KnownPrices, Live, Chained
  <2> DEFINE key(q) == plan[q].charge.key
             answer(q) == IF key(q) = None THEN Miss ELSE known[key(q)]
             done == DOMAIN plan \ lookups
  <2>3. /\ key(p) \in PriceKey /\ known[key(p)] # None /\ reply.answer = known[key(p)]
        /\ p \in DOMAIN plan /\ key(p) # None
    BY <1>1, <1>2, <1>5, <2>1, <2>2 DEF EstimateInv, KeepsPlan, InHand, HasAnswer, KeyOf, ToLookUp
  <2>4. DOMAIN plan \ lookups' = done \cup {p}
    BY <1>1, <2>3
  <2>5. /\ \A q \in done : key(q) # None => key(q) \in PriceKey /\ known[key(q)] # None
        /\ estimated = {Dimension(plan[q], answer(q)) : q \in done}
    BY <1>2, <1>5, <2>1, <2>2 DEF EstimateInv, Priced, HasAnswer, KeyOf, AnswerOn
  <2>6. estimated' = {Dimension(plan[q], answer(q)) : q \in done \cup {p}}
    BY <1>1, <2>1, <2>3, <2>5
  <2> QED  BY <2>1, <2>2, <2>3, <2>4, <2>5, <2>6 DEF Priced, HasAnswer, KeyOf, AnswerOn
<1> QED  BY <1>4, <1>5 DEF Priced

LEMMA EstimateInductive ==
  ASSUME RunInv, PricingInv, EstimateInv, [Next]_<<vars, question>>
  PROVE  EstimateInv'
<1>1. KeepsPlan' /\ [PricingNext]_pvars
  BY StepKeepsPlan, StepOfProviders DEF EstimateInv
<1>2. ASSUME phase' # "estimating" PROVE Priced' /\ InHand'
  BY <1>2 DEF Priced, InHand
<1>3. CASE UNCHANGED <<vars, question>>
  <2>1. UNCHANGED <<snapshots, settings, phase, lookups, estimated, call, reply, expiries>>
    BY <1>3 DEF vars, pvars, avars
  <2>2. phase = "estimating" => Priced'
    BY <1>1, <2>1, PricedStays DEF EstimateInv
  <2>3. phase = "estimating" => InHand'
    BY <1>1, <2>1, InHandStays DEF EstimateInv
  <2> QED  BY <1>1, <1>2, <2>1, <2>2, <2>3 DEF EstimateInv
<1>4. ASSUME LoadConfig \/ ReadTemplates \/ Crash \/ Conclude PROVE phase' # "estimating"
  BY <1>4 DEF LoadConfig, ReadTemplates, Crash, Conclude, Refuse, End
<1>5. CASE Provide
  <2>1. /\ UNCHANGED <<snapshots, settings, phase, lookups, estimated, expiries>>
        /\ call # None /\ phase = "estimating"
    BY <1>5 DEF Provide, avars, GetPage, Throttle, RefuseCall, RunInv, AsksWhileEstimating
  <2>2. call' # None => call'.key = call.key
    BY <1>5, <2>1 DEF Provide, GetPage, Throttle, RefuseCall, PricingInv, Typed, Calls
  <2>3. reply' # reply => GetPage \/ reply' = Broken
    BY <1>5 DEF Provide, Throttle, RefuseCall
  <2>4. Priced'
    BY <1>1, <2>1, PricedStays DEF EstimateInv
  <2>5. InHand'
    BY <1>1, <2>1, <2>2, <2>3, InHandStays DEF EstimateInv
  <2> QED  BY <1>1, <2>4, <2>5 DEF EstimateInv
<1>6. CASE Outside
  <2>1. /\ UNCHANGED <<snapshots, settings, phase, lookups, estimated>> /\ phase = "estimating"
        /\ UNCHANGED reply /\ expiries' \in {expiries, expiries + 1} /\ expiries \in Nat
    BY <1>6 DEF Outside, avars, Reprice, Expire, EstimateInv, KeepsPlan
  <2>2. expiries' = 0 => UNCHANGED expiries
    BY <2>1
  <2>3. call' # None => call # None /\ call'.key = call.key
    <3>1. UNCHANGED call \/ (call # None /\ call' = [call EXCEPT !.moved = TRUE])
      BY <1>6 DEF Outside, Reprice, Expire
    <3> QED  BY <3>1 DEF PricingInv, Typed, Calls
  <2>4. Priced'
    BY <1>1, <2>1, <2>2, PricedStays DEF EstimateInv
  <2>5. InHand'
    BY <1>1, <2>1, <2>2, <2>3, InHandStays DEF EstimateInv
  <2> QED  BY <1>1, <2>4, <2>5 DEF EstimateInv
<1>7. CASE BuildProvider
  BY <1>1, <1>2, <1>7, BuildPrices DEF EstimateInv
<1>8. CASE LookUp
  BY <1>1, <1>8, LookUpPrices DEF EstimateInv
<1>9. CASE TakeAnswer
  BY <1>1, <1>9, TakeAnswerPrices DEF EstimateInv
<1> QED  BY <1>1, <1>2, <1>3, <1>4, <1>5, <1>6, <1>7, <1>8, <1>9
         DEF EstimateInv, Next, AnalysisNext, Step

LEMMA EstimateInvariant == Spec => []EstimateInv
<1>1. Init => EstimateInv
  BY DEF Init, PricingInit, AnalysisInit, NoRun, EstimateInv, KeepsPlan, Priced, InHand
<1> QED  BY <1>1, RunInvariant, EstimateInductive, PTL DEF Spec

(* Both sides of a component of an unchanged resource are charged alike,   *)
(* and priced from one answer.                                             *)
LEMMA SameStateSameCost ==
  ASSUME snapshots \in Snapshots, settings \in Settings,
         estimated = {Dimension(Plan[p], AnswerOn(KeyOf(p))) : p \in DOMAIN Plan},
         NEW c \in Components, c.sides[1] # None, c.sides[1] = c.sides[2]
  PROVE  c.current = c.proposed
<1>1. PICK plan, pairs : plan = Plan /\ pairs = PairsOf(snapshots) /\ plan = PlanOf(pairs, settings)
                         /\ IsSequence(pairs)
  BY PlanOfRun
<1> DEFINE cost(p) == Dimension(plan[p], AnswerOn(plan[p].charge.key))
           places == DOMAIN plan
           group(e) == {d \in estimated : d.sides = e.sides /\ d.key = e.key /\ d.dimension = e.dimension}
<1>2. PICK e \in estimated : c = Component(group(e))
  BY DEF Components
<1>3. PICK dims : dims = group(e) /\ e \in dims
  OBVIOUS
<1>4. PICK p \in places : e = cost(p)
  BY <1>1 DEF KeyOf
<1>5. \A d \in estimated : \E q \in places : d = cost(q)
  BY <1>1 DEF KeyOf
<1>6. \A q \in places : cost(q) \in estimated
  BY <1>1 DEF KeyOf
<1>7. \A d \in dims : d.sides = e.sides /\ d.key = e.key /\ d.dimension = e.dimension
  BY <1>3
<1>8. c.sides = e.sides
  <2>1. PICK one : one = (CHOOSE d \in dims : TRUE) /\ one \in dims
    BY <1>3
  <2>2. c.sides = one.sides
    BY <1>2, <1>3, <2>1 DEF Component
  <2> QED  BY <1>7, <2>1, <2>2
<1>9. \A q \in places :
        /\ q[1] \in DOMAIN pairs /\ q[2] \in {1, 2} /\ q \in Nat \X {1, 2} \X Nat
        /\ q[3] \in DOMAIN ChargesOn(pairs[q[1]], q[2], settings)
        /\ plan[q] = [key |-> pairs[q[1]].key, sides |-> pairs[q[1]].sides, side |-> q[2],
                      charge |-> ChargesOn(pairs[q[1]], q[2], settings)[q[3]]]
  BY <1>1, PlacesOfPlan
<1>10. PICK charges : charges = ChargesOn(pairs[p[1]], p[2], settings)
  OBVIOUS
<1>11. /\ cost(p).sides = pairs[p[1]].sides /\ cost(p).key = pairs[p[1]].key
       /\ cost(p).dimension = plan[p].charge.dimension /\ plan[p].charge = charges[p[3]]
  BY <1>9, <1>10 DEF Dimension
<1>12. ASSUME NEW n \in DOMAIN pairs, pairs[n].sides = e.sides, NEW side \in {1, 2}
       PROVE  ChargesOn(pairs[n], side, settings) = charges
  <2>1. pairs[n].sides[side] = pairs[p[1]].sides[p[2]] /\ pairs[n].sides[side] # None
    BY <1>4, <1>8, <1>9, <1>11, <1>12
  <2> QED  BY <1>10, <2>1 DEF ChargesOn
<1>13. \A d \in dims : d.monthly = e.monthly
  <2> SUFFICES ASSUME NEW d \in dims PROVE d.monthly = e.monthly
    OBVIOUS
  <2>1. PICK q \in places : d = cost(q)
    BY <1>3, <1>5
  <2>2. /\ cost(q).sides = pairs[q[1]].sides
        /\ cost(q).dimension = plan[q].charge.dimension
        /\ plan[q].charge = ChargesOn(pairs[q[1]], q[2], settings)[q[3]]
    BY <1>9 DEF Dimension
  <2>3. ChargesOn(pairs[q[1]], q[2], settings) = charges
    BY <1>7, <1>9, <1>12, <2>1, <2>2
  <2>4. charges[q[3]].dimension = charges[p[3]].dimension
    BY <1>4, <1>7, <1>11, <2>1, <2>2, <2>3
  <2>5. p[3] \in DOMAIN charges /\ q[3] \in DOMAIN charges
    BY <1>9, <1>10, <2>3
  <2>6. q[3] = p[3]
    BY <1>10, <2>4, <2>5, ChargesOnDistinct
  <2>7. plan[q].charge = plan[p].charge
    BY <1>11, <2>2, <2>3, <2>6
  <2> QED  BY <1>4, <2>1, <2>7 DEF Dimension
<1>14. \A side \in {1, 2} : \E d \in dims : d.side = side
  <2> SUFFICES ASSUME NEW side \in {1, 2} PROVE \E d \in dims : d.side = side
    OBVIOUS
  <2>1. PICK n : n = p[1] /\ n \in DOMAIN pairs /\ pairs[n].sides = e.sides /\ pairs[n].key = e.key
    BY <1>4, <1>9, <1>11
  <2>2. ChargesOn(pairs[n], side, settings) = charges
    BY <1>12, <2>1
  <2>3. PICK i : i = p[3] /\ i \in DOMAIN charges
    BY <1>9, <1>10
  <2>4. PICK q : q = <<n, side, i>> /\ q \in places
    <3>1. \A m \in DOMAIN pairs : \A s \in {1, 2} :
            \A j \in DOMAIN ChargesOn(pairs[m], s, settings) : <<m, s, j>> \in places
      BY <1>1, PlacesOfPlan
    <3>2. <<n, side, i>> \in places
      BY <2>1, <2>2, <2>3, <3>1
    <3> QED  BY <3>2
  <2>5. q[1] = n /\ q[2] = side /\ q[3] = i
    BY <2>4
  <2>6. plan[q] = [key |-> e.key, sides |-> e.sides, side |-> side, charge |-> charges[i]]
    BY <1>9, <2>1, <2>2, <2>4, <2>5
  <2>7. /\ cost(q).key = e.key /\ cost(q).sides = e.sides /\ cost(q).side = side
        /\ cost(q).dimension = charges[i].dimension
    BY <2>6 DEF Dimension
  <2>8. cost(q).dimension = e.dimension
    BY <1>4, <1>11, <2>3, <2>7
  <2>9. cost(q) \in dims
    BY <1>3, <1>6, <2>4, <2>7, <2>8
  <2> QED  BY <2>7, <2>9
<1>15. SideCost(dims, 1) = e.monthly /\ SideCost(dims, 2) = e.monthly
  <2>1. ASSUME NEW side \in {1, 2} PROVE SideCost(dims, side) = e.monthly
    <3>1. (CHOOSE d \in dims : d.side = side) \in dims
      BY <1>14
    <3> QED  BY <1>13, <1>14, <3>1 DEF SideCost
  <2> QED  BY <2>1
<1>16. c.current = SideCost(dims, 1) /\ c.proposed = SideCost(dims, 2)
  BY <1>2, <1>3 DEF Component
<1> QED  BY <1>15, <1>16

(* What a change leaves alone costs nothing, with a live service that      *)
(* changes its prices in the middle of the run (pricing/cache.py:70).      *)
THEOREM UnchangedIsFree == Spec => []UnchangedCostsNothing
<1>1. Init => UnchangedCostsNothing
  BY DEF Init, AnalysisInit, NoRun, UnchangedCostsNothing
<1>2. ASSUME RunInv, EstimateInv, UnchangedCostsNothing, [Next]_<<vars, question>>
      PROVE  UnchangedCostsNothing'
  <2>1. CASE UNCHANGED report
    <3>1. report # None /\ expiries' = 0 => expiries = 0
      <4>1. expiries' = expiries \/ expiries' = expiries + 1
        BY <1>2 DEF Next, AnalysisNext, Step, LoadConfig, ReadTemplates, BuildProvider, Refuse, LookUp, Ask,
                    Provide, GetPage, Throttle, RefuseCall, TakeAnswer, TakeReply, Crash, Conclude,
                    Outside, Reprice, Expire, vars, pvars
      <4> QED  BY <1>2, <4>1 DEF EstimateInv, KeepsPlan
    <3> QED  BY <1>2, <2>1, <3>1 DEF UnchangedCostsNothing
  <2>2. CASE report' # report
    <3>1. Conclude
      BY <1>2, <2>2 DEF Next, AnalysisNext, Step, LoadConfig, ReadTemplates, BuildProvider, Refuse,
                        LookUp, Provide, TakeAnswer, Crash, Outside, avars, vars
    <3>2. report' = Components /\ phase = "estimating" /\ lookups = {} /\ UNCHANGED expiries
      BY <2>2, <3>1 DEF Conclude, pvars
    <3>3. SUFFICES ASSUME expiries = 0, NEW c \in Components, c.sides[1] # None, c.sides[1] = c.sides[2]
                   PROVE  c.current = c.proposed
      BY <3>2 DEF UnchangedCostsNothing, KnownOf
    <3>4. /\ snapshots \in Snapshots /\ settings \in Settings
          /\ estimated = {Dimension(Plan[p], AnswerOn(KeyOf(p))) : p \in DOMAIN Plan \ lookups}
      BY <1>2, <3>2, <3>3 DEF RunInv, Configured, EstimateInv, KeepsPlan, Priced
    <3> QED  BY <3>2, <3>3, <3>4, SameStateSameCost
  <2> QED  BY <2>1, <2>2
<1> QED  BY <1>1, <1>2, RunInvariant, EstimateInvariant, PTL DEF Spec

-----------------------------------------------------------------------------
(* Confidence.                                                             *)

LEMMA ConfidencesAreRanked ==
  /\ ToSet(Confidences) = Levels
  /\ \A c \in Levels : ConfidenceRank(c) \in 1 .. 4 /\ Confidences[ConfidenceRank(c)] = c
  /\ \A i \in 1 .. 4 : Confidences[i] \in Levels /\ ConfidenceRank(Confidences[i]) = i
<1>1. /\ DOMAIN Confidences = 1 .. 4
      /\ Confidences[1] = "UNKNOWN" /\ Confidences[2] = "LOW"
      /\ Confidences[3] = "MEDIUM" /\ Confidences[4] = "HIGH"
  BY DEF Confidences
<1>2. \A i \in 1 .. 4 : i = 1 \/ i = 2 \/ i = 3 \/ i = 4
  OBVIOUS
<1>3. ToSet(Confidences) = Levels
  BY <1>1, <1>2 DEF ToSet, Levels
<1>4. ASSUME NEW i \in 1 .. 4 PROVE Confidences[i] \in Levels /\ ConfidenceRank(Confidences[i]) = i
  <2>1. Confidences[i] \in Levels
    BY <1>1, <1>2 DEF Levels
  <2>2. \A j \in 1 .. 4 : Confidences[j] = Confidences[i] => j = i
    BY <1>1, <1>2
  <2>3. (CHOOSE j \in DOMAIN Confidences : Confidences[j] = Confidences[i]) = i
    BY <1>1, <2>2
  <2> QED  BY <2>1, <2>3 DEF ConfidenceRank
<1>5. ASSUME NEW c \in Levels PROVE ConfidenceRank(c) \in 1 .. 4 /\ Confidences[ConfidenceRank(c)] = c
  <2>1. PICK i \in 1 .. 4 : Confidences[i] = c
    BY <1>1 DEF Levels
  <2> QED  BY <1>4, <2>1
<1> QED  BY <1>3, <1>4, <1>5

(* The least and the greatest of some ranks.                               *)
LEMMA RanksAreBounded ==
  ASSUME NEW S \in SUBSET (1 .. 4), S # {}
  PROVE  /\ Min(S) \in S /\ \A i \in S : Min(S) <= i
         /\ Max(S) \in S /\ \A i \in S : i <= Max(S)
<1>0. \A i \in 1 .. 4 : i = 1 \/ i = 2 \/ i = 3 \/ i = 4
  OBVIOUS
<1>1. \E i \in S : \A j \in S : i <= j
  <2>1. CASE 1 \in S
    BY <2>1
  <2>2. CASE 1 \notin S /\ 2 \in S
    <3>1. \A j \in S : j = 2 \/ j = 3 \/ j = 4
      BY <1>0, <2>2
    <3> QED  BY <2>2, <3>1
  <2>3. CASE 1 \notin S /\ 2 \notin S /\ 3 \in S
    <3>1. \A j \in S : j = 3 \/ j = 4
      BY <1>0, <2>3
    <3> QED  BY <2>3, <3>1
  <2>4. CASE 1 \notin S /\ 2 \notin S /\ 3 \notin S
    <3>1. \A j \in S : j = 4
      BY <1>0, <2>4
    <3>2. PICK k \in S : k = 4
      BY <3>1
    <3>3. k <= k
      OBVIOUS
    <3> QED  BY <3>1, <3>3
  <2> QED  BY <2>1, <2>2, <2>3, <2>4
<1>2. \E i \in S : \A j \in S : i >= j
  <2>1. CASE 4 \in S
    BY <2>1
  <2>2. CASE 4 \notin S /\ 3 \in S
    <3>1. \A j \in S : j = 1 \/ j = 2 \/ j = 3
      BY <1>0, <2>2
    <3> QED  BY <2>2, <3>1
  <2>3. CASE 4 \notin S /\ 3 \notin S /\ 2 \in S
    <3>1. \A j \in S : j = 1 \/ j = 2
      BY <1>0, <2>3
    <3> QED  BY <2>3, <3>1
  <2>4. CASE 4 \notin S /\ 3 \notin S /\ 2 \notin S
    <3>1. \A j \in S : j = 1
      BY <1>0, <2>4
    <3>2. PICK k \in S : k = 1
      BY <3>1
    <3>3. k >= k
      OBVIOUS
    <3> QED  BY <3>1, <3>3
  <2> QED  BY <2>1, <2>2, <2>3, <2>4
<1>3. Min(S) \in S /\ \A j \in S : Min(S) <= j
  BY <1>1 DEF Min
<1>4. Max(S) \in S /\ \A j \in S : Max(S) >= j
  BY <1>2 DEF Max
<1> QED  BY <1>3, <1>4

(* The lowest of some confidences is one of them.                          *)
LEMMA LowestIsOne ==
  ASSUME NEW S \in SUBSET Levels, S # {}
  PROVE  LowestOf(S) \in S
<1>1. PICK ranks : ranks = {ConfidenceRank(c) : c \in S}
  OBVIOUS
<1>2. ranks \in SUBSET (1 .. 4) /\ ranks # {}
  BY <1>1, ConfidencesAreRanked
<1>3. Min(ranks) \in ranks /\ \A i \in ranks : Min(ranks) <= i
  BY <1>2, RanksAreBounded
<1>4. PICK c \in S : ConfidenceRank(c) = Min(ranks)
  BY <1>1, <1>3
<1>5. \A d \in S : AtMost(c, d)
  BY <1>1, <1>3, <1>4 DEF AtMost
<1> QED  BY <1>5 DEF LowestOf

(* What matters of some components is of one confidence or another.        *)
LEMMA RanksOfComponents ==
  ASSUME NEW Z, Z # {}, \A x \in Z : x.confidence \in Levels,
         NEW ranks, ranks = {ConfidenceRank(x.confidence) : x \in Z}
  PROVE  /\ ranks \in SUBSET (1 .. 4) /\ ranks # {}
         /\ \A i \in 1 .. 4 : ConfidenceRank(Confidences[i]) = i
         /\ \E x \in Z : ConfidenceRank(x.confidence) = Min(ranks)
         /\ \A x \in Z : Min(ranks) <= ConfidenceRank(x.confidence)
         /\ \A x \in Z : ConfidenceRank(x.confidence) <= Max(ranks)
         /\ Min(ranks) \in 1 .. 4 /\ Max(ranks) \in 1 .. 4
<1>1. ranks \in SUBSET (1 .. 4) /\ ranks # {}
  BY ConfidencesAreRanked
<1>2. /\ Min(ranks) \in ranks /\ \A i \in ranks : Min(ranks) <= i
      /\ Max(ranks) \in ranks /\ \A i \in ranks : i <= Max(ranks)
  BY <1>1, RanksAreBounded
<1>3. \E x \in Z : ConfidenceRank(x.confidence) = Min(ranks)
  BY <1>2
<1>4. \A x \in Z : Min(ranks) <= ConfidenceRank(x.confidence)
  BY <1>2
<1>5. \A x \in Z : ConfidenceRank(x.confidence) <= Max(ranks)
  BY <1>2
<1>6. Min(ranks) \in 1 .. 4 /\ Max(ranks) \in 1 .. 4
  BY <1>1, <1>2
<1> QED  BY <1>1, <1>3, <1>4, <1>5, <1>6, ConfidencesAreRanked

-----------------------------------------------------------------------------
(* What was estimated.                                                     *)

LEMMA PlanIsFinite ==
  ASSUME NEW pairs, NEW setting, IsSequence(pairs)
  PROVE  IsFiniteSet(DOMAIN PlanOf(pairs, setting))
<1> DEFINE sides == (DOMAIN pairs) \X {1, 2}
           at(s) == {<<s[1], s[2], i>> : i \in DOMAIN ChargesOn(pairs[s[1]], s[2], setting)}
           places == [s \in sides |-> at(s)]
<1>1. IsFiniteSet(sides)
  <2>1. PICK n \in Nat : DOMAIN pairs = 1 .. n
    BY DEF IsSequence
  <2>2. IsFiniteSet(1 .. n)
    BY FS_Interval
  <2>3. IsFiniteSet({1, 2})
    <3>1. IsFiniteSet({1})
      BY FS_Singleton
    <3>2. IsFiniteSet({1} \cup {2})
      BY <3>1, FS_AddElement
    <3>3. {1, 2} = {1} \cup {2}
      OBVIOUS
    <3> QED  BY <3>2, <3>3
  <2> QED  BY <2>1, <2>2, <2>3, FS_Product
<1>2. ASSUME NEW s \in sides PROVE IsFiniteSet(at(s))
  <2>1. PICK n \in Nat : DOMAIN ChargesOn(pairs[s[1]], s[2], setting) = 1 .. n
    BY ChargesOnDistinct
  <2>2. IsFiniteSet(1 .. n)
    BY FS_Interval
  <2> DEFINE f == [i \in 1 .. n |-> <<s[1], s[2], i>>]
  <2>3. at(s) = {f[i] : i \in 1 .. n}
    BY <2>1
  <2> HIDE DEF f
  <2> QED  BY <2>2, <2>3, FiniteImage
<1>3. IsFiniteSet(UNION {places[s] : s \in sides})
  <2>1. \A T \in {places[s] : s \in sides} : IsFiniteSet(T)
    BY <1>2
  <2>2. IsFiniteSet({places[s] : s \in sides})
    <3> HIDE DEF places, sides
    <3> QED  BY <1>1, FiniteImage
  <2> HIDE DEF places, sides
  <2> QED  BY <2>1, <2>2, FS_UNION
<1>4. DOMAIN PlanOf(pairs, setting) = UNION {at(s) : s \in sides}
  BY DEF PlanOf
<1>5. {at(s) : s \in sides} = {places[s] : s \in sides}
  <2>1. \A s \in sides : places[s] = at(s)
    OBVIOUS
  <2> HIDE DEF at, sides, places
  <2> QED  BY <2>1, Zenon
<1> HIDE DEF at, places, sides
<1> QED  BY <1>3, <1>4, <1>5

(* The configuration has loaded, and every dimension is that of a place,   *)
(* with an answer if it has a key.                                         *)
Loaded == phase \in {"configured", "parsed", "estimating"} => Loads(settings)

FromPlan(d) ==
  \E p \in DOMAIN Plan : \E answer \in Answers :
    d = Dimension(Plan[p], answer) /\ (KeyOf(p) = None => answer = Miss)

Gathered ==
  phase = "estimating" => IsFiniteSet(estimated) /\ \A d \in estimated : FromPlan(d)

LEMMA GatheredInductive ==
  ASSUME RunInv, PricingInv, EstimateInv, Loaded, Gathered, [Next]_<<vars, question>>
  PROVE  Loaded' /\ Gathered'
<1>1. CASE UNCHANGED <<vars, question>>
  <2>1. UNCHANGED <<snapshots, settings, phase, estimated>>
    BY <1>1 DEF vars, avars
  <2> QED  BY <2>1 DEF Loaded, Gathered, FromPlan, KeyOf, Plan, Loads
<1>2. CASE LoadConfig
  BY <1>2 DEF LoadConfig, Refuse, End, Loaded, Gathered, Loads
<1>3. CASE ReadTemplates
  BY <1>3 DEF ReadTemplates, Refuse, End, Loaded, Gathered, Loads
<1>4. CASE BuildProvider
  <2>1. CASE phase' # "estimating"
    BY <1>4, <2>1 DEF BuildProvider, Refuse, End, Loaded, Gathered
  <2>2. CASE phase' = "estimating"
    <3>1. /\ phase = "parsed" /\ UNCHANGED <<snapshots, settings>>
          /\ estimated' = {Dimension(Plan[p], Miss) : p \in NotToLookUp(Plan)}
      BY <1>4, <2>2 DEF BuildProvider, Refuse, End
    <3>2. PICK plan : plan = Plan /\ plan = Plan'
      BY <3>1 DEF Plan
    <3>3. snapshots \in Snapshots /\ settings \in Settings
      BY <3>1 DEF RunInv, Configured, EstimateInv, KeepsPlan
    <3>4. IsFiniteSet(NotToLookUp(plan))
      <4>1. IsFiniteSet(DOMAIN plan)
        BY <3>2, <3>3, PlanOfRun, PlanIsFinite
      <4> QED  BY <4>1, FS_Subset DEF NotToLookUp
    <3> DEFINE f == [p \in NotToLookUp(plan) |-> Dimension(plan[p], Miss)]
    <3>5. estimated' = {f[p] : p \in NotToLookUp(plan)}
      BY <3>1, <3>2
    <3>6. IsFiniteSet(estimated')
      <4> HIDE DEF f
      <4> QED  BY <3>4, <3>5, FiniteImage
    <3>7. Miss \in Answers
      BY DEF Answers
    <3>8. ASSUME NEW d \in estimated' PROVE FromPlan(d)'
      <4>1. PICK p \in NotToLookUp(plan) : d = Dimension(plan[p], Miss)
        BY <3>1, <3>2
      <4> QED  BY <3>2, <3>7, <4>1 DEF FromPlan, NotToLookUp
    <3>9. Loaded'
      BY <3>1 DEF Loaded, Loads
    <3> QED  BY <3>6, <3>8, <3>9 DEF Gathered
  <2> QED  BY <2>1, <2>2
<1>5. CASE LookUp \/ Provide \/ Outside
  <2>1. UNCHANGED <<snapshots, settings, phase, estimated>>
    BY <1>5 DEF LookUp, Provide, Outside, avars
  <2> QED  BY <2>1 DEF Loaded, Gathered, FromPlan, KeyOf, Plan, Loads
<1>6. CASE TakeAnswer
  <2>1. /\ phase = "estimating" /\ UNCHANGED <<snapshots, settings, phase>>
        /\ reply \notin {None, Broken}
    BY <1>6 DEF TakeAnswer
  <2>2. PICK p \in lookups : estimated' = estimated \cup {Dimension(Plan[p], reply.answer)}
    BY <1>6 DEF TakeAnswer
  <2>3. PICK plan : plan = Plan /\ plan = Plan'
    BY <2>1 DEF Plan
  <2>4. p \in DOMAIN plan /\ plan[p].charge.key # None
    BY <2>1, <2>3 DEF EstimateInv, KeepsPlan, ToLookUp
  <2>5. PICK answer \in Answers : answer = reply.answer
    BY <2>1 DEF PricingInv, Typed, Replies
  <2>6. IsFiniteSet(estimated')
    BY <2>1, <2>2, FS_AddElement DEF Gathered
  <2>7. ASSUME NEW d \in estimated' PROVE FromPlan(d)'
    <3>1. CASE d \in estimated
      <4>1. FromPlan(d)
        BY <2>1, <3>1 DEF Gathered
      <4> QED  BY <2>1, <4>1 DEF FromPlan, KeyOf, Plan
    <3>2. CASE d = Dimension(plan[p], answer)
      BY <2>3, <2>4, <3>2 DEF FromPlan, KeyOf
    <3> QED  BY <2>2, <2>3, <2>5, <3>1, <3>2
  <2>8. Loaded'
    BY <2>1 DEF Loaded, Loads
  <2> QED  BY <2>6, <2>7, <2>8 DEF Gathered
<1>7. CASE Crash \/ Conclude
  BY <1>7 DEF Crash, Conclude, End, Loaded, Gathered
<1> QED  BY <1>1, <1>2, <1>3, <1>4, <1>5, <1>6, <1>7 DEF Next, AnalysisNext, Step

LEMMA GatheredInvariant == Spec => [](Loaded /\ Gathered)
<1>1. Init => Loaded /\ Gathered
  BY DEF Init, AnalysisInit, NoRun, Loaded, Gathered
<1> QED  BY <1>1, RunInvariant, EstimateInvariant, GatheredInductive, PTL DEF Spec

(* No lifetime and no figure is negative. The code checks the sign of      *)
(* neither, so nothing above rests on it.                                  *)
NothingNegative ==
  /\ \A s \in Settings : LifetimesIn(s.profile, Nat)
  /\ \A change \in Snapshots : \A side \in {change.baseline, change.proposed} :
       \A k \in DOMAIN side : FiguresIn(side[k], Nat)

(* The cost of a dimension is a number, or is not known, and has a         *)
(* confidence; it belongs to a state the snapshots hold.                   *)
LEMMA DimensionsAreWhole ==
  ASSUME snapshots \in Snapshots, settings \in Settings, Loads(settings), NEW d, FromPlan(d),
         NEW W \in {Int, Nat}, W = Int \/ NothingNegative
  PROVE  /\ d.monthly \in W \cup {None} /\ d.confidence \in Levels
         /\ d.side \in {1, 2} /\ d.sides[d.side] # None
         /\ IsPair(d, Before, After)
<1>1. PICK pairs : /\ pairs = PairsOf(snapshots) /\ IsSequence(pairs) /\ Plan = PlanOf(pairs, settings)
                   /\ \A n \in DOMAIN pairs : IsPair(pairs[n], Before, After)
  BY PlanOfRun
<1>2. PICK p \in DOMAIN Plan : \E answer \in Answers :
        d = Dimension(Plan[p], answer) /\ (KeyOf(p) = None => answer = Miss)
  BY DEF FromPlan
<1>3. PICK answer \in Answers : d = Dimension(Plan[p], answer) /\ (KeyOf(p) = None => answer = Miss)
  BY <1>2
<1>4. PICK pair, side, charges, charge :
        /\ pair = pairs[p[1]] /\ side = p[2] /\ charges = ChargesOn(pair, side, settings)
        /\ charge = charges[p[3]] /\ charge = Plan[p].charge
        /\ p[1] \in DOMAIN pairs /\ p \in Nat \X {1, 2} \X Nat /\ p[3] \in DOMAIN charges
        /\ Plan[p] = [key |-> pair.key, sides |-> pair.sides, side |-> side, charge |-> charge]
  BY <1>1, PlacesOfPlan
<1>5. side \in {1, 2} /\ IsPair(pair, Before, After)
  BY <1>1, <1>4
<1>6. pair.sides[side] # None
  BY <1>4 DEF ChargesOn
<1>7. IsResource(pair.sides[side]) /\ FiguresIn(pair.sides[side], W)
  <2>1. \/ pair.key \in DOMAIN Before /\ pair.sides[side] = Before[pair.key]
        \/ pair.key \in DOMAIN After /\ pair.sides[side] = After[pair.key]
    BY <1>5, <1>6 DEF IsPair
  <2>2. \A s \in {Before, After} : \A k \in DOMAIN s : IsResource(s[k])
    BY AnalysisAssumption DEF Before, After
  <2>3. \A s \in {Before, After} : \A k \in DOMAIN s : W = Nat => FiguresIn(s[k], W)
    <3>1. Int # Nat
      OBVIOUS
    <3> QED  BY <3>1 DEF NothingNegative, Before, After
  <2>4. \A r : IsResource(r) => FiguresIn(r, Int)
    BY DEF IsResource, FiguresIn
  <2> QED  BY <2>1, <2>2, <2>3, <2>4
<1>8. IsContext(Context(settings)) /\ LifetimesIn(Context(settings).profile, W)
  <2>1. settings.hours \in Nat
    BY DEF Loads
  <2>2. IsProfile(settings.profile)
    BY AnalysisAssumption DEF Loads, IsProfile
  <2>3. Context(settings).profile = settings.profile
    BY DEF Context
  <2>4. LifetimesIn(settings.profile, W)
    <3>1. CASE W = Int
      BY <2>2, <3>1 DEF LifetimesIn, IsProfile, IsEntry
    <3>2. CASE W = Nat
      <4>1. Int # Nat
        OBVIOUS
      <4> QED  BY <3>2, <4>1 DEF NothingNegative
    <3> QED  BY <3>1, <3>2
  <2> QED  BY <2>1, <2>2, <2>3, <2>4 DEF IsContext, Context
<1>9. charge.confidence \in Levels /\ (charge.key # None => charge.quantity \in W)
  <2>1. charges = Estimate(pair.sides[side], Context(settings))
    BY <1>4, <1>6 DEF ChargesOn
  <2>2. AllWhole(W, charges)
    <3>1. WellNamed(pair.sides[side])
      BY <1>7 DEF IsResource
    <3> QED  BY <1>7, <1>8, <2>1, <3>1, EstimateIsWhole
  <2> QED  BY <1>4, <2>2 DEF AllWhole, IsWhole
<1>10. d.monthly \in W \cup {None}
  <2>1. d.monthly = IF answer = Miss THEN None ELSE charge.quantity * answer
    BY <1>3, <1>4 DEF Dimension
  <2>2. ASSUME answer # Miss PROVE charge.quantity * answer \in W
    <3>1. charge.key # None
      BY <1>3, <1>4, <2>2 DEF KeyOf
    <3>2. PICK n \in W, a \in W : n = charge.quantity /\ a = answer
      BY <1>9, <2>2, <3>1, AnswersAreNumbers, Closed
    <3> QED  BY <3>2, Closed
  <2> QED  BY <2>1, <2>2
<1>11. d.side = side /\ d.sides = pair.sides /\ d.key = pair.key
  BY <1>3, <1>4 DEF Dimension
<1>12. d.confidence \in Levels
  <2>1. d.confidence = IF answer = Miss THEN "UNKNOWN" ELSE charge.confidence
    BY <1>3, <1>4 DEF Dimension
  <2> QED  BY <1>9, <2>1 DEF Levels
<1> QED  BY <1>5, <1>6, <1>10, <1>11, <1>12 DEF IsPair

(* A component has numbers for the costs that are known, and a confidence; *)
(* it is of a resource as it was proposed, or costs nothing in the         *)
(* proposal.                                                               *)
IsCosted(c) ==
  /\ c = [resource |-> c.resource, sides |-> c.sides, dimension |-> c.dimension, type |-> c.type,
          current |-> c.current, proposed |-> c.proposed, confidence |-> c.confidence]
  /\ c.current \in Int \cup {None} /\ c.proposed \in Int \cup {None}
  /\ c.confidence \in Levels
  /\ c.sides[2] # None => c.resource \in DOMAIN After /\ After[c.resource] = c.sides[2]
  /\ c.sides[2] = None => c.proposed = 0

LEMMA ComponentsAreCosted ==
  ASSUME snapshots \in Snapshots, settings \in Settings, Loads(settings),
         IsFiniteSet(estimated), \A d \in estimated : FromPlan(d)
  PROVE  /\ IsFiniteSet(Components) /\ \A c \in Components : IsCosted(c)
         /\ NothingNegative => \A c \in Components : c.proposed \in Nat \cup {None}
<1> DEFINE group(e) == {d \in estimated : d.sides = e.sides /\ d.key = e.key /\ d.dimension = e.dimension}
           f == [e \in estimated |-> Component(group(e))]
<1>1. Components = {f[e] : e \in estimated}
  BY DEF Components
<1>2. IsFiniteSet(Components)
  <2> HIDE DEF f
  <2> QED  BY <1>1, FiniteImage
<1>3. ASSUME NEW e \in estimated PROVE IsCosted(Component(group(e)))
  <2>1. PICK dims : dims = group(e) /\ e \in dims
    <3>1. e \in group(e)
      OBVIOUS
    <3> HIDE DEF group, f
    <3> QED  BY <3>1
  <2>2. \A d \in dims : /\ d.monthly \in Int \cup {None} /\ d.confidence \in Levels
                        /\ d.side \in {1, 2}
                        /\ d.sides[d.side] # None /\ IsPair(d, Before, After)
                        /\ d.sides = e.sides /\ d.key = e.key
    BY <2>1, DimensionsAreWhole, Int \in {Int, Nat}
  <2>3. PICK one : one = (CHOOSE d \in dims : TRUE) /\ one \in dims
    BY <2>1
  <2>4. ASSUME NEW side \in {1, 2} PROVE SideCost(dims, side) \in Int \cup {None}
    <3>1. CASE \E d \in dims : d.side = side
      <4>1. (CHOOSE d \in dims : d.side = side) \in dims
        BY <3>1
      <4> QED  BY <2>2, <3>1, <4>1 DEF SideCost
    <3>2. CASE ~\E d \in dims : d.side = side
      BY <3>2 DEF SideCost
    <3> QED  BY <3>1, <3>2
  <2>5. e.sides[2] = None => SideCost(dims, 2) = 0
    BY <2>2 DEF SideCost
  <2>6. PICK c : c = Component(dims)
    OBVIOUS
  <2>7. /\ c.resource = one.key /\ c.sides = one.sides
        /\ c.current = SideCost(dims, 1) /\ c.proposed = SideCost(dims, 2)
    BY <2>3, <2>6 DEF Component
  <2>8. c.sides = e.sides /\ c.resource = e.key /\ IsPair(e, Before, After)
    BY <2>1, <2>2, <2>3, <2>7
  <2>9. c.confidence \in Levels
    <3>1. PICK confidences : confidences = {d.confidence : d \in dims}
      OBVIOUS
    <3>2. confidences \in SUBSET Levels /\ confidences # {}
      BY <2>1, <2>2, <3>1
    <3>3. c.confidence \in {"UNKNOWN", LowestOf(confidences)}
      BY <2>6, <3>1 DEF Component
    <3>4. LowestOf(confidences) \in Levels
      BY <3>2, LowestIsOne
    <3> QED  BY <3>3, <3>4 DEF Levels
  <2>10. c = [resource |-> c.resource, sides |-> c.sides, dimension |-> c.dimension, type |-> c.type,
              current |-> c.current, proposed |-> c.proposed, confidence |-> c.confidence]
    BY <2>6 DEF Component
  <2>11. IsCosted(c)
    BY <2>4, <2>5, <2>7, <2>8, <2>9, <2>10 DEF IsCosted, IsPair
  <2> QED  BY <2>1, <2>6, <2>11
<1>4. \A c \in Components : IsCosted(c)
  BY <1>1, <1>3
<1>5. ASSUME NothingNegative, NEW e \in estimated
      PROVE  Component(group(e)).proposed \in Nat \cup {None}
  <2>1. \A d \in estimated : d.monthly \in Nat \cup {None}
    BY <1>5, DimensionsAreWhole, Nat \in {Int, Nat}
  <2>2. PICK dims : dims = group(e) /\ \A d \in dims : d.monthly \in Nat \cup {None}
    BY <2>1
  <2>3. SideCost(dims, 2) \in Nat \cup {None}
    <3>1. CASE \E d \in dims : d.side = 2
      <4>1. (CHOOSE d \in dims : d.side = 2) \in dims
        BY <3>1
      <4> QED  BY <2>2, <3>1, <4>1 DEF SideCost
    <3>2. CASE ~\E d \in dims : d.side = 2
      BY <3>2 DEF SideCost
    <3> QED  BY <3>1, <3>2
  <2> QED  BY <2>2, <2>3 DEF Component
<1>6. NothingNegative => \A c \in Components : c.proposed \in Nat \cup {None}
  BY <1>1, <1>5
<1> QED  BY <1>2, <1>4, <1>6

-----------------------------------------------------------------------------
(* What is decided on it.                                                  *)

(* The known cost of proposed resources in the scope of a budget.          *)
ProposedAmong(b, components) ==
  {c \in KnownOf(components) :
    c.sides[2] # None /\ InScope(b.scope, ContextOf(c.sides[2], Fallback))}

LEMMA ContextOfProposed ==
  ASSUME NEW c, c.sides[2] # None, c.resource \in DOMAIN After, After[c.resource] = c.sides[2]
  PROVE  c.resource \in DOMAIN Contexts /\ Contexts[c.resource] = ContextOf(c.sides[2], Fallback)
BY DEF Contexts

(* A budget counts what was proposed in its scope: all else that is known  *)
(* in its scope is gone, and costs nothing in the proposal.                *)
LEMMA BudgetCountsProposed ==
  ASSUME NEW components, IsFiniteSet(components), \A c \in components : IsCosted(c), NEW b
  PROVE  /\ SumOf(ScopedTo(b, components, Contexts, Fallback), "proposed")
            = SumOf(ProposedAmong(b, components), "proposed")
         /\ SumOf(ProposedAmong(b, components), "proposed") \in Int
         /\ ProposedAmong(b, components) = {} => SumOf(ProposedAmong(b, components), "proposed") = 0
<1> DEFINE scoped == KnownOf(ScopedTo(b, components, Contexts, Fallback))
           proposed == ProposedAmong(b, components)
           f == [c \in scoped |-> c["proposed"]]
           h == [c \in proposed |-> c["proposed"]]
<1>1. \A c \in scoped : c \in components /\ c["proposed"] \in Int
  BY DEF KnownOf, IsUnknown, ScopedTo, IsCosted
<1>2. \A c \in scoped : c.sides[2] # None => c \in proposed
  <2> SUFFICES ASSUME NEW c \in scoped, c.sides[2] # None PROVE c \in proposed
    OBVIOUS
  <2>1. c.resource \in DOMAIN Contexts /\ Contexts[c.resource] = ContextOf(c.sides[2], Fallback)
    BY <1>1, ContextOfProposed DEF IsCosted
  <2> QED  BY <2>1 DEF KnownOf, ScopedTo, ProposedAmong
<1>3. proposed \subseteq scoped
  <2> SUFFICES ASSUME NEW c \in proposed PROVE c \in scoped
    OBVIOUS
  <2>1. c \in components /\ c.sides[2] # None /\ ~IsUnknown(c)
    BY DEF ProposedAmong, KnownOf
  <2>2. c.resource \in DOMAIN Contexts /\ Contexts[c.resource] = ContextOf(c.sides[2], Fallback)
    BY <2>1, ContextOfProposed DEF IsCosted
  <2> QED  BY <2>1, <2>2 DEF KnownOf, ScopedTo, ProposedAmong
<1>4. \A c \in scoped \ proposed : c["proposed"] = 0
  BY <1>1, <1>2 DEF IsCosted
<1>5. KnownOf(proposed) = proposed
  BY DEF ProposedAmong, KnownOf
<1>6. /\ SumOf(ScopedTo(b, components, Contexts, Fallback), "proposed") = SumFunctionOnSet(f, scoped)
      /\ SumOf(proposed, "proposed") = SumFunctionOnSet(h, proposed)
  BY <1>5 DEF SumOf, SumFunction
<1>7. IsFiniteSet(scoped)
  <2>1. scoped \subseteq components
    BY <1>1
  <2> HIDE DEF scoped
  <2> QED  BY <2>1, FS_Subset
<1>8. /\ \A c \in scoped : f[c] \in Int
      /\ \A c \in proposed : f[c] \in Int /\ h[c] = f[c]
      /\ \A c \in scoped \ proposed : f[c] = 0
  BY <1>1, <1>3, <1>4
<1> HIDE DEF scoped, proposed, f, h
<1>9. IsFiniteSet(proposed) /\ IsFiniteSet(scoped \ proposed)
  BY <1>3, <1>7, FS_Subset
<1>10. SumFunctionOnSet(f, scoped) = SumFunctionOnSet(f, proposed) + SumFunctionOnSet(f, scoped \ proposed)
  BY <1>3, <1>7, <1>8, SumInParts
<1>11. SumFunctionOnSet(f, scoped \ proposed) = 0
  BY <1>8, <1>9, SumOfZeros
<1>12. SumFunctionOnSet(f, proposed) = SumFunctionOnSet(h, proposed)
  BY <1>8, <1>9, SumOfSame
<1>13. \A c \in proposed : h[c] \in Int
  BY <1>8
<1>14. SumFunctionOnSet(h, proposed) \in Int /\ (proposed = {} => SumFunctionOnSet(h, proposed) = 0)
  BY <1>9, <1>13, SumOfIntegers
<1>15. SumFunctionOnSet(f, scoped) = SumFunctionOnSet(h, proposed)
  BY <1>10, <1>11, <1>12, <1>14
<1> QED  BY <1>6, <1>14, <1>15 DEF proposed

(* Whoever crosses a threshold is given a rule at least as severe, under   *)
(* an id that no rule of any other budget or policy has.                   *)
LEMMA CrossedIsRuled ==
  ASSUME Loads(settings), NEW components,
         NEW e \in Facts(components).budgets, NEW t \in Crossed(e)
  PROVE  LET rules == Rules(Facts(components))
             id == <<e.budget.id, "threshold">>
         IN  /\ \E r \in rules : r.id = id
             /\ \A r \in rules : r.id = id => Rank(r.action) >= Rank(t[1])
<1> DEFINE facts == Facts(components)
           rules == Rules(facts)
           id == <<e.budget.id, "threshold">>
<1>1. facts.budgets = EvaluateBudgets(settings.budgets, components, Contexts, Fallback)
  BY DEF Facts
<1>2. \A d \in facts.budgets :
        d.budget \in settings.budgets /\ d = EvaluateBudget(d.budget, components, Contexts, Fallback)
  <2> SUFFICES ASSUME NEW d \in facts.budgets
               PROVE  /\ d.budget \in settings.budgets
                      /\ d = EvaluateBudget(d.budget, components, Contexts, Fallback)
    OBVIOUS
  <2>1. PICK b \in settings.budgets : d = EvaluateBudget(b, components, Contexts, Fallback)
    BY <1>1 DEF EvaluateBudgets
  <2>2. d.budget = b
    BY <2>1 DEF EvaluateBudget
  <2> QED  BY <2>1, <2>2
<1>3. \A d \in facts.budgets : d.budget.id = e.budget.id => d = e
  BY <1>2 DEF Loads, BudgetsLoad
<1> HIDE DEF facts
<1>4. \A u \in Crossed(e) : Rank(u[1]) \in Nat
  BY DEF Crossed, Rank
<1>5. PICK top \in Crossed(e) : \A v \in Crossed(e) : Rank(v[1]) <= Rank(top[1])
  <2>1. PICK u \in Crossed(e) : \A v \in Crossed(e) : u[1] # "BLOCK" => v[1] # "BLOCK"
    OBVIOUS
  <2>2. PICK w \in Crossed(e) : \A v \in Crossed(e) : w[1] # "REQUIRE_APPROVAL" => v[1] # "REQUIRE_APPROVAL"
    OBVIOUS
  <2>3. \A v \in Crossed(e) : v[1] \in {"WARN", "REQUIRE_APPROVAL", "BLOCK"}
    BY DEF Crossed
  <2>4. (\A v \in Crossed(e) : Rank(v[1]) <= Rank(u[1])) \/ (\A v \in Crossed(e) : Rank(v[1]) <= Rank(w[1]))
    BY <2>1, <2>2, <2>3 DEF Rank
  <2> QED  BY <2>4
<1>6. ASSUME NEW r \in rules, r.id = id PROVE Rank(r.action) >= Rank(t[1])
  <2>1. r \notin PolicyRules(settings.policies, facts)
    BY <1>6 DEF PolicyRules, Rule
  <2>2. PICK d \in facts.budgets : r \in ThresholdRules(d) \/ r \in IncreaseRules(d)
    BY <2>1 DEF Rules, BudgetRules
  <2>3. r \notin IncreaseRules(d)
    BY <1>6 DEF IncreaseRules, Rule
  <2>4. d = e
    BY <1>3, <1>6, <2>2, <2>3 DEF ThresholdRules, Rule
  <2>5. PICK u \in Crossed(e) : /\ r = Rule(<<e.budget.id, "threshold">>, u[1], e.budget.group)
                                /\ \A v \in Crossed(e) : Rank(v[1]) <= Rank(u[1])
    BY <2>2, <2>3, <2>4 DEF ThresholdRules
  <2>6. r.action = u[1] /\ Rank(t[1]) <= Rank(u[1])
    BY <2>5 DEF Rule
  <2> QED  BY <1>4, <2>6
<1>7. \E r \in rules : r.id = id
  <2>1. PICK r : r = Rule(<<e.budget.id, "threshold">>, top[1], e.budget.group)
    OBVIOUS
  <2>2. r \in ThresholdRules(e)
    BY <1>5, <2>1 DEF ThresholdRules
  <2>3. r \in rules
    BY <2>2 DEF Rules, BudgetRules, facts
  <2>4. r.id = id
    BY <2>1 DEF Rule
  <2> QED  BY <2>3, <2>4
<1> QED  BY <1>6, <1>7 DEF facts

(* What exceeds a threshold is judged at least as severely as it says: the *)
(* budget applies, because something proposed is in its scope.             *)
LEMMA BeyondIsJudged ==
  ASSUME settings \in Settings, Loads(settings),
         NEW components, IsFiniteSet(components), \A c \in components : IsCosted(c),
         NEW b \in settings.budgets, b.limit # None, b.limit > 0, b.actual = None,
         NEW t \in {<<"WARN", b.warning>>, <<"REQUIRE_APPROVAL", b.approval>>,
                    <<"BLOCK", b.blocking>>}, t[2] # None,
         ~(SumOf(ProposedAmong(b, components), "proposed") * 100 <= t[2] * b.limit)
  PROVE  LET judged == DecisionOn(Rules(Facts(components))).result
         IN  judged \in GateResults \ {"ERROR"} /\ Rank(t[1]) <= Rank(judged)
<1> DEFINE facts == Facts(components)
           rules == Rules(facts)
           id == <<b.id, "threshold">>
<1>1. PICK percent \in Nat, limit \in Int, sum \in Int :
        percent = t[2] /\ limit = b.limit /\ sum = SumOf(ProposedAmong(b, components), "proposed")
  <2>1. b.limit \in Int /\ {b.warning, b.approval, b.blocking} \subseteq {None} \cup Nat
    BY AnalysisAssumption
  <2>2. t[2] \in Nat
    BY <2>1
  <2>3. SumOf(ProposedAmong(b, components), "proposed") \in Int
    BY BudgetCountsProposed
  <2> QED  BY <2>1, <2>2, <2>3
<1>2. sum * 100 > percent * limit /\ limit > 0
  <2>1. ~(sum * 100 <= percent * limit) /\ limit > 0
    BY <1>1
  <2>2. percent * limit \in Int
    OBVIOUS
  <2> QED  BY <2>1, <2>2
<1>3. ProposedAmong(b, components) # {}
  <2>1. SUFFICES ASSUME ProposedAmong(b, components) = {} PROVE FALSE
    OBVIOUS
  <2>2. sum = 0
    BY <1>1, <2>1, BudgetCountsProposed
  <2>3. percent * limit >= 0
    BY <1>2
  <2> QED  BY <1>2, <2>2, <2>3
<1>4. Applies(b, Contexts, Fallback)
  <2>1. PICK c \in ProposedAmong(b, components) : TRUE
    BY <1>3
  <2>2. /\ c \in components /\ c.sides[2] # None
        /\ InScope(b.scope, ContextOf(c.sides[2], Fallback))
    BY DEF ProposedAmong, KnownOf
  <2>3. c.resource \in DOMAIN Contexts /\ Contexts[c.resource] = ContextOf(c.sides[2], Fallback)
    BY <2>2, ContextOfProposed DEF IsCosted
  <2> QED  BY <2>2, <2>3 DEF Applies
<1>5. PICK e : e = EvaluateBudget(b, components, Contexts, Fallback)
  OBVIOUS
<1>6. e \in facts.budgets
  BY <1>4, <1>5 DEF Facts, EvaluateBudgets
<1>7. e.budget = b /\ e.measured = sum
  <2>1. /\ e.budget = b
        /\ e.measured = SumOf(ScopedTo(b, components, Contexts, Fallback), "proposed")
    BY <1>5 DEF EvaluateBudget
  <2> QED  BY <1>1, <2>1, BudgetCountsProposed
<1>8. t \in Crossed(e)
  BY <1>1, <1>2, <1>7 DEF Crossed, Above
<1>9. /\ \E r \in rules : r.id = id
      /\ \A r \in rules : r.id = id => Rank(r.action) >= Rank(t[1])
  BY <1>6, <1>7, <1>8, CrossedIsRuled
<1>10. \A r \in rules : r.action \in PolicyActions
  BY RulesActions
<1> HIDE DEF facts, rules, id
<1> DEFINE ids == {r.id : r \in rules}
           action == [i \in ids |-> (CHOOSE r \in rules : r.id = i).action]
           group == [i \in ids |-> (CHOOSE r \in rules : r.id = i).group]
<1>11. DecisionOn(rules) = BuildDecision(ids, action, group)
  BY DEF DecisionOn
<1>12. \A i \in ids : action[i] \in PolicyActions
  BY <1>10
<1>13. id \in ids /\ Rank(action[id]) >= Rank(t[1])
  BY <1>9
<1> HIDE DEF ids, action, group
<1>14. PICK judged : judged = DecisionOn(rules).result
  OBVIOUS
<1>15. judged \in GateResults \ {"ERROR"} /\ Rank(action[id]) <= Rank(judged)
  BY <1>11, <1>12, <1>13, <1>14, DecisionOnMatched
<1>16. Rank(t[1]) \in Nat /\ Rank(action[id]) \in Nat /\ Rank(judged) \in Nat
  <2>1. \A r \in GateResults : Rank(r) \in Nat
    BY DEF Rank, GateResults
  <2>2. t[1] \in GateResults /\ action[id] \in GateResults
    BY <1>12, <1>13 DEF GateResults, PolicyActions
  <2> QED  BY <1>15, <2>1, <2>2
<1>17. Rank(t[1]) <= Rank(judged)
  BY <1>13, <1>15, <1>16
<1> QED  BY <1>14, <1>15, <1>17 DEF rules, facts

(* A pass is a result below what the run was asked to fail on, or at most  *)
(* a warning (cli/analyze.py:61).                                         *)
LEMMA PassIsLenient ==
  ASSUME NEW r \in GateResults \ {"ERROR"}, NEW failOn \in GateResults \ {"PASS"},
         ExitCodeFor(r, failOn) = 0,
         NEW asked \in {"REQUIRE_APPROVAL", "BLOCK"}, Rank(asked) >= Rank(failOn)
  PROVE  ~(Rank(asked) <= Rank(r))
BY DEF ExitCodeFor, ExitCode, Rank, GateResults

(* What is known to be proposed in the scope of a budget is within every   *)
(* threshold that the run passes: by its verdict a warning, an approval or *)
(* a block, and by its exit code an approval or a block that it was asked  *)
(* to fail on (budgets/engine.py:85, pipeline.py:159).                     *)
THEOREM PassedIsWithinBudget == Spec => []PassingStaysWithin
<1>1. Init => PassingStaysWithin
  BY DEF Init, AnalysisInit, NoRun, PassingStaysWithin
<1>2. ASSUME RunInv, EstimateInv, Loaded /\ Gathered, PassingStaysWithin, [Next]_<<vars, question>>
      PROVE  PassingStaysWithin'
  <2>1. CASE UNCHANGED <<report, result, settings, exit>>
    BY <1>2, <2>1 DEF PassingStaysWithin, Passes, ProposedIn
  <2>2. CASE report' = None
    BY <2>2 DEF PassingStaysWithin
  <2>3. CASE Conclude /\ ~UNCHANGED report
    <3>1. PICK components, decision :
            /\ components = Components /\ decision = DecisionOn(Rules(Facts(components)))
            /\ report' = components /\ result' = decision.result
            /\ exit' = ExitCodeFor(decision.result, settings.failOn)
            /\ phase = "estimating" /\ UNCHANGED settings
      BY <2>3 DEF Conclude, End
    <3>2. snapshots \in Snapshots /\ settings \in Settings /\ Loads(settings)
      BY <1>2, <3>1 DEF RunInv, Configured, EstimateInv, KeepsPlan, Loaded
    <3>3. IsFiniteSet(components) /\ \A c \in components : IsCosted(c)
      <4>1. IsFiniteSet(estimated) /\ \A d \in estimated : FromPlan(d)
        BY <1>2, <3>1 DEF Gathered
      <4> QED  BY <3>1, <3>2, <4>1, ComponentsAreCosted
    <3>4. SUFFICES ASSUME NEW b \in settings.budgets,
                          b.limit # None, b.limit > 0, b.actual = None,
                          NEW t \in {<<"WARN", b.warning>>, <<"REQUIRE_APPROVAL", b.approval>>,
                                     <<"BLOCK", b.blocking>>},
                          t[2] # None, Passes(t[1])',
                          ~(SumOf(ProposedAmong(b, components), "proposed") * 100 <= t[2] * b.limit)
                   PROVE  FALSE
      BY <3>1 DEF PassingStaysWithin, ProposedIn, ProposedAmong
    <3>5. decision.result \in GateResults \ {"ERROR"} /\ Rank(t[1]) <= Rank(decision.result)
      BY <3>1, <3>2, <3>3, <3>4, BeyondIsJudged
    <3>6. settings.failOn \in GateResults \ {"PASS"}
      BY <3>2, AnalysisAssumption
    <3>7. t[1] \in {"WARN", "REQUIRE_APPROVAL", "BLOCK"}
      BY <3>4
    <3>8. ~(Rank(decision.result) < Rank(t[1]))
      BY <3>5, <3>7 DEF Rank, GateResults
    <3>9. /\ t[1] # "WARN" /\ Rank(t[1]) >= Rank(settings.failOn)
          /\ ExitCodeFor(decision.result, settings.failOn) = 0
      BY <3>1, <3>4, <3>8 DEF Passes
    <3> QED  BY <3>5, <3>6, <3>7, <3>9, PassIsLenient
  <2>4. CASE phase # "ended" /\ UNCHANGED report
    <3>1. report = None
      BY <1>2, <2>4, AnalysisAssumption DEF RunInv, UndecidedUntilEnd, TypeOK, Verdicts
    <3> QED  BY <2>2, <2>4, <3>1
  <2>5. Conclude => phase # "ended"
    BY DEF Conclude
  <2> QED  BY <1>2, <2>1, <2>2, <2>3, <2>4, <2>5 DEF Next, AnalysisNext, Step, LoadConfig, ReadTemplates,
              BuildProvider, Refuse, End, LookUp, Provide, TakeAnswer, Crash, Outside, avars, vars
<1> QED  BY <1>1, <1>2, RunInvariant, EstimateInvariant, GatheredInvariant, PTL DEF Spec

-----------------------------------------------------------------------------
(* Conditions.                                                             *)

(* What a condition comes to, given what those it combines come to.        *)
Meaning(h, n, facts) ==
  LET c == Condition[n]
  IN  CASE c.predicate = "all_of" -> \A m \in c.of : h[m]
        [] c.predicate = "any_of" -> \E m \in c.of : h[m]
        [] c.predicate = "not"    -> \A m \in c.of : ~h[m]
        [] OTHER                  -> Predicate(c.predicate, c.arg, facts)

(* A document whose conditions hold only others can be evaluated: whatever *)
(* is left, when some of it is, has a condition with nothing left to wait  *)
(* for.                                                                    *)
LEMMA ConditionsAreEvaluated ==
  ASSUME NEW facts
  PROVE  \E h : h = [n \in DOMAIN Condition |-> Meaning(h, n, facts)]
<1> DEFINE D == DOMAIN Condition
           Done(T) == /\ \A n \in T : Children(n) \subseteq T
                      /\ \E h : h = [n \in T |-> Meaning(h, n, facts)]
           B == {R \in SUBSET D : Done(D \ R)}
<1>1. D \in B
  <2>1. D \ D = {}
    OBVIOUS
  <2>2. PICK h : h = [n \in {} |-> 0]
    OBVIOUS
  <2>3. h = [n \in {} |-> Meaning(h, n, facts)]
    BY <2>2
  <2> QED  BY <2>1, <2>3
<1>2. PICK R \in B : \A U \in B : U \subseteq R => U = R
  <2>1. B \in SUBSET SUBSET D /\ B # {}
    BY <1>1
  <2>2. IsFiniteSet(D)
    BY ConditionAssumption
  <2> HIDE DEF B, D
  <2> QED  BY <2>1, <2>2, SmallestMember
<1>3. ASSUME R # {} PROVE FALSE
  <2>1. PICK n \in R : Children(n) \cap R = {}
    BY <1>3, ConditionAssumption
  <2> DEFINE T == D \ R
             U == D \ (R \ {n})
  <2>2. U = T \cup {n} /\ n \in D /\ n \notin T
    BY <2>1
  <2>3. /\ \A m \in T : Children(m) \subseteq T
        /\ Children(n) \subseteq T
    BY <2>1, ConditionAssumption
  <2>4. PICK h : h = [m \in T |-> Meaning(h, m, facts)]
    BY <1>2
  <2> DEFINE g == [m \in U |-> IF m = n THEN Meaning(h, n, facts) ELSE h[m]]
  <2>5. \A m \in T : g[m] = h[m]
    BY <2>2
  <2>6. ASSUME NEW m \in U PROVE Meaning(g, m, facts) = Meaning(h, m, facts)
    <3>1. Children(m) \subseteq T
      BY <2>2, <2>3
    <3>2. CASE Condition[m].predicate \in Combinators
      <4>1. \A k \in Condition[m].of : g[k] = h[k]
        BY <2>5, <3>1, <3>2 DEF Children
      <4> HIDE DEF g
      <4> QED  BY <4>1 DEF Meaning
    <3>3. CASE Condition[m].predicate \notin Combinators
      BY <3>3 DEF Meaning, Combinators
    <3> QED  BY <3>2, <3>3
  <2>7. \A m \in U : g[m] = Meaning(g, m, facts)
    <3> SUFFICES ASSUME NEW m \in U PROVE g[m] = Meaning(g, m, facts)
      OBVIOUS
    <3>1. CASE m = n
      BY <2>6, <3>1
    <3>2. CASE m # n
      <4>1. m \in T
        BY <2>2, <3>2
      <4>2. h[m] = Meaning(h, m, facts)
        BY <2>4, <4>1
      <4> QED  BY <2>5, <2>6, <4>1, <4>2
    <3> QED  BY <3>1, <3>2
  <2>8. DOMAIN g = U /\ g = [m \in U |-> g[m]]
    OBVIOUS
  <2> HIDE DEF g
  <2>9. g = [m \in U |-> Meaning(g, m, facts)]
    BY <2>7, <2>8
  <2>10. Done(U)
    BY <2>2, <2>3, <2>9
  <2>11. R \ {n} \in B /\ R \ {n} \subseteq R /\ R \ {n} # R
    BY <2>1, <2>10
  <2> QED  BY <1>2, <2>11
<1>4. D \ R = D
  BY <1>3
<1>5. Done(D)
  BY <1>2, <1>4
<1> QED  BY <1>5

LEMMA HoldsByMeaning ==
  ASSUME NEW n \in DOMAIN Condition, NEW facts
  PROVE  LET c == Condition[n]
         IN  /\ c.predicate = "all_of" => (Holds(n, facts) <=> \A m \in c.of : Holds(m, facts))
             /\ c.predicate = "any_of" => (Holds(n, facts) <=> \E m \in c.of : Holds(m, facts))
             /\ c.predicate \notin Combinators =>
                  (Holds(n, facts) <=> Predicate(c.predicate, c.arg, facts))
<1> DEFINE it == CHOOSE h : h = [m \in DOMAIN Condition |-> Meaning(h, m, facts)]
<1>1. \A m : Holds(m, facts) = it[m]
  BY DEF Holds, Meaning
<1>2. it = [m \in DOMAIN Condition |-> Meaning(it, m, facts)]
  BY ConditionsAreEvaluated
<1> HIDE DEF it
<1>3. it[n] = Meaning(it, n, facts)
  BY <1>2
<1> QED  BY <1>1, <1>3 DEF Meaning, Combinators

(* What holds on some facts holds on others on which every predicate that  *)
(* held still does, if nothing is negated.                                 *)
LEMMA HoldsOnMore ==
  ASSUME NEW facts, NEW more,
         \A n \in DOMAIN Condition :
           LET c == Condition[n]
           IN  c.predicate \notin Combinators /\ Predicate(c.predicate, c.arg, facts)
                 => Predicate(c.predicate, c.arg, more),
         NEW name \in DOMAIN Condition, Affirms(name), Holds(name, facts)
  PROVE  Holds(name, more)
<1>1. PICK T \in SUBSET DOMAIN Condition :
        name \in T /\ \A n \in T : Condition[n].predicate # "not" /\ Children(n) \subseteq T
  BY DEF Affirms
<1> DEFINE B == {n \in T : Holds(n, facts) /\ ~Holds(n, more)}
<1>2. ASSUME B # {} PROVE FALSE
  <2>1. PICK n \in B : Children(n) \cap B = {}
    BY <1>2, ConditionAssumption
  <2> DEFINE c == Condition[n]
  <2>2. n \in DOMAIN Condition /\ Holds(n, facts) /\ ~Holds(n, more) /\ c.predicate # "not"
    BY <1>1, <2>1
  <2>3. \A m \in Children(n) : Holds(m, facts) => Holds(m, more)
    BY <1>1, <2>1
  <2>4. CASE c.predicate \notin Combinators
    BY <2>2, <2>4, HoldsByMeaning
  <2>5. CASE c.predicate = "all_of"
    <3>1. c.of = Children(n)
      BY <2>5 DEF Children, Combinators
    <3>2. \A m \in c.of : Holds(m, facts)
      BY <2>2, <2>5, HoldsByMeaning
    <3>3. Holds(n, more)
      BY <2>2, <2>3, <2>5, <3>1, <3>2, HoldsByMeaning
    <3> QED  BY <2>2, <3>3
  <2>6. CASE c.predicate = "any_of"
    <3>1. c.of = Children(n)
      BY <2>6 DEF Children, Combinators
    <3>2. \E m \in c.of : Holds(m, facts)
      BY <2>2, <2>6, HoldsByMeaning
    <3>3. Holds(n, more)
      BY <2>2, <2>3, <2>6, <3>1, <3>2, HoldsByMeaning
    <3> QED  BY <2>2, <3>3
  <2> QED  BY <2>2, <2>4, <2>5, <2>6 DEF Combinators
<1> QED  BY <1>1, <1>2

-----------------------------------------------------------------------------
(* A dearer proposal.                                                      *)

(* Some components, one of them known and no cheaper than it was, and the  *)
(* same component had more been proposed to be spent on it.                *)
Raises(X, c, d) ==
  /\ IsFiniteSet(X) /\ c \in X /\ d \notin X
  /\ \A x \in X \cup {d} :
       /\ x.current \in Int \cup {None} /\ x.proposed \in Int \cup {None}
       /\ x.confidence \in Levels
  /\ c.current \in Int /\ c.proposed \in Int /\ d.proposed \in Int
  /\ d.current = c.current /\ c.current <= c.proposed /\ c.proposed < d.proposed
  /\ d.resource = c.resource /\ d.type = c.type /\ d.confidence = c.confidence

Raised(X, c, d) == (X \ {c}) \cup {d}

LEMMA RaisedIsKnown ==
  ASSUME NEW X, NEW c, NEW d, Raises(X, c, d)
  PROVE  /\ ~IsUnknown(c) /\ ~IsUnknown(d)
         /\ c \in KnownOf(X) /\ d \notin KnownOf(X)
         /\ KnownOf(Raised(X, c, d)) = (KnownOf(X) \ {c}) \cup {d}
         /\ UnknownOf(Raised(X, c, d)) = UnknownOf(X)
         /\ IsFiniteSet(KnownOf(X)) /\ IsFiniteSet(Raised(X, c, d))
         /\ \A x \in KnownOf(X) \cup {d} : x["current"] \in Int /\ x["proposed"] \in Int
<1>1. ~IsUnknown(c) /\ ~IsUnknown(d)
  BY TellApartAssumption DEF Raises, IsUnknown
<1>2. c \in KnownOf(X) /\ d \notin KnownOf(X)
  BY <1>1 DEF Raises, KnownOf
<1>3. KnownOf(Raised(X, c, d)) = (KnownOf(X) \ {c}) \cup {d}
  BY <1>1 DEF Raised, KnownOf
<1>4. UnknownOf(Raised(X, c, d)) = UnknownOf(X)
  BY <1>1, <1>2, <1>3 DEF UnknownOf, Raised, Raises, KnownOf
<1>5. IsFiniteSet(KnownOf(X)) /\ IsFiniteSet(Raised(X, c, d))
  <2>1. IsFiniteSet(X) /\ KnownOf(X) \subseteq X /\ X \ {c} \subseteq X
    BY DEF Raises, KnownOf
  <2>2. IsFiniteSet(KnownOf(X)) /\ IsFiniteSet(X \ {c})
    BY <2>1, FS_Subset
  <2> QED  BY <2>2, FS_AddElement DEF Raised
<1>6. \A x \in KnownOf(X) \cup {d} : x["current"] \in Int /\ x["proposed"] \in Int
  BY <1>1 DEF KnownOf, IsUnknown, Raises
<1> QED  BY <1>1, <1>2, <1>3, <1>4, <1>5, <1>6

(* A sum moves with the one amount that does.                              *)
LEMMA SumOfRaised ==
  ASSUME NEW X, NEW c, NEW d, Raises(X, c, d)
  PROVE  LET Y == Raised(X, c, d)
         IN  /\ SumOf(X, "current") \in Int /\ SumOf(X, "proposed") \in Int
             /\ SumOf(Y, "current") = SumOf(X, "current")
             /\ SumOf(Y, "proposed") = SumOf(X, "proposed") + (d.proposed - c.proposed)
<1> DEFINE Y == Raised(X, c, d)
           K == KnownOf(X)
           L == KnownOf(Y)
           R == K \ {c}
<1>1. /\ c \in K /\ d \notin K /\ L = R \cup {d} /\ L \ {d} = R
      /\ IsFiniteSet(K) /\ IsFiniteSet(R) /\ IsFiniteSet(L)
  <2>1. c \in K /\ d \notin K /\ L = R \cup {d} /\ IsFiniteSet(K)
    BY RaisedIsKnown
  <2>2. IsFiniteSet(R)
    <3> HIDE DEF K
    <3> QED  BY <2>1, FS_RemoveElement
  <2>3. IsFiniteSet(L)
    <3> HIDE DEF K, L, R
    <3> QED  BY <2>1, <2>2, FS_AddElement
  <2>4. L \ {d} = R
    <3> HIDE DEF K, L
    <3> QED  BY <2>1
  <2> QED  BY <2>1, <2>2, <2>3, <2>4
<1>2. \A x \in K \cup L : x["current"] \in Int /\ x["proposed"] \in Int
  <2>1. \A x \in K \cup {d} : x["current"] \in Int /\ x["proposed"] \in Int
    BY RaisedIsKnown
  <2> QED  BY <1>1, <2>1
<1>3. ASSUME NEW side \in {"current", "proposed"}
      PROVE  /\ SumOf(X, side) \in Int
             /\ SumOf(Y, side) = SumOf(X, side) + (d[side] - c[side])
  <2> DEFINE f == [x \in K |-> x[side]]
             h == [x \in L |-> x[side]]
  <2>1. SumOf(X, side) = SumFunctionOnSet(f, K) /\ SumOf(Y, side) = SumFunctionOnSet(h, L)
    BY DEF SumOf, SumFunction
  <2>2. /\ \A x \in K : f[x] = x[side] /\ f[x] \in Int
        /\ \A x \in L : h[x] = x[side] /\ h[x] \in Int
    BY <1>2
  <2> HIDE DEF f, h, K, L, R, Y
  <2>3. /\ SumFunctionOnSet(f, K) = f[c] + SumFunctionOnSet(f, R)
        /\ SumFunctionOnSet(f, K) \in Int /\ SumFunctionOnSet(f, R) \in Int
    <3>1. R \subseteq K
      BY DEF R
    <3>2. SumFunctionOnSet(f, R) \in Int
      BY <1>1, <2>2, <3>1, SumOfPart
    <3>3. \A x \in K : f[x] \in Int
      BY <2>2
    <3>4. SumFunctionOnSet(f, K) \in Int
      BY <1>1, <3>3, SumOfIntegers
    <3>5. \A x \in K : SumFunctionOnSet(f, K) = f[x] + SumFunctionOnSet(f, K \ {x})
      BY <1>1, <3>3, SumOfIntegers
    <3> QED  BY <1>1, <3>2, <3>4, <3>5 DEF R
  <2>4. SumFunctionOnSet(h, L) = h[d] + SumFunctionOnSet(h, R)
    <3>1. \A x \in L : h[x] \in Int
      BY <2>2
    <3>2. \A x \in L : SumFunctionOnSet(h, L) = h[x] + SumFunctionOnSet(h, L \ {x})
      BY <1>1, <3>1, SumOfIntegers
    <3>3. d \in L
      BY <1>1
    <3> QED  BY <1>1, <3>2, <3>3
  <2>5. SumFunctionOnSet(f, R) = SumFunctionOnSet(h, R)
    <3>1. \A x \in R : f[x] \in Int /\ f[x] = h[x]
      BY <1>1, <2>2 DEF R
    <3> QED  BY <1>1, <3>1, SumOfSame
  <2>6. PICK i \in Int, j \in Int, k \in Int : i = f[c] /\ j = h[d] /\ k = SumFunctionOnSet(f, R)
    BY <1>1, <2>2, <2>3
  <2>7. i = c[side] /\ j = d[side]
    BY <1>1, <2>2, <2>6
  <2> QED  BY <2>1, <2>3, <2>4, <2>5, <2>6, <2>7
<1>4. d.current = c.current /\ c.current \in Int
  BY DEF Raises
<1>5. /\ SumOf(X, "current") \in Int /\ SumOf(X, "proposed") \in Int
      /\ SumOf(Y, "current") = SumOf(X, "current") + (d.current - c.current)
      /\ SumOf(Y, "proposed") = SumOf(X, "proposed") + (d.proposed - c.proposed)
  BY <1>3
<1> HIDE DEF Y
<1>6. SumOf(Y, "current") = SumOf(X, "current")
  <2>1. PICK n \in Int, s \in Int : n = c.current /\ s = SumOf(X, "current")
    BY <1>4, <1>5
  <2> QED  BY <1>4, <1>5, <2>1
<1> QED  BY <1>5, <1>6 DEF Y

(* A change of which more is known to matter is no surer.                  *)
LEMMA RaisedIsNoSurer ==
  ASSUME NEW X, NEW c, NEW d, Raises(X, c, d)
  PROVE  /\ ConfidenceRank(ReportConfidence(Raised(X, c, d))) \in 1 .. 4
         /\ ConfidenceRank(ReportConfidence(X)) \in 1 .. 4
         /\ AtMost(ReportConfidence(Raised(X, c, d)), ReportConfidence(X))
<1> DEFINE Y == Raised(X, c, d)
           ranks(Z) == {ConfidenceRank(x.confidence) : x \in Z}
<1>1. X # {} /\ Y # {}
  BY DEF Raises, Raised
<1>2. \A x \in X \cup Y : x.confidence \in Levels
  BY DEF Raises, Raised
<1>3. d \in Material(Y)
  <2>1. ~(DeltaOf(d) = 0)
    <3>1. PICK i \in Int, j \in Int, k \in Int : i = c.current /\ j = c.proposed /\ k = d.proposed
      BY DEF Raises
    <3> QED  BY <3>1 DEF Raises, DeltaOf
  <2> QED  BY <2>1 DEF Material, Raised
<1>4. \A x \in Material(X) : x # c => x \in Material(Y)
  BY DEF Material, Raised
<1>5. Material(X) \subseteq X /\ Material(Y) \subseteq Y
  BY DEF Material
<1>6. PICK low : low = ranks(Material(Y))
  OBVIOUS
<1>7. ReportConfidence(Y) = Confidences[Min(low)]
  BY <1>1, <1>3, <1>6 DEF ReportConfidence
<1>8. /\ ConfidenceRank(ReportConfidence(Y)) = Min(low)
      /\ \A x \in Material(Y) : Min(low) <= ConfidenceRank(x.confidence)
      /\ Min(low) \in 1 .. 4
  <2>1. Material(Y) # {} /\ \A x \in Material(Y) : x.confidence \in Levels
    BY <1>2, <1>3, <1>5
  <2> HIDE DEF Y
  <2> QED  BY <1>6, <1>7, <2>1, RanksOfComponents
<1>9. c.confidence = d.confidence
  BY DEF Raises
<1>10. CASE Material(X) = {}
  <2>1. PICK all : all = ranks(X)
    OBVIOUS
  <2>2. ReportConfidence(X) = Confidences[Max(all)]
    BY <1>1, <1>10, <2>1 DEF ReportConfidence
  <2>3. /\ ConfidenceRank(ReportConfidence(X)) = Max(all) /\ Max(all) \in 1 .. 4
        /\ \A x \in X : ConfidenceRank(x.confidence) <= Max(all)
    <3>1. X # {} /\ \A x \in X : x.confidence \in Levels
      BY <1>1, <1>2
    <3>2. /\ Max(all) \in 1 .. 4
          /\ \A x \in X : ConfidenceRank(x.confidence) <= Max(all)
      BY <2>1, <3>1, RanksOfComponents
    <3> QED  BY <2>2, <3>2, ConfidencesAreRanked
  <2>4. c \in X /\ c.confidence \in Levels
    BY <1>2 DEF Raises
  <2>5. PICK i \in 1 .. 4 : i = ConfidenceRank(c.confidence)
    BY <2>4, ConfidencesAreRanked
  <2>6. Min(low) <= i /\ i <= Max(all)
    BY <1>3, <1>8, <1>9, <2>3, <2>4, <2>5
  <2>7. PICK m \in 1 .. 4, n \in 1 .. 4 : m = Min(low) /\ n = Max(all)
    BY <1>8, <2>3
  <2> HIDE DEF Y
  <2> QED  BY <1>8, <2>3, <2>6, <2>7 DEF AtMost, Y
<1>11. CASE Material(X) # {}
  <2>1. PICK high : high = ranks(Material(X))
    OBVIOUS
  <2>2. ReportConfidence(X) = Confidences[Min(high)]
    BY <1>1, <1>11, <2>1 DEF ReportConfidence
  <2>3. \A x \in Material(X) : x.confidence \in Levels
    BY <1>2, <1>5
  <2>4. /\ ConfidenceRank(ReportConfidence(X)) = Min(high) /\ Min(high) \in 1 .. 4
        /\ \E x \in Material(X) : ConfidenceRank(x.confidence) = Min(high)
    BY <1>11, <2>1, <2>2, <2>3, RanksOfComponents
  <2>5. PICK x \in Material(X) : ConfidenceRank(x.confidence) = Min(high)
    BY <2>4
  <2>6. Min(low) <= Min(high)
    <3>1. CASE x = c
      BY <1>3, <1>8, <1>9, <2>5, <3>1
    <3>2. CASE x # c
      BY <1>4, <1>8, <2>5, <3>2
    <3> QED  BY <3>1, <3>2
  <2> HIDE DEF Y
  <2> QED  BY <1>8, <2>4, <2>6 DEF AtMost, Y
<1> QED  BY <1>10, <1>11

(* Amounts that are whole have a whole sum.                                *)
LEMMA SumsAreWhole ==
  ASSUME NEW X, IsFiniteSet(X),
         \A x \in X : x.current \in Int \cup {None} /\ x.proposed \in Int \cup {None}
  PROVE  SumOf(X, "current") \in Int /\ SumOf(X, "proposed") \in Int
<1> SUFFICES ASSUME NEW side \in {"current", "proposed"} PROVE SumOf(X, side) \in Int
  OBVIOUS
<1> DEFINE K == KnownOf(X)
           f == [x \in K |-> x[side]]
<1>1. \A x \in K : f[x] \in Int
  BY DEF KnownOf, IsUnknown
<1>2. IsFiniteSet(K)
  <2>1. K \subseteq X
    BY DEF KnownOf
  <2> HIDE DEF K
  <2> QED  BY <2>1, FS_Subset
<1>3. SumOf(X, side) = SumFunctionOnSet(f, K)
  BY DEF SumOf, SumFunction
<1> HIDE DEF f, K
<1> QED  BY <1>1, <1>2, <1>3, SumOfIntegers

(* Nothing is measured lower when more is proposed.                        *)
LEMMA BudgetOfRaised ==
  ASSUME NEW X, NEW c, NEW d, Raises(X, c, d), NEW b, b.actual \in {None} \cup Int,
         NEW contexts, NEW fallback
  PROVE  LET e == EvaluateBudget(b, X, contexts, fallback)
             f == EvaluateBudget(b, Raised(X, c, d), contexts, fallback)
         IN  /\ e.budget = b /\ f.budget = b
             /\ e.delta \in Int /\ f.delta \in Int /\ e.delta <= f.delta
             /\ e.measured \in Int /\ f.measured \in Int /\ e.measured <= f.measured
<1> DEFINE Y == Raised(X, c, d)
           within(x) ==
             InScope(b.scope, IF x.resource \in DOMAIN contexts THEN contexts[x.resource] ELSE fallback)
           S == ScopedTo(b, X, contexts, fallback)
           T == ScopedTo(b, Y, contexts, fallback)
           e == EvaluateBudget(b, X, contexts, fallback)
           f == EvaluateBudget(b, Y, contexts, fallback)
<1>1. S = {x \in X : within(x)} /\ T = {x \in Y : within(x)}
  BY DEF ScopedTo
<1>2. within(c) <=> within(d)
  BY DEF Raises
<1> HIDE DEF within
<1>3. IsFiniteSet(S) /\ S \subseteq X
  <2>1. S \subseteq X
    BY <1>1
  <2>2. IsFiniteSet(X)
    BY DEF Raises
  <2> HIDE DEF S
  <2> QED  BY <2>1, <2>2, FS_Subset
<1>4. PICK current \in Int, proposed \in Int, future \in Int :
        /\ current = SumOf(S, "current") /\ proposed = SumOf(S, "proposed")
        /\ current = SumOf(T, "current") /\ future = SumOf(T, "proposed")
        /\ proposed <= future
  <2>1. CASE within(c)
    <3>1. T = Raised(S, c, d)
      BY <1>1, <1>2, <2>1 DEF Raised
    <3>2. Raises(S, c, d)
      BY <1>1, <1>3, <2>1 DEF Raises
    <3>3. /\ SumOf(S, "current") \in Int /\ SumOf(S, "proposed") \in Int
          /\ SumOf(T, "current") = SumOf(S, "current")
          /\ SumOf(T, "proposed") = SumOf(S, "proposed") + (d.proposed - c.proposed)
      BY <3>1, <3>2, SumOfRaised
    <3>4. PICK i \in Int, j \in Int, s \in Int :
            i = c.proposed /\ j = d.proposed /\ i < j /\ s = SumOf(S, "proposed")
      BY <3>3 DEF Raises
    <3>5. SumOf(T, "proposed") \in Int /\ s <= SumOf(T, "proposed")
      BY <3>3, <3>4
    <3> HIDE DEF S, T
    <3> QED  BY <3>3, <3>4, <3>5
  <2>2. CASE ~within(c)
    <3>1. T = S
      BY <1>1, <1>2, <2>2 DEF Raised
    <3>2. \A x \in S : x.current \in Int \cup {None} /\ x.proposed \in Int \cup {None}
      BY <1>3 DEF Raises
    <3> HIDE DEF S, T
    <3>3. SumOf(S, "current") \in Int /\ SumOf(S, "proposed") \in Int
      BY <1>3, <3>2, SumsAreWhole
    <3>4. SumOf(S, "proposed") <= SumOf(S, "proposed")
      BY <3>3
    <3> QED  BY <3>1, <3>3, <3>4
  <2> QED  BY <2>1, <2>2
<1>5. /\ e.budget = b /\ f.budget = b
      /\ e.delta = proposed - current /\ f.delta = future - current
      /\ e.measured = IF b.actual = None THEN proposed ELSE b.actual + proposed - current
      /\ f.measured = IF b.actual = None THEN future ELSE b.actual + future - current
  BY <1>4 DEF EvaluateBudget
<1> HIDE DEF e, f
<1>6. e.delta \in Int /\ f.delta \in Int /\ e.delta <= f.delta
  BY <1>4, <1>5
<1>7. e.measured \in Int /\ f.measured \in Int /\ e.measured <= f.measured
  <2>1. CASE b.actual = None
    BY <1>4, <1>5, <2>1
  <2>2. CASE b.actual # None
    <3>1. PICK a \in Int : a = b.actual
      BY <2>2
    <3> QED  BY <1>4, <1>5, <2>2, <3>1
  <2> QED  BY <2>1, <2>2
<1> QED  BY <1>5, <1>6, <1>7 DEF e, f, Y

(* So every budget of a change has its counterpart, and crosses as much.   *)
LEMMA BudgetsOfRaised ==
  ASSUME settings \in Settings, NEW X, NEW c, NEW d, Raises(X, c, d),
         NEW e \in Facts(X).budgets
  PROVE  \E f \in Facts(Raised(X, c, d)).budgets :
           /\ f.budget = e.budget /\ f.budget \in settings.budgets
           /\ e.delta \in Int /\ f.delta \in Int /\ e.delta <= f.delta
           /\ \A percent \in Int : Above(e, percent) => Above(f, percent)
<1>1. PICK b \in settings.budgets :
        e = EvaluateBudget(b, X, Contexts, Fallback) /\ Applies(b, Contexts, Fallback)
  BY DEF Facts, EvaluateBudgets
<1>2. PICK f : f = EvaluateBudget(b, Raised(X, c, d), Contexts, Fallback)
  OBVIOUS
<1>3. f \in Facts(Raised(X, c, d)).budgets
  BY <1>1, <1>2 DEF Facts, EvaluateBudgets
<1>4. b.actual \in {None} \cup Int /\ b.limit \in {None} \cup Int
  BY AnalysisAssumption
<1>5. /\ e.budget = b /\ f.budget = b
      /\ e.delta \in Int /\ f.delta \in Int /\ e.delta <= f.delta
      /\ e.measured \in Int /\ f.measured \in Int /\ e.measured <= f.measured
  BY <1>1, <1>2, <1>4, BudgetOfRaised
<1>6. ASSUME NEW percent \in Int, Above(e, percent) PROVE Above(f, percent)
  <2>1. b.limit # None /\ b.limit > 0 /\ e.measured * 100 > percent * b.limit
    BY <1>5, <1>6 DEF Above
  <2>2. PICK limit \in Int, m \in Int, n \in Int :
          limit = b.limit /\ m = e.measured /\ n = f.measured /\ m <= n
    BY <1>4, <1>5, <2>1
  <2>3. PICK product \in Int : product = percent * limit
    OBVIOUS
  <2>4. n * 100 > product
    BY <2>1, <2>2, <2>3
  <2> QED  BY <1>5, <2>1, <2>2, <2>3, <2>4 DEF Above
<1> QED  BY <1>3, <1>5, <1>6

(* The total moves up, over the same current costs.                        *)
LEMMA TotalOfRaised ==
  ASSUME NEW X, NEW c, NEW d, Raises(X, c, d), NEW n \in Int
  PROVE  LET Y == Raised(X, c, d)
         IN  /\ TotalDelta(X) > n => TotalDelta(Y) > n
             /\ PercentAbove(X, n) => PercentAbove(Y, n)
<1> DEFINE Y == Raised(X, c, d)
<1>1. PICK current \in Int, proposed \in Int, i \in Int, j \in Int :
        /\ i = c.proposed /\ j = d.proposed /\ i < j
        /\ current = SumOf(X, "current") /\ proposed = SumOf(X, "proposed")
        /\ SumOf(Y, "current") = current /\ SumOf(Y, "proposed") = proposed + (j - i)
  BY SumOfRaised DEF Raises
<1>2. TotalDelta(X) = proposed - current /\ TotalDelta(Y) = proposed + (j - i) - current
  BY <1>1 DEF TotalDelta
<1>3. TotalDelta(X) > n => TotalDelta(Y) > n
  BY <1>1, <1>2
<1>4. ASSUME PercentAbove(X, n) PROVE PercentAbove(Y, n)
  <2>1. PICK product \in Int : product = n * current
    OBVIOUS
  <2>2. current > 0 /\ (proposed - current) * 100 > product
    BY <1>1, <1>2, <1>4, <2>1 DEF PercentAbove
  <2>3. (proposed + (j - i) - current) * 100 > product
    BY <1>1, <2>2
  <2> QED  BY <1>1, <1>2, <2>1, <2>2, <2>3 DEF PercentAbove
<1> QED  BY <1>3, <1>4

(* Every predicate that looks at costs goes on holding when more is        *)
(* proposed; the others look at what did not change.                       *)
LEMMA PredicateOfRaised ==
  ASSUME settings \in Settings, NEW X, NEW c, NEW d, Raises(X, c, d),
         NEW n \in DOMAIN Condition, Condition[n].predicate \notin Combinators,
         Predicate(Condition[n].predicate, Condition[n].arg, Facts(X))
  PROVE  Predicate(Condition[n].predicate, Condition[n].arg, Facts(Raised(X, c, d)))
<1>1. PICK name, arg, Y, facts, more :
        /\ name = Condition[n].predicate /\ arg = Condition[n].arg /\ Y = Raised(X, c, d)
        /\ facts = Facts(X) /\ more = Facts(Y)
  OBVIOUS
<1>2. /\ facts.components = X /\ more.components = Y
      /\ facts.changes = more.changes /\ facts.region = more.region
  BY <1>1 DEF Facts
<1>3. /\ name \in Amounts \cup Lists \cup {"confidence_at_most"}
      /\ name \in Amounts => arg \in Int
  BY <1>1, ConditionAssumption
<1>4. Predicate(name, arg, facts)
  BY <1>1
<1>5. UnknownOf(Y) = UnknownOf(X)
  BY <1>1, RaisedIsKnown
<1>6. SUFFICES Predicate(name, arg, more)
  BY <1>1
<1>7. CASE name \in Lists
  <2>1. \A operation : Changed(facts, operation) = Changed(more, operation)
    BY <1>2 DEF Changed
  <2>2. CASE name \in {"added_resource_types", "removed_resource_types", "replaced_resource_types"}
    BY <1>4, <2>1, <2>2 DEF Predicate
  <2>3. CASE name \in {"required_tags_missing", "region_not_in"}
    BY <1>2, <1>4, <2>1, <2>3 DEF Predicate
  <2>4. CASE name = "unknown_resource_types"
    BY <1>2, <1>4, <1>5, <2>4 DEF Predicate
  <2> QED  BY <1>7, <2>2, <2>3, <2>4 DEF Lists
<1>8. CASE name \in {"monthly_cost_delta_greater_than", "monthly_cost_delta_percent_greater_than"}
  <2>1. arg \in Int
    BY <1>3, <1>8 DEF Amounts
  <2> QED  BY <1>1, <1>2, <1>4, <1>8, <2>1, TotalOfRaised DEF Predicate
<1>9. CASE name \in {"one_time_cost_greater_than", "unknown_component_count_greater_than"}
  BY <1>2, <1>4, <1>5, <1>9 DEF Predicate
<1>10. CASE name = "budget_utilization_percent_greater_than"
  <2>1. PICK e \in facts.budgets : Above(e, arg)
    BY <1>4, <1>10 DEF Predicate
  <2>2. arg \in Int
    BY <1>3, <1>10 DEF Amounts
  <2>3. \E f \in more.budgets : Above(f, arg)
    BY <1>1, <2>1, <2>2, BudgetsOfRaised
  <2> QED  BY <1>10, <2>3 DEF Predicate
<1>11. CASE name = "budget_increase_exceeds"
  <2>1. PICK e \in facts.budgets : e.delta > arg
    BY <1>4, <1>11 DEF Predicate
  <2>2. arg \in Int
    BY <1>3, <1>11 DEF Amounts
  <2>3. PICK f \in more.budgets : e.delta \in Int /\ f.delta \in Int /\ e.delta <= f.delta
    BY <1>1, <2>1, BudgetsOfRaised
  <2>4. f.delta > arg
    BY <2>1, <2>2, <2>3
  <2> QED  BY <1>11, <2>4 DEF Predicate
<1>12. CASE name = "confidence_at_most"
  <2>1. PICK i \in 1 .. 4, j \in 1 .. 4 :
          /\ i = ConfidenceRank(ReportConfidence(X)) /\ j = ConfidenceRank(ReportConfidence(Y))
          /\ j <= i
    BY <1>1, RaisedIsNoSurer DEF AtMost
  <2>2. arg \in Levels
    BY <1>1, <1>12, ConditionAssumption, ConfidencesAreRanked
  <2>3. PICK k \in 1 .. 4 : k = ConfidenceRank(arg)
    BY <2>2, ConfidencesAreRanked
  <2>4. i <= k
    BY <1>2, <1>4, <1>12, <2>1, <2>3 DEF Predicate, AtMost
  <2>5. j <= k
    BY <2>1, <2>4
  <2> QED  BY <1>2, <1>12, <2>1, <2>3, <2>5 DEF Predicate, AtMost
<1> QED  BY <1>3, <1>7, <1>8, <1>9, <1>10, <1>11, <1>12 DEF Amounts

(* More rules, and the same rules with actions no weaker, decide no more   *)
(* leniently.                                                              *)
LEMMA StricterRules ==
  ASSUME NEW rules, NEW more, \A r \in rules \cup more : r.action \in PolicyActions,
         \A r \in rules : /\ \E s \in more : s.id = r.id
                          /\ \A s \in more : s.id = r.id => Rank(r.action) <= Rank(s.action)
  PROVE  Rank(DecisionOn(rules).result) <= Rank(DecisionOn(more).result)
<1> DEFINE ids(rs) == {r.id : r \in rs}
           action(rs) == [i \in ids(rs) |-> (CHOOSE r \in rs : r.id = i).action]
           group(rs) == [i \in ids(rs) |-> (CHOOSE r \in rs : r.id = i).group]
<1>1. ASSUME NEW rs, NEW i \in ids(rs) PROVE \E r \in rs : r.id = i /\ action(rs)[i] = r.action
  <2>1. PICK r \in rs : r = (CHOOSE s \in rs : s.id = i) /\ r.id = i
    OBVIOUS
  <2> QED  BY <2>1
<1>2. \A rs : DecisionOn(rs) = BuildDecision(ids(rs), action(rs), group(rs))
  BY DEF DecisionOn
<1>3. /\ \A i \in ids(rules) : action(rules)[i] \in PolicyActions
      /\ \A i \in ids(more) : action(more)[i] \in PolicyActions
  BY <1>1
<1>4. \A i \in ids(rules) : i \in ids(more) /\ Rank(action(rules)[i]) <= Rank(action(more)[i])
  <2> SUFFICES ASSUME NEW i \in ids(rules)
               PROVE  i \in ids(more) /\ Rank(action(rules)[i]) <= Rank(action(more)[i])
    OBVIOUS
  <2>1. PICK r \in rules : r.id = i /\ action(rules)[i] = r.action
    BY <1>1
  <2>2. i \in ids(more)
    BY <2>1
  <2>3. PICK s \in more : s.id = i /\ action(more)[i] = s.action
    BY <1>1, <2>2
  <2> HIDE DEF action
  <2> QED  BY <2>1, <2>2, <2>3
<1> HIDE DEF ids, action, group
<1>5. PICK one, two : one = DecisionOn(rules).result /\ two = DecisionOn(more).result
  OBVIOUS
<1>6. /\ one \in GateResults \ {"ERROR"}
      /\ one = "PASS" \/ \E i \in ids(rules) : action(rules)[i] = one
  <2>1. LET d == BuildDecision(ids(rules), action(rules), group(rules))
        IN  /\ d.result \in GateResults \ {"ERROR"}
            /\ d.result = "PASS" \/ \E i \in ids(rules) : action(rules)[i] = d.result
    BY <1>3, DecisionOnMatched
  <2> QED  BY <1>2, <1>5, <2>1
<1>7. /\ two \in GateResults \ {"ERROR"}
      /\ \A i \in ids(more) : Rank(action(more)[i]) <= Rank(two)
  <2>1. LET d == BuildDecision(ids(more), action(more), group(more))
        IN  /\ d.result \in GateResults \ {"ERROR"}
            /\ \A i \in ids(more) : Rank(action(more)[i]) <= Rank(d.result)
    BY <1>3, DecisionOnMatched
  <2> QED  BY <1>2, <1>5, <2>1
<1>8. \A r \in GateResults : Rank(r) \in Nat /\ Rank("PASS") <= Rank(r)
  BY DEF Rank, GateResults
<1>9. CASE one = "PASS"
  BY <1>5, <1>7, <1>8, <1>9
<1>10. CASE \E i \in ids(rules) : action(rules)[i] = one
  <2>1. PICK i \in ids(rules) : action(rules)[i] = one
    BY <1>10
  <2>2. action(more)[i] \in GateResults
    BY <1>3, <1>4 DEF GateResults, PolicyActions
  <2>3. PICK k \in Nat, m \in Nat, n \in Nat :
          k = Rank(one) /\ m = Rank(action(more)[i]) /\ n = Rank(two)
    BY <1>6, <1>7, <1>8, <2>2
  <2>4. k <= m /\ m <= n
    BY <1>4, <1>7, <2>1, <2>3
  <2> QED  BY <1>5, <2>3, <2>4
<1> QED  BY <1>6, <1>9, <1>10

(* Every rule a change matched, it matches when more is proposed, and no   *)
(* more leniently: ids tell the rules of different policies and budgets    *)
(* apart.                                                                  *)
LEMMA RulesOfRaised ==
  ASSUME settings \in Settings, Loads(settings), \A p \in settings.policies : Affirms(p.when),
         NEW X, NEW c, NEW d, Raises(X, c, d), NEW r \in Rules(Facts(X))
  PROVE  LET more == Rules(Facts(Raised(X, c, d)))
         IN  /\ \E s \in more : s.id = r.id
             /\ \A s \in more : s.id = r.id => Rank(r.action) <= Rank(s.action)
<1>1. PICK Y, facts, after, rules, more :
        /\ Y = Raised(X, c, d) /\ facts = Facts(X) /\ after = Facts(Y)
        /\ rules = Rules(facts) /\ more = Rules(after)
  OBVIOUS
<1>2. /\ facts.budgets = EvaluateBudgets(settings.budgets, X, Contexts, Fallback)
      /\ after.budgets = EvaluateBudgets(settings.budgets, Y, Contexts, Fallback)
      /\ facts.context = Fallback /\ after.context = Fallback
  BY <1>1 DEF Facts
<1>3. /\ rules = PolicyRules(settings.policies, facts) \cup BudgetRules(facts.budgets)
      /\ more = PolicyRules(settings.policies, after) \cup BudgetRules(after.budgets)
  BY <1>1 DEF Rules
<1>4. /\ \A p, q \in settings.policies : p.id = q.id => p = q
      /\ \A b, e \in settings.budgets : b.id = e.id => b = e
  BY DEF Loads, PoliciesLoad, BudgetsLoad
<1>5. \A e \in after.budgets : e.budget \in settings.budgets
  <2> SUFFICES ASSUME NEW e \in after.budgets PROVE e.budget \in settings.budgets
    OBVIOUS
  <2>1. PICK b \in settings.budgets : e = EvaluateBudget(b, Y, Contexts, Fallback)
    BY <1>2 DEF EvaluateBudgets
  <2> QED  BY <2>1 DEF EvaluateBudget
<1>6. \A s \in more : s.action \in PolicyActions
  BY <1>1, RulesActions
<1>7. \A a \in PolicyActions : Rank(a) <= Rank(a)
  BY DEF Rank, PolicyActions
<1>8. CASE r \in PolicyRules(settings.policies, facts)
  <2>1. PICK p \in settings.policies :
          /\ r = Rule(<<p.id, "policy">>, p.action, p.group)
          /\ InForce(p, facts.context) /\ Holds(p.when, facts)
    BY <1>8 DEF PolicyRules
  <2>2. Holds(p.when, after)
    <3>1. p.when \in DOMAIN Condition
      BY AnalysisAssumption
    <3>2. \A n \in DOMAIN Condition :
            LET k == Condition[n]
            IN  k.predicate \notin Combinators /\ Predicate(k.predicate, k.arg, facts)
                  => Predicate(k.predicate, k.arg, after)
      BY <1>1, PredicateOfRaised
    <3> QED  BY <2>1, <3>1, <3>2, HoldsOnMore
  <2>3. r \in more
    BY <1>2, <1>3, <2>1, <2>2 DEF PolicyRules
  <2>4. ASSUME NEW s \in more, s.id = r.id PROVE s = r
    <3>1. s \notin BudgetRules(after.budgets)
      BY <2>1, <2>4 DEF BudgetRules, ThresholdRules, IncreaseRules, Rule
    <3>2. PICK q \in settings.policies : s = Rule(<<q.id, "policy">>, q.action, q.group)
      BY <1>3, <3>1 DEF PolicyRules
    <3>3. q = p
      BY <1>4, <2>1, <2>4, <3>2 DEF Rule
    <3> QED  BY <2>1, <3>2, <3>3
  <2>5. Rank(r.action) <= Rank(r.action)
    BY <1>6, <1>7, <2>3
  <2> QED  BY <1>1, <2>3, <2>4, <2>5
<1>9. CASE r \in BudgetRules(facts.budgets)
  <2>1. PICK e \in facts.budgets : r \in ThresholdRules(e) \/ r \in IncreaseRules(e)
    BY <1>9 DEF BudgetRules
  <2>2. PICK f \in after.budgets :
          /\ f.budget = e.budget /\ f.budget \in settings.budgets
          /\ e.delta \in Int /\ f.delta \in Int /\ e.delta <= f.delta
          /\ \A percent \in Int : Above(e, percent) => Above(f, percent)
    BY <1>1, <2>1, BudgetsOfRaised
  <2>3. CASE r \in ThresholdRules(e)
    <3>1. PICK t \in Crossed(e) : r = Rule(<<e.budget.id, "threshold">>, t[1], e.budget.group)
      BY <2>3 DEF ThresholdRules
    <3>2. t \in Crossed(f)
      <4>1. t[2] # None /\ Above(e, t[2])
        BY DEF Crossed
      <4>2. t[2] \in Int
        <5>1. t[2] \in {e.budget.warning, e.budget.approval, e.budget.blocking}
          BY DEF Crossed
        <5> QED  BY <2>2, <4>1, <5>1, AnalysisAssumption
      <4>3. Above(f, t[2])
        BY <2>2, <4>1, <4>2
      <4> QED  BY <2>2, <4>1, <4>3 DEF Crossed
    <3>3. /\ \E s \in more : s.id = <<f.budget.id, "threshold">>
          /\ \A s \in more : s.id = <<f.budget.id, "threshold">> => Rank(s.action) >= Rank(t[1])
      BY <1>1, <3>2, CrossedIsRuled
    <3>4. r.id = <<f.budget.id, "threshold">> /\ r.action = t[1]
      BY <2>2, <3>1 DEF Rule
    <3>5. t[1] \in PolicyActions
      BY DEF Crossed, PolicyActions
    <3>6. \A s \in more : Rank(s.action) >= Rank(t[1]) => Rank(t[1]) <= Rank(s.action)
      <4>1. \A a \in PolicyActions : Rank(a) \in Nat
        BY DEF Rank, PolicyActions
      <4> QED  BY <1>6, <3>5, <4>1
    <3> QED  BY <1>1, <3>3, <3>4, <3>6
  <2>4. CASE r \in IncreaseRules(e)
    <3>1. /\ e.budget.cap # None /\ ~(e.delta <= e.budget.cap)
          /\ r = Rule(<<e.budget.id, "increase">>, e.budget.capAction, e.budget.group)
      BY <2>4 DEF IncreaseRules
    <3>2. e.budget.cap \in Int
      BY <2>2, <3>1, AnalysisAssumption
    <3>3. ~(f.delta <= f.budget.cap)
      BY <2>2, <3>1, <3>2
    <3>4. r \in IncreaseRules(f)
      BY <2>2, <3>1, <3>3 DEF IncreaseRules
    <3>5. r \in more
      BY <1>3, <3>4 DEF BudgetRules
    <3>6. ASSUME NEW s \in more, s.id = r.id PROVE s = r
      <4>1. s \notin PolicyRules(settings.policies, after)
        BY <3>1, <3>6 DEF PolicyRules, Rule
      <4>2. PICK g \in after.budgets : s \in ThresholdRules(g) \/ s \in IncreaseRules(g)
        BY <1>3, <4>1 DEF BudgetRules
      <4>3. s \notin ThresholdRules(g)
        BY <3>1, <3>6 DEF ThresholdRules, Rule
      <4>4. s = Rule(<<g.budget.id, "increase">>, g.budget.capAction, g.budget.group)
        BY <4>2, <4>3 DEF IncreaseRules
      <4>5. g.budget = e.budget
        <5>1. g.budget.id = e.budget.id
          BY <3>1, <3>6, <4>4 DEF Rule
        <5> QED  BY <1>4, <1>5, <2>2, <5>1
      <4> QED  BY <3>1, <4>4, <4>5
    <3>7. Rank(r.action) <= Rank(r.action)
      BY <1>6, <1>7, <3>5
    <3> QED  BY <1>1, <3>5, <3>6, <3>7
  <2> QED  BY <2>1, <2>3, <2>4
<1> QED  BY <1>1, <1>3, <1>8, <1>9

(* More is judged no more leniently.                                       *)
LEMMA RaisedIsJudgedHarder ==
  ASSUME settings \in Settings, Loads(settings), \A p \in settings.policies : Affirms(p.when),
         NEW X, NEW c, NEW d, Raises(X, c, d)
  PROVE  Rank(DecisionOn(Rules(Facts(X))).result)
           <= Rank(DecisionOn(Rules(Facts(Raised(X, c, d)))).result)
<1>1. PICK rules, more : rules = Rules(Facts(X)) /\ more = Rules(Facts(Raised(X, c, d)))
  OBVIOUS
<1>2. \A r \in rules \cup more : r.action \in PolicyActions
  BY <1>1, RulesActions
<1>3. \A r \in rules : /\ \E s \in more : s.id = r.id
                       /\ \A s \in more : s.id = r.id => Rank(r.action) <= Rank(s.action)
  BY <1>1, RulesOfRaised
<1> QED  BY <1>1, <1>2, <1>3, StricterRules

-----------------------------------------------------------------------------
(* What was published.                                                     *)

(* What was published was judged as it stands, under what the run was      *)
(* given, and names every dimension of a resource once.                    *)
Judged ==
  report # None =>
    /\ settings \in Settings /\ Loads(settings)
    /\ IsFiniteSet(report) /\ \A c \in report : IsCosted(c)
    /\ \A b, c \in report : b.resource = c.resource /\ b.dimension = c.dimension => b = c
    /\ result = DecisionOn(Rules(Facts(report))).result

LEMMA JudgedInductive ==
  ASSUME RunInv, EstimateInv, Loaded /\ Gathered, Judged, [Next]_<<vars, question>>
  PROVE  Judged'
<1>1. CASE UNCHANGED <<snapshots, settings, report, result>>
  <2>1. PICK components, judged :
          /\ components = report /\ judged = DecisionOn(Rules(Facts(components))).result
          /\ judged = DecisionOn(Rules(Facts(components))).result'
    BY <1>1 DEF Rules, Facts, ChangeSet, PairsOf, Contexts, Before, After
  <2>2. \A c \in components : IsCosted(c) => IsCosted(c)'
    BY <1>1 DEF IsCosted, After
  <2> QED  BY <1>1, <2>1, <2>2 DEF Judged, Loads, Facts
<1>2. CASE report' = None
  BY <1>2 DEF Judged
<1>3. CASE Conclude /\ ~UNCHANGED <<report, result>>
  <2>1. PICK components, decision :
          /\ components = Components /\ decision = DecisionOn(Rules(Facts(components)))
          /\ Reconciles(components, decision)
          /\ report' = components /\ result' = decision.result
          /\ phase = "estimating" /\ UNCHANGED <<snapshots, settings>>
    BY <1>3 DEF Conclude, End
  <2>2. snapshots \in Snapshots /\ settings \in Settings /\ Loads(settings)
    BY <2>1 DEF RunInv, Configured, EstimateInv, KeepsPlan, Loaded
  <2>3. IsFiniteSet(components) /\ \A c \in components : IsCosted(c)
    <3>1. IsFiniteSet(estimated) /\ \A d \in estimated : FromPlan(d)
      BY <2>1 DEF Gathered
    <3> QED  BY <2>1, <2>2, <3>1, ComponentsAreCosted
  <2>4. \A c \in components : IsCosted(c)'
    BY <2>1, <2>3 DEF IsCosted, After
  <2>5. decision = DecisionOn(Rules(Facts(components)))'
    BY <2>1 DEF Rules, Facts, ChangeSet, PairsOf, Contexts, Before, After
  <2> QED  BY <2>1, <2>2, <2>3, <2>4, <2>5 DEF Judged, Loads, Reconciles
<1> QED  BY <1>1, <1>2, <1>3 DEF Next, AnalysisNext, Step, LoadConfig, ReadTemplates,
            BuildProvider, Refuse, End, LookUp, Provide, TakeAnswer, Crash, Outside, avars, vars, Conclude

LEMMA JudgedInvariant == Spec => []Judged
<1>1. Init => Judged
  BY DEF Init, AnalysisInit, NoRun, Judged
<1> QED  BY <1>1, RunInvariant, EstimateInvariant, GatheredInvariant, JudgedInductive, PTL DEF Spec

(* A dearer proposal is never judged more leniently, in a configuration    *)
(* whose policies negate nothing (predicates.py:86, domain/cost.py:342).   *)
THEOREM DearerIsJudgedHarder == Spec => []DearerNeverPassesEasier
<1>1. Judged => DearerNeverPassesEasier
  <2> SUFFICES ASSUME Judged, report # None, \A p \in settings.policies : Affirms(p.when),
                      NEW c \in KnownOf(report), NEW more \in {1, 10, 100}, DeltaOf(c) >= 0,
                      NEW dearer \in {(report \ {c}) \cup {[c EXCEPT !.proposed = @ + more]}}
               PROVE  Rank(DecisionOn(Rules(Facts(dearer))).result) >= Rank(result)
    BY DEF DearerNeverPassesEasier
  <2>1. PICK components : components = report
    OBVIOUS
  <2>2. /\ settings \in Settings /\ Loads(settings)
        /\ IsFiniteSet(components) /\ \A x \in components : IsCosted(x)
        /\ \A b, x \in components : b.resource = x.resource /\ b.dimension = x.dimension => b = x
        /\ result = DecisionOn(Rules(Facts(components))).result
    BY <2>1 DEF Judged
  <2>3. PICK d : d = [c EXCEPT !.proposed = @ + more]
    OBVIOUS
  <2>4. c \in components /\ IsCosted(c) /\ c.current \in Int /\ c.proposed \in Int
    BY <2>1, <2>2 DEF KnownOf, IsUnknown, IsCosted
  <2>5. /\ d.resource = c.resource /\ d.dimension = c.dimension /\ d.type = c.type
        /\ d.current = c.current /\ d.proposed = c.proposed + more /\ d.confidence = c.confidence
    BY <2>3, <2>4 DEF IsCosted
  <2>6. PICK i \in Int, j \in Int, k \in Int :
          i = c.current /\ j = c.proposed /\ k = d.proposed /\ k = j + more /\ j - i >= 0
    BY <2>4, <2>5 DEF DeltaOf
  <2>7. i <= j /\ j < k
    BY <2>6
  <2>8. d \notin components
    BY <2>2, <2>4, <2>5, <2>6, <2>7
  <2>9. \A x \in components \cup {d} :
          /\ x.current \in Int \cup {None} /\ x.proposed \in Int \cup {None}
          /\ x.confidence \in Levels
    BY <2>2, <2>4, <2>5, <2>6 DEF IsCosted
  <2>10. Raises(components, c, d)
    BY <2>2, <2>4, <2>5, <2>6, <2>7, <2>8, <2>9 DEF Raises
  <2>11. PICK one, two :
           /\ one = DecisionOn(Rules(Facts(components))).result
           /\ two = DecisionOn(Rules(Facts(Raised(components, c, d)))).result
    OBVIOUS
  <2>12. Rank(one) <= Rank(two)
    BY <2>2, <2>10, <2>11, RaisedIsJudgedHarder
  <2>13. Rank(one) \in Nat /\ Rank(two) \in Nat
    <3>1. one \in GateResults /\ two \in GateResults
      BY <2>2, <2>11, RulesActions, DecisionOnRules
    <3> QED  BY <3>1 DEF Rank, GateResults
  <2>14. Rank(two) >= Rank(one)
    BY <2>12, <2>13
  <2>15. dearer = Raised(components, c, d)
    BY <2>1, <2>3 DEF Raised
  <2> QED  BY <2>2, <2>11, <2>14, <2>15
<1> QED  BY <1>1, JudgedInvariant, PTL

-----------------------------------------------------------------------------
(* Advice.                                                                 *)

KnownProposals(components) == {c \in components : c.proposed # None}

(* The types that are advised on together.                                 *)
Shared == {"AWS::ElasticLoadBalancingV2::LoadBalancer", "AWS::EKS::Cluster"}

(* A piece of advice is about the cost G: that of one resource, or that of *)
(* resources of a type that is advised on together.                        *)
About(resources, components, a, G) ==
  /\ G \subseteq KnownProposals(components) /\ a.amount = Amount(G)
  /\ \/ /\ a.resource \in DOMAIN resources /\ resources[a.resource].type \notin Shared
        /\ \A c \in G : c.resource = a.resource
     \/ /\ a.resource = None
        /\ \A c \in G : c.resource \in DOMAIN resources /\ resources[c.resource].type \in Shared

Backed(resources, components, advice) ==
  /\ IsSequence(advice)
  /\ \A i \in DOMAIN advice : \E G : About(resources, components, advice[i], G)

LEMMA EachIsBacked ==
  ASSUME NEW resources, IsFiniteSet(DOMAIN resources), NEW components, NEW rule, NEW dimensions,
         NEW keys \in SUBSET DOMAIN resources, \A k \in keys : resources[k].type \notin Shared
  PROVE  Backed(resources, components, ForEach(rule, keys, components, dimensions))
<1> DEFINE order == SetToSeq(keys)
           advice == ForEach(rule, keys, components, dimensions)
<1>1. order \in Seq(keys)
  <2>1. IsFiniteSet(keys)
    BY FS_Subset
  <2> QED  BY <2>1, KeysInOrder
<1>2. advice = [i \in DOMAIN order |-> Advice(rule, order[i], CostOf(components, order[i], dimensions))]
  BY DEF ForEach
<1>3. PICK len \in Nat : DOMAIN order = 1 .. len /\ \A i \in 1 .. len : order[i] \in keys
  <2>1. Len(order) \in Nat /\ DOMAIN order = 1 .. Len(order)
        /\ \A i \in 1 .. Len(order) : order[i] \in keys
    <3> HIDE DEF order
    <3> QED  BY <1>1
  <2> QED  BY <2>1
<1> HIDE DEF order, advice
<1>4. IsSequence(advice)
  BY <1>2, <1>3 DEF IsSequence, ToSet
<1>5. ASSUME NEW i \in DOMAIN advice PROVE \E G : About(resources, components, advice[i], G)
  <2>1. PICK k \in keys : advice[i] = Advice(rule, k, CostOf(components, k, dimensions))
    BY <1>2, <1>3
  <2>2. /\ Costs(components, k, dimensions) \subseteq KnownProposals(components)
        /\ \A c \in Costs(components, k, dimensions) : c.resource = k
    BY DEF Costs, KnownProposals
  <2>3. advice[i].resource = k /\ advice[i].amount = Amount(Costs(components, k, dimensions))
    BY <2>1 DEF Advice, CostOf
  <2> QED  BY <2>2, <2>3 DEF About
<1> QED  BY <1>4, <1>5 DEF Backed, advice

LEMMA AllTogetherAreBacked ==
  ASSUME NEW resources, NEW components, NEW rule, NEW dimensions,
         NEW keys \in SUBSET DOMAIN resources, \A k \in keys : resources[k].type \in Shared
  PROVE  Backed(resources, components, ForAll(rule, keys, components, dimensions))
<1> DEFINE G == UNION {Costs(components, k, dimensions) : k \in keys}
           a == Advice(rule, None, Amount(G))
<1>1. ForAll(rule, keys, components, dimensions) \in {<<>>, <<a>>}
  BY DEF ForAll
<1>2. About(resources, components, a, G)
  <2>1. /\ G \subseteq KnownProposals(components)
        /\ \A c \in G : c.resource \in keys
    BY DEF Costs, KnownProposals
  <2>2. a.resource = None /\ a.amount = Amount(G)
    BY DEF Advice
  <2> HIDE DEF a, G
  <2> QED  BY <2>1, <2>2 DEF About
<1> HIDE DEF a, G
<1>3. Backed(resources, components, <<>>)
  BY ShortSequences DEF Backed
<1>4. Backed(resources, components, <<a>>)
  BY <1>2, ShortSequences DEF Backed
<1> QED  BY <1>1, <1>3, <1>4

LEMMA BackedJoin ==
  ASSUME NEW resources, NEW components, NEW s, NEW t,
         Backed(resources, components, s), Backed(resources, components, t)
  PROVE  Backed(resources, components, s \o t)
<1> DEFINE j == s \o t
<1>1. /\ IsSequence(j)
      /\ Len(s) \in Nat /\ Len(t) \in Nat /\ DOMAIN s = 1 .. Len(s) /\ DOMAIN t = 1 .. Len(t)
      /\ DOMAIN j = 1 .. Len(s) + Len(t)
      /\ \A i \in DOMAIN s : j[i] = s[i]
      /\ \A i \in DOMAIN t : j[Len(s) + i] = t[i]
  BY JoinedSequences DEF Backed
<1> HIDE DEF j
<1>2. ASSUME NEW i \in DOMAIN j, i \notin DOMAIN s
      PROVE  \E G : About(resources, components, j[i], G)
  <2>1. i - Len(s) \in DOMAIN t /\ i = Len(s) + (i - Len(s))
    BY <1>1, <1>2
  <2>2. j[i] = t[i - Len(s)]
    BY <1>1, <2>1
  <2> QED  BY <2>1, <2>2 DEF Backed
<1>3. \A i \in DOMAIN s : \E G : About(resources, components, j[i], G)
  BY <1>1 DEF Backed
<1> QED  BY <1>1, <1>2, <1>3 DEF Backed, j

LEMMA FindingsAreBacked ==
  ASSUME NEW resources, IsFiniteSet(DOMAIN resources), NEW components, NEW environment
  PROVE  Backed(resources, components, Findings(resources, components, environment))
<1> DEFINE each(rule, keys, dimensions) == ForEach(rule, keys, components, dimensions)
           volumes == {k \in OfType(resources, {"AWS::EC2::Volume"}) :
                        Declares(resources[k], "VolumeType", "gp2")}
           tables == {k \in OfType(resources, {"AWS::DynamoDB::Table"}) :
                       Declares(resources[k], "BillingMode", "PROVISIONED")}
           a1 == each("unbounded-log-retention", UnboundedLogs(resources), {})
           a2 == each("gp2-volume-type", volumes, {"Storage-GB-Month"})
           a3 == each("public-ipv4-address", OfType(resources, {"AWS::EC2::EIP"}), {"PublicIPv4-Hours"})
           a4 == each("nat-gateway-endpoints", OfType(resources, {"AWS::EC2::NatGateway"}),
                      {"NatGateway-Hours", "NatGateway-Bytes"})
           a5 == each("dynamodb-capacity-mode", tables,
                      {"ReadCapacityUnit-Hours", "WriteCapacityUnit-Hours"})
           a6 == ForAll("redundant-load-balancers",
                        OfType(resources, {"AWS::ElasticLoadBalancingV2::LoadBalancer"}), components,
                        {"LoadBalancer-Hours"})
           a7 == ForAll("eks-control-plane-count", OfType(resources, {"AWS::EKS::Cluster"}), components,
                        {"Cluster-Hours"})
           a8 == IF environment \in {None, "production"} THEN <<>>
                 ELSE each("always-on-non-production-compute",
                           OfType(resources, {"AWS::EC2::Instance", "AWS::RDS::DBInstance"}),
                           {"InstanceHours"})
           Good(s) == Backed(resources, components, s)
<1>1. Findings(resources, components, environment) = a1 \o a2 \o a3 \o a4 \o a5 \o a6 \o a7 \o a8
  BY DEF Findings
<1>2. ASSUME NEW rule, NEW dimensions,
             NEW types \in SUBSET {"AWS::Logs::LogGroup", "AWS::EC2::Volume", "AWS::EC2::EIP",
               "AWS::EC2::NatGateway", "AWS::DynamoDB::Table", "AWS::EC2::Instance", "AWS::RDS::DBInstance"},
             NEW keys \in SUBSET OfType(resources, types)
      PROVE  Good(each(rule, keys, dimensions))
  <2>1. keys \in SUBSET DOMAIN resources /\ \A k \in keys : resources[k].type \notin Shared
    BY DEF OfType, Shared
  <2> QED  BY <2>1, EachIsBacked
<1>3. ASSUME NEW rule, NEW dimensions, NEW types \in SUBSET Shared
      PROVE  Good(ForAll(rule, OfType(resources, types), components, dimensions))
  <2>1. /\ OfType(resources, types) \in SUBSET DOMAIN resources
        /\ \A k \in OfType(resources, types) : resources[k].type \in Shared
    BY DEF OfType
  <2> QED  BY <2>1, AllTogetherAreBacked
<1>4. Good(<<>>)
  BY ShortSequences DEF Backed
<1> HIDE DEF each, Good
<1>5. Good(a1) /\ Good(a2)
  BY <1>2 DEF UnboundedLogs
<1>6. Good(a3) /\ Good(a4) /\ Good(a5)
  BY <1>2
<1>7. Good(a6) /\ Good(a7)
  BY <1>3 DEF Shared
<1>8. Good(a8)
  BY <1>2, <1>4
<1>9. \A s, t : Good(s) /\ Good(t) => Good(s \o t)
  BY BackedJoin DEF Good
<1> HIDE DEF a1, a2, a3, a4, a5, a6, a7, a8
<1>10. Good(a1 \o a2 \o a3 \o a4)
  <2>1. Good(a1 \o a2)
    BY <1>5, <1>9
  <2>2. Good(a1 \o a2 \o a3)
    BY <1>6, <1>9, <2>1
  <2> QED  BY <1>6, <1>9, <2>2
<1>11. Good(a1 \o a2 \o a3 \o a4 \o a5 \o a6 \o a7 \o a8)
  <2>1. Good(a1 \o a2 \o a3 \o a4 \o a5)
    BY <1>6, <1>9, <1>10
  <2>2. Good(a1 \o a2 \o a3 \o a4 \o a5 \o a6)
    BY <1>7, <1>9, <2>1
  <2>3. Good(a1 \o a2 \o a3 \o a4 \o a5 \o a6 \o a7)
    BY <1>7, <1>9, <2>2
  <2> QED  BY <1>8, <1>9, <2>3
<1> QED  BY <1>1, <1>11 DEF Good

LEMMA AdviceIsBacked ==
  ASSUME NEW resources, IsFiniteSet(DOMAIN resources), NEW components, NEW environment
  PROVE  Backed(resources, components, Recommend(resources, components, environment))
<1> DEFINE found == Findings(resources, components, environment)
<1>1. Backed(resources, components, found)
  BY FindingsAreBacked
<1> HIDE DEF found
<1>2. IsSequence(found) /\ Len(found) \in Nat /\ DOMAIN found = 1 .. Len(found)
  BY <1>1 DEF Backed, IsSequence
<1>3. PICK n \in Nat : n = Min({Len(found), MaxRecommendations}) /\ n <= Len(found)
  <2>1. {Len(found), MaxRecommendations} \in SUBSET Nat
    BY <1>2 DEF MaxRecommendations
  <2> QED  BY <2>1, MinIsLeast
<1>4. PICK advice : advice = SubSeq(found, 1, n)
  OBVIOUS
<1>5. /\ advice \in Seq(ToSet(found)) /\ Len(advice) = n
      /\ \A i \in 1 .. n : advice[i] = found[i]
  <2>1. \A i \in 1 .. n : found[i] \in ToSet(found)
    BY <1>2, <1>3 DEF ToSet
  <2>2. PICK one \in Int, last \in Int : one = 1 /\ last = n
    OBVIOUS
  <2>3. /\ SubSeq(found, one, last) \in Seq(ToSet(found))
        /\ Len(SubSeq(found, one, last)) = IF one <= last THEN last - one + 1 ELSE 0
        /\ \A i \in 1 .. last - one + 1 : SubSeq(found, one, last)[i] = found[one + i - 1]
    <3>1. \A i \in one .. last : found[i] \in ToSet(found)
      BY <2>1, <2>2
    <3> QED  BY <3>1, SubSeqProperties
  <2> QED  BY <1>4, <2>2, <2>3
<1>6. DOMAIN advice = 1 .. n
  BY <1>5
<1>7. IsSequence(advice)
  <2>1. \A i \in 1 .. n : advice[i] \in ToSet(advice)
    BY <1>6 DEF ToSet
  <2>2. advice = [i \in 1 .. n |-> advice[i]]
    BY <1>5, <1>6
  <2> QED  BY <2>1, <2>2 DEF IsSequence
<1>8. \A i \in DOMAIN advice : \E G : About(resources, components, advice[i], G)
  <2> SUFFICES ASSUME NEW i \in DOMAIN advice
               PROVE  \E G : About(resources, components, advice[i], G)
    OBVIOUS
  <2>1. i \in DOMAIN found /\ advice[i] = found[i]
    <3>1. i \in 1 .. n
      BY <1>6
    <3>2. i \in 1 .. Len(found)
      BY <1>2, <1>3, <3>1
    <3> QED  BY <1>2, <1>5, <3>1, <3>2
  <2>2. \E G : About(resources, components, found[i], G)
    BY <1>1, <2>1 DEF Backed
  <2> QED  BY <2>1, <2>2
<1>9. Recommend(resources, components, environment) = advice
  BY <1>3, <1>4 DEF Recommend, found
<1> QED  BY <1>7, <1>8, <1>9 DEF Backed

(* Different advice that has an amount is about different costs, so that   *)
(* together they are part of what is proposed.                             *)
LEMMA AdviceAddsUp ==
  ASSUME NEW resources, NEW components, IsFiniteSet(components),
         \A c \in components : c.proposed \in Nat \cup {None},
         NEW advice, Backed(resources, components, advice), TotalAddressable(advice) # None
  PROVE  TotalAddressable(advice)
           <= SumFunction([c \in KnownProposals(components) |-> c.proposed])
<1> DEFINE sums == {i \in DOMAIN advice : advice[i].amount # None}
           known == KnownProposals(components)
           f == [c \in known |-> c.proposed]
           h == [i \in sums |-> advice[i].amount]
           group == [i \in sums |-> CHOOSE G : About(resources, components, advice[i], G)]
           S == UNION {group[i] : i \in sums}
<1>1. /\ \A i, j \in sums : advice[i].resource = advice[j].resource => i = j
      /\ TotalAddressable(advice) = SumFunctionOnSet(h, sums)
  BY DEF TotalAddressable, SumFunction
<1>2. IsFiniteSet(sums)
  <2>1. PICK len \in Nat : DOMAIN advice = 1 .. len
    BY DEF Backed, IsSequence
  <2>2. IsFiniteSet(1 .. len)
    BY FS_Interval
  <2> QED  BY <2>1, <2>2, FS_Subset
<1>3. IsFiniteSet(known) /\ \A c \in known : f[c] \in Nat
  BY FS_Subset DEF KnownProposals
<1>4. ASSUME NEW i \in sums PROVE About(resources, components, advice[i], group[i])
  <2>1. \E G : About(resources, components, advice[i], G)
    BY DEF Backed
  <2> QED  BY <2>1
<1> HIDE DEF group
<1>5. ASSUME NEW i \in sums PROVE group[i] \subseteq known /\ h[i] = SumFunctionOnSet(f, group[i])
  <2>1. PICK G : G = group[i] /\ G \subseteq known /\ advice[i].amount = Amount(G)
    BY <1>4 DEF About
  <2> DEFINE g == [c \in G |-> c.proposed]
  <2>2. Amount(G) = SumFunctionOnSet(g, G)
    BY <2>1 DEF Amount, SumFunction
  <2>3. IsFiniteSet(G) /\ \A c \in G : g[c] \in Int /\ g[c] = f[c]
    BY <1>3, <2>1, FS_Subset
  <2>4. SumFunctionOnSet(g, G) = SumFunctionOnSet(f, G)
    <3> HIDE DEF f, g
    <3> QED  BY <2>3, SumOfSame
  <2> QED  BY <2>1, <2>2, <2>4
<1>6. ASSUME NEW i \in sums, NEW j \in sums, NEW c \in S, c \in group[i], c \in group[j]
      PROVE  i = j
  <2>1. About(resources, components, advice[i], group[i])
        /\ About(resources, components, advice[j], group[j])
    BY <1>4
  <2>2. advice[i].resource = advice[j].resource
    BY <1>6, <2>1 DEF About
  <2> QED  BY <1>1, <2>2
<1>7. S \in SUBSET known /\ IsFiniteSet(S) /\ \A c \in S : f[c] \in Int
  <2>1. S \in SUBSET known
    BY <1>5
  <2> HIDE DEF S, f
  <2> QED  BY <1>3, <2>1, FS_Subset
<1>8. /\ \A i \in sums : group[i] \subseteq S
      /\ \A c \in S : \E i \in sums : c \in group[i]
  OBVIOUS
<1>9. \A i \in sums : h[i] = SumFunctionOnSet(f, group[i])
  BY <1>5
<1> HIDE DEF sums, known, f, h, S
<1>10. SumFunctionOnSet(f, S) = SumFunctionOnSet(h, sums)
  BY <1>2, <1>6, <1>7, <1>8, <1>9, SumByGroup
<1>11. SumFunctionOnSet(f, S) <= SumFunctionOnSet(f, known)
  <2>1. \A c \in known : f[c] \in Int
    BY <1>3
  <2>2. \A c \in known \ S : f[c] >= 0
    BY <1>3
  <2> QED  BY <1>3, <1>7, <2>1, <2>2, SumOfPartIsLess
<1> QED  BY <1>1, <1>10, <1>11 DEF SumFunction, f, known

(* What was published of an analysis in which nothing is negative proposes *)
(* no negative cost.                                                       *)
Proposes ==
  report # None =>
    /\ snapshots \in Snapshots
    /\ NothingNegative => \A c \in report : c.proposed \in Nat \cup {None}

LEMMA ProposesInductive ==
  ASSUME RunInv, EstimateInv, Loaded /\ Gathered, Proposes, [Next]_<<vars, question>>
  PROVE  Proposes'
<1>1. CASE UNCHANGED <<snapshots, report>>
  BY <1>1 DEF Proposes, NothingNegative
<1>2. CASE report' = None
  BY <1>2 DEF Proposes
<1>3. CASE Conclude /\ ~UNCHANGED report
  <2>1. PICK components :
          /\ components = Components /\ report' = components
          /\ phase = "estimating" /\ UNCHANGED snapshots
    BY <1>3 DEF Conclude, End
  <2>2. snapshots \in Snapshots /\ settings \in Settings /\ Loads(settings)
    BY <2>1 DEF RunInv, Configured, EstimateInv, KeepsPlan, Loaded
  <2>3. NothingNegative => \A c \in components : c.proposed \in Nat \cup {None}
    <3>1. IsFiniteSet(estimated) /\ \A d \in estimated : FromPlan(d)
      BY <2>1 DEF Gathered
    <3> QED  BY <2>1, <2>2, <3>1, ComponentsAreCosted
  <2> QED  BY <2>1, <2>2, <2>3 DEF Proposes, NothingNegative
<1> QED  BY <1>1, <1>2, <1>3 DEF Next, AnalysisNext, Step, LoadConfig, ReadTemplates,
            BuildProvider, Refuse, End, LookUp, Provide, TakeAnswer, Crash, Outside, avars, vars, Conclude

LEMMA ProposesInvariant == Spec => []Proposes
<1>1. Init => Proposes
  BY DEF Init, AnalysisInit, NoRun, Proposes
<1> QED  BY <1>1, RunInvariant, EstimateInvariant, GatheredInvariant, ProposesInductive, PTL DEF Spec

(* The advice never promises more than the change is known to cost, where  *)
(* no lifetime and no figure of a template is negative                     *)
(* (domain/recommendations.py:139).                                        *)
THEOREM AdviceIsReal == NothingNegative => (Spec => []AddressableIsReal)
<1> SUFFICES ASSUME NothingNegative PROVE Spec => []AddressableIsReal
  OBVIOUS
<1>1. Judged /\ Proposes => AddressableIsReal
  <2> SUFFICES ASSUME Judged, Proposes, report # None PROVE AddressableIsReal
    BY DEF AddressableIsReal
  <2>1. PICK resources, components : resources = After /\ components = report
    OBVIOUS
  <2>2. IsFiniteSet(components) /\ \A c \in components : c.proposed \in Nat \cup {None}
    BY <2>1 DEF Judged, Proposes
  <2>3. IsFiniteSet(DOMAIN resources)
    BY <2>1, AnalysisAssumption DEF Proposes, After
  <2>4. PICK environment : environment = IF "environment" \in DOMAIN Fallback
                                         THEN Fallback["environment"] ELSE None
    OBVIOUS
  <2>5. PICK advice : advice = Recommend(resources, components, environment)
    OBVIOUS
  <2>6. Backed(resources, components, advice)
    BY <2>3, <2>5, AdviceIsBacked
  <2>7. TotalAddressable(advice) # None =>
          TotalAddressable(advice) <= SumFunction([c \in KnownProposals(components) |-> c.proposed])
    BY <2>2, <2>6, AdviceAddsUp
  <2> QED  BY <2>1, <2>4, <2>5, <2>7 DEF AddressableIsReal, KnownProposals
<1> QED  BY <1>1, JudgedInvariant, ProposesInvariant, PTL
=============================================================================
