------------------------- MODULE ChangeReportProofs -------------------------
(***************************************************************************)
(* Theorems about ResourceMatching and ChangeReport, for every set of keys *)
(* and of bodies, every order of the keys, and every price and effect.     *)
(*                                                                         *)
(* The matching comes first. That it is one-to-one is inductive by itself; *)
(* that nothing is given up for something worse is not: the one that wins  *)
(* is known to be as good only because the candidates are taken best       *)
(* first, so the invariant also says that no candidate left is better than *)
(* a match. The change set and the cost report are then functions of a     *)
(* finished matching, and the totals of the report are those of the        *)
(* snapshots because a sum does not depend on how its terms are grouped.   *)
(***************************************************************************)
EXTENDS ChangeReport, SharedProofs, FunctionTheorems, TLAPS

-----------------------------------------------------------------------------
(* Counting.                                                               *)

LEMMA InjectiveImage ==
  ASSUME NEW S, IsFiniteSet(S), NEW f,
         \A x, y \in S : f[x] = f[y] => x = y
  PROVE  /\ IsFiniteSet({f[x] : x \in S})
         /\ Cardinality({f[x] : x \in S}) = Cardinality(S)
<1> DEFINE T == {f[x] : x \in S}
           g == [x \in S |-> f[x]]
<1>1. g \in [S -> T]  OBVIOUS
<1>2. \A a, b \in S : g[a] = g[b] => a = b  OBVIOUS
<1>3. \A t \in T : \E x \in S : g[x] = t  OBVIOUS
<1>4. g \in Injection(S, T) /\ g \in Surjection(S, T)
  BY <1>1, <1>2, <1>3, Fun_IsInj, Fun_IsSurj
<1>5. ExistsBijection(S, T)
  BY <1>4 DEF ExistsBijection, Bijection
<1> QED  BY <1>5, FS_Bijection

LEMMA AtMostOne ==
  ASSUME NEW S, \A x, y \in S : x = y
  PROVE  Cardinality(S) <= 1
<1>1. CASE S = {}
  BY <1>1, FS_EmptySet
<1>2. CASE S # {}
  <2>1. PICK x : S = {x}  BY <1>2
  <2> QED  BY <2>1, FS_Singleton
<1> QED  BY <1>1, <1>2

(* M counts the same as its image under f, which is one-to-one on it.      *)
LEMMA CountImage ==
  ASSUME NEW g, IsFiniteSet(g), NEW M, NEW f \in [M -> g],
         \A m, n \in M : f[m] = f[n] => m = n
  PROVE  /\ IsFiniteSet(M) /\ IsFiniteSet({f[m] : m \in M})
         /\ Cardinality(M) \in Nat /\ Cardinality({f[m] : m \in M}) = Cardinality(M)
<1>1. f \in Injection(M, g)  BY Fun_IsInj
<1>2. IsFiniteSet(M)  BY <1>1, FS_Injection
<1>3. IsFiniteSet({f[m] : m \in M}) /\ Cardinality({f[m] : m \in M}) = Cardinality(M)
  BY <1>2, InjectiveImage
<1> QED  BY <1>2, <1>3, FS_CardinalityType

(* Things of M and of K, each with a place of its own in g: if the places  *)
(* of K are those of the part C of M, and those that nothing of M has,     *)
(* then what is in M but not in C and what is in K count the same as g.    *)
LEMMA CountPlaces ==
  ASSUME NEW g, IsFiniteSet(g), NEW M, NEW C \in SUBSET M, NEW K,
         NEW f \in [M -> g], \A m, n \in M : f[m] = f[n] => m = n,
         NEW h \in [K -> g], \A c, d \in K : h[c] = h[d] => c = d,
         {h[c] : c \in K} = {f[m] : m \in C} \cup (g \ {f[m] : m \in M})
  PROVE  /\ IsFiniteSet(M) /\ Cardinality(M) \in Nat /\ Cardinality(C) \in Nat
         /\ (Cardinality(M) - Cardinality(C)) + Cardinality(K) = Cardinality(g)
<1> DEFINE FM == {f[m] : m \in M}
           FC == {f[m] : m \in C}
           HK == {h[c] : c \in K}
<1>1. /\ IsFiniteSet(M) /\ IsFiniteSet(FM)
      /\ Cardinality(M) \in Nat /\ Cardinality(FM) = Cardinality(M)
  BY CountImage
<1>2. /\ IsFiniteSet(FC)
      /\ Cardinality(C) \in Nat /\ Cardinality(FC) = Cardinality(C)
  <2> DEFINE e == [m \in C |-> f[m]]
  <2>1. e \in [C -> g] /\ \A m, n \in C : e[m] = e[n] => m = n
    OBVIOUS
  <2>2. FC = {e[m] : m \in C}  OBVIOUS
  <2> HIDE DEF e
  <2>3. /\ IsFiniteSet(C) /\ IsFiniteSet({e[m] : m \in C})
        /\ Cardinality(C) \in Nat /\ Cardinality({e[m] : m \in C}) = Cardinality(C)
    BY <2>1, CountImage
  <2> QED  BY <2>2, <2>3
<1>3. /\ IsFiniteSet(K) /\ IsFiniteSet(HK)
      /\ Cardinality(K) \in Nat /\ Cardinality(HK) = Cardinality(K)
  BY CountImage
<1>4. FM \subseteq g /\ FC \subseteq FM /\ HK = FC \cup (g \ FM)
  OBVIOUS
<1> HIDE DEF FM, FC, HK
<1>5. IsFiniteSet(g \ FM) /\ Cardinality(g \ FM) = Cardinality(g) - Cardinality(FM)
  <2>1. g \cap FM = FM  BY <1>4
  <2>2. IsFiniteSet(g \ FM) /\ Cardinality(g \ FM) = Cardinality(g) - Cardinality(g \cap FM)
    BY FS_Difference
  <2> QED  BY <2>1, <2>2
<1>6. Cardinality(HK) = Cardinality(FC) + Cardinality(g \ FM)
  <2>1. FC \cap (g \ FM) = {}  BY <1>4
  <2>2. Cardinality(FC \cap (g \ FM)) = 0  BY <2>1, FS_EmptySet
  <2>3. Cardinality(FC) \in Nat /\ Cardinality(g \ FM) \in Nat
    BY <1>2, <1>5, FS_CardinalityType
  <2>4. Cardinality(FC \cup (g \ FM))
          = Cardinality(FC) + Cardinality(g \ FM) - Cardinality(FC \cap (g \ FM))
    BY <1>2, <1>5, FS_Union
  <2> QED  BY <1>4, <2>2, <2>3, <2>4
<1>7. Cardinality(g) \in Nat  BY FS_CardinalityType
<1> QED  BY <1>1, <1>2, <1>3, <1>5, <1>6, <1>7

-----------------------------------------------------------------------------
(* Snapshots and candidates.                                               *)

(* A resource of a snapshot has a key and a body, and no other resource of *)
(* the snapshot has its key.                                               *)
LEMMA GraphResources ==
  ASSUME NEW g \in Graphs
  PROVE  /\ \A r \in g : \E k \in Key, b \in Body : r = Resource(k, b)
         /\ \A r, s \in g : r.key = s.key => r = s
<1>1. PICK ks \in SUBSET Key :
        \E f \in [ks -> Body] : g = {Resource(k, f[k]) : k \in ks}
  BY DEF Graphs
<1>2. PICK f \in [ks -> Body] : g = {Resource(k, f[k]) : k \in ks}
  BY <1>1
<1>3. \A k \in ks : f[k] \in Body /\ Resource(k, f[k]).key = k
  BY <1>2 DEF Resource
<1> QED  BY <1>2, <1>3

LEMMA ResourceParts ==
  ASSUME NEW g \in Graphs, NEW r \in g
  PROVE  /\ r.key \in Key
         /\ [type |-> r.type, path |-> r.path, state |-> r.state] \in Body
         /\ r # None
<1>1. PICK k \in Key, b \in Body : r = Resource(k, b)
  BY GraphResources
<1> QED  BY <1>1, BodyAssumption, NoneIsNoResource DEF Resource

(* A candidate pairs a resource of the baseline with one of the proposal   *)
(* of the same stack and type, and its tier has a score.                   *)
LEMMA CandidateParts ==
  ASSUME NEW c \in Candidates(baseline, proposed)
  PROVE  /\ c.before \in baseline /\ c.after \in proposed /\ c.method \in Methods
         /\ c = [before |-> c.before, after |-> c.after, method |-> c.method]
         /\ Pairable(c.before, c.after)
         /\ Plausible(c.before, c.after, c.method)
         /\ Score(c.method) \in Nat
<1>1. c \in [before : baseline, after : proposed, method : Methods]
  BY DEF Candidates
<1>2. \A m \in Methods : Score(m) \in Nat
  BY DEF Methods, Score
<1> QED  BY <1>1, <1>2 DEF Candidates

(* Where both snapshots are the same, a candidate that pairs two different *)
(* resources is preceded by the one that pairs one of them with itself.    *)
LEMMA ItselfComesFirst ==
  ASSUME baseline \in Graphs, proposed = baseline,
         NEW c \in Candidates(baseline, proposed), c.before # c.after
  PROVE  \E d \in Candidates(baseline, proposed) :
           /\ d # c /\ d.before = d.after
           /\ d.before = c.before \/ d.before = c.after
           /\ ~Precedes(c, d)
<1> DEFINE b == c.before
           a == c.after
           Self(r) == [before |-> r, after |-> r, method |-> c.method]
<1>1. /\ b \in baseline /\ a \in baseline /\ c.method \in Methods
      /\ Pairable(b, a) /\ Plausible(b, a, c.method)
  BY CandidateParts
<1>2. Order[b.key] \in Nat /\ Order[a.key] \in Nat
  BY <1>1, ResourceParts, KeyAssumption
<1>3. Order[b.key] # Order[a.key]
  BY <1>1, ResourceParts, KeyAssumption, GraphResources
<1>4. Self(b) \in Candidates(baseline, proposed) /\ Self(a) \in Candidates(baseline, proposed)
  <2>1. Plausible(b, b, c.method) /\ Plausible(a, a, c.method)
    BY <1>1 DEF Plausible, Methods
  <2>2. Pairable(b, b) /\ Pairable(a, a)
    BY DEF Pairable
  <2> QED  BY <1>1, <2>1, <2>2 DEF Candidates
<1>5. CASE Order[a.key] < Order[b.key]
  <2>1. ~Precedes(c, Self(a))
    BY <1>2, <1>5 DEF Precedes
  <2> QED  BY <1>4, <2>1
<1>6. CASE Order[b.key] < Order[a.key]
  <2>1. ~Precedes(c, Self(b))
    BY <1>2, <1>6 DEF Precedes
  <2> QED  BY <1>4, <2>1
<1> QED  BY <1>2, <1>3, <1>5, <1>6

-----------------------------------------------------------------------------
(* The matching.                                                           *)

(* No candidate left is of a better tier than a match.                     *)
BestFirst == \A m \in matches, c \in left : Score(m.method) >= Score(c.method)

(* A snapshot compared with itself: each match pairs a resource with       *)
(* itself, whichever others share its construct path or base name.         *)
SelfMatched == baseline = proposed => \A m \in matches : m.before = m.after

MatchInv ==
  /\ baseline \in Graphs /\ proposed \in Graphs
  /\ left \cup matches \subseteq Candidates(baseline, proposed)
  /\ left \cap matches = {}
  /\ OneToOne
  /\ GivenUpForBetter
  /\ BestFirst
  /\ SelfMatched

LEMMA InitMatchInv == Init => MatchInv
BY DEF Init, MatchInit, MatchInv, OneToOne, GivenUpForBetter, BestFirst, SelfMatched

LEMMA AssignMatchInv ==
  ASSUME MatchInv, Assign
  PROVE  MatchInv'
<1> USE DEF MatchInv
<1>1. PICK c \in left :
        /\ \A d \in left \ {c} : Precedes(c, d)
        /\ left' = left \ {c}
        /\ matches' = IF \E d \in matches : Competes(c, d) THEN matches ELSE matches \cup {c}
        /\ UNCHANGED <<baseline, proposed>>
  BY DEF Assign
<1>2. c \in Candidates(baseline, proposed) /\ matches' \subseteq matches \cup {c}
  BY <1>1
<1>3. Candidates(baseline, proposed)' = Candidates(baseline, proposed)
  BY <1>1
<1>4. /\ (left \cup matches \subseteq Candidates(baseline, proposed))'
      /\ (left \cap matches = {})'
  BY <1>1, <1>2, <1>3
<1>5. OneToOne'
  <2>1. CASE matches' = matches
    BY <2>1 DEF OneToOne
  <2>2. CASE matches' = matches \cup {c} /\ \A d \in matches : ~Competes(c, d)
    BY <2>2 DEF OneToOne, Competes
  <2> QED  BY <1>1, <2>1, <2>2
<1>6. GivenUpForBetter'
  <2> SUFFICES ASSUME NEW e \in Candidates(baseline, proposed) \ left'
               PROVE  \E m \in matches' : Competes(e, m) /\ Score(m.method) >= Score(e.method)
    BY <1>1 DEF GivenUpForBetter
  <2>1. CASE e \notin left
    <3>1. PICK m \in matches : Competes(e, m) /\ Score(m.method) >= Score(e.method)
      BY <2>1 DEF GivenUpForBetter
    <3> QED  BY <1>1, <3>1
  <2>2. CASE e = c /\ \E d \in matches : Competes(c, d)
    <3>1. PICK d \in matches : Competes(c, d)  BY <2>2
    <3> QED  BY <1>1, <2>2, <3>1 DEF BestFirst
  <2>3. CASE e = c /\ c \in matches'
    BY <1>2, <2>3, CandidateParts DEF Competes
  <2> QED  BY <1>1, <2>1, <2>2, <2>3
<1>7. BestFirst'
  <2> SUFFICES ASSUME NEW m \in matches', NEW d \in left'
               PROVE  Score(m.method) >= Score(d.method)
    BY DEF BestFirst
  <2>1. CASE m \in matches
    BY <1>1, <2>1 DEF BestFirst
  <2>2. CASE m = c
    <3>1. Score(c.method) \in Nat /\ Score(d.method) \in Nat
      BY <1>1, <1>2, CandidateParts
    <3>2. Precedes(c, d)  BY <1>1
    <3> QED  BY <2>2, <3>1, <3>2 DEF Precedes
  <2> QED  BY <1>2, <2>1, <2>2
<1>8. SelfMatched'
  <2> SUFFICES ASSUME baseline = proposed, c \in matches', c.before # c.after
               PROVE  c \in matches
    BY <1>1, <1>2 DEF SelfMatched
  <2>1. PICK d \in Candidates(baseline, proposed) :
          /\ d # c /\ d.before = d.after
          /\ d.before = c.before \/ d.before = c.after
          /\ ~Precedes(c, d)
    BY <1>2, ItselfComesFirst
  <2>2. d \notin left  BY <1>1, <2>1
  <2>3. PICK m \in matches : Competes(d, m)
    BY <2>1, <2>2 DEF GivenUpForBetter
  <2>4. m.before = m.after  BY DEF SelfMatched
  <2>5. Competes(c, m)  BY <2>1, <2>3, <2>4 DEF Competes
  <2> QED  BY <1>1, <2>5
<1> QED  BY <1>1, <1>4, <1>5, <1>6, <1>7, <1>8

LEMMA NextMatchInv == MatchInv /\ [Next]_vars => MatchInv'
<1> SUFFICES ASSUME MatchInv, [Next]_vars PROVE MatchInv'
  OBVIOUS
<1>1. CASE Assign
  BY <1>1, AssignMatchInv
<1>2. CASE UNCHANGED mvars
  BY <1>2 DEF mvars, MatchInv, OneToOne, GivenUpForBetter, BestFirst, SelfMatched
<1> QED  BY <1>1, <1>2 DEF Next, vars, Match, Compare, EstimateGraphs, Reconcile

(* The matching is one-to-one, however many resources share a construct    *)
(* path, a logical ID or a base name.                                      *)
THEOREM MatchingIsOneToOne == Spec => []OneToOne
<1>1. MatchInv => OneToOne  BY DEF MatchInv
<1> QED  BY <1>1, InitMatchInv, NextMatchInv, PTL DEF Spec

(* A plausible pairing is given up only for one of its own tier or of a    *)
(* better one that involves one of its two resources.                      *)
THEOREM NothingGivenUpForWorse == Spec => []GivenUpForBetter
<1>1. MatchInv => GivenUpForBetter  BY DEF MatchInv
<1> QED  BY <1>1, InitMatchInv, NextMatchInv, PTL DEF Spec

-----------------------------------------------------------------------------
(* The change set and the cost report: what they are once the matching is  *)
(* complete, and for how long.                                             *)

ComparedInv ==
  /\ phase \in {"matching", "compared", "estimated", "reported", "failed"}
  /\ phase # "matching" => left = {} /\ changes = ChangedPairs(matches) \cup Unpaired
  /\ phase = "matching" => changes = {}
  /\ phase \in {"matching", "compared"} => components = [i \in {} |-> None]
  /\ phase \in {"estimated", "reported", "failed"} => components = Components
  /\ phase = "failed" => ~Reconciles

IInv == MatchInv /\ ComparedInv

LEMMA InitIInv == Init => IInv
BY InitMatchInv DEF Init, MatchInit, IInv, ComparedInv

LEMMA NextIInv == IInv /\ [Next]_vars => IInv'
<1> SUFFICES ASSUME IInv, [Next]_vars PROVE ComparedInv'
  BY NextMatchInv DEF IInv
<1> USE DEF IInv, ComparedInv
<1>1. CASE Match
  BY <1>1 DEF Match
<1>2. CASE UNCHANGED mvars /\ (Compare \/ EstimateGraphs \/ Reconcile \/ UNCHANGED vars)
  <2>1. /\ Unpaired' = Unpaired /\ ChangedPairs(matches)' = ChangedPairs(matches)
        /\ Components' = Components
    BY <1>2 DEF mvars, Unpaired, Removed, Added, ChangedPairs, Components, Pairings
  <2>2. UNCHANGED components => (Reconciles' <=> Reconciles)
    BY DEF Reconciles
  <2>3. CASE Compare
    BY <2>1, <2>3 DEF Compare, mvars
  <2>4. CASE EstimateGraphs
    BY <1>2, <2>1, <2>4 DEF EstimateGraphs, mvars
  <2>5. CASE Reconcile
    BY <1>2, <2>1, <2>2, <2>5 DEF Reconcile, mvars
  <2>6. CASE UNCHANGED vars
    BY <2>1, <2>2, <2>6 DEF vars, mvars
  <2> QED  BY <1>2, <2>3, <2>4, <2>5, <2>6
<1> QED  BY <1>1, <1>2 DEF Next, vars, Compare, EstimateGraphs, Reconcile

LEMMA Invariant == Spec => []IInv
BY InitIInv, NextIInv, PTL DEF Spec

-----------------------------------------------------------------------------
(* What a change says.                                                     *)

(* A match differs or was renamed, and then it is a change of its two      *)
(* resources; a resource without a match is a change with one side.        *)
LEMMA ChangeParts ==
  ASSUME IInv, phase # "matching", NEW c \in changes
  PROVE  \/ \E m \in matches : /\ Differs(m) \/ Renamed(m)
                               /\ c = [key |-> m.after.key, operation |-> Operation(m),
                                        before |-> m.before, after |-> m.after]
         \/ c.before \in Removed /\ c = [key |-> c.before.key, operation |-> "REMOVE",
                                         before |-> c.before, after |-> None]
         \/ c.after \in Added /\ c = [key |-> c.after.key, operation |-> "ADD",
                                       before |-> None, after |-> c.after]
<1>1. c \in ChangedPairs(matches) \/ c \in Unpaired
  BY DEF IInv, ComparedInv
<1>2. CASE c \in ChangedPairs(matches)
  BY <1>2 DEF ChangedPairs
<1>3. CASE c \in Unpaired
  BY <1>3 DEF Unpaired
<1> QED  BY <1>1, <1>2, <1>3

(* The resources of the two snapshots, and of the matches.                 *)
LEMMA MatchParts ==
  ASSUME IInv
  PROVE  /\ \A r \in baseline \cup proposed :
              /\ r # None /\ r.key \in Key
              /\ [type |-> r.type, path |-> r.path, state |-> r.state] \in Body
         /\ \A r, s \in baseline : r.key = s.key => r = s
         /\ \A r, s \in proposed : r.key = s.key => r = s
         /\ \A m \in matches : /\ m.before \in baseline /\ m.after \in proposed
                               /\ Pairable(m.before, m.after)
         /\ \A m, n \in matches : m.before = n.before \/ m.after = n.after => m = n
         /\ Removed \subseteq baseline /\ Added \subseteq proposed
         /\ \A m \in matches : m.before \notin Removed /\ m.after \notin Added
<1>1. baseline \in Graphs /\ proposed \in Graphs
  BY DEF IInv, MatchInv
<1>2. \A m \in matches : /\ m.before \in baseline /\ m.after \in proposed
                         /\ Pairable(m.before, m.after)
  BY CandidateParts DEF IInv, MatchInv
<1>3. \A m, n \in matches : m.before = n.before \/ m.after = n.after => m = n
  BY DEF IInv, MatchInv, OneToOne, Competes
<1>4. /\ Removed \subseteq baseline /\ Added \subseteq proposed
      /\ \A m \in matches : m.before \notin Removed /\ m.after \notin Added
  BY DEF Removed, Added
<1>5. \A r \in baseline \cup proposed :
        /\ r # None /\ r.key \in Key
        /\ [type |-> r.type, path |-> r.path, state |-> r.state] \in Body
  BY <1>1, ResourceParts
<1>6. /\ \A r, s \in baseline : r.key = s.key => r = s
      /\ \A r, s \in proposed : r.key = s.key => r = s
  BY <1>1, GraphResources
<1> QED  BY <1>2, <1>3, <1>4, <1>5, <1>6

(* What a match does to a resource is one of the operations declared.      *)
LEMMA OperationTyped ==
  ASSUME IInv, NEW m \in matches
  PROVE  Operation(m) \in {"NO_COST_CHANGE", "MODIFY", "REPLACE"}
<1> DEFINE b == [type |-> m.before.type, path |-> m.before.path, state |-> m.before.state]
           a == [type |-> m.after.type, path |-> m.after.path, state |-> m.after.state]
<1>1. a \in Body /\ b \in Body /\ b.type = a.type
  BY MatchParts DEF Pairable
<1>2. Differs(m) => Effect[<<m.after.type, m.before.state, m.after.state>>]
                      \in {"NO_COST_CHANGE", "MODIFY", "REPLACE"}
  BY <1>1, EffectAssumption DEF Differs
<1> QED  BY <1>2 DEF Operation

(* Every variable holds what its declaration says, in every behaviour.     *)
THEOREM TypeCorrect == Spec => []TypeOK
<1>1. ASSUME IInv PROVE TypeOK
  <2>1. \A c \in changes : c.operation \in {"ADD", "REMOVE", "MODIFY", "REPLACE", "NO_COST_CHANGE"}
    <3> SUFFICES ASSUME NEW c \in changes
                 PROVE  c.operation \in {"ADD", "REMOVE", "MODIFY", "REPLACE", "NO_COST_CHANGE"}
      OBVIOUS
    <3>1. phase # "matching"  BY <1>1 DEF IInv, ComparedInv
    <3> QED  BY <1>1, <3>1, ChangeParts, OperationTyped
  <2>2. \A i \in DOMAIN components : components[i].unknown \in BOOLEAN
    <3>1. components = Components \/ DOMAIN components = {}
      BY <1>1 DEF IInv, ComparedInv
    <3>2. \A p, d : Component(p, d).unknown \in BOOLEAN
      BY DEF Component
    <3>3. \A i \in DOMAIN Components : Components[i] = Component(i[1], i[2])
      BY Zenon DEF Components
    <3> QED  BY <3>1, <3>2, <3>3
  <2> QED  BY <1>1, <2>1, <2>2, MatchParts DEF TypeOK, IInv, MatchInv, ComparedInv
<1>2. IInv => TypeOK  BY <1>1
<1> QED  BY <1>2, Invariant, PTL

-----------------------------------------------------------------------------
(* The change set.                                                         *)

(* A snapshot compared with itself: each resource has itself as a          *)
(* candidate, which is only given up for a match that involves it, and     *)
(* such a match pairs it with itself.                                      *)
LEMMA SameMeansNoChange ==
  ASSUME IInv, left = {}, baseline = proposed
  PROVE  ChangedPairs(matches) = {} /\ Unpaired = {}
<1>1. \A m \in matches : m.before = m.after
  BY DEF IInv, MatchInv, SelfMatched
<1>2. ChangedPairs(matches) = {}
  BY <1>1 DEF ChangedPairs, Differs, Renamed
<1>3. ASSUME NEW r \in baseline
      PROVE  \E m \in matches : m.before = r /\ m.after = r
  <2> DEFINE c == [before |-> r, after |-> r, method |-> "LOGICAL_ID"]
  <2>1. c \in Candidates(baseline, proposed)
    BY <1>3 DEF Candidates, Methods, Pairable, Plausible
  <2>2. PICK m \in matches : Competes(c, m)
    BY <2>1 DEF IInv, MatchInv, GivenUpForBetter
  <2> QED  BY <1>1, <2>2 DEF Competes
<1>4. Removed = {} /\ Added = {}
  BY <1>3 DEF Removed, Added
<1> QED  BY <1>2, <1>4 DEF Unpaired

(* Without a change every resource has a match of its own type, state and  *)
(* key in the other snapshot.                                              *)
LEMMA NoChangeMeansPaired ==
  ASSUME IInv, ChangedPairs(matches) = {}, Unpaired = {}
  PROVE  Deployed(baseline) = Deployed(proposed)
<1> DEFINE Shown(r) == <<r.key, r.type, r.state>>
<1>1. ASSUME NEW m \in matches  PROVE Shown(m.before) = Shown(m.after)
  <2>1. ~Differs(m) /\ ~Renamed(m)  BY DEF ChangedPairs
  <2>2. /\ m.before.key \in Key /\ m.after.key \in Key
        /\ Pairable(m.before, m.after)
    BY MatchParts
  <2>3. m.before.key = m.after.key
    BY <2>1, <2>2, KeyAssumption DEF Renamed, Pairable
  <2> QED  BY <2>1, <2>2, <2>3 DEF Differs, Pairable
<1>2. Removed = {} /\ Added = {}  BY DEF Unpaired
<1>3. /\ \A r \in baseline : \E m \in matches : m.before = r
      /\ \A r \in proposed : \E m \in matches : m.after = r
  BY <1>2 DEF Removed, Added
<1>4. \A m \in matches : m.before \in baseline /\ m.after \in proposed
  BY MatchParts
<1>5. Deployed(baseline) \subseteq Deployed(proposed)
  <2> SUFFICES ASSUME NEW r \in baseline
               PROVE  \E q \in proposed : Shown(q) = Shown(r)
    BY DEF Deployed
  <2> QED  BY <1>1, <1>3, <1>4
<1>6. Deployed(proposed) \subseteq Deployed(baseline)
  <2> SUFFICES ASSUME NEW r \in proposed
               PROVE  \E q \in baseline : Shown(q) = Shown(r)
    BY DEF Deployed
  <2> QED  BY <1>1, <1>3, <1>4
<1> QED  BY <1>5, <1>6

(* A snapshot compared with itself shows no change, and no change is shown *)
(* only where the same keys hold the same types in the same states.        *)
THEOREM NoChangeShownIsNoChange == Spec => []NoChangeMeansSame
<1>1. ASSUME IInv, phase = "compared"
      PROVE  /\ baseline = proposed => changes = {}
             /\ changes = {} => Deployed(baseline) = Deployed(proposed)
  <2>1. left = {} /\ changes = ChangedPairs(matches) \cup Unpaired
    BY <1>1 DEF IInv, ComparedInv
  <2> QED  BY <1>1, <2>1, SameMeansNoChange, NoChangeMeansPaired
<1>2. IInv => NoChangeMeansSame  BY <1>1 DEF NoChangeMeansSame
<1> QED  BY <1>2, Invariant, PTL

(* The two sides of the change set: a change with a baseline resource is a *)
(* changed pair or a removal, one with a proposed resource a changed pair  *)
(* or an addition, and each resource is in at most one.                    *)
LEMMA SidesOfChanges ==
  ASSUME IInv, phase = "compared"
  PROVE  /\ \A c, d \in changes : (c.before = d.before /\ c.before # None) => c = d
         /\ \A c, d \in changes : (c.after = d.after /\ c.after # None) => c = d
         /\ {c.before : c \in {d \in changes : d.before # None}}
              = {m.before : m \in {n \in matches : Differs(n) \/ Renamed(n)}} \cup Removed
         /\ {c.after : c \in {d \in changes : d.after # None}}
              = {m.after : m \in {n \in matches : Differs(n) \/ Renamed(n)}} \cup Added
<1> DEFINE Pair(m) == [key |-> m.after.key, operation |-> Operation(m),
                       before |-> m.before, after |-> m.after]
           Drop(r) == [key |-> r.key, operation |-> "REMOVE", before |-> r, after |-> None]
           Gain(r) == [key |-> r.key, operation |-> "ADD", before |-> None, after |-> r]
           Changed == {n \in matches : Differs(n) \/ Renamed(n)}
<1>1. changes = {Pair(m) : m \in Changed} \cup {Drop(r) : r \in Removed}
                                        \cup {Gain(r) : r \in Added}
  BY DEF IInv, ComparedInv, ChangedPairs, Unpaired
<1>2. /\ \A m \in Changed : m.before # None /\ m.after # None
      /\ \A r \in Removed : r # None
      /\ \A r \in Added : r # None
      /\ \A m, n \in matches : m.before = n.before \/ m.after = n.after => m = n
      /\ \A m \in matches : m.before \notin Removed /\ m.after \notin Added
  BY MatchParts
<1>3. /\ Changed \subseteq matches
      /\ \A m : Pair(m).before = m.before /\ Pair(m).after = m.after
      /\ \A r : Drop(r).before = r /\ Drop(r).after = None
      /\ \A r : Gain(r).before = None /\ Gain(r).after = r
  OBVIOUS
<1> HIDE DEF Changed, Pair, Drop, Gain
<1>4. \A c \in changes : \/ \E m \in Changed : c = Pair(m)
                         \/ \E r \in Removed : c = Drop(r)
                         \/ \E r \in Added : c = Gain(r)
  BY <1>1
<1>5. \A c, d \in changes : (c.before = d.before /\ c.before # None) => c = d
  BY <1>2, <1>3, <1>4
<1>6. \A c, d \in changes : (c.after = d.after /\ c.after # None) => c = d
  BY <1>2, <1>3, <1>4
<1>7. {c.before : c \in {d \in changes : d.before # None}} = {m.before : m \in Changed} \cup Removed
  BY <1>1, <1>2, <1>3
<1>8. {c.after : c \in {d \in changes : d.after # None}} = {m.after : m \in Changed} \cup Added
  BY <1>1, <1>2, <1>3
<1> QED  BY <1>5, <1>6, <1>7, <1>8 DEF Changed

LEMMA GraphsAreFinite ==
  ASSUME NEW g \in Graphs
  PROVE  IsFiniteSet(g)
<1>1. PICK ks \in SUBSET Key :
        \E f \in [ks -> Body] : g = {Resource(k, f[k]) : k \in ks}
  BY DEF Graphs
<1>2. PICK f \in [ks -> Body] : g = {Resource(k, f[k]) : k \in ks}
  BY <1>1
<1>3. IsFiniteSet(ks)  BY KeyAssumption, FS_Subset
<1> DEFINE r == [k \in ks |-> Resource(k, f[k])]
<1>4. g = {r[k] : k \in ks}  BY <1>2
<1> HIDE DEF r
<1> QED  BY <1>3, <1>4, FiniteImage

(* Every resource of either snapshot is reported exactly once, as          *)
(* unchanged or in one change, and the counts of the summary add up.       *)
THEOREM EveryResourceIsReportedOnce == Spec => []EveryResourceOnce
<1>1. ASSUME IInv, phase = "compared"
      PROVE  /\ \A r \in baseline : Cardinality({c \in changes : c.before = r}) <= 1
             /\ \A r \in proposed : Cardinality({c \in changes : c.after = r}) <= 1
             /\ Unchanged + Cardinality({c \in changes : c.before # None}) = Cardinality(baseline)
             /\ Unchanged + Cardinality({c \in changes : c.after # None}) = Cardinality(proposed)
  <2> DEFINE Changed == {n \in matches : Differs(n) \/ Renamed(n)}
             Pair(m) == [key |-> m.after.key, operation |-> Operation(m),
                         before |-> m.before, after |-> m.after]
             Before == {c \in changes : c.before # None}
             After == {c \in changes : c.after # None}
  <2>1. ASSUME NEW r \in baseline
        PROVE  Cardinality({c \in changes : c.before = r}) <= 1
    <3>1. r # None  BY <1>1, MatchParts
    <3>2. \A c, d \in {e \in changes : e.before = r} : c = d
      BY <1>1, <3>1, SidesOfChanges
    <3> QED  BY <3>2, AtMostOne
  <2>2. ASSUME NEW r \in proposed
        PROVE  Cardinality({c \in changes : c.after = r}) <= 1
    <3>1. r # None  BY <1>1, MatchParts
    <3>2. \A c, d \in {e \in changes : e.after = r} : c = d
      BY <1>1, <3>1, SidesOfChanges
    <3> QED  BY <3>2, AtMostOne
  <2>3. IsFiniteSet(baseline) /\ IsFiniteSet(proposed)
    BY <1>1, GraphsAreFinite DEF IInv, MatchInv
  <2>4. /\ \A m \in matches : m.before \in baseline /\ m.after \in proposed
        /\ \A m, n \in matches : m.before = n.before \/ m.after = n.after => m = n
    BY <1>1, MatchParts
  <2>5. /\ \A c, d \in Before : c.before = d.before => c = d
        /\ \A c, d \in After : c.after = d.after => c = d
        /\ {c.before : c \in Before}
             = {m.before : m \in Changed} \cup (baseline \ {m.before : m \in matches})
        /\ {c.after : c \in After}
             = {m.after : m \in Changed} \cup (proposed \ {m.after : m \in matches})
    BY <1>1, SidesOfChanges DEF Removed, Added
  <2>6. Changed \subseteq matches  OBVIOUS
  <2>7. ChangedPairs(matches) = {Pair(m) : m \in Changed}
    BY DEF ChangedPairs
  <2>8. \A m : Pair(m).before = m.before
    OBVIOUS
  <2> HIDE DEF Changed, Pair, Before, After
  <2>9. /\ IsFiniteSet(matches) /\ Cardinality(matches) \in Nat /\ Cardinality(Changed) \in Nat
        /\ (Cardinality(matches) - Cardinality(Changed)) + Cardinality(Before) = Cardinality(baseline)
    <3> DEFINE f == [m \in matches |-> m.before]
               h == [c \in Before |-> c.before]
    <3>1. f \in [matches -> baseline] /\ \A m, n \in matches : f[m] = f[n] => m = n
      BY <2>4
    <3>2. {h[c] : c \in Before} = {f[m] : m \in Changed} \cup (baseline \ {f[m] : m \in matches})
      <4>1. /\ {h[c] : c \in Before} = {c.before : c \in Before}
            /\ {f[m] : m \in matches} = {m.before : m \in matches}
        OBVIOUS
      <4>2. {f[m] : m \in Changed} = {m.before : m \in Changed}
        BY <2>6
      <4> QED  BY <2>5, <4>1, <4>2
    <3>3. h \in [Before -> baseline] /\ \A c, d \in Before : h[c] = h[d] => c = d
      BY <2>4, <2>5, <2>6
    <3> HIDE DEF f, h
    <3>4. IsFiniteSet(baseline) /\ Changed \in SUBSET matches  BY <2>3, <2>6
    <3> QED  BY <3>1, <3>2, <3>3, <3>4, CountPlaces, SMTT(30)
  <2>10. (Cardinality(matches) - Cardinality(Changed)) + Cardinality(After) = Cardinality(proposed)
    <3> DEFINE f == [m \in matches |-> m.after]
               h == [c \in After |-> c.after]
    <3>1. f \in [matches -> proposed] /\ \A m, n \in matches : f[m] = f[n] => m = n
      BY <2>4
    <3>2. {h[c] : c \in After} = {f[m] : m \in Changed} \cup (proposed \ {f[m] : m \in matches})
      <4>1. /\ {h[c] : c \in After} = {c.after : c \in After}
            /\ {f[m] : m \in matches} = {m.after : m \in matches}
        OBVIOUS
      <4>2. {f[m] : m \in Changed} = {m.after : m \in Changed}
        BY <2>6
      <4> QED  BY <2>5, <4>1, <4>2
    <3>3. h \in [After -> proposed] /\ \A c, d \in After : h[c] = h[d] => c = d
      BY <2>4, <2>5, <2>6
    <3> HIDE DEF f, h
    <3>4. IsFiniteSet(proposed) /\ Changed \in SUBSET matches  BY <2>3, <2>6
    <3> QED  BY <3>1, <3>2, <3>3, <3>4, CountPlaces, SMTT(30)
  <2>11. Cardinality(ChangedPairs(matches)) = Cardinality(Changed)
    <3> DEFINE f == [m \in Changed |-> Pair(m)]
    <3>1. \A m, n \in Changed : f[m] = f[n] => m = n
      BY <2>4, <2>6, <2>8
    <3>2. ChangedPairs(matches) = {f[m] : m \in Changed}
      BY <2>7
    <3>3. IsFiniteSet(Changed)  BY <2>6, <2>9, FS_Subset
    <3> HIDE DEF f
    <3> QED  BY <3>1, <3>2, <3>3, InjectiveImage
  <2> QED
    BY <2>1, <2>2, <2>9, <2>10, <2>11 DEF Unchanged, Before, After
<1>2. IInv => EveryResourceOnce  BY <1>1 DEF EveryResourceOnce
<1> QED  BY <1>2, Invariant, PTL

-----------------------------------------------------------------------------
(* The cost report.                                                        *)

(* A pairing is a match, something removed or something added.             *)
LEMMA PairingParts ==
  ASSUME IInv, NEW p \in Pairings
  PROVE  \/ \E m \in matches : p = <<m.before, m.after>>
         \/ \E r \in Removed : p = <<r, None>>
         \/ \E r \in Added : p = <<None, r>>
BY DEF Pairings

(* The components are those of every dimension of either side of a pairing.*)
LEMMA ComponentParts ==
  /\ DOMAIN Components
       = UNION {{<<p, d>> : d \in DOMAIN PricesOf(p[1]) \cup DOMAIN PricesOf(p[2])} : p \in Pairings}
  /\ \A i \in DOMAIN Components :
       /\ Components[i] = Component(i[1], i[2])
       /\ i[1] \in Pairings /\ i = <<i[1], i[2]>>
<1> DEFINE Dimensions(p) == DOMAIN PricesOf(p[1]) \cup DOMAIN PricesOf(p[2])
           Index == UNION {{<<p, d>> : d \in Dimensions(p)} : p \in Pairings}
<1>1. Components = [i \in Index |-> Component(i[1], i[2])]
  BY Zenon DEF Components
<1>2. ASSUME NEW i \in Index PROVE i[1] \in Pairings /\ i = <<i[1], i[2]>>
  <2>1. PICK p \in Pairings : i \in {<<p, d>> : d \in Dimensions(p)}
    BY Zenon
  <2> HIDE DEF Dimensions
  <2>2. PICK d \in Dimensions(p) : i = <<p, d>>
    BY <2>1, Zenon
  <2> QED  BY <2>1, <2>2
<1>3. DOMAIN Components = Index /\ \A i \in Index : Components[i] = Component(i[1], i[2])
  <2> HIDE DEF Index
  <2> QED  BY <1>1, Zenon
<1> QED  BY <1>2, <1>3, Zenon

(* What could not be priced in either snapshot is in a component reported  *)
(* as unknown, whatever the resource was matched with.                     *)
THEOREM UnknownIsNeverHidden == Spec => []UnknownIsReported
<1>1. ASSUME IInv, phase \in {"estimated", "reported"},
             NEW r \in baseline \cup proposed, NEW d \in DOMAIN PricesOf(r),
             PricesOf(r)[d] = None
      PROVE  \E i \in Unknown : i[2] = d /\ r \in {i[1][1], i[1][2]}
  <2>1. components = Components
    BY <1>1 DEF IInv, ComparedInv
  <2>2. PICK p \in Pairings : r \in {p[1], p[2]}
    <3>1. CASE \E m \in matches : r = m.before \/ r = m.after
      <4>1. PICK m \in matches : r = m.before \/ r = m.after  BY <3>1
      <4>2. <<m.before, m.after>> \in Pairings  BY DEF Pairings
      <4> QED  BY <4>1, <4>2
    <3>2. CASE r \in Removed
      <4>1. <<r, None>> \in Pairings  BY <3>2 DEF Pairings
      <4> QED  BY <4>1
    <3>3. CASE r \in Added
      <4>1. <<None, r>> \in Pairings  BY <3>3 DEF Pairings
      <4> QED  BY <4>1
    <3> QED  BY <3>1, <3>2, <3>3 DEF Removed, Added
  <2>3. <<p, d>> \in DOMAIN Components
    BY <1>1, <2>2, ComponentParts
  <2>4. Components[<<p, d>>] = Component(p, d)
    BY <2>3, ComponentParts
  <2>5. SideCost(r, d) = None
    BY <1>1 DEF SideCost
  <2>6. Component(p, d).unknown
    BY <2>2, <2>5 DEF Component
  <2>7. <<p, d>> \in Unknown
    BY <2>1, <2>3, <2>4, <2>6 DEF Unknown
  <2> QED  BY <2>2, <2>7
<1>2. IInv => UnknownIsReported  BY <1>1 DEF UnknownIsReported
<1> QED  BY <1>2, Invariant, PTL

LEMMA PricesAreFinite ==
  ASSUME IInv, NEW r \in baseline \cup proposed \cup {None}
  PROVE  IsFiniteSet(DOMAIN PricesOf(r))
<1>1. CASE r = None
  BY <1>1, FS_EmptySet DEF PricesOf, NoPrices
<1>2. CASE r # None
  <2> DEFINE b == [type |-> r.type, path |-> r.path, state |-> r.state]
  <2>1. b \in Body /\ b.type = r.type /\ b.state = r.state
    BY <1>2, MatchParts
  <2> QED  BY <1>2, <2>1, PriceAssumption DEF PricesOf
<1> QED  BY <1>1, <1>2

LEMMA ComponentsAreFinite ==
  ASSUME IInv
  PROVE  IsFiniteSet(DOMAIN Components)
<1> DEFINE Dimensions(p) == DOMAIN PricesOf(p[1]) \cup DOMAIN PricesOf(p[2])
           Of(p) == {<<p, d>> : d \in Dimensions(p)}
           of == [p \in Pairings |-> Of(p)]
<1>1. IsFiniteSet(baseline) /\ IsFiniteSet(proposed)
  BY GraphsAreFinite DEF IInv, MatchInv
<1>2. IsFiniteSet(Pairings)
  <2> DEFINE Sides == (baseline \cup {None}) \X (proposed \cup {None})
  <2>1. IsFiniteSet(baseline \cup {None}) /\ IsFiniteSet(proposed \cup {None})
    BY <1>1, FS_AddElement
  <2>2. IsFiniteSet(Sides)  BY <2>1, FS_Product
  <2>3. Pairings \subseteq Sides
    BY PairingParts, MatchParts
  <2> QED  BY <2>2, <2>3, FS_Subset
<1>3. ASSUME NEW p \in Pairings PROVE IsFiniteSet(Of(p))
  <2>1. p[1] \in baseline \cup {None} /\ p[2] \in proposed \cup {None}
    BY PairingParts, MatchParts
  <2>2. IsFiniteSet(Dimensions(p))
    BY <2>1, PricesAreFinite, FS_Union
  <2> DEFINE f == [d \in Dimensions(p) |-> <<p, d>>]
  <2>3. Of(p) = {f[d] : d \in Dimensions(p)}  OBVIOUS
  <2> HIDE DEF f, Of, Dimensions
  <2> QED  BY <2>2, <2>3, FiniteImage
<1>4. DOMAIN Components = UNION {Of(p) : p \in Pairings}
  BY ComponentParts
<1>5. {Of(p) : p \in Pairings} = {of[p] : p \in Pairings}
  OBVIOUS
<1> HIDE DEF Of, of
<1>6. IsFiniteSet({Of(p) : p \in Pairings})
  BY <1>2, <1>5, FiniteImage
<1> QED  BY <1>3, <1>4, <1>6, FS_UNION

(* The key a component carries tells the pairings apart, unless something  *)
(* that was removed left its key to a resource of the proposal.            *)
LEMMA KeysTellPairingsApart ==
  ASSUME IInv, \A r \in Removed, s \in proposed : r.key # s.key,
         NEW p \in Pairings, NEW q \in Pairings,
         (IF p[2] # None THEN p[2].key ELSE p[1].key)
           = (IF q[2] # None THEN q[2].key ELSE q[1].key)
  PROVE  p = q
<1> DEFINE New(x) == \/ \E m \in matches : x = <<m.before, m.after>>
                     \/ \E r \in Added : x = <<None, r>>
           Gone(x) == \E r \in Removed : x = <<r, None>>
<1>1. \A x \in Pairings : New(x) \/ Gone(x)
  BY PairingParts
<1>2. ASSUME NEW x, New(x)
      PROVE  x[2] \in proposed /\ x[2] # None
  <2>1. CASE \E m \in matches : x = <<m.before, m.after>>
    <3>1. PICK m \in matches : x = <<m.before, m.after>>  BY <2>1
    <3>2. m.after \in proposed /\ m.after # None  BY MatchParts
    <3> QED  BY <3>1, <3>2
  <2>2. CASE \E r \in Added : x = <<None, r>>
    <3>1. PICK r \in Added : x = <<None, r>>  BY <2>2
    <3>2. r \in proposed /\ r # None  BY MatchParts
    <3> QED  BY <3>1, <3>2
  <2> QED  BY <1>2, <2>1, <2>2
<1>3. ASSUME NEW x, Gone(x)
      PROVE  x[2] = None /\ x[1] \in Removed /\ x[1] \in baseline
  <2>1. PICK r \in Removed : x = <<r, None>>  BY <1>3
  <2> QED  BY <2>1, MatchParts
<1>4. CASE New(p) /\ New(q)
  <2>1. p[2] = q[2]
    BY <1>2, <1>4, MatchParts
  <2> QED  BY <1>4, <2>1, MatchParts
<1>5. CASE Gone(p) /\ Gone(q)
  <2>1. p[1] = q[1]
    BY <1>3, <1>5, MatchParts
  <2> QED  BY <1>5, <2>1
<1>6. CASE (New(p) /\ Gone(q)) \/ (Gone(p) /\ New(q))
  BY <1>2, <1>3, <1>6
<1> QED  BY <1>1, <1>4, <1>5, <1>6

(* The reconciliation refuses a report only where a resource disappears    *)
(* and another one takes its key.                                          *)
THEOREM OnlyReusedNamesAreRefused == Spec => []OnlyReusedNamesFail
<1>1. ASSUME IInv, \A r \in Removed, s \in proposed : r.key # s.key,
             components = Components
      PROVE  Reconciles
  <2> DEFINE id == [i \in DOMAIN components |-> ComponentId(components[i])]
  <2>1. IsFiniteSet(DOMAIN components)
    BY <1>1, ComponentsAreFinite
  <2>2. ASSUME NEW i \in DOMAIN components, NEW j \in DOMAIN components, id[i] = id[j]
        PROVE  i = j
    <3>1. /\ components[i] = Component(i[1], i[2]) /\ i[1] \in Pairings /\ i = <<i[1], i[2]>>
          /\ components[j] = Component(j[1], j[2]) /\ j[1] \in Pairings /\ j = <<j[1], j[2]>>
      BY <1>1, <2>2, ComponentParts
    <3>2. /\ components[i].resource = components[j].resource
          /\ components[i].dimension = components[j].dimension
      BY <2>2 DEF ComponentId
    <3>3. \A p, d : /\ Component(p, d).dimension = d
                    /\ Component(p, d).resource = IF p[2] # None THEN p[2].key ELSE p[1].key
      BY DEF Component
    <3>4. i[2] = j[2]  BY <3>1, <3>2, <3>3
    <3>5. (IF i[1][2] # None THEN i[1][2].key ELSE i[1][1].key)
            = (IF j[1][2] # None THEN j[1][2].key ELSE j[1][1].key)
      BY <3>1, <3>2, <3>3
    <3>6. i[1] = j[1]
      BY <1>1, <3>1, <3>5, KeysTellPairingsApart
    <3> QED  BY <3>1, <3>4, <3>6
  <2>3. {ComponentId(components[i]) : i \in DOMAIN components} = {id[i] : i \in DOMAIN components}
    OBVIOUS
  <2> HIDE DEF id
  <2>4. Cardinality({id[i] : i \in DOMAIN components}) = Cardinality(DOMAIN components)
    BY <2>1, <2>2, InjectiveImage
  <2> QED  BY <2>3, <2>4 DEF Reconciles
<1>2. ASSUME IInv PROVE OnlyReusedNamesFail
  BY <1>1, <1>2 DEF IInv, ComparedInv, OnlyReusedNamesFail
<1>3. IInv => OnlyReusedNamesFail  BY <1>2
<1> QED  BY <1>3, Invariant, PTL

-----------------------------------------------------------------------------
(* The totals.                                                             *)

(* A side of a pairing is a resource of its snapshot, or nothing; and each *)
(* resource of a snapshot is on its side of one pairing.                   *)
LEMMA SidesOfPairings ==
  ASSUME IInv
  PROVE  /\ \A p \in Pairings : p[1] \in baseline \cup {None} /\ p[2] \in proposed \cup {None}
         /\ \A r \in baseline : \E p \in Pairings : p[1] = r
         /\ \A r \in proposed : \E p \in Pairings : p[2] = r
         /\ \A p, q \in Pairings : p[1] = q[1] /\ p[1] # None => p = q
         /\ \A p, q \in Pairings : p[2] = q[2] /\ p[2] # None => p = q
<1>1. ASSUME NEW p \in Pairings
      PROVE  p[1] \in baseline \cup {None} /\ p[2] \in proposed \cup {None}
  BY PairingParts, MatchParts
<1>2. ASSUME NEW r \in baseline PROVE \E p \in Pairings : p[1] = r
  <2>1. CASE r \in Removed
    <3>1. <<r, None>> \in Pairings
      BY <2>1 DEF Pairings
    <3> QED  BY <3>1
  <2>2. CASE r \notin Removed
    <3>1. PICK m \in matches : m.before = r
      BY <2>2 DEF Removed
    <3>2. <<m.before, m.after>> \in Pairings
      BY DEF Pairings
    <3> QED  BY <3>1, <3>2
  <2> QED  BY <2>1, <2>2
<1>3. ASSUME NEW r \in proposed PROVE \E p \in Pairings : p[2] = r
  <2>1. CASE r \in Added
    <3>1. <<None, r>> \in Pairings
      BY <2>1 DEF Pairings
    <3> QED  BY <3>1
  <2>2. CASE r \notin Added
    <3>1. PICK m \in matches : m.after = r
      BY <2>2 DEF Added
    <3>2. <<m.before, m.after>> \in Pairings
      BY DEF Pairings
    <3> QED  BY <3>1, <3>2
  <2> QED  BY <2>1, <2>2
<1>4. \A r \in baseline \cup proposed : r # None
  BY MatchParts
<1>5. ASSUME NEW p \in Pairings, NEW q \in Pairings, p[1] = q[1], p[1] # None PROVE p = q
  <2>1. ~\E r \in Added : p = <<None, r>> \/ q = <<None, r>>
    BY <1>5
  <2>2. CASE \E m \in matches : p = <<m.before, m.after>>
    BY <1>5, <2>1, <2>2, PairingParts, MatchParts
  <2>3. CASE \E r \in Removed : p = <<r, None>>
    BY <1>5, <2>1, <2>3, PairingParts, MatchParts
  <2> QED  BY <2>1, <2>2, <2>3, PairingParts
<1>6. ASSUME NEW p \in Pairings, NEW q \in Pairings, p[2] = q[2], p[2] # None PROVE p = q
  <2>1. ~\E r \in Removed : p = <<r, None>> \/ q = <<r, None>>
    BY <1>6
  <2>2. CASE \E m \in matches : p = <<m.before, m.after>>
    BY <1>6, <2>1, <2>2, PairingParts, MatchParts
  <2>3. CASE \E r \in Added : p = <<None, r>>
    BY <1>6, <2>1, <2>3, PairingParts, MatchParts
  <2> QED  BY <2>1, <2>2, <2>3, PairingParts
<1> QED  BY <1>1, <1>2, <1>3, <1>5, <1>6

LEMMA PricesAreNumbers ==
  ASSUME IInv, NEW r \in baseline \cup proposed \cup {None}, NEW d \in DOMAIN PricesOf(r)
  PROVE  PricesOf(r)[d] \in Nat \cup {None}
<1>1. r # None
  BY DEF PricesOf, NoPrices
<1> DEFINE b == [type |-> r.type, path |-> r.path, state |-> r.state]
<1>2. b \in Body /\ b.type = r.type /\ b.state = r.state
  BY <1>1, MatchParts
<1> QED  BY <1>1, <1>2, PriceAssumption DEF PricesOf

(* One side of the report: its total, and what is known of the components  *)
(* reported as unknown, are the known cost of the snapshot.                *)
LEMMA SideIsConserved ==
  ASSUME IInv, components = Components,
         NEW n \in {1, 2}, NEW side, side = IF n = 1 THEN "current" ELSE "proposed",
         NEW g, g = IF n = 1 THEN baseline ELSE proposed
  PROVE  CostOn(side, DOMAIN components \ Unknown) + Hidden(side) = KnownCost(g)
<1> DEFINE all == DOMAIN components
           whole == all \ Unknown
           known == {i \in all : components[i][side] # None}
           hidden == {i \in Unknown : components[i][side] # None}
           f == [i \in known |-> components[i][side]]
           own == {i \in known : i[2] \in DOMAIN PricesOf(i[1][n])}
           of == [i \in own |-> i[1][n]]
           h == [r \in g |-> SumFunctionOnSet(PricesOf(r), Priced(r))]
<1>1. ASSUME NEW i \in all
      PROVE  /\ i = <<i[1], i[2]>> /\ i[1] \in Pairings
             /\ components[i][side] = SideCost(i[1][n], i[2])
             /\ i \notin Unknown => components[i][side] # None
  <2>1. components[i] = Component(i[1], i[2]) /\ i[1] \in Pairings /\ i = <<i[1], i[2]>>
    BY ComponentParts
  <2>2. /\ Component(i[1], i[2]).current = SideCost(i[1][1], i[2])
        /\ Component(i[1], i[2]).proposed = SideCost(i[1][2], i[2])
        /\ Component(i[1], i[2]).unknown
             <=> SideCost(i[1][1], i[2]) = None \/ SideCost(i[1][2], i[2]) = None
    BY DEF Component
  <2> QED  BY <2>1, <2>2 DEF Unknown
<1>2. \A p \in Pairings : p[n] \in g \cup {None}
  BY SidesOfPairings
<1>3. \A i \in known : f[i] \in Int
  <2> SUFFICES ASSUME NEW i \in known PROVE components[i][side] \in Int
    OBVIOUS
  <2>1. components[i][side] = SideCost(i[1][n], i[2]) /\ i[1] \in Pairings
    BY <1>1
  <2>2. i[1][n] \in baseline \cup proposed \cup {None}
    BY <1>2, <2>1
  <2>3. SideCost(i[1][n], i[2]) \in Int \cup {None}
    BY <2>2, PricesAreNumbers DEF SideCost
  <2> QED  BY <2>1, <2>3
<1>4. IsFiniteSet(all) /\ IsFiniteSet(known)
  <2>1. IsFiniteSet(all)
    BY ComponentsAreFinite
  <2>2. known \subseteq all
    OBVIOUS
  <2> HIDE DEF all, known
  <2> QED  BY <2>1, <2>2, FS_Subset
<1>5. whole \in SUBSET known /\ known \ whole = hidden /\ hidden \in SUBSET known
  BY <1>1 DEF Unknown
<1>6. CostOn(side, whole) = SumFunctionOnSet(f, whole)
  <2> DEFINE e == [i \in whole |-> components[i][side]]
  <2>1. IsFiniteSet(whole)
    BY <1>4, <1>5, FS_Subset
  <2>2. \A i \in whole : e[i] \in Int /\ e[i] = f[i]
    BY <1>3, <1>5
  <2>3. CostOn(side, whole) = SumFunctionOnSet(e, whole)
    BY DEF CostOn, SumFunction
  <2> HIDE DEF e, f, whole
  <2> QED  BY <2>1, <2>2, <2>3, SumOfSame
<1>7. Hidden(side) = SumFunctionOnSet(f, hidden)
  <2> DEFINE e == [i \in hidden |-> components[i][side]]
  <2>1. IsFiniteSet(hidden)
    BY <1>4, <1>5, FS_Subset
  <2>2. \A i \in hidden : e[i] \in Int /\ e[i] = f[i]
    BY <1>3, <1>5
  <2>3. Hidden(side) = SumFunctionOnSet(e, hidden)
    BY DEF Hidden, CostOn, SumFunction
  <2> HIDE DEF e, f, hidden
  <2> QED  BY <2>1, <2>2, <2>3, SumOfSame
<1>8. SumFunctionOnSet(f, known) = SumFunctionOnSet(f, whole) + SumFunctionOnSet(f, hidden)
  <2> HIDE DEF f, known, whole, hidden
  <2> QED  BY <1>3, <1>4, <1>5, SumInParts
<1>9. SumFunctionOnSet(f, known) = SumFunctionOnSet(f, own)
  <2>1. own \in SUBSET known
    OBVIOUS
  <2>2. \A i \in known \ own : f[i] = 0
    <3> SUFFICES ASSUME NEW i \in known, i \notin own PROVE components[i][side] = 0
      OBVIOUS
    <3> QED  BY <1>1 DEF SideCost
  <2> HIDE DEF f, known, own
  <2>3. IsFiniteSet(known \ own)
    BY <1>4, FS_Difference
  <2>4. SumFunctionOnSet(f, known \ own) = 0
    BY <2>2, <2>3, SumOfZeros
  <2>5. SumFunctionOnSet(f, known) = SumFunctionOnSet(f, own) + SumFunctionOnSet(f, known \ own)
    BY <1>3, <1>4, <2>1, SumInParts
  <2>6. SumFunctionOnSet(f, own) \in Int
    BY <1>3, <1>4, <2>1, SumOfPart
  <2> QED  BY <2>4, <2>5, <2>6
<1>10. \A i \in own : of[i] \in g
  <2> SUFFICES ASSUME NEW i \in own PROVE i[1][n] \in g
    OBVIOUS
  <2>1. i[1][n] \in g \cup {None}
    BY <1>1, <1>2
  <2> QED  BY <2>1 DEF PricesOf, NoPrices
<1>11. ASSUME NEW r \in g
       PROVE  h[r] = SumFunctionOnSet(f, {i \in own : of[i] = r})
  <2>1. PICK p \in Pairings : p[n] = r
    BY SidesOfPairings
  <2>2. r # None /\ \A q \in Pairings : q[n] = r => q = p
    <3>1. r # None
      BY MatchParts
    <3>2. \A x, y \in Pairings : x[n] = y[n] /\ x[n] # None => x = y
      <4>1. n = 1 \/ n = 2
        OBVIOUS
      <4> QED  BY <4>1, SidesOfPairings
    <3> QED  BY <2>1, <3>1, <3>2
  <2> DEFINE e == [d \in Priced(r) |-> <<p, d>>]
             prices == PricesOf(r)
             named == {i \in own : of[i] = r}
  <2>3. named = {e[d] : d \in Priced(r)}
    <3>1. ASSUME NEW i \in named PROVE \E d \in Priced(r) : i = e[d]
      <4>1. /\ i = <<i[1], i[2]>> /\ i[1] \in Pairings /\ i[1][n] = r
            /\ i[2] \in DOMAIN PricesOf(r) /\ SideCost(r, i[2]) # None
        BY <1>1
      <4>2. i[1] = p
        BY <2>2, <4>1
      <4>3. i[2] \in Priced(r)
        BY <4>1 DEF SideCost, Priced
      <4> QED  BY <4>1, <4>2, <4>3
    <3>2. ASSUME NEW d \in Priced(r) PROVE <<p, d>> \in named
      <4>1. d \in DOMAIN PricesOf(p[n]) /\ PricesOf(p[n])[d] # None
        BY <2>1 DEF Priced
      <4>2. <<p, d>> \in all
        BY <4>1, ComponentParts
      <4>3. components[<<p, d>>][side] # None
        BY <1>1, <4>1, <4>2 DEF SideCost
      <4> QED  BY <2>1, <4>1, <4>2, <4>3
    <3>3. \A d \in Priced(r) : e[d] = <<p, d>>
      OBVIOUS
    <3> HIDE DEF e, named
    <3> QED  BY <3>1, <3>2, <3>3
  <2>4. IsFiniteSet(Priced(r)) /\ \A d \in Priced(r) : prices[d] \in Int
    <3>1. r \in baseline \cup proposed \cup {None}
      OBVIOUS
    <3>2. IsFiniteSet(DOMAIN prices) /\ Priced(r) \subseteq DOMAIN prices
      BY <3>1, PricesAreFinite DEF Priced
    <3>3. \A d \in Priced(r) : prices[d] \in Int
      BY <3>1, PricesAreNumbers DEF Priced
    <3> QED  BY <3>2, <3>3, FS_Subset
  <2>5. \A c, d \in Priced(r) : e[c] = e[d] => c = d
    OBVIOUS
  <2>6. \A d \in Priced(r) : f[e[d]] = prices[d]
    <3> SUFFICES ASSUME NEW d \in Priced(r) PROVE f[<<p, d>>] = prices[d]
      OBVIOUS
    <3>1. <<p, d>> \in named
      BY <2>3
    <3>2. f[<<p, d>>] = SideCost(r, d)
      BY <1>1, <2>1, <3>1
    <3> QED  BY <3>2 DEF SideCost, Priced
  <2>7. h[r] = SumFunctionOnSet(prices, Priced(r))
    OBVIOUS
  <2> HIDE DEF e, f, prices, named, h
  <2>8. SumFunctionOnSet(f, {e[d] : d \in Priced(r)}) = SumFunctionOnSet(prices, Priced(r))
    BY <2>4, <2>5, <2>6, SumOfRenamed
  <2>9. h[r] = SumFunctionOnSet(f, named)
    BY <2>3, <2>7, <2>8
  <2> QED  BY <2>9 DEF named
<1>12. KnownCost(g) = SumFunctionOnSet(h, g)
  BY DEF KnownCost, SumFunction
<1>13. SumFunctionOnSet(f, own) = SumFunctionOnSet(h, g)
  <2>1. IsFiniteSet(own) /\ \A i \in own : f[i] \in Int
    BY <1>3, <1>4, FS_Subset
  <2>2. IsFiniteSet(g)
    BY GraphsAreFinite DEF IInv, MatchInv
  <2> HIDE DEF f, h
  <2> DEFINE group == [r \in g |-> {i \in own : of[i] = r}]
  <2>3. \A r \in g : h[r] = SumFunctionOnSet(f, group[r])
    BY <1>11
  <2>4. /\ \A r \in g : group[r] \subseteq own
        /\ \A i \in own : \E r \in g : i \in group[r]
        /\ \A r, s \in g : \A i \in own : i \in group[r] /\ i \in group[s] => r = s
    <3> HIDE DEF own, of
    <3> QED  BY <1>10
  <2> HIDE DEF own, of, group
  <2> QED  BY <2>1, <2>2, <2>3, <2>4, SumByGroup
<1> HIDE DEF f, h, whole, hidden, known, own
<1> QED  BY <1>6, <1>7, <1>8, <1>9, <1>12, <1>13 DEF whole

(* However resources were matched, the totals are those of the whole       *)
(* snapshots: what is not in a total is the known side of a component that *)
(* is reported as unknown (cost.py:274, estimators/engine.py:175).         *)
THEOREM CostIsConserved == Spec => []CostConserved
<1>1. ASSUME IInv PROVE CostConserved
  <2> SUFFICES ASSUME phase \in {"estimated", "reported"}
               PROVE  /\ TotalCurrent + Hidden("current") = KnownCost(baseline)
                      /\ TotalProposed + Hidden("proposed") = KnownCost(proposed)
    BY DEF CostConserved
  <2>1. components = Components
    BY <1>1 DEF IInv, ComparedInv
  <2>2. CostOn("current", DOMAIN components \ Unknown) + Hidden("current") = KnownCost(baseline)
    BY <1>1, <2>1, SideIsConserved
  <2>3. CostOn("proposed", DOMAIN components \ Unknown) + Hidden("proposed") = KnownCost(proposed)
    BY <1>1, <2>1, SideIsConserved
  <2> QED  BY <2>2, <2>3 DEF TotalCurrent, TotalProposed
<1>2. IInv => CostConserved  BY <1>1
<1> QED  BY <1>2, Invariant, PTL
=============================================================================
