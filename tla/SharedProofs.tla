---------------------------- MODULE SharedProofs ----------------------------
(***************************************************************************)
(* Theorems that several components rest on.                               *)
(*                                                                         *)
(* What the lattice of GateLattice promises whoever decides by it: the     *)
(* approval gate, whose rules are given, and the analysis, which evaluates *)
(* policies and budgets into rules first.                                  *)
(*                                                                         *)
(* What a sum over a finite set is, for every set and every function of    *)
(* integers on it. The totals of this project are sums of the community    *)
(* module Functions, which are defined by recursion over the subsets of    *)
(* the index set. The induction is on a smallest counterexample: a         *)
(* collection of subsets of a finite set that is not empty has a member    *)
(* that none of its members is a proper part of. What the totals need is   *)
(* that terms can be taken out, renamed, made greater and grouped.         *)
(***************************************************************************)
EXTENDS GateLattice, Functions, FiniteSetTheorems, FunctionTheorems, TLAPS

-----------------------------------------------------------------------------
(* The lattice.                                                            *)


(* The combined result is one of the results combined, or PASS, and ranks  *)
(* at least as high as each of them (decision.py:152).                     *)
LEMMA CombineIsHighest ==
  ASSUME NEW S \in SUBSET GateResults
  PROVE  /\ CombineResults(S) \in S \cup {"PASS"}
         /\ \A s \in S : Rank(s) <= Rank(CombineResults(S))
<1> DEFINE T == S \cup {"PASS"}
           Top(r) == r \in T /\ \A s \in T : Rank(s) <= Rank(r)
<1>1. \E r : Top(r)
  <2>1. CASE "ERROR" \in T
    <3>1. Top("ERROR")  BY <2>1 DEF Rank, GateResults
    <3> QED  BY <3>1
  <2>2. CASE "ERROR" \notin T /\ "BLOCK" \in T
    <3>1. Top("BLOCK")  BY <2>2 DEF Rank, GateResults
    <3> QED  BY <3>1
  <2>3. CASE T \cap {"ERROR", "BLOCK"} = {} /\ "REQUIRE_APPROVAL" \in T
    <3>1. Top("REQUIRE_APPROVAL")  BY <2>3 DEF Rank, GateResults
    <3> QED  BY <3>1
  <2>4. CASE T \cap {"ERROR", "BLOCK", "REQUIRE_APPROVAL"} = {} /\ "WARN" \in T
    <3>1. Top("WARN")  BY <2>4 DEF Rank, GateResults
    <3> QED  BY <3>1
  <2>5. CASE T \subseteq {"PASS"}
    <3>1. Top("PASS")  BY <2>5 DEF Rank
    <3> QED  BY <3>1
  <2> QED  BY <2>1, <2>2, <2>3, <2>4, <2>5 DEF GateResults
<1>2. CombineResults(S) = CHOOSE r \in T : \A s \in T : Rank(s) <= Rank(r)
  BY DEF CombineResults
<1>3. Top(CombineResults(S))  BY <1>1, <1>2
<1> QED  BY <1>3

(* What a decision says of the rules that matched: each of them is at most *)
(* as severe as the result; and a change that needs approval names exactly *)
(* the groups of the rules that asked for it, at least one (engine.py:94). *)
THEOREM DecisionOnMatched ==
  ASSUME NEW M, NEW action, NEW group, \A p \in M : action[p] \in PolicyActions
  PROVE  LET d == BuildDecision(M, action, group)
         IN  /\ d.result \in GateResults \ {"ERROR"}
             /\ \A p \in M : Rank(action[p]) <= Rank(d.result)
             /\ d.result = "PASS" \/ \E p \in M : action[p] = d.result
             /\ d.result = "REQUIRE_APPROVAL" =>
                  /\ d.groups # {}
                  /\ d.groups \subseteq {group[p] : p \in M}
             /\ d.result # "REQUIRE_APPROVAL" => d.groups = {}
<1> DEFINE S == {ToResult(action[p]) : p \in M}
           d == BuildDecision(M, action, group)
<1>1. S \subseteq PolicyActions
  BY DEF ToResult
<1>2. d.result = CombineResults(S)
  BY DEF BuildDecision
<1>3. S \in SUBSET GateResults
  BY <1>1 DEF PolicyActions, GateResults
<1>4. /\ CombineResults(S) \in S \cup {"PASS"}
      /\ \A s \in S : Rank(s) <= Rank(CombineResults(S))
  BY <1>3, CombineIsHighest
<1>5. d.result \in GateResults \ {"ERROR"}
  BY <1>1, <1>2, <1>4 DEF PolicyActions, GateResults
<1>6. ASSUME NEW p \in M  PROVE Rank(action[p]) <= Rank(d.result)
  <2>1. action[p] \in S  BY DEF ToResult
  <2> QED  BY <2>1, <1>2, <1>4
<1>7. ASSUME d.result = "REQUIRE_APPROVAL"
      PROVE  d.groups # {} /\ d.groups \subseteq {group[p] : p \in M}
  <2>1. d.groups = {group[p] : p \in {q \in M : action[q] = "REQUIRE_APPROVAL"}}
    BY <1>7 DEF BuildDecision
  <2>2. "REQUIRE_APPROVAL" \in S  BY <1>7, <1>2, <1>4
  <2>3. PICK p \in M : action[p] = "REQUIRE_APPROVAL"  BY <2>2 DEF ToResult
  <2> QED  BY <2>1, <2>3
<1>8. d.result = "PASS" \/ \E p \in M : action[p] = d.result
  BY <1>2, <1>4 DEF ToResult
<1>9. ASSUME d.result # "REQUIRE_APPROVAL" PROVE d.groups = {}
  BY <1>9 DEF BuildDecision
<1> QED  BY <1>5, <1>6, <1>7, <1>8, <1>9

(* More rules never make a decision more lenient: if every rule matched    *)
(* before still matches, with the same action, the result ranks at least   *)
(* as high (decision.py:152).                                              *)
THEOREM MoreRulesAreStricter ==
  ASSUME NEW M, NEW N, NEW action, NEW group, M \subseteq N,
         \A p \in N : action[p] \in PolicyActions
  PROVE  Rank(BuildDecision(M, action, group).result)
           <= Rank(BuildDecision(N, action, group).result)
<1> DEFINE few == BuildDecision(M, action, group).result
           many == BuildDecision(N, action, group).result
<1>1. few = "PASS" \/ \E p \in M : action[p] = few
  BY DecisionOnMatched
<1>2. many \in GateResults /\ \A p \in N : Rank(action[p]) <= Rank(many)
  BY DecisionOnMatched
<1>3. CASE few = "PASS"
  BY <1>2, <1>3 DEF Rank, GateResults
<1>4. CASE \E p \in M : action[p] = few
  BY <1>2, <1>4
<1> QED  BY <1>1, <1>3, <1>4

-----------------------------------------------------------------------------
(* Finite sets, and sums over them.                                        *)

(* A function takes finitely many values on a finite set.                   *)
LEMMA FiniteImage ==
  ASSUME NEW S, IsFiniteSet(S), NEW f
  PROVE  IsFiniteSet({f[x] : x \in S})
<1> DEFINE T == {f[x] : x \in S}
           g == [x \in S |-> f[x]]
<1>1. g \in Surjection(S, T)
  BY Fun_IsSurj, Zenon
<1> QED  BY <1>1, FS_Surjection

LEMMA SmallestMember ==
  ASSUME NEW S, IsFiniteSet(S), NEW B \in SUBSET SUBSET S, B # {}
  PROVE  \E T \in B : \A U \in B : U \subseteq T => U = T
<1>1. IsWellFoundedOn(StrictSubsetOrdering(S), SUBSET S)
  BY FS_StrictSubsetOrderingWellFounded, FS_FiniteSubsetsOfFinite
<1>2. PICK T \in B : \A U \in B : ~(<<U, T>> \in StrictSubsetOrdering(S))
  BY <1>1, WFMin
<1>3. ASSUME NEW U \in B, U \subseteq T, U # T PROVE FALSE
  <2>1. <<U, T>> \in (SUBSET S) \X (SUBSET S)
    OBVIOUS
  <2>2. <<U, T>> \in StrictSubsetOrdering(S)
    BY <1>3, <2>1 DEF StrictSubsetOrdering
  <2> QED  BY <1>2, <2>2
<1> QED  BY <1>3

(* What is true of 0, and of the next number of each, is true of all.      *)
LEMMA CountedUp ==
  ASSUME NEW N \in Nat, NEW S, 0 \in S, \A k \in 0 .. N : k \in S => k + 1 \in S
  PROVE  N \in S
<1> DEFINE B == {T \in SUBSET (0 .. N) : \E j \in 0 .. N : T = 0 .. j /\ j \notin S}
<1> SUFFICES ASSUME N \notin S PROVE FALSE
  OBVIOUS
<1>1. (0 .. N) \in B
  OBVIOUS
<1>2. PICK I : I = 0 .. N
  OBVIOUS
<1>3. PICK T \in B : \A U \in B : U \subseteq T => U = T
  <2>1. IsFiniteSet(I)
    BY <1>2, FS_Interval
  <2>2. B \in SUBSET SUBSET I /\ B # {}
    BY <1>1, <1>2
  <2> HIDE DEF B
  <2> QED  BY <2>1, <2>2, SmallestMember
<1> HIDE DEF B
<1>4. PICK j \in 0 .. N : T = 0 .. j /\ j \notin S
  BY <1>3 DEF B
<1>5. j # 0 /\ j - 1 \in 0 .. N
  BY <1>4
<1>6. j - 1 \notin S
  BY <1>4, <1>5
<1>7. (0 .. j - 1) \in B
  BY <1>5, <1>6 DEF B
<1>8. (0 .. j - 1) \subseteq T /\ (0 .. j - 1) # T
  BY <1>4, <1>5
<1> QED  BY <1>3, <1>7, <1>8

-----------------------------------------------------------------------------
(* The recursion.                                                          *)

First(s) == CHOOSE x \in s : TRUE
Rest(s) == s \ {First(s)}

(* What the sum over a set is, given the sums over its subsets.            *)
Adding(f, g, s) == IF s = {} THEN 0 ELSE f[First(s)] + g[Rest(s)]

(* g holds the sum of f over every subset of T.                            *)
Sums(f, T, g) == g = [s \in SUBSET T |-> Adding(f, g, s)]

LEMMA FirstAndRest ==
  ASSUME NEW s, s # {}
  PROVE  /\ First(s) \in s /\ Rest(s) \subseteq s /\ Rest(s) # s
         /\ First(s) \notin Rest(s) /\ Rest(s) \cup {First(s)} = s
BY DEF First, Rest

(* Sums do not depend on the set they are taken in.                        *)
LEMMA SumsAgree ==
  ASSUME NEW S, IsFiniteSet(S), NEW f, NEW T \in SUBSET S, NEW U \in SUBSET S,
         NEW g, Sums(f, T, g), NEW h, Sums(f, U, h)
  PROVE  \A s \in SUBSET (T \cap U) : g[s] = h[s]
<1> DEFINE B == {s \in SUBSET (T \cap U) : g[s] # h[s]}
<1> SUFFICES ASSUME B # {} PROVE FALSE
  OBVIOUS
<1>1. PICK s \in B : \A t \in B : t \subseteq s => t = s
  <2>1. B \in SUBSET SUBSET S
    OBVIOUS
  <2> HIDE DEF B
  <2> QED  BY <2>1, SmallestMember
<1>2. s \in SUBSET T /\ s \in SUBSET U
  OBVIOUS
<1>3. g[s] = Adding(f, g, s) /\ h[s] = Adding(f, h, s)
  BY <1>2 DEF Sums
<1>4. CASE s = {}
  BY <1>3, <1>4 DEF Adding
<1>5. CASE s # {}
  <2>1. Rest(s) \subseteq s /\ Rest(s) # s
    BY <1>5, FirstAndRest
  <2>2. g[Rest(s)] = h[Rest(s)]
    BY <1>1, <2>1
  <2> QED  BY <1>3, <1>5, <2>2 DEF Adding
<1> QED  BY <1>4, <1>5

(* Every finite set has its sums.                                          *)
LEMMA SumsExist ==
  ASSUME NEW S, IsFiniteSet(S), NEW f
  PROVE  \E g : Sums(f, S, g)
<1> DEFINE B == {T \in SUBSET S : ~\E g : Sums(f, T, g)}
<1> SUFFICES ASSUME B # {} PROVE FALSE
  OBVIOUS
<1>1. PICK T \in B : \A U \in B : U \subseteq T => U = T
  <2>1. B \in SUBSET SUBSET S
    OBVIOUS
  <2> HIDE DEF B
  <2> QED  BY <2>1, SmallestMember
<1> DEFINE of(U) == CHOOSE g : Sums(f, U, g)
           sum(U) == of(U)[U]
           next(s) == IF s = {} THEN 0 ELSE f[First(s)] + sum(Rest(s))
           g == [s \in SUBSET T |-> next(s)]
<1>2. \A U \in SUBSET T : U # T => Sums(f, U, of(U))
  BY <1>1
<1>3. ASSUME NEW U \in SUBSET T, U # T PROVE sum(U) = next(U)
  <2>1. Sums(f, U, of(U))
    BY <1>2, <1>3
  <2>2. sum(U) = Adding(f, of(U), U)
    BY <2>1 DEF Sums
  <2>3. CASE U = {}
    BY <2>2, <2>3 DEF Adding
  <2>4. CASE U # {}
    <3>1. Rest(U) \subseteq U /\ Rest(U) # U
      BY <2>4, FirstAndRest
    <3>2. Rest(U) \in SUBSET T /\ Rest(U) # T
      BY <1>3, <3>1
    <3>3. Sums(f, Rest(U), of(Rest(U)))
      BY <1>2, <3>2
    <3> HIDE DEF of
    <3>4. of(U)[Rest(U)] = of(Rest(U))[Rest(U)]
      BY <2>1, <3>1, <3>2, <3>3, SumsAgree
    <3> QED  BY <2>2, <2>4, <3>4 DEF Adding
  <2> QED  BY <2>3, <2>4
<1> HIDE DEF of, sum
<1>4. ASSUME NEW s \in SUBSET T PROVE next(s) = Adding(f, g, s)
  <2>1. CASE s = {}
    BY <2>1 DEF Adding
  <2>2. CASE s # {}
    <3>1. Rest(s) \in SUBSET T /\ Rest(s) # T
      BY <2>2, FirstAndRest
    <3>2. g[Rest(s)] = sum(Rest(s))
      BY <1>3, <3>1
    <3> QED  BY <2>2, <3>2 DEF Adding
  <2> QED  BY <2>1, <2>2
<1>5. Sums(f, T, g)
  BY <1>4 DEF Sums
<1> QED  BY <1>1, <1>5

(* The sums of a function of integers are integers.                        *)
LEMMA SumsAreIntegers ==
  ASSUME NEW S, IsFiniteSet(S), NEW f, \A x \in S : f[x] \in Int, NEW g, Sums(f, S, g)
  PROVE  \A s \in SUBSET S : g[s] \in Int
<1> DEFINE B == {s \in SUBSET S : g[s] \notin Int}
<1> SUFFICES ASSUME B # {} PROVE FALSE
  OBVIOUS
<1>1. PICK s \in B : \A t \in B : t \subseteq s => t = s
  <2>1. B \in SUBSET SUBSET S
    OBVIOUS
  <2> HIDE DEF B
  <2> QED  BY <2>1, SmallestMember
<1>2. g[s] = Adding(f, g, s)
  BY DEF Sums
<1>3. CASE s = {}
  BY <1>2, <1>3 DEF Adding
<1>4. CASE s # {}
  <2>1. First(s) \in S /\ Rest(s) \subseteq s /\ Rest(s) # s
    BY <1>4, FirstAndRest
  <2>2. g[Rest(s)] \in Int
    BY <1>1, <2>1
  <2> QED  BY <1>2, <1>4, <2>1, <2>2 DEF Adding
<1> QED  BY <1>3, <1>4

(* The order in which a sum is taken does not matter.                      *)
LEMMA SumsAddAny ==
  ASSUME NEW S, IsFiniteSet(S), NEW f, \A x \in S : f[x] \in Int, NEW g, Sums(f, S, g)
  PROVE  \A s \in SUBSET S : \A x \in s : g[s] = f[x] + g[s \ {x}]
<1> DEFINE B == {s \in SUBSET S : \E x \in s : g[s] # f[x] + g[s \ {x}]}
<1> SUFFICES ASSUME B # {} PROVE FALSE
  OBVIOUS
<1>1. PICK s \in B : \A t \in B : t \subseteq s => t = s
  <2>1. B \in SUBSET SUBSET S
    OBVIOUS
  <2> HIDE DEF B
  <2> QED  BY <2>1, SmallestMember
<1>2. PICK x \in s : g[s] # f[x] + g[s \ {x}]
  OBVIOUS
<1> DEFINE y == First(s)
<1>3. g[s] = f[y] + g[s \ {y}] /\ y \in s
  <2>1. g[s] = Adding(f, g, s)
    BY DEF Sums
  <2> QED  BY <1>2, <2>1, FirstAndRest DEF Adding, Rest
<1> HIDE DEF y
<1>4. x # y
  BY <1>2, <1>3
<1>5. g[s \ {y}] = f[x] + g[(s \ {y}) \ {x}]
  <2>1. s \ {y} \in SUBSET S /\ s \ {y} # s /\ s \ {y} \subseteq s /\ x \in s \ {y}
    BY <1>3, <1>4
  <2> QED  BY <1>1, <2>1
<1>6. g[s \ {x}] = f[y] + g[(s \ {x}) \ {y}]
  <2>1. s \ {x} \in SUBSET S /\ s \ {x} # s /\ s \ {x} \subseteq s /\ y \in s \ {x}
    BY <1>2, <1>3, <1>4
  <2> QED  BY <1>1, <2>1
<1>7. (s \ {y}) \ {x} = (s \ {x}) \ {y}
  OBVIOUS
<1>8. f[x] \in Int /\ f[y] \in Int /\ g[(s \ {x}) \ {y}] \in Int
  <2>1. (s \ {x}) \ {y} \in SUBSET S /\ x \in S /\ y \in S
    BY <1>3
  <2> QED  BY <2>1, SumsAreIntegers
<1>9. PICK a, b, c \in Int : a = f[x] /\ b = f[y] /\ c = g[(s \ {x}) \ {y}]
  BY <1>8
<1>10. g[s \ {y}] = a + c /\ g[s \ {x}] = b + c
  BY <1>5, <1>6, <1>7, <1>9
<1>11. g[s] = b + (a + c) /\ g[s] # a + (b + c)
  BY <1>2, <1>3, <1>9, <1>10
<1> QED  BY <1>11

-----------------------------------------------------------------------------
(* Sums of functions.                                                      *)

LEMMA SumIsAmongSums ==
  ASSUME NEW S, IsFiniteSet(S), NEW f, NEW T \in SUBSET S, NEW g, Sums(f, S, g)
  PROVE  SumFunctionOnSet(f, T) = g[T]
<1> DEFINE it == CHOOSE h : h = [s \in SUBSET T |->
        IF s = {} THEN 0
        ELSE f[CHOOSE x \in s : TRUE] + h[s \ {CHOOSE x \in s : TRUE}]]
<1>1. SumFunctionOnSet(f, T) = it[T]
  BY DEF SumFunctionOnSet, FoldFunctionOnSet, MapThenFoldSet
<1>2. it = CHOOSE h : Sums(f, T, h)
  BY DEF Sums, Adding, First, Rest
<1>3. IsFiniteSet(T)
  BY FS_Subset
<1>4. \E h : Sums(f, T, h)
  BY <1>3, SumsExist
<1>5. Sums(f, T, it)
  BY <1>2, <1>4
<1> HIDE DEF it
<1> QED  BY <1>1, <1>5, SumsAgree

(* Nothing sums up to nothing; any element may be added last; and integers *)
(* sum up to an integer.                                                   *)
LEMMA SumOfIntegers ==
  ASSUME NEW S, IsFiniteSet(S), NEW f, \A x \in S : f[x] \in Int
  PROVE  /\ SumFunctionOnSet(f, S) \in Int
         /\ SumFunctionOnSet(f, {}) = 0
         /\ \A x \in S : SumFunctionOnSet(f, S) = f[x] + SumFunctionOnSet(f, S \ {x})
<1>1. PICK g : Sums(f, S, g)
  BY SumsExist
<1>2. \A T \in SUBSET S : SumFunctionOnSet(f, T) = g[T]
  BY <1>1, SumIsAmongSums
<1>3. \A T \in SUBSET S : g[T] \in Int
  BY <1>1, SumsAreIntegers
<1>4. \A x \in S : g[S] = f[x] + g[S \ {x}]
  BY <1>1, SumsAddAny
<1>5. g[{}] = 0
  BY <1>1 DEF Sums, Adding
<1> QED  BY <1>2, <1>3, <1>4, <1>5

(* The same of every part of a finite set.                                 *)
LEMMA SumOfPart ==
  ASSUME NEW S, IsFiniteSet(S), NEW f, \A x \in S : f[x] \in Int, NEW T \in SUBSET S
  PROVE  /\ SumFunctionOnSet(f, T) \in Int
         /\ SumFunctionOnSet(f, {}) = 0
         /\ \A x \in T : SumFunctionOnSet(f, T) = f[x] + SumFunctionOnSet(f, T \ {x})
<1>1. IsFiniteSet(T) /\ \A x \in T : f[x] \in Int
  BY FS_Subset
<1> QED  BY <1>1, SumOfIntegers

(* Nothing but zeros sums up to zero.                                      *)
LEMMA SumOfZeros ==
  ASSUME NEW S, IsFiniteSet(S), NEW f, \A x \in S : f[x] = 0
  PROVE  SumFunctionOnSet(f, S) = 0
<1> DEFINE B == {T \in SUBSET S : SumFunctionOnSet(f, T) # 0}
<1>1. ASSUME B # {} PROVE FALSE
  <2>1. B \in SUBSET SUBSET S
    OBVIOUS
  <2>2. PICK T \in B : \A U \in B : U \subseteq T => U = T
    <3> HIDE DEF B
    <3> QED  BY <1>1, <2>1, SmallestMember
  <2>3. T \in SUBSET S /\ T # {}
    <3>1. SumFunctionOnSet(f, {}) = 0
      BY SumOfPart
    <3> QED  BY <3>1
  <2>4. PICK x : x \in T
    BY <2>3
  <2>5. T \ {x} \in SUBSET S /\ T \ {x} # T /\ T \ {x} \subseteq T
    BY <2>3, <2>4
  <2>6. SumFunctionOnSet(f, T \ {x}) = 0
    BY <2>2, <2>5
  <2>7. SumFunctionOnSet(f, T) = f[x] + SumFunctionOnSet(f, T \ {x})
    BY <2>3, <2>4, SumOfPart
  <2> QED  BY <2>3, <2>4, <2>6, <2>7
<1>2. S \notin B
  BY <1>1
<1> QED  BY <1>2

(* Greater terms have a greater sum.                                       *)
LEMMA SumOfGreater ==
  ASSUME NEW S, IsFiniteSet(S), NEW f, NEW h,
         \A x \in S : f[x] \in Int /\ h[x] \in Int /\ f[x] <= h[x]
  PROVE  SumFunctionOnSet(f, S) <= SumFunctionOnSet(h, S)
<1> DEFINE B == {T \in SUBSET S : ~(SumFunctionOnSet(f, T) <= SumFunctionOnSet(h, T))}
<1>1. ASSUME B # {} PROVE FALSE
  <2>1. B \in SUBSET SUBSET S
    OBVIOUS
  <2>2. PICK T \in B : \A U \in B : U \subseteq T => U = T
    <3> HIDE DEF B
    <3> QED  BY <1>1, <2>1, SmallestMember
  <2>3. T \in SUBSET S
    OBVIOUS
  <2>4. PICK x : x \in T
    <3>1. T # {}
      BY SumOfPart
    <3> QED  BY <3>1
  <2>5. T \ {x} \in SUBSET S /\ T \ {x} # T /\ T \ {x} \subseteq T
    BY <2>4
  <2>6. SumFunctionOnSet(f, T \ {x}) <= SumFunctionOnSet(h, T \ {x})
    BY <2>2, <2>5
  <2>7. /\ SumFunctionOnSet(f, T) = f[x] + SumFunctionOnSet(f, T \ {x})
        /\ SumFunctionOnSet(f, T \ {x}) \in Int
    BY <2>3, <2>4, <2>5, SumOfPart
  <2>8. /\ SumFunctionOnSet(h, T) = h[x] + SumFunctionOnSet(h, T \ {x})
        /\ SumFunctionOnSet(h, T \ {x}) \in Int
    BY <2>3, <2>4, <2>5, SumOfPart
  <2>9. f[x] \in Int /\ h[x] \in Int /\ f[x] <= h[x]
    BY <2>3, <2>4
  <2>10. SumFunctionOnSet(f, T) <= SumFunctionOnSet(h, T)
    BY <2>6, <2>7, <2>8, <2>9
  <2> QED  BY <2>10
<1>2. S \notin B
  BY <1>1
<1> QED  BY <1>2

(* Equal terms have one sum.                                               *)
LEMMA SumOfSame ==
  ASSUME NEW S, IsFiniteSet(S), NEW f, NEW h, \A x \in S : f[x] \in Int /\ f[x] = h[x]
  PROVE  SumFunctionOnSet(f, S) = SumFunctionOnSet(h, S)
<1>1. SumFunctionOnSet(f, S) \in Int /\ SumFunctionOnSet(h, S) \in Int
  BY SumOfIntegers
<1>2. SumFunctionOnSet(f, S) <= SumFunctionOnSet(h, S)
  BY SumOfGreater
<1>3. SumFunctionOnSet(h, S) <= SumFunctionOnSet(f, S)
  BY SumOfGreater
<1> QED  BY <1>1, <1>2, <1>3

(* A sum may be taken in parts.                                            *)
LEMMA SumInParts ==
  ASSUME NEW S, IsFiniteSet(S), NEW f, \A x \in S : f[x] \in Int, NEW A \in SUBSET S
  PROVE  SumFunctionOnSet(f, S) = SumFunctionOnSet(f, A) + SumFunctionOnSet(f, S \ A)
<1> DEFINE sum(T) == SumFunctionOnSet(f, T)
           B == {T \in SUBSET A : sum(T \cup (S \ A)) # sum(T) + sum(S \ A)}
<1>1. ASSUME B # {} PROVE FALSE
  <2>1. B \in SUBSET SUBSET S
    OBVIOUS
  <2>2. PICK T \in B : \A U \in B : U \subseteq T => U = T
    <3> HIDE DEF B
    <3> QED  BY <1>1, <2>1, SmallestMember
  <2>3. T \in SUBSET A /\ S \ A \in SUBSET S
    OBVIOUS
  <2>4. sum({}) = 0 /\ sum(S \ A) \in Int
    BY <2>3, SumOfPart
  <2>5. PICK x : x \in T
    <3>1. CASE T = {}
      <4>1. T \cup (S \ A) = S \ A
        BY <3>1
      <4>2. sum(T \cup (S \ A)) = sum(T) + sum(S \ A)
        BY <2>4, <3>1, <4>1
      <4> QED  BY <4>2
    <3> QED  BY <3>1
  <2> DEFINE t == T \ {x}
             u == T \cup (S \ A)
  <2>6. t \in SUBSET A /\ t # T /\ t \subseteq T
    BY <2>3, <2>5
  <2>7. sum(t \cup (S \ A)) = sum(t) + sum(S \ A)
    BY <2>2, <2>6
  <2>8. sum(T) = f[x] + sum(t) /\ sum(t) \in Int /\ f[x] \in Int
    BY <2>3, <2>5, <2>6, SumOfPart
  <2>9. u \in SUBSET S /\ x \in u /\ u \ {x} = t \cup (S \ A)
    BY <2>3, <2>5
  <2>10. sum(u) = f[x] + sum(u \ {x})
    BY <2>9, SumOfPart
  <2>11. sum(u) # sum(T) + sum(S \ A)
    OBVIOUS
  <2>12. sum(u) = f[x] + (sum(t) + sum(S \ A))
    BY <2>7, <2>9, <2>10
  <2>13. sum(u) # (f[x] + sum(t)) + sum(S \ A)
    BY <2>8, <2>11
  <2> HIDE DEF t, u, sum
  <2> QED  BY <2>4, <2>8, <2>12, <2>13
<1>2. A \notin B /\ A \cup (S \ A) = S
  BY <1>1
<1> QED  BY <1>2

(* Terms that are not negative have such a sum, and leaving some of them   *)
(* out makes it no greater.                                                *)
LEMMA SumOfPartIsLess ==
  ASSUME NEW S, IsFiniteSet(S), NEW f, \A x \in S : f[x] \in Int, NEW A \in SUBSET S,
         \A x \in S \ A : f[x] >= 0
  PROVE  SumFunctionOnSet(f, A) <= SumFunctionOnSet(f, S)
<1> DEFINE zero == [x \in S \ A |-> 0]
<1>1. IsFiniteSet(S \ A) /\ S \ A \in SUBSET S
  BY FS_Difference
<1>2. SumFunctionOnSet(zero, S \ A) <= SumFunctionOnSet(f, S \ A)
  BY <1>1, SumOfGreater
<1>3. SumFunctionOnSet(zero, S \ A) = 0
  BY <1>1, SumOfZeros
<1>4. SumFunctionOnSet(f, S) = SumFunctionOnSet(f, A) + SumFunctionOnSet(f, S \ A)
  BY SumInParts
<1>5. SumFunctionOnSet(f, A) \in Int /\ SumFunctionOnSet(f, S \ A) \in Int
  BY <1>1, SumOfPart
<1> QED  BY <1>2, <1>3, <1>4, <1>5

-----------------------------------------------------------------------------
(* The same sum, taken in another way.                                     *)

(* What is so of nothing, and of any set if it is so of the set without    *)
(* one of its elements, is so of a finite set: by smallest counterexample. *)
LEMMA OneByOne ==
  ASSUME NEW S, IsFiniteSet(S), NEW G, {} \in G,
         \A T \in SUBSET S : \A x \in T : T \ {x} \in G => T \in G
  PROVE  S \in G
<1> DEFINE B == {T \in SUBSET S : T \notin G}
<1>1. ASSUME B # {} PROVE FALSE
  <2>1. B \in SUBSET SUBSET S
    OBVIOUS
  <2>2. PICK T \in B : \A U \in B : U \subseteq T => U = T
    <3> HIDE DEF B
    <3> QED  BY <1>1, <2>1, SmallestMember
  <2>3. PICK x : x \in T
    <3>1. T # {}
      OBVIOUS
    <3> QED  BY <3>1
  <2>4. T \ {x} \in SUBSET S /\ T \ {x} # T /\ T \ {x} \subseteq T
    BY <2>3
  <2>5. T \ {x} \in G
    BY <2>2, <2>4
  <2> QED  BY <2>3, <2>5
<1> QED  BY <1>1

(* Terms may be renamed, so long as no two get the same name.              *)
LEMMA SumOfRenamed ==
  ASSUME NEW S, IsFiniteSet(S), NEW f, \A x \in S : f[x] \in Int,
         NEW e, \A x, y \in S : e[x] = e[y] => x = y,
         NEW h, \A x \in S : h[e[x]] = f[x]
  PROVE  SumFunctionOnSet(h, {e[x] : x \in S}) = SumFunctionOnSet(f, S)
<1> DEFINE R == {e[x] : x \in S}
           to(T) == {e[x] : x \in T}
           G == {T \in SUBSET S : SumFunctionOnSet(h, to(T)) = SumFunctionOnSet(f, T)}
<1>1. IsFiniteSet(R)
  BY FiniteImage
<1>2. \A y \in R : h[y] \in Int
  OBVIOUS
<1>3. {} \in G
  <2>1. to({}) = {}
    OBVIOUS
  <2>2. SumFunctionOnSet(h, {}) = 0 /\ SumFunctionOnSet(f, {}) = 0
    <3> HIDE DEF R
    <3> QED  BY <1>1, <1>2, SumOfIntegers
  <2> QED  BY <2>1, <2>2
<1>4. ASSUME NEW T \in SUBSET S, NEW x \in T, T \ {x} \in G PROVE T \in G
  <2>1. SumFunctionOnSet(f, T) = f[x] + SumFunctionOnSet(f, T \ {x})
    BY SumOfPart
  <2>2. to(T) \in SUBSET R /\ e[x] \in to(T) /\ to(T) \ {e[x]} = to(T \ {x})
    OBVIOUS
  <2>3. SumFunctionOnSet(h, to(T)) = h[e[x]] + SumFunctionOnSet(h, to(T) \ {e[x]})
    <3> HIDE DEF R, to
    <3> QED  BY <1>1, <1>2, <2>2, SumOfPart
  <2>4. SumFunctionOnSet(h, to(T \ {x})) = SumFunctionOnSet(f, T \ {x})
    BY <1>4
  <2>5. h[e[x]] = f[x]
    OBVIOUS
  <2>6. SumFunctionOnSet(h, to(T)) = SumFunctionOnSet(f, T)
    <3> HIDE DEF to
    <3> QED  BY <2>1, <2>2, <2>3, <2>4, <2>5
  <2> QED  BY <2>6
<1>5. S \in G
  <2> HIDE DEF G
  <2> QED  BY <1>3, <1>4, OneByOne
<1> QED  BY <1>5

(* Terms may be put in groups, and the sums of the groups be added.        *)
LEMMA SumByGroup ==
  ASSUME NEW S, IsFiniteSet(S), NEW f, \A x \in S : f[x] \in Int,
         NEW T, IsFiniteSet(T), NEW group, \A t \in T : group[t] \subseteq S,
         \A x \in S : \E t \in T : x \in group[t],
         \A t, u \in T : \A x \in S : x \in group[t] /\ x \in group[u] => t = u,
         NEW h, \A t \in T : h[t] = SumFunctionOnSet(f, group[t])
  PROVE  SumFunctionOnSet(f, S) = SumFunctionOnSet(h, T)
<1> DEFINE in(A) == {x \in S : \E t \in A : x \in group[t]}
           G == {A \in SUBSET T : SumFunctionOnSet(f, in(A)) = SumFunctionOnSet(h, A)}
<1>1. \A t \in T : h[t] \in Int
  <2> SUFFICES ASSUME NEW t \in T PROVE h[t] \in Int
    OBVIOUS
  <2>1. SumFunctionOnSet(f, group[t]) \in Int
    BY SumOfPart
  <2> QED  BY <2>1
<1>2. {} \in G
  <2>1. in({}) = {}
    OBVIOUS
  <2>2. SumFunctionOnSet(f, {}) = 0 /\ SumFunctionOnSet(h, {}) = 0
    BY <1>1, SumOfIntegers
  <2> QED  BY <2>1, <2>2
<1>3. ASSUME NEW A \in SUBSET T, NEW t \in A, A \ {t} \in G PROVE A \in G
  <2>1. SumFunctionOnSet(h, A) = h[t] + SumFunctionOnSet(h, A \ {t})
    BY <1>1, SumOfPart
  <2>2. IsFiniteSet(in(A)) /\ \A x \in in(A) : f[x] \in Int
    BY FS_Subset
  <2>3. group[t] \in SUBSET in(A) /\ in(A) \ group[t] = in(A \ {t})
    OBVIOUS
  <2>4. SumFunctionOnSet(f, in(A))
          = SumFunctionOnSet(f, group[t]) + SumFunctionOnSet(f, in(A) \ group[t])
    <3> HIDE DEF in
    <3> QED  BY <2>2, <2>3, SumInParts
  <2>5. SumFunctionOnSet(f, in(A \ {t})) = SumFunctionOnSet(h, A \ {t})
    BY <1>3
  <2>6. h[t] = SumFunctionOnSet(f, group[t])
    OBVIOUS
  <2>7. SumFunctionOnSet(f, in(A)) = SumFunctionOnSet(h, A)
    <3> HIDE DEF in
    <3> QED  BY <2>1, <2>3, <2>4, <2>5, <2>6
  <2> QED  BY <2>7
<1>4. T \in G
  <2> HIDE DEF G
  <2> QED  BY <1>2, <1>3, OneByOne
<1>5. in(T) = S
  OBVIOUS
<1> QED  BY <1>4, <1>5

(* A count is a sum of ones.                                               *)
LEMMA CountIsSum ==
  ASSUME NEW S, IsFiniteSet(S), NEW f, \A x \in S : f[x] = 1
  PROVE  SumFunctionOnSet(f, S) = Cardinality(S)
<1> DEFINE G == {T \in SUBSET S : SumFunctionOnSet(f, T) = Cardinality(T)}
<1>1. \A x \in S : f[x] \in Int
  OBVIOUS
<1>2. {} \in G
  BY <1>1, SumOfIntegers, FS_EmptySet
<1>3. ASSUME NEW T \in SUBSET S, NEW x \in T, T \ {x} \in G PROVE T \in G
  <2>1. IsFiniteSet(T)
    BY FS_Subset
  <2>2. Cardinality(T \ {x}) = Cardinality(T) - 1 /\ Cardinality(T) \in Nat
    BY <2>1, FS_RemoveElement, FS_CardinalityType
  <2>3. SumFunctionOnSet(f, T) = f[x] + SumFunctionOnSet(f, T \ {x})
    BY <1>1, SumOfPart
  <2>4. f[x] = 1 /\ SumFunctionOnSet(f, T \ {x}) = Cardinality(T \ {x})
    BY <1>3
  <2> QED  BY <2>2, <2>3, <2>4
<1>4. S \in G
  <2> HIDE DEF G
  <2> QED  BY <1>2, <1>3, OneByOne
<1> QED  BY <1>4

(* What falls into groups is as much as the groups hold together.          *)
LEMMA CountByGroup ==
  ASSUME NEW S, IsFiniteSet(S), NEW T, IsFiniteSet(T),
         NEW group, \A t \in T : group[t] \subseteq S,
         \A x \in S : \E t \in T : x \in group[t],
         \A t, u \in T : \A x \in S : x \in group[t] /\ x \in group[u] => t = u,
         NEW h, \A t \in T : h[t] = Cardinality(group[t])
  PROVE  SumFunctionOnSet(h, T) = Cardinality(S)
<1> DEFINE f == [x \in S |-> 1]
<1>1. \A x \in S : f[x] = 1
  OBVIOUS
<1> HIDE DEF f
<1>2. \A x \in S : f[x] \in Int
  BY <1>1
<1>3. \A t \in T : h[t] = SumFunctionOnSet(f, group[t])
  <2> SUFFICES ASSUME NEW t \in T PROVE h[t] = SumFunctionOnSet(f, group[t])
    OBVIOUS
  <2>1. IsFiniteSet(group[t]) /\ \A x \in group[t] : f[x] = 1
    BY <1>1, FS_Subset
  <2> QED  BY <2>1, CountIsSum
<1>4. SumFunctionOnSet(f, S) = SumFunctionOnSet(h, T)
  BY <1>2, <1>3, SumByGroup
<1>5. SumFunctionOnSet(f, S) = Cardinality(S)
  BY <1>1, CountIsSum
<1> QED  BY <1>4, <1>5

(* A sum of numbers that are not negative is not negative.                 *)
LEMMA SumOfNaturals ==
  ASSUME NEW S, IsFiniteSet(S), NEW f, \A x \in S : f[x] \in Nat
  PROVE  SumFunctionOnSet(f, S) \in Nat
<1> DEFINE zero == [x \in S |-> 0]
<1>1. \A x \in S : zero[x] = 0
  OBVIOUS
<1> HIDE DEF zero
<1>2. SumFunctionOnSet(zero, S) = 0
  BY <1>1, SumOfZeros
<1>3. \A x \in S : zero[x] \in Int /\ f[x] \in Int /\ zero[x] <= f[x]
  BY <1>1
<1>4. SumFunctionOnSet(zero, S) <= SumFunctionOnSet(f, S) /\ SumFunctionOnSet(f, S) \in Int
  BY <1>3, SumOfGreater, SumOfIntegers
<1> QED  BY <1>2, <1>4
=============================================================================
