--------------------------- MODULE TemplateProofs ---------------------------
(***************************************************************************)
(* What templates resolve to, for every document and all parameters.       *)
(*                                                                         *)
(* Resolution is a recursive function, and its recursion ends only by the  *)
(* limit on the depth. Everything here is an induction from the deepest    *)
(* level, where nothing is known, to the first: an answer depends only on  *)
(* answers that are deeper (VerdictAgrees, ValueAgrees), so that there is  *)
(* such a function at all (DocumentsResolve); and when more parameters are *)
(* given, an answer that was known stays as it is if those that are deeper *)
(* do (VerdictIsKept, ValueIsKept).                                        *)
(***************************************************************************)
EXTENDS Promises, SharedProofs, TLAPS

(* What an answer may depend on.                                           *)
Deeper(q) == {r \in Queries : r[3] > q[3]}

(* A list holds texts, and what is not resolved yet and in the document.   *)
IsItem(v) == IsText(v) \/ (v.state = "raw" /\ v.node \in DOMAIN Expression)
IsValue(v) == v.state = "list" => \A i \in DOMAIN v.items : IsItem(v.items[i])

(* The values among the answers on D.                                      *)
Valued(at, D) == \A q \in D : q[1] = "value" => IsValue(at[q])

LEMMA QueriesDeeper ==
  ASSUME NEW q \in Queries
  PROVE  /\ \A m \in DOMAIN Expression : <<"value", m, q[3] + 1, {}>> \in Deeper(q)
         /\ \A m \in DOMAIN Expression : <<"verdict", m, q[3] + 1, q[4]>> \in Deeper(q)
         /\ \A m \in DOMAIN Expression : <<"verdict", m, q[3] + 1, {}>> \in Deeper(q)
         /\ \A c \in DOMAIN Conditions : \A seen \in {{}, q[4]} :
              <<"verdict", Conditions[c], q[3] + 2, seen \cup {c}>> \in Deeper(q)
<1>1. q[3] \in Nat /\ q[4] \in SUBSET DOMAIN Conditions
  BY DEF Queries
<1>2. \A c \in DOMAIN Conditions : Conditions[c] \in DOMAIN Expression
  BY DocumentAssumption DEF Range
<1> QED  BY <1>1, <1>2 DEF Deeper, Queries

-----------------------------------------------------------------------------
(* There is such a function.                                               *)

(* A verdict depends only on what is deeper.                               *)
LEMMA VerdictAgrees ==
  ASSUME NEW q \in Queries, NEW f, NEW g, \A r \in Deeper(q) : f[r] = g[r]
  PROVE  VerdictOf(f, q[2], q[3], q[4]) = VerdictOf(g, q[2], q[3], q[4])
<1> DEFINE n == q[2]
           e == Expression[n]
<1>1. n \in DOMAIN Expression
  BY DEF Queries
<1>2. \A m \in Parts(e) : /\ f[<<"value", m, q[3] + 1, {}>>] = g[<<"value", m, q[3] + 1, {}>>]
                         /\ f[<<"verdict", m, q[3] + 1, q[4]>>] = g[<<"verdict", m, q[3] + 1, q[4]>>]
  BY <1>1, QueriesDeeper, DocumentAssumption
<1>3. \A c : Called(f, c, q[3], q[4]) = Called(g, c, q[3], q[4])
  BY QueriesDeeper DEF Called
<1> HIDE DEF n
<1>4. CASE e.op = "condition"
  BY <1>3, <1>4 DEF VerdictOf, n
<1>5. CASE e.op = "equals"
  <2>1. e.of[1] \in Parts(e) /\ e.of[2] \in Parts(e)
    BY <1>1, <1>5, DocumentAssumption DEF Parts, Range
  <2> QED  BY <1>2, <1>5, <2>1 DEF VerdictOf, n
<1>6. CASE e.op = "not"
  <2>1. e.of[1] \in Parts(e)
    BY <1>1, <1>6, DocumentAssumption DEF Parts, Range
  <2> QED  BY <1>2, <1>6, <2>1 DEF VerdictOf, n
<1>7. CASE e.op \in {"and", "or"}
  <2>1. Parts(e) = Range(e.of)
    BY <1>7 DEF Parts
  <2>2. {f[<<"verdict", m, q[3] + 1, q[4]>>] : m \in Range(e.of)}
        = {g[<<"verdict", m, q[3] + 1, q[4]>>] : m \in Range(e.of)}
    BY <1>2, <2>1
  <2> QED  BY <1>7, <2>2 DEF VerdictOf, n
<1>8. CASE e.op \notin {"condition", "equals", "not", "and", "or"}
  BY <1>8 DEF VerdictOf, n
<1> QED  BY <1>4, <1>5, <1>6, <1>7, <1>8

(* So does a value; an item of a list may be resolved that is no part of   *)
(* the expression itself, so the lists that are deeper have to be proper.  *)
LEMMA ValueAgrees ==
  ASSUME NEW q \in Queries, NEW given, NEW f, NEW g, \A r \in Deeper(q) : f[r] = g[r],
         Valued(f, Deeper(q))
  PROVE  ValueOf(given, f, q[2], q[3]) = ValueOf(given, g, q[2], q[3])
<1> DEFINE n == q[2]
           d == q[3]
           e == Expression[n]
<1>1. n \in DOMAIN Expression
  BY DEF Queries
<1>2. \A m \in DOMAIN Expression : f[<<"value", m, d + 1, {}>>] = g[<<"value", m, d + 1, {}>>]
  BY QueriesDeeper
<1>3. \A m \in Parts(e) : f[<<"value", m, d + 1, {}>>] = g[<<"value", m, d + 1, {}>>]
  BY <1>1, <1>2, DocumentAssumption
<1>4. \A c : Called(f, c, d, {}) = Called(g, c, d, {})
  BY QueriesDeeper DEF Called
<1>5. f[<<"verdict", n, d + 1, {}>>] = g[<<"verdict", n, d + 1, {}>>]
  BY <1>1, QueriesDeeper
<1>6. \A m \in Parts(e) : IsValue(f[<<"value", m, d + 1, {}>>])
  <2>1. \A m \in DOMAIN Expression : <<"value", m, d + 1, {}>> \in Deeper(q)
    BY QueriesDeeper
  <2>2. Parts(e) \subseteq DOMAIN Expression
    BY <1>1, DocumentAssumption
  <2> QED  BY <2>1, <2>2 DEF Valued
<1> HIDE DEF n, d
<1>7. CASE e.op \in {"text", "list", "ref", "attribute"}
  BY <1>7 DEF ValueOf, n, d
<1>8. CASE e.op \in {"map", "sub"}
  <2>1. \A i \in DOMAIN e.of : e.of[i] \in Parts(e)
    BY <1>8 DEF Parts, Range
  <2>2. e.op = "map" => DOMAIN e.of = 1 .. 3
    BY <1>1, DocumentAssumption
  <2>3. [i \in DOMAIN e.of |-> f[<<"value", e.of[i], d + 1, {}>>]]
        = [i \in DOMAIN e.of |-> g[<<"value", e.of[i], d + 1, {}>>]]
    BY <1>3, <2>1
  <2> QED  BY <1>8, <2>2, <2>3 DEF ValueOf, n, d
<1>9. CASE e.op = "if"
  <2>1. e.yes \in Parts(e) /\ e.no \in Parts(e)
    BY <1>9 DEF Parts
  <2> QED  BY <1>3, <1>4, <1>9, <2>1 DEF ValueOf, n, d
<1>10. CASE e.op = "join"
  <2>1. e.of \in Parts(e)
    BY <1>10 DEF Parts
  <2>2. PICK parts : parts = f[<<"value", e.of, d + 1, {}>>] /\ parts = g[<<"value", e.of, d + 1, {}>>]
    BY <1>3, <2>1
  <2>3. CASE parts.state # "list"
    BY <1>10, <2>2, <2>3 DEF ValueOf, n, d
  <2>4. CASE parts.state = "list"
    <3>1. \A i \in DOMAIN parts.items : Settled(f, parts.items[i], d) = Settled(g, parts.items[i], d)
      BY <1>2, <1>6, <2>1, <2>2, <2>4 DEF IsValue, IsItem, IsText, Settled
    <3>2. [i \in DOMAIN parts.items |-> Settled(f, parts.items[i], d)]
          = [i \in DOMAIN parts.items |-> Settled(g, parts.items[i], d)]
      BY <3>1
    <3> QED  BY <1>10, <2>2, <3>2 DEF ValueOf, n, d
  <2> QED  BY <2>3, <2>4
<1>11. CASE e.op \in {"select", "split"}
  <2>1. e.of \in Parts(e) /\ (e.op = "select" => e.index \in Parts(e))
    BY <1>11 DEF Parts
  <2> QED  BY <1>3, <1>11, <2>1 DEF ValueOf, n, d
<1>12. CASE e.op \in {"condition", "equals", "not", "and", "or"}
  BY <1>4, <1>5, <1>12 DEF ValueOf, n, d
<1>13. CASE e.op \notin {"text", "list", "ref", "attribute", "map", "sub", "if", "join", "select", "split",
                        "condition", "equals", "not", "and", "or"}
  BY <1>13 DEF ValueOf, n, d
<1> QED  BY <1>7, <1>8, <1>9, <1>10, <1>11, <1>12, <1>13

LEMMA WrittenIsValue ==
  ASSUME NEW n \in DOMAIN Expression
  PROVE  IsValue(Written(n))
<1> DEFINE e == Expression[n]
<1>1. CASE e.op = "list"
  <2>1. \A i \in DOMAIN e.of : e.of[i] \in DOMAIN Expression
    BY <1>1, DocumentAssumption DEF Parts, Range
  <2>2. Written(n) = List([i \in DOMAIN e.of |-> Raw(e.of[i])])
    BY <1>1 DEF Written
  <2> QED  BY <2>1, <2>2 DEF IsValue, IsItem, List, Raw
<1>2. CASE e.op # "list"
  BY <1>2 DEF Written, IsValue, Text, Raw
<1> QED  BY <1>1, <1>2

(* Only what is written as a list, or split, is a list.                    *)
LEMMA ValueIsValue ==
  ASSUME NEW q \in Queries, NEW given, NEW f, Valued(f, Deeper(q))
  PROVE  IsValue(ValueOf(given, f, q[2], q[3]))
<1> DEFINE n == q[2]
           d == q[3]
           e == Expression[n]
<1>0. PICK v : v = ValueOf(given, f, n, d)
  OBVIOUS
<1>1. n \in DOMAIN Expression
  BY DEF Queries
<1>2. \A m \in Parts(e) : IsValue(f[<<"value", m, d + 1, {}>>])
  <2>1. \A m \in DOMAIN Expression : <<"value", m, d + 1, {}>> \in Deeper(q)
    BY QueriesDeeper
  <2>2. Parts(e) \subseteq DOMAIN Expression
    BY <1>1, DocumentAssumption
  <2> QED  BY <2>1, <2>2 DEF Valued
<1>3. \A x : x.state # "list" => IsValue(x)
  BY DEF IsValue
<1>4. \A c : Unknown(c).state # "list" /\ Text(c).state # "list" /\ Reference(c).state # "list"
  BY DEF Unknown, Text, Reference
<1>5. \A x, c : Ref(x, c).state # "list" /\ Joined(x, c).state # "list" /\ VerdictText(c).state # "list"
  BY DEF Ref, Joined, VerdictText, Unknown, Text, Reference, Omitted
<1> SUFFICES IsValue(v)
  BY <1>0
<1> HIDE DEF n, d
<1>6. CASE d > MaxDepth
  <2>1. v.state # "list"
    BY <1>0, <1>4, <1>6 DEF ValueOf
  <2> QED  BY <1>3, <2>1
<1>7. CASE ~(d > MaxDepth) /\ e.op \in {"text", "list"}
  BY <1>0, <1>1, <1>7, WrittenIsValue DEF ValueOf
<1>8. CASE ~(d > MaxDepth) /\ e.op \in {"ref", "attribute", "sub", "condition", "equals", "not", "and", "or"}
  <2>1. v.state # "list"
    BY <1>0, <1>4, <1>5, <1>8 DEF ValueOf
  <2> QED  BY <1>3, <2>1
<1>9. CASE ~(d > MaxDepth) /\ e.op = "map"
  <2>1. \A p \in DOMAIN Mappings : Mappings[p] \in DOMAIN Expression
    BY DocumentAssumption DEF Range
  <2>2. v.state # "list" \/ \E p \in DOMAIN Mappings : v = Written(Mappings[p])
    BY <1>0, <1>4, <1>9 DEF ValueOf
  <2> QED  BY <1>3, <2>1, <2>2, WrittenIsValue
<1>10. CASE ~(d > MaxDepth) /\ e.op = "if"
  <2>1. e.yes \in Parts(e) /\ e.no \in Parts(e)
    BY <1>10 DEF Parts
  <2>2. \/ v.state # "list" \/ v = f[<<"value", e.yes, d + 1, {}>>] \/ v = f[<<"value", e.no, d + 1, {}>>]
    BY <1>0, <1>4, <1>10 DEF ValueOf
  <2> QED  BY <1>2, <1>3, <2>1, <2>2
<1>11. CASE ~(d > MaxDepth) /\ e.op = "join"
  <2>1. v.state # "list"
    BY <1>0, <1>4, <1>5, <1>11 DEF ValueOf
  <2> QED  BY <1>3, <2>1
<1>12. CASE ~(d > MaxDepth) /\ e.op = "select"
  <2>1. IsValue(f[<<"value", e.of, d + 1, {}>>])
    BY <1>2, <1>12 DEF Parts
  <2>2. PICK list, p : list = f[<<"value", e.of, d + 1, {}>>]
                       /\ (v = Unknown({}) \/ v = Item(list, p))
    BY <1>0, <1>12 DEF ValueOf
  <2>3. CASE v # Unknown({})
    <3>1. PICK i \in DOMAIN ItemsOf(list) :
            v = IF ItemsOf(list)[i].state = "raw" THEN Written(ItemsOf(list)[i].node)
                ELSE ItemsOf(list)[i]
      BY <2>2, <2>3 DEF Item
    <3>2. IsItem(ItemsOf(list)[i])
      <4>1. CASE list.state = "list"
        BY <2>1, <2>2, <3>1, <4>1 DEF ItemsOf, IsValue
      <4>2. CASE list.state = "text"
        BY <3>1, <4>2 DEF ItemsOf, IsItem, IsText, Text
      <4>3. CASE list.state \notin {"list", "text"}
        BY <3>1, <4>3 DEF ItemsOf
      <4> QED  BY <4>1, <4>2, <4>3
    <3>3. CASE IsText(ItemsOf(list)[i])
      <4>1. v.state # "list"
        BY <3>1, <3>3 DEF IsText
      <4> QED  BY <1>3, <4>1
    <3>4. CASE ItemsOf(list)[i].state = "raw" /\ ItemsOf(list)[i].node \in DOMAIN Expression
      BY <3>1, <3>4, WrittenIsValue
    <3> QED  BY <3>2, <3>3, <3>4 DEF IsItem
  <2>4. CASE v = Unknown({})
    <3>1. v.state # "list"
      BY <1>4, <2>4
    <3> QED  BY <1>3, <3>1
  <2> QED  BY <2>3, <2>4
<1>13. CASE ~(d > MaxDepth) /\ e.op = "split"
  <2>1. \A t : IsValue(List(SplitAt(t, e.delimiter)))
    BY DEF IsValue, IsItem, IsText, List, Text, SplitAt
  <2>2. v = Unknown({}) \/ \E t : v = List(SplitAt(t, e.delimiter))
    BY <1>0, <1>13 DEF ValueOf
  <2>3. CASE v = Unknown({})
    <3>1. v.state # "list"
      BY <1>4, <2>3
    <3> QED  BY <1>3, <3>1
  <2> QED  BY <2>1, <2>2, <2>3
<1>14. CASE ~(d > MaxDepth)
            /\ e.op \notin {"text", "list", "ref", "attribute", "map", "sub", "if", "join", "select", "split",
                            "condition", "equals", "not", "and", "or"}
  <2>1. v.state # "list"
    BY <1>0, <1>4, <1>14 DEF ValueOf
  <2> QED  BY <1>3, <2>1
<1> QED  BY <1>6, <1>7, <1>8, <1>9, <1>10, <1>11, <1>12, <1>13, <1>14

LEMMA AnswerAgrees ==
  ASSUME NEW q \in Queries, NEW given, NEW f, NEW g, \A r \in Deeper(q) : f[r] = g[r],
         Valued(f, Deeper(q))
  PROVE  Answer(given, f, q) = Answer(given, g, q)
BY VerdictAgrees, ValueAgrees DEF Answer

(* Resolution, down to where k levels are left.                            *)
Resolved(given, f, k) ==
  \A q \in Queries : q[3] + k > MaxDepth =>
    f[q] = Answer(given, f, q) /\ (q[1] = "value" => IsValue(f[q]))

LEMMA DeepestResolved ==
  ASSUME NEW given
  PROVE  \E f : Resolved(given, f, 0)
<1> DEFINE f == [q \in Queries |-> IF q[1] = "verdict" THEN "unknown" ELSE Unknown({})]
<1>0. \A q \in Queries : q[3] + 0 = q[3]
  BY DEF Queries
<1> SUFFICES ASSUME NEW q \in Queries, q[3] > MaxDepth
             PROVE  f[q] = Answer(given, f, q) /\ (q[1] = "value" => IsValue(f[q]))
  BY <1>0 DEF Resolved
<1>1. f[q] = IF q[1] = "verdict" THEN "unknown" ELSE Unknown({})
  OBVIOUS
<1> HIDE DEF f
<1>2. f[q] = Answer(given, f, q)
  BY <1>1 DEF Answer, VerdictOf, ValueOf
<1>3. q[1] = "value" => f[q].state = "unknown"
  BY <1>1 DEF Unknown
<1> QED  BY <1>2, <1>3 DEF IsValue

LEMMA NextResolved ==
  ASSUME NEW given, NEW k \in Nat, NEW f, Resolved(given, f, k)
  PROVE  \E h : Resolved(given, h, k + 1)
<1> DEFINE h == [q \in Queries |-> IF q[3] + k > MaxDepth THEN f[q] ELSE Answer(given, f, q)]
<1>1. ASSUME NEW q \in Queries, q[3] + (k + 1) > MaxDepth
      PROVE  h[q] = Answer(given, h, q) /\ (q[1] = "value" => IsValue(h[q]))
  <2>1. q[3] \in Nat /\ q[1] \in {"value", "verdict"}
    BY DEF Queries
  <2>2. \A r \in Deeper(q) : r \in Queries /\ r[3] + k > MaxDepth
    <3>1. \A r \in Queries : r[3] \in Nat
      BY DEF Queries
    <3> QED  BY <1>1, <2>1, <3>1 DEF Deeper, MaxDepth
  <2>3. \A r \in Deeper(q) : f[r] = h[r]
    BY <2>2
  <2>4. Valued(f, Deeper(q))
    BY <2>2 DEF Resolved, Valued
  <2>5. h[q] = IF q[3] + k > MaxDepth THEN f[q] ELSE Answer(given, f, q)
    OBVIOUS
  <2> HIDE DEF h
  <2>6. Answer(given, f, q) = Answer(given, h, q)
    BY <2>3, <2>4, AnswerAgrees
  <2>7. h[q] = Answer(given, f, q)
    BY <2>5 DEF Resolved
  <2>8. q[1] = "value" => Answer(given, f, q) = ValueOf(given, f, q[2], q[3])
    BY DEF Answer
  <2>9. IsValue(ValueOf(given, f, q[2], q[3]))
    BY <2>4, ValueIsValue
  <2> QED  BY <2>6, <2>7, <2>8, <2>9
<1> HIDE DEF h
<1>2. Resolved(given, h, k + 1)
  BY <1>1 DEF Resolved
<1> QED  BY <1>2

(* What is resolved throughout, is so at each level.                       *)
LEMMA ResolvedStaysSo ==
  ASSUME NEW given, NEW at, at = [q \in Queries |-> Answer(given, at, q)]
  PROVE  Resolved(given, at, MaxDepth + 1)
<1> DEFINE S == {k \in Nat : Resolved(given, at, k)}
<1>0. \A q \in Queries : at[q] = Answer(given, at, q) /\ q[3] \in Nat /\ q[1] \in {"value", "verdict"}
  BY DEF Queries
<1>1. 0 \in S
  <2> SUFFICES ASSUME NEW q \in Queries, q[3] > MaxDepth, q[1] = "value" PROVE IsValue(at[q])
    BY <1>0 DEF Resolved
  <2>1. at[q] = Unknown({})
    BY <1>0 DEF Answer, ValueOf
  <2>2. at[q].state # "list"
    BY <2>1 DEF Unknown
  <2> QED  BY <2>2 DEF IsValue
<1>2. ASSUME NEW k \in Nat, k \in S PROVE k + 1 \in S
  <2> SUFFICES ASSUME NEW q \in Queries, q[3] + (k + 1) > MaxDepth, q[1] = "value"
               PROVE  IsValue(at[q])
    BY <1>0 DEF Resolved
  <2>1. \A r \in Deeper(q) : r \in Queries /\ r[3] + k > MaxDepth
    BY <1>0 DEF Deeper, MaxDepth
  <2>2. Valued(at, Deeper(q))
    BY <1>2, <2>1 DEF Resolved, Valued
  <2>3. at[q] = ValueOf(given, at, q[2], q[3])
    BY <1>0 DEF Answer
  <2> QED  BY <2>2, <2>3, ValueIsValue
<1> HIDE DEF S
<1>3. MaxDepth + 1 \in Nat
  BY DEF MaxDepth
<1>4. MaxDepth + 1 \in S
  BY <1>1, <1>2, <1>3, CountedUp
<1> QED  BY <1>4 DEF S

(* A document can be resolved: the limit on the depth ends every descent.  *)
LEMMA DocumentsResolve ==
  ASSUME NEW given
  PROVE  Resolved(given, Resolution(given), MaxDepth + 1)
<1> DEFINE S == {k \in Nat : \E f : Resolved(given, f, k)}
<1>1. 0 \in S
  BY DeepestResolved
<1>2. \A k \in 0 .. MaxDepth + 1 : k \in S => k + 1 \in S
  BY NextResolved
<1>3. MaxDepth + 1 \in Nat
  BY DEF MaxDepth
<1> HIDE DEF S
<1>4. MaxDepth + 1 \in S
  BY <1>1, <1>2, <1>3, CountedUp
<1>5. PICK f : Resolved(given, f, MaxDepth + 1)
  BY <1>4 DEF S
<1> DEFINE g == [q \in Queries |-> f[q]]
<1>6. \A q \in Queries : q[3] \in Nat
  BY DEF Queries
<1>7. ASSUME NEW q \in Queries
      PROVE  /\ g[q] = f[q] /\ f[q] = Answer(given, f, q)
             /\ Answer(given, f, q) = Answer(given, g, q)
  <2>1. \A r \in Queries : f[r] = Answer(given, f, r) /\ (r[1] = "value" => IsValue(f[r]))
    BY <1>5, <1>6 DEF Resolved, MaxDepth
  <2>2. \A r \in Deeper(q) : f[r] = g[r]
    BY DEF Deeper
  <2>3. Valued(f, Deeper(q))
    BY <2>1 DEF Valued, Deeper
  <2>4. g[q] = f[q]
    OBVIOUS
  <2> HIDE DEF g
  <2>5. Answer(given, f, q) = Answer(given, g, q)
    BY <2>2, <2>3, AnswerAgrees
  <2> QED  BY <2>1, <2>4, <2>5
<1>8. g = [q \in Queries |-> Answer(given, g, q)]
  <2>1. \A q \in Queries : f[q] = Answer(given, g, q)
    <3> HIDE DEF g
    <3> QED  BY <1>7
  <2>2. g = [q \in Queries |-> f[q]]
    OBVIOUS
  <2> HIDE DEF g
  <2> QED  BY <2>1, <2>2
<1> HIDE DEF g
<1>9. PICK at : at = Resolution(given)
  OBVIOUS
<1>10. at = [q \in Queries |-> Answer(given, at, q)]
  <2>1. at = CHOOSE x : x = [q \in Queries |-> Answer(given, x, q)]
    BY <1>9 DEF Resolution
  <2> QED  BY <1>8, <2>1
<1> HIDE DEF g
<1> QED  BY <1>9, <1>10, ResolvedStaysSo

-----------------------------------------------------------------------------
(* More parameters.                                                        *)

(* The parameters that are given stay as they are.                         *)
Extended(given, later) ==
  \A p \in Parameters \cap DOMAIN given : p \in DOMAIN later /\ later[p] = given[p]

(* What is known of a query.                                               *)
IsKnown(q, v) == IF q[1] = "verdict" THEN v # "unknown" ELSE v.state # "unknown"

(* All that f knows of D, g knows.                                         *)
Keeps(f, g, D) == \A q \in D : IsKnown(q, f[q]) => g[q] = f[q]

LEMMA KeptBelow ==
  ASSUME NEW q \in Queries, NEW f, NEW g, Keeps(f, g, Deeper(q))
  PROVE  /\ \A m \in DOMAIN Expression :
              f[<<"value", m, q[3] + 1, {}>>].state # "unknown" =>
                g[<<"value", m, q[3] + 1, {}>>] = f[<<"value", m, q[3] + 1, {}>>]
         /\ \A m \in DOMAIN Expression, seen \in {{}, q[4]} :
              f[<<"verdict", m, q[3] + 1, seen>>] # "unknown" =>
                g[<<"verdict", m, q[3] + 1, seen>>] = f[<<"verdict", m, q[3] + 1, seen>>]
         /\ \A c : \A seen \in {{}, q[4]} :
              Called(f, c, q[3], seen) # "unknown" =>
                Called(g, c, q[3], seen) = Called(f, c, q[3], seen)
<1>1. \A r \in Deeper(q) : IsKnown(r, f[r]) => g[r] = f[r]
  BY DEF Keeps
<1>2. ASSUME NEW m \in DOMAIN Expression, f[<<"value", m, q[3] + 1, {}>>].state # "unknown"
      PROVE  g[<<"value", m, q[3] + 1, {}>>] = f[<<"value", m, q[3] + 1, {}>>]
  <2>1. PICK r : r = <<"value", m, q[3] + 1, {}>>
    OBVIOUS
  <2>2. r \in Deeper(q) /\ IsKnown(r, f[r])
    BY <1>2, <2>1, QueriesDeeper DEF IsKnown
  <2> QED  BY <1>1, <2>1, <2>2
<1>3. ASSUME NEW r \in Deeper(q), r[1] = "verdict", f[r] # "unknown" PROVE g[r] = f[r]
  BY <1>1, <1>3 DEF IsKnown
<1>4. ASSUME NEW m \in DOMAIN Expression, NEW seen \in {{}, q[4]},
             f[<<"verdict", m, q[3] + 1, seen>>] # "unknown"
      PROVE  g[<<"verdict", m, q[3] + 1, seen>>] = f[<<"verdict", m, q[3] + 1, seen>>]
  <2>1. <<"verdict", m, q[3] + 1, seen>> \in Deeper(q)
    BY QueriesDeeper
  <2> QED  BY <1>3, <1>4, <2>1
<1>5. ASSUME NEW c, NEW seen \in {{}, q[4]}, Called(f, c, q[3], seen) # "unknown"
      PROVE  Called(g, c, q[3], seen) = Called(f, c, q[3], seen)
  <2>1. c \notin seen /\ c \in DOMAIN Conditions
    BY <1>5 DEF Called
  <2>2. <<"verdict", Conditions[c], q[3] + 2, seen \cup {c}>> \in Deeper(q)
    BY <2>1, QueriesDeeper
  <2> QED  BY <1>3, <1>5, <2>1, <2>2 DEF Called
<1> QED  BY <1>2, <1>4, <1>5

(* More known of the operands: the verdict stays, if there was one.        *)
LEMMA CombinedVerdicts ==
  ASSUME NEW V, NEW W, "true" \in V => "true" \in W, "false" \in V => "false" \in W,
         "unknown" \notin V => W = V
  PROVE  /\ Conjunction(V) # "unknown" => Conjunction(W) = Conjunction(V)
         /\ Disjunction(V) # "unknown" => Disjunction(W) = Disjunction(V)
BY DEF Conjunction, Disjunction

(* A verdict stays if what is deeper does: one operand may have settled it, *)
(* and that one stays.                                                     *)
LEMMA VerdictIsKept ==
  ASSUME NEW q \in Queries, NEW f, NEW g, Keeps(f, g, Deeper(q)),
         VerdictOf(f, q[2], q[3], q[4]) # "unknown"
  PROVE  VerdictOf(g, q[2], q[3], q[4]) = VerdictOf(f, q[2], q[3], q[4])
<1> DEFINE n == q[2]
           e == Expression[n]
           old(m) == f[<<"verdict", m, q[3] + 1, q[4]>>]
           new(m) == g[<<"verdict", m, q[3] + 1, q[4]>>]
<1>1. n \in DOMAIN Expression /\ Parts(e) \subseteq DOMAIN Expression
  BY DocumentAssumption DEF Queries
<1>2. \A m \in Parts(e) : old(m) # "unknown" => new(m) = old(m)
  <2>1. \A m \in DOMAIN Expression : old(m) # "unknown" => new(m) = old(m)
    BY KeptBelow
  <2> QED  BY <1>1, <2>1
<1>3. \A m \in Parts(e) :
        f[<<"value", m, q[3] + 1, {}>>].state # "unknown" =>
          g[<<"value", m, q[3] + 1, {}>>] = f[<<"value", m, q[3] + 1, {}>>]
  BY <1>1, KeptBelow
<1>4. \A c : Called(f, c, q[3], q[4]) # "unknown" => Called(g, c, q[3], q[4]) = Called(f, c, q[3], q[4])
  BY KeptBelow
<1> HIDE DEF n
<1>5. ~(q[3] > MaxDepth)
  BY DEF VerdictOf
<1>6. CASE e.op = "condition"
  BY <1>4, <1>5, <1>6 DEF VerdictOf, n
<1>7. CASE e.op = "equals"
  <2>1. e.of[1] \in Parts(e) /\ e.of[2] \in Parts(e)
    BY <1>1, <1>7, DocumentAssumption DEF Parts, Range
  <2>2. PICK l, r : l = f[<<"value", e.of[1], q[3] + 1, {}>>] /\ r = f[<<"value", e.of[2], q[3] + 1, {}>>]
    OBVIOUS
  <2>3. l.state # "unknown" /\ r.state # "unknown"
    BY <1>5, <1>7, <2>2 DEF VerdictOf, n
  <2>4. l = g[<<"value", e.of[1], q[3] + 1, {}>>] /\ r = g[<<"value", e.of[2], q[3] + 1, {}>>]
    BY <1>3, <2>1, <2>2, <2>3
  <2> QED  BY <1>7, <2>2, <2>4 DEF VerdictOf, n
<1>8. CASE e.op = "not"
  <2>1. e.of[1] \in Parts(e)
    BY <1>1, <1>8, DocumentAssumption DEF Parts, Range
  <2>2. old(e.of[1]) # "unknown"
    BY <1>5, <1>8 DEF VerdictOf, Negation, n
  <2> QED  BY <1>2, <1>8, <2>1, <2>2 DEF VerdictOf, n
<1>9. CASE e.op \in {"and", "or"}
  <2>1. Parts(e) = Range(e.of)
    BY <1>9 DEF Parts
  <2> DEFINE V == {old(m) : m \in Range(e.of)}
             W == {new(m) : m \in Range(e.of)}
  <2>2. "true" \in V => "true" \in W
    BY <1>2, <2>1
  <2>3. "false" \in V => "false" \in W
    BY <1>2, <2>1
  <2>4. "unknown" \notin V => W = V
    BY <1>2, <2>1
  <2>5. /\ e.op = "and" => /\ VerdictOf(f, q[2], q[3], q[4]) = Conjunction(V)
                           /\ VerdictOf(g, q[2], q[3], q[4]) = Conjunction(W)
        /\ e.op = "or" => /\ VerdictOf(f, q[2], q[3], q[4]) = Disjunction(V)
                          /\ VerdictOf(g, q[2], q[3], q[4]) = Disjunction(W)
    BY <1>5 DEF VerdictOf, n
  <2> HIDE DEF V, W
  <2> QED  BY <1>9, <2>2, <2>3, <2>4, <2>5, CombinedVerdicts
<1>10. e.op \in {"condition", "equals", "not", "and", "or"}
  BY <1>5 DEF VerdictOf, n
<1> QED  BY <1>6, <1>7, <1>8, <1>9, <1>10

(* A value stays if what is deeper does.                                   *)
LEMMA ValueIsKept ==
  ASSUME NEW q \in Queries, NEW given, NEW later, Extended(given, later),
         NEW f, NEW g, Keeps(f, g, Deeper(q)), Valued(f, Deeper(q)),
         ValueOf(given, f, q[2], q[3]).state # "unknown"
  PROVE  ValueOf(later, g, q[2], q[3]) = ValueOf(given, f, q[2], q[3])
<1> DEFINE n == q[2]
           d == q[3]
           e == Expression[n]
           old(m) == f[<<"value", m, d + 1, {}>>]
           new(m) == g[<<"value", m, d + 1, {}>>]
<1>1. n \in DOMAIN Expression /\ Parts(e) \subseteq DOMAIN Expression
  BY DocumentAssumption DEF Queries
<1>2. \A m \in DOMAIN Expression : old(m).state # "unknown" => new(m) = old(m)
  BY KeptBelow
<1>3. \A m \in Parts(e) : old(m).state # "unknown" => new(m) = old(m)
  BY <1>1, <1>2
<1>4. \A c : Called(f, c, d, {}) # "unknown" => Called(g, c, d, {}) = Called(f, c, d, {})
  BY KeptBelow
<1>5. f[<<"verdict", n, d + 1, {}>>] # "unknown" =>
        g[<<"verdict", n, d + 1, {}>>] = f[<<"verdict", n, d + 1, {}>>]
  BY <1>1, KeptBelow
<1>6. \A m \in Parts(e) : IsValue(old(m))
  <2>1. \A m \in DOMAIN Expression : <<"value", m, d + 1, {}>> \in Deeper(q)
    BY QueriesDeeper
  <2> QED  BY <1>1, <2>1 DEF Valued
<1>7. \A c : Unknown(c).state = "unknown"
  BY DEF Unknown
<1>8. \A v : IsText(v) => v.state # "unknown"
  BY DEF IsText
<1>9. \A pieces, c : Joined(pieces, c).state # "unknown" => \A i \in DOMAIN pieces : IsText(pieces[i])
  BY <1>7 DEF Joined
<1>10. \A v : VerdictText(v).state # "unknown" => v # "unknown"
  BY <1>7 DEF VerdictText
<1> HIDE DEF n, d
<1>11. ~(d > MaxDepth) /\ ValueOf(given, f, n, d).state # "unknown"
  BY <1>7 DEF ValueOf, n, d
<1> SUFFICES ValueOf(later, g, n, d) = ValueOf(given, f, n, d)
  BY DEF n, d
<1>12. CASE e.op \in {"text", "list", "attribute"}
  BY <1>11, <1>12 DEF ValueOf
<1>13. CASE e.op = "ref"
  <2>1. Ref(given, e.name).state # "unknown"
    BY <1>11, <1>13 DEF ValueOf
  <2>2. Ref(later, e.name) = Ref(given, e.name)
    BY <1>7, <2>1 DEF Ref, Extended
  <2> QED  BY <1>11, <1>13, <2>2 DEF ValueOf
<1>14. CASE e.op = "map"
  <2>1. \A i \in 1 .. 3 : IsText(old(e.of[i]))
    BY <1>7, <1>11, <1>14 DEF ValueOf
  <2>2. \A i \in 1 .. 3 : e.of[i] \in Parts(e)
    BY <1>1, <1>14, DocumentAssumption DEF Parts, Range
  <2>3. \A i \in 1 .. 3 : new(e.of[i]) = old(e.of[i])
    BY <1>3, <1>8, <2>1, <2>2
  <2>4. [i \in 1 .. 3 |-> new(e.of[i])] = [i \in 1 .. 3 |-> old(e.of[i])]
    BY <2>3
  <2> QED  BY <1>11, <1>14, <2>4 DEF ValueOf
<1>15. CASE e.op = "if"
  <2>1. e.yes \in Parts(e) /\ e.no \in Parts(e)
    BY <1>15 DEF Parts
  <2>2. PICK met : met = Called(f, e.condition, d, {})
    OBVIOUS
  <2>3. met \in {"true", "false"}
    BY <1>7, <1>11, <1>15, <2>2 DEF ValueOf
  <2>4. met = Called(g, e.condition, d, {})
    BY <1>4, <2>2, <2>3
  <2>5. CASE met = "true"
    BY <1>3, <1>11, <1>15, <2>1, <2>2, <2>4, <2>5 DEF ValueOf
  <2>6. CASE met = "false"
    BY <1>3, <1>11, <1>15, <2>1, <2>2, <2>4, <2>6 DEF ValueOf
  <2> QED  BY <2>3, <2>5, <2>6
<1>16. CASE e.op = "join"
  <2>1. e.of \in Parts(e)
    BY <1>16 DEF Parts
  <2>2. PICK parts : parts = old(e.of)
    OBVIOUS
  <2>3. parts.state = "list"
    BY <1>7, <1>11, <1>16, <2>2 DEF ValueOf
  <2>4. parts = new(e.of)
    BY <1>3, <2>1, <2>2, <2>3
  <2> DEFINE before == [i \in DOMAIN parts.items |-> Settled(f, parts.items[i], d)]
             after == [i \in DOMAIN parts.items |-> Settled(g, parts.items[i], d)]
  <2>5. ValueOf(given, f, n, d) = Joined(before, e.delimiter)
    BY <1>11, <1>16, <2>2, <2>3 DEF ValueOf
  <2>6. ValueOf(later, g, n, d) = Joined(after, e.delimiter)
    BY <1>11, <1>16, <2>3, <2>4 DEF ValueOf
  <2>7. \A i \in DOMAIN parts.items : IsText(Settled(f, parts.items[i], d))
    <3> HIDE DEF before
    <3>1. \A i \in DOMAIN before : IsText(before[i])
      BY <1>9, <1>11, <2>5
    <3> QED  BY <3>1 DEF before
  <2>8. \A i \in DOMAIN parts.items : IsItem(parts.items[i])
    BY <1>6, <2>1, <2>2, <2>3 DEF IsValue
  <2>9. \A i \in DOMAIN parts.items : Settled(g, parts.items[i], d) = Settled(f, parts.items[i], d)
    BY <1>2, <2>7, <2>8 DEF Settled, IsItem, IsText
  <2>10. after = before
    BY <2>9
  <2> QED  BY <2>5, <2>6, <2>10
<1>17. CASE e.op = "sub"
  <2>1. \A i \in DOMAIN e.of : e.of[i] \in Parts(e)
    BY <1>17 DEF Parts, Range
  <2> DEFINE before == [i \in DOMAIN e.of |-> old(e.of[i])]
             after == [i \in DOMAIN e.of |-> new(e.of[i])]
  <2>2. ValueOf(given, f, n, d) = Joined(before, None) /\ ValueOf(later, g, n, d) = Joined(after, None)
    BY <1>11, <1>17 DEF ValueOf
  <2>3. \A i \in DOMAIN e.of : IsText(old(e.of[i]))
    <3> HIDE DEF before
    <3>1. \A i \in DOMAIN before : IsText(before[i])
      BY <1>9, <1>11, <2>2
    <3> QED  BY <3>1 DEF before
  <2>4. after = before
    BY <1>3, <1>8, <2>1, <2>3
  <2> QED  BY <2>2, <2>4
<1>18. CASE e.op = "select"
  <2>1. e.of \in Parts(e) /\ e.index \in Parts(e)
    BY <1>18 DEF Parts
  <2>2. PICK index, items : index = old(e.index) /\ items = old(e.of)
    OBVIOUS
  <2>3. IsText(index) /\ Item(items, Position(index.text)).state # "unknown"
    BY <1>7, <1>11, <1>18, <2>2 DEF ValueOf
  <2>4. items.state # "unknown"
    <3> SUFFICES ASSUME items.state = "unknown" PROVE FALSE
      OBVIOUS
    <3>1. PICK empty : empty = <<>> /\ ItemsOf(items) = empty
      BY DEF ItemsOf
    <3>2. DOMAIN empty = {}
      BY <3>1
    <3>3. Item(items, Position(index.text)) = Unknown({})
      BY <3>1, <3>2 DEF Item
    <3> QED  BY <1>7, <2>3, <3>3
  <2>5. index = new(e.index) /\ items = new(e.of)
    BY <1>3, <1>8, <2>1, <2>2, <2>3, <2>4
  <2> QED  BY <1>11, <1>18, <2>2, <2>5 DEF ValueOf
<1>19. CASE e.op = "split"
  <2>1. e.of \in Parts(e)
    BY <1>19 DEF Parts
  <2>2. IsText(old(e.of))
    BY <1>7, <1>11, <1>19 DEF ValueOf
  <2> QED  BY <1>3, <1>8, <1>11, <1>19, <2>1, <2>2 DEF ValueOf
<1>20. CASE e.op = "condition"
  <2>1. ValueOf(given, f, n, d) = VerdictText(Called(f, e.name, d, {}))
        /\ ValueOf(later, g, n, d) = VerdictText(Called(g, e.name, d, {}))
    BY <1>11, <1>20 DEF ValueOf
  <2> QED  BY <1>4, <1>10, <1>11, <2>1
<1>21. CASE e.op \in {"equals", "not", "and", "or"}
  <2>1. ValueOf(given, f, n, d) = VerdictText(f[<<"verdict", n, d + 1, {}>>])
        /\ ValueOf(later, g, n, d) = VerdictText(g[<<"verdict", n, d + 1, {}>>])
    BY <1>11, <1>21 DEF ValueOf
  <2> QED  BY <1>5, <1>10, <1>11, <2>1
<1>22. e.op \in {"text", "list", "attribute", "ref", "map", "if", "join", "sub", "select", "split",
                 "condition", "equals", "not", "and", "or"}
  BY <1>7, <1>11 DEF ValueOf
<1> QED  BY <1>12, <1>13, <1>14, <1>15, <1>16, <1>17, <1>18, <1>19, <1>20, <1>21, <1>22

(* With more parameters, whatever was known at a level stays known there.  *)
LEMMA AnswersAreKept ==
  ASSUME NEW given, NEW later, Extended(given, later)
  PROVE  Keeps(Resolution(given), Resolution(later), Queries)
<1>1. PICK f, g : f = Resolution(given) /\ g = Resolution(later)
  OBVIOUS
<1>2. \A q \in Queries : q[3] \in Nat /\ q[1] \in {"value", "verdict"}
  BY DEF Queries
<1>3. \A q \in Queries :
        /\ f[q] = Answer(given, f, q) /\ g[q] = Answer(later, g, q)
        /\ q[1] = "value" => IsValue(f[q])
  BY <1>1, <1>2, DocumentsResolve DEF Resolved, MaxDepth
<1> DEFINE S == {k \in Nat : \A q \in Queries : q[3] + k > MaxDepth /\ IsKnown(q, f[q]) => g[q] = f[q]}
<1>4. 0 \in S
  <2> SUFFICES ASSUME NEW q \in Queries, q[3] > MaxDepth PROVE ~IsKnown(q, f[q])
    BY <1>2
  <2>1. f[q] = IF q[1] = "verdict" THEN "unknown" ELSE Unknown({})
    BY <1>3 DEF Answer, VerdictOf, ValueOf
  <2> QED  BY <2>1 DEF IsKnown, Unknown
<1>5. ASSUME NEW k \in Nat, k \in S PROVE k + 1 \in S
  <2> SUFFICES ASSUME NEW q \in Queries, q[3] + (k + 1) > MaxDepth, IsKnown(q, f[q])
               PROVE  g[q] = f[q]
    OBVIOUS
  <2>1. \A r \in Deeper(q) : r \in Queries /\ r[3] + k > MaxDepth
    BY <1>2 DEF Deeper, MaxDepth
  <2>2. Keeps(f, g, Deeper(q))
    BY <1>5, <2>1 DEF Keeps
  <2>3. Valued(f, Deeper(q))
    BY <1>3, <2>1 DEF Valued
  <2>4. CASE q[1] = "verdict"
    <3>1. f[q] = VerdictOf(f, q[2], q[3], q[4]) /\ g[q] = VerdictOf(g, q[2], q[3], q[4])
      BY <1>3, <2>4 DEF Answer
    <3> QED  BY <2>2, <2>4, <3>1, VerdictIsKept DEF IsKnown
  <2>5. CASE q[1] = "value"
    <3>1. f[q] = ValueOf(given, f, q[2], q[3]) /\ g[q] = ValueOf(later, g, q[2], q[3])
      BY <1>3, <2>5 DEF Answer
    <3>2. ValueOf(given, f, q[2], q[3]).state # "unknown"
      BY <2>5, <3>1 DEF IsKnown
    <3> QED  BY <2>2, <2>3, <3>1, <3>2, ValueIsKept
  <2> QED  BY <1>2, <2>4, <2>5
<1> HIDE DEF S
<1>6. MaxDepth + 1 \in Nat
  BY DEF MaxDepth
<1>7. MaxDepth + 1 \in S
  BY <1>4, <1>5, <1>6, CountedUp
<1>8. \A q \in Queries : IsKnown(q, f[q]) => g[q] = f[q]
  BY <1>2, <1>7 DEF S, MaxDepth
<1> QED  BY <1>1, <1>8 DEF Keeps

LEMMA QueriesAsked ==
  /\ \A n \in DOMAIN Expression : <<"value", n, 0, {}>> \in Queries
  /\ \A c \in DOMAIN Conditions : <<"verdict", Conditions[c], 0, {c}>> \in Queries
<1>1. \A c \in DOMAIN Conditions : Conditions[c] \in DOMAIN Expression
  BY DocumentAssumption DEF Range
<1> QED  BY <1>1 DEF Queries

LEMMA DeploymentsExtend ==
  ASSUME NEW given, NEW later \in Deployments(given)
  PROVE  Extended(given, later)
BY DEF Deployments, Extended

(* What resolves stays as it is when more parameters are given.            *)
LEMMA ValuesAreKept ==
  ASSUME NEW given, NEW later \in Deployments(given), NEW n \in DOMAIN Expression,
         Resolve(given, n).state # "unknown"
  PROVE  Resolve(later, n) = Resolve(given, n)
<1>1. PICK q : q = <<"value", n, 0, {}>>
  OBVIOUS
<1>2. q \in Queries /\ q[1] = "value"
  BY <1>1, QueriesAsked
<1>3. IsKnown(q, Resolution(given)[q])
  BY <1>1, <1>2 DEF IsKnown, Resolve
<1>4. Resolution(later)[q] = Resolution(given)[q]
  BY <1>2, <1>3, DeploymentsExtend, AnswersAreKept DEF Keeps
<1> QED  BY <1>1, <1>4 DEF Resolve

LEMMA VerdictsAreKept ==
  ASSUME NEW given, NEW later \in Deployments(given), NEW c \in DOMAIN Conditions,
         EvaluateCondition(given, c) # "unknown"
  PROVE  EvaluateCondition(later, c) = EvaluateCondition(given, c)
<1>1. PICK q : q = <<"verdict", Conditions[c], 0, {c}>>
  OBVIOUS
<1>2. q \in Queries /\ q[1] = "verdict"
  BY <1>1, QueriesAsked
<1>3. IsKnown(q, Resolution(given)[q])
  BY <1>1, <1>2 DEF IsKnown, EvaluateCondition
<1>4. Resolution(later)[q] = Resolution(given)[q]
  BY <1>2, <1>3, DeploymentsExtend, AnswersAreKept DEF Keeps
<1> QED  BY <1>1, <1>4 DEF EvaluateCondition

(* What is known of a template is final: a text or a verdict established   *)
(* while parameters are missing is the one of every deployment that        *)
(* supplies them (intrinsics.py:3).                                        *)
THEOREM KnownIsFinal == Spec => []ResolutionIsFinal
<1>1. ResolutionIsFinal
  BY ValuesAreKept, VerdictsAreKept DEF ResolutionIsFinal, IsText
<1>2. Spec => []ResolutionIsFinal
  BY <1>1, PTL
<1> QED  BY <1>2

(* What a conditional whose branches are written out resolves to.          *)
LEMMA OutcomesOfConditional ==
  ASSUME NEW given, NEW n \in Conditional, Literal(Expression[n].yes), Literal(Expression[n].no)
  PROVE  LET e == Expression[n]
             v == Resolve(given, n)
         IN  \/ v = Text(Expression[e.yes].text)
             \/ v = Text(Expression[e.no].text)
             \/ v = Unknown(Scenarios(e))
<1> DEFINE e == Expression[n]
<1>1. n \in DOMAIN Expression /\ e.op = "if"
  BY DEF Conditional
<1>2. e.yes \in DOMAIN Expression /\ e.no \in DOMAIN Expression
  BY <1>1, DocumentAssumption DEF Parts
<1>3. PICK f : f = Resolution(given)
  OBVIOUS
<1>4. \A q \in Queries : f[q] = Answer(given, f, q)
  <2>1. \A q \in Queries : q[3] + (MaxDepth + 1) > MaxDepth
    BY DEF Queries, MaxDepth
  <2> QED  BY <1>3, <2>1, DocumentsResolve DEF Resolved
<1>5. ASSUME NEW m \in DOMAIN Expression, Literal(m)
      PROVE  f[<<"value", m, 1, {}>>] = Text(Expression[m].text)
  <2>1. PICK q \in Queries : q = <<"value", m, 1, {}>>
    <3>1. <<"value", m, 1, {}>> \in Queries
      BY DEF Queries
    <3> QED  BY <3>1
  <2>2. f[q] = ValueOf(given, f, m, 1)
    BY <1>4, <2>1 DEF Answer
  <2>3. ValueOf(given, f, m, 1) = Written(m)
    BY <1>5 DEF ValueOf, Literal, MaxDepth
  <2> QED  BY <1>5, <2>1, <2>2, <2>3 DEF Written, Literal
<1>6. PICK q : q = <<"value", n, 0, {}>> /\ q \in Queries
  BY <1>1, QueriesAsked
<1>7. f[q] = ValueOf(given, f, n, 0)
  BY <1>4, <1>6 DEF Answer
<1>8. \/ f[q] = f[<<"value", e.yes, 1, {}>>]
      \/ f[q] = f[<<"value", e.no, 1, {}>>]
      \/ f[q] = Unknown(Scenarios(e))
  BY <1>1, <1>7 DEF ValueOf, MaxDepth
<1>9. Resolve(given, n) = f[q]
  BY <1>3, <1>6 DEF Resolve
<1> QED  BY <1>2, <1>5, <1>8, <1>9

(* The scenarios of an undecided Fn::If hold its outcome: if both branches *)
(* are written out, the value of every deployment is among the candidates  *)
(* the unknown carries (intrinsics.py, _if).                               *)
THEOREM OutcomesAreForeseen == Spec => []ScenariosCoverOutcome
<1>1. ScenariosCoverOutcome
  <2> SUFFICES ASSUME NEW later \in Deployments(question.given), NEW n \in Conditional,
                      Literal(Expression[n].yes), Literal(Expression[n].no),
                      Resolve(question.given, n).state = "unknown", IsText(Resolve(later, n))
               PROVE  Resolve(later, n).text \in Resolve(question.given, n).candidates
    BY DEF ScenariosCoverOutcome
  <2> DEFINE e == Expression[n]
  <2>1. PICK now, then : now = Resolve(question.given, n) /\ then = Resolve(later, n)
    OBVIOUS
  <2>2. now = Unknown(Scenarios(e))
    BY <2>1, OutcomesOfConditional DEF Text
  <2>3. then = Text(Expression[e.yes].text) \/ then = Text(Expression[e.no].text)
    BY <2>1, OutcomesOfConditional DEF Unknown, IsText
  <2>4. Expression[e.yes].text \in Scenarios(e) /\ Expression[e.no].text \in Scenarios(e)
    BY DEF Scenarios
  <2> QED  BY <2>1, <2>2, <2>3, <2>4 DEF Text, Unknown
<1>2. Spec => []ScenariosCoverOutcome
  BY <1>1, PTL
<1> QED  BY <1>2
=============================================================================
