---------------------------- MODULE GateLattice ----------------------------
(***************************************************************************)
(* The lattice of gate results (domain/enums.py, domain/decision.py): how  *)
(* the rules a change matched become one verdict, and which groups may     *)
(* approve it.  A rule is a policy, a budget threshold or a budget         *)
(* increase cap: budgets/engine.py emits the last two in the shape of the  *)
(* first, so that one lattice combines them.                               *)
(***************************************************************************)
EXTENDS Naturals

GateResults == {"PASS", "WARN", "REQUIRE_APPROVAL", "BLOCK", "ERROR"}
PolicyActions == {"WARN", "REQUIRE_APPROVAL", "BLOCK"}

ToResult(action) == action

Rank(result) ==
  CASE result = "PASS"             -> 0
    [] result = "WARN"             -> 1
    [] result = "REQUIRE_APPROVAL" -> 2
    [] result = "BLOCK"            -> 3
    [] result = "ERROR"            -> 4

(* The highest of a set of results; an empty set passes.                   *)
CombineResults(results) ==
  CHOOSE r \in results \cup {"PASS"} :
    \A s \in results \cup {"PASS"} : Rank(s) <= Rank(r)

(***************************************************************************)
(* The decision on a set of matched rules, given each rule's action and    *)
(* approver group.  Groups are named only when the result asks for         *)
(* approval: a BLOCK drops them, because nobody can approve it.            *)
(***************************************************************************)
BuildDecision(matched, action, group) ==
  LET result == CombineResults({ToResult(action[p]) : p \in matched})
  IN  [result |-> result,
       groups |-> IF result = "REQUIRE_APPROVAL"
                  THEN {group[p] : p \in {q \in matched : action[q] = "REQUIRE_APPROVAL"}}
                  ELSE {}]
=============================================================================
