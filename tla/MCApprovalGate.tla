--------------------------- MODULE MCApprovalGate ---------------------------
(***************************************************************************)
(* A small instance of ApprovalGate.  Two resources are resized in every   *)
(* commit: "swap" exchanges the sizes "base" gives them, which leaves      *)
(* every count and every total as it was; "grow" adds a resource of        *)
(* unknown cost; "huge" also matches a blocking rule; "broken" cannot be   *)
(* analysed.  At the old prices "base" and "swap" match an advisory rule   *)
(* only in production; at the new ones they need one of two groups, and    *)
(* bob is in neither.                                                      *)
(***************************************************************************)
EXTENDS ApprovalGate

MCCommit == {"base", "swap", "grow", "huge", "broken"}
MCAnalysable == Commit \ {"broken"}
MCPriceList == {"old", "new"}
MCRule == {"architecture", "delta", "limit", "advice"}

MCRuleAction == [architecture |-> "REQUIRE_APPROVAL", delta |-> "REQUIRE_APPROVAL",
                 limit |-> "BLOCK", advice |-> "WARN"]
MCRuleGroup == [architecture |-> "platform", delta |-> "finops",
                limit |-> None, advice |-> None]

MCMember == [ann |-> {"platform"}, bob |-> {"security"}]

(* deploy-example.yml:132-137 passes both groups, whoever approved.        *)
ExampleClaim == [a \in Approver |-> {"platform", "finops"}]

Sized(web, db) == [web |-> [current |-> 1, proposed |-> web],
                   db  |-> [current |-> 1, proposed |-> db]]

MCEstimate ==
  [i \in Commit \X PriceList |->
    LET rate == IF i[2] = "old" THEN 1 ELSE 2
    IN  [summary |-> IF i[1] = "grow" THEN [modified |-> 2, added |-> 1]
                                      ELSE [modified |-> 2, added |-> 0],
         components |->
           CASE i[1] = "base"   -> Sized(2 * rate, 3 * rate)
             [] i[1] = "swap"   -> Sized(3 * rate, 2 * rate)
             [] i[1] = "grow"   -> [web   |-> [current |-> 1, proposed |-> 2 * rate],
                                    db    |-> [current |-> 1, proposed |-> 3 * rate],
                                    topic |-> [current |-> 0, proposed |-> None]]
             [] i[1] = "huge"   -> Sized(9 * rate, 9 * rate)
             [] i[1] = "broken" -> Sized(0, 0)]]

MCMatched ==
  [i \in Commit \X PriceList \X Environment |->
    CASE i[1] \in {"base", "swap", "grow"} ->
           IF i[2] = "old" /\ i[3] = "prod" /\ i[1] # "grow" THEN {"advice"}
           ELSE {"architecture", "advice"} \cup (IF i[2] = "new" THEN {"delta"} ELSE {})
      [] i[1] = "huge"   -> {"architecture", "delta", "limit", "advice"}
      [] i[1] = "broken" -> {}]
=============================================================================
