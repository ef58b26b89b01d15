------------------------- MODULE ApprovalGateProofs -------------------------
(***************************************************************************)
(* Theorems about ApprovalGate, for every set of commits, rules, groups,   *)
(* approvers and reports. Typing comes first, then the inductive invariant *)
(* that carries the safety properties: a check that exited 0 cleared its   *)
(* report, and agreements are never withdrawn, so what the check cleared   *)
(* is still cleared when the job deploys it. What a decision says about    *)
(* the rules that matched is in SharedProofs.                              *)
(***************************************************************************)
EXTENDS ApprovalGate, SharedProofs, TLAPS

(* The same, of a report.                                                  *)
LEMMA DecisionOnReport ==
  ASSUME NEW r \in Reports
  PROVE  /\ Decision(r).result \in GateResults \ {"ERROR"}
         /\ MatchedBy(r) \subseteq Rule
         /\ \A p \in MatchedBy(r) : Rank(RuleAction[p]) <= Rank(Decision(r).result)
         /\ Decision(r).result = "REQUIRE_APPROVAL" =>
              /\ Decision(r).groups # {}
              /\ Decision(r).groups \subseteq {RuleGroup[p] : p \in MatchedBy(r)}
<1>1. MatchedBy(r) \in SUBSET Rule
  BY AnalysisAssumption DEF MatchedBy, Reports
<1>2. Decision(r) = BuildDecision(MatchedBy(r), RuleAction, RuleGroup)
  BY DEF Decision, Decisions
<1> QED  BY <1>1, <1>2, RuleAssumption, DecisionOnMatched

(* The parts of a fingerprint's material the properties talk about.        *)
LEMMA MaterialOf ==
  ASSUME NEW r \in Reports
  PROVE  /\ DecisionFingerprint(r).policies = MatchedBy(r)
         /\ DecisionFingerprint(r).unknowns = Unknowns(r)
         /\ DecisionFingerprint(r).totals = Totals(r)
         /\ DecisionFingerprint(r).environment = r.environment
         /\ DecisionFingerprint(r).result = Decision(r).result
         /\ DecisionFingerprint(r).approvers = Decision(r).groups
BY DEF DecisionFingerprint, FingerprintMaterial

-----------------------------------------------------------------------------
(* Every variable keeps its type.                                          *)
LEMMA InitTyped == Init => TypeOK
BY BoundAssumption DEF Init, TypeOK, Idle

LEMMA NextTyped == TypeOK /\ [Next]_vars => TypeOK'
<1> SUFFICES ASSUME TypeOK, [Next]_vars PROVE TypeOK'
  OBVIOUS
<1> USE DEF TypeOK
<1>1. ASSUME NEW c \in Commit, Push(c) PROVE TypeOK'
  BY <1>1 DEF Push
<1>2. ASSUME NEW p \in PriceList, Reprice(p) PROVE TypeOK'
  BY <1>2 DEF Reprice
<1>3. ASSUME NEW e \in Environment, Analyse(e) PROVE TypeOK'
  <2>1. runs + 1 \in 1..MaxRuns  BY <1>3, BoundAssumption DEF Analyse
  <2>2. report' \in Reports \cup {None}  BY <1>3, <2>1 DEF Analyse, Reports
  <2> QED  BY <1>3, <2>1, <2>2 DEF Analyse
<1>4. ASSUME NEW a \in Approver, Review(a) PROVE TypeOK'
  BY <1>4 DEF Review
<1>5. ASSUME NEW a \in Approver, Approve(a) PROVE TypeOK'
  <2>1. reading[a] \in Reports  BY <1>5 DEF Approve
  <2>2. IsApproval(approval')  BY <1>5, <2>1 DEF Approve, IsApproval, ApprovalOf
  <2>3. \A g \in agreed' : g[1] \in Approver /\ \E r \in Reports : g[2] = DecisionFingerprint(r)
    BY <1>5, <2>1 DEF Approve
  <2> QED  BY <1>5, <2>2, <2>3 DEF Approve
<1>6. CASE StartDeploy
  BY <1>6 DEF StartDeploy
<1>7. CASE Check
  <2>1. \A s : ExitCode(s) \in {0, 10, 20} \/ s \notin Statuses
    BY DEF ExitCode, Statuses
  <2>2. job.report \in Reports  BY <1>7 DEF Check
  <2>3. EvaluateApproval(job.report, approval) \in Statuses
    <3>1. RequirementFor(job.report) \in Statuses
      BY <2>2, DecisionOnReport DEF RequirementFor, Statuses, GateResults
    <3> QED  BY <3>1 DEF EvaluateApproval, Statuses
  <2>4. PICK exit \in {0, 10, 20, 30} : job' = [job EXCEPT !.pc = "checked", !.exit = exit]
    BY <1>7, <2>1, <2>3 DEF Check, Unloadable
  <2> QED  BY <1>7, <2>4 DEF Check
<1>8. CASE Deploy
  BY <1>8 DEF Deploy, Idle
<1>9. CASE Refuse
  BY <1>9 DEF Refuse, Idle
<1>10. CASE UNCHANGED vars
  BY <1>10 DEF vars
<1> QED
  BY <1>1, <1>2, <1>3, <1>4, <1>5, <1>6, <1>7, <1>8, <1>9, <1>10 DEF Next

(* Every variable holds what its declaration says, in every behaviour.     *)
THEOREM TypeCorrect == Spec => []TypeOK
BY InitTyped, NextTyped, PTL DEF Spec

-----------------------------------------------------------------------------
(***************************************************************************)
(* The safety properties speak of released reports, but what clears a      *)
(* report is the check, some steps earlier, on an approval that may have   *)
(* been replaced since.  The inductive invariant records what survives in  *)
(* between: the approval on record was agreed to by the one who gave it,   *)
(* and a report whose check exited 0 is cleared by the verdict or by an    *)
(* agreement that stays on the record.                                     *)
(***************************************************************************)
Cleared(r) ==
  \/ Decision(r).result \in {"PASS", "WARN"}
  \/ /\ Decision(r).result = "REQUIRE_APPROVAL"
     /\ \E a \in Approver : /\ <<a, DecisionFingerprint(r)>> \in agreed
                            /\ Claim[a] \cap Decision(r).groups # {}

OnRecord == approval # None => <<approval.by, approval.fingerprint>> \in agreed
CheckedIsCleared == (job.pc = "checked" /\ job.exit = 0) => Cleared(job.report)
ReleasedIsCleared == \A r \in released : Cleared(r)

IInv == TypeOK /\ OnRecord /\ CheckedIsCleared /\ ReleasedIsCleared

(* The check exits 0 only on a report the verdict clears, or one the       *)
(* approval on record matches and whose groups the approver may speak for. *)
LEMMA ExitZeroClears ==
  ASSUME NEW r \in Reports, TypeOK, OnRecord,
         ExitCode(EvaluateApproval(r, approval)) = 0
  PROVE  Cleared(r)
<1>1. Decision(r).result \in {"PASS", "WARN", "REQUIRE_APPROVAL", "BLOCK"}
  BY DecisionOnReport DEF GateResults
<1>2. CASE Decision(r).result \in {"PASS", "WARN"}
  BY <1>2 DEF Cleared
<1>3. CASE Decision(r).result = "BLOCK"
  BY <1>3 DEF EvaluateApproval, RequirementFor, ExitCode
<1>4. CASE Decision(r).result = "REQUIRE_APPROVAL"
  <2>1. RequirementFor(r) = "REQUIRED"
    BY <1>4 DEF RequirementFor
  <2>2. approval # None
    BY <2>1 DEF EvaluateApproval, ExitCode
  <2>3. approval.by \in Approver
    BY <2>2 DEF TypeOK, IsApproval
  <2>4. approval.fingerprint = DecisionFingerprint(r)
    BY <2>1, <2>2 DEF EvaluateApproval, ExitCode
  <2>5. Decision(r).groups # {}
    BY <1>4, DecisionOnReport
  <2>6. Claim[approval.by] \cap Decision(r).groups # {}
    BY <2>1, <2>2, <2>4, <2>5 DEF EvaluateApproval, ExitCode
  <2> QED  BY <1>4, <2>2, <2>3, <2>4, <2>6 DEF Cleared, OnRecord
<1> QED  BY <1>1, <1>2, <1>3, <1>4

(* What is cleared stays cleared: no step withdraws an agreement.          *)
LEMMA ClearedIsStable ==
  ASSUME NEW r, Cleared(r), agreed \subseteq agreed'
  PROVE  Cleared(r)'
BY DEF Cleared, Decision, Decisions, DecisionFingerprint, FingerprintMaterial

LEMMA InitIInv == Init => IInv
BY InitTyped DEF Init, IInv, OnRecord, CheckedIsCleared, ReleasedIsCleared, Idle

LEMMA NextIInv == IInv /\ [Next]_vars => IInv'
<1> SUFFICES ASSUME IInv, [Next]_vars PROVE IInv'
  OBVIOUS
<1> USE DEF IInv
<1>1. TypeOK'  BY NextTyped
<1>2. agreed \subseteq agreed'
  BY DEF Next, vars, Push, Reprice, Analyse, Review, Approve, StartDeploy, Check,
         Deploy, Refuse
<1>3. OnRecord'
  <2>1. ASSUME NEW a \in Approver, Approve(a) PROVE OnRecord'
    BY <2>1 DEF Approve, OnRecord, ApprovalOf
  <2>2. CASE UNCHANGED <<approval, agreed>>
    BY <2>2 DEF OnRecord
  <2> QED
    BY <2>1, <2>2 DEF Next, vars, Push, Reprice, Analyse, Review, StartDeploy, Check,
                      Deploy, Refuse
<1>4. CheckedIsCleared'
  <2>1. CASE Check
    <3>1. PICK exit \in {ExitCode(EvaluateApproval(job.report, approval)), Unloadable} :
            job' = [job EXCEPT !.pc = "checked", !.exit = exit]
      BY <2>1 DEF Check
    <3>2. job'.report = job.report /\ job'.exit = exit
      BY <3>1 DEF TypeOK
    <3>3. CASE exit = 0
      <4>1. ExitCode(EvaluateApproval(job.report, approval)) = 0
        BY <3>1, <3>3 DEF Unloadable
      <4>2. job.report \in Reports  BY <2>1 DEF Check, TypeOK
      <4>3. Cleared(job.report)  BY <4>1, <4>2, ExitZeroClears
      <4>4. PICK r : r = job.report  OBVIOUS
      <4>5. Cleared(r)'  BY <4>3, <4>4, <1>2, ClearedIsStable
      <4> QED  BY <4>4, <4>5, <3>2 DEF CheckedIsCleared
    <3> QED  BY <3>2, <3>3 DEF CheckedIsCleared
  <2>2. CASE StartDeploy \/ Deploy \/ Refuse
    <3>1. job'.pc # "checked"
      BY <2>2 DEF StartDeploy, Deploy, Refuse, Idle
    <3> QED  BY <3>1 DEF CheckedIsCleared
  <2>3. CASE UNCHANGED job
    BY <2>3, <1>2 DEF CheckedIsCleared, Cleared, Decision, Decisions, DecisionFingerprint,
                      FingerprintMaterial
  <2> QED
    BY <2>1, <2>2, <2>3 DEF Next, vars, Push, Reprice, Analyse, Review, Approve
<1>5. ReleasedIsCleared'
  <2> SUFFICES ASSUME NEW r \in released' PROVE Cleared(r)'
    BY DEF ReleasedIsCleared
  <2>1. Cleared(r)
    <3>1. CASE Deploy
      <4>1. r \in released \/ r = job.report  BY <3>1 DEF Deploy
      <4> QED  BY <4>1, <3>1 DEF Deploy, CheckedIsCleared, ReleasedIsCleared
    <3>2. CASE UNCHANGED released
      BY <3>2 DEF ReleasedIsCleared
    <3> QED
      BY <3>1, <3>2 DEF Next, vars, Push, Reprice, Analyse, Review, Approve, StartDeploy,
                        Check, Refuse
  <2> QED  BY <2>1, <1>2, ClearedIsStable
<1> QED  BY <1>1, <1>3, <1>4, <1>5

LEMMA Invariant == Spec => []IInv
BY InitIInv, NextIInv, PTL DEF Spec

-----------------------------------------------------------------------------
(* The verdict on a change some rule wants approved is above WARN, and the *)
(* verdict on one some rule blocks is BLOCK.                               *)
LEMMA SeverityOfResult ==
  ASSUME NEW r \in Reports, NEW p \in MatchedBy(r)
  PROVE  /\ RuleAction[p] = "BLOCK" => Decision(r).result = "BLOCK"
         /\ RuleAction[p] = "REQUIRE_APPROVAL" => Decision(r).result \notin {"PASS", "WARN"}
BY DecisionOnReport DEF Rank, GateResults

(* A change a blocking rule matched is never deployed.                     *)
THEOREM BlockedIsNeverReleased == Spec => []BlockedNeverReleased
<1>1. IInv => BlockedNeverReleased
  BY SeverityOfResult DEF IInv, TypeOK, ReleasedIsCleared, Cleared, BlockedNeverReleased
<1> QED  BY <1>1, Invariant, PTL

(* A deployed change that a rule wanted approved was agreed to, by someone *)
(* whose claimed groups include one of the change's own, on a report with  *)
(* the same verdict, rules, unknowns, totals and environment.              *)
THEOREM WhatIsReleasedWasAgreed == Spec => []ReleasedWasAgreed
<1>1. ASSUME IInv, NEW r \in released, NEW q \in MatchedBy(r),
             RuleAction[q] = "REQUIRE_APPROVAL"
      PROVE  \E g \in agreed :
               /\ \E p \in MatchedBy(r) : RuleGroup[p] \in Claim[g[1]]
               /\ g[2].policies = MatchedBy(r)
               /\ g[2].unknowns = Unknowns(r)
               /\ g[2].totals = Totals(r)
               /\ g[2].environment = r.environment
  <2>1. r \in Reports  BY <1>1 DEF IInv, TypeOK
  <2>2. Decision(r).result = "REQUIRE_APPROVAL"
    BY <1>1, <2>1, SeverityOfResult DEF IInv, ReleasedIsCleared, Cleared
  <2>3. PICK a \in Approver : /\ <<a, DecisionFingerprint(r)>> \in agreed
                              /\ Claim[a] \cap Decision(r).groups # {}
    BY <1>1, <2>2 DEF IInv, ReleasedIsCleared, Cleared
  <2>4. PICK p \in MatchedBy(r) : RuleGroup[p] \in Claim[a]
    BY <2>1, <2>2, <2>3, DecisionOnReport
  <2> DEFINE g == <<a, DecisionFingerprint(r)>>
  <2>5. g \in agreed /\ g[1] = a /\ g[2] = DecisionFingerprint(r)
    BY <2>3
  <2> QED  BY <2>1, <2>4, <2>5, MaterialOf
<1>2. IInv => ReleasedWasAgreed
  BY <1>1 DEF ReleasedWasAgreed
<1> QED  BY <1>2, Invariant, PTL

(* An approval given for the same commit, prices and environment is never  *)
(* called stale, whichever run of the analysis produced the report.        *)
THEOREM ApprovalSurvivesRerun == Spec => []SurvivesRerun
<1>1. ASSUME NEW r \in Reports, NEW s \in Reports, r.commit = s.commit,
             r.prices = s.prices, r.environment = s.environment
      PROVE  DecisionFingerprint(r) = DecisionFingerprint(s)
  <2>1. CostOf(r) = CostOf(s) /\ MatchedBy(r) = MatchedBy(s)
    BY <1>1 DEF CostOf, MatchedBy
  <2>2. Decision(r) = Decision(s)
    BY <2>1 DEF Decision, Decisions
  <2>3. Unknowns(r) = Unknowns(s) /\ Totals(r) = Totals(s)
    BY <2>1 DEF Unknowns, Totals
  <2> QED  BY <1>1, <2>1, <2>2, <2>3 DEF DecisionFingerprint, FingerprintMaterial
<1>2. TypeOK => SurvivesRerun
  <2> SUFFICES ASSUME TypeOK, job.pc = "check", approval # None,
                      approval.of.commit = job.report.commit,
                      approval.of.prices = job.report.prices,
                      approval.of.environment = job.report.environment
               PROVE  EvaluateApproval(job.report, approval) # "STALE"
    BY DEF SurvivesRerun
  <2>1. job.report \in Reports /\ approval.of \in Reports
    BY DEF TypeOK, IsApproval
  <2>2. approval.fingerprint = DecisionFingerprint(approval.of)
    BY DEF TypeOK, IsApproval, ApprovalOf
  <2>3. approval.fingerprint = DecisionFingerprint(job.report)
    BY <1>1, <2>1, <2>2
  <2>4. RequirementFor(job.report) # "STALE"
    BY <2>1, DecisionOnReport DEF RequirementFor, GateResults
  <2> QED  BY <2>3, <2>4 DEF EvaluateApproval
<1> QED  BY <1>2, TypeCorrect, PTL

(* Where the workflow claims for an approver only groups they belong to,   *)
(* nobody outside the approver groups of a change can clear it.            *)
THEOREM OnlyMembersClear ==
  ASSUME \A a \in Approver : Claim[a] \subseteq Member[a]
  PROVE  Spec => []ReleasedByMember
<1>1. ASSUME IInv, NEW r \in released, Decision(r).result = "REQUIRE_APPROVAL"
      PROVE  \E g \in agreed : /\ g[2] = DecisionFingerprint(r)
                               /\ Member[g[1]] \cap Decision(r).groups # {}
  <2>1. PICK a \in Approver : /\ <<a, DecisionFingerprint(r)>> \in agreed
                              /\ Claim[a] \cap Decision(r).groups # {}
    BY <1>1 DEF IInv, ReleasedIsCleared, Cleared
  <2>2. Member[a] \cap Decision(r).groups # {}
    BY <2>1
  <2> QED  BY <2>1, <2>2
<1>2. IInv => ReleasedByMember
  BY <1>1 DEF ReleasedByMember
<1> QED  BY <1>2, Invariant, PTL

(* The deployment job implements the abstract release authority: an        *)
(* approval is an agreement, a deployment is a release the authority       *)
(* allows, and every other step leaves the authority where it was.         *)
THEOREM GateImplementsAuthority == Spec => ImplementsAuthority
<1> USE DEF Authority!avars
<1>1. Init => Authority!Init
  BY DEF Init, Authority!Init, ReleasedMaterials
<1>2. ASSUME IInv, [Next]_vars
      PROVE  [Authority!Next]_(Authority!avars)
  <2>1. ASSUME NEW a \in Approver, Approve(a) PROVE Authority!Next
    <3>1. reading[a] \in Reports  BY <1>2, <2>1 DEF Approve, IInv, TypeOK
    <3>2. DecisionFingerprint(reading[a]) \in Materials  BY <3>1 DEF Materials
    <3>3. Authority!Agree(a, DecisionFingerprint(reading[a]))
      BY <2>1 DEF Approve, Authority!Agree, ReleasedMaterials
    <3> QED  BY <3>2, <3>3 DEF Authority!Next
  <2>2. CASE Deploy
    <3> DEFINE m == DecisionFingerprint(job.report)
    <3>1. job.report \in Reports /\ Cleared(job.report)
      BY <1>2, <2>2 DEF Deploy, IInv, TypeOK, CheckedIsCleared
    <3>2. Authority!MayRelease(m)
      BY <3>1, MaterialOf DEF Authority!MayRelease, Cleared
    <3>3. ReleasedMaterials' = ReleasedMaterials \cup {m}
      BY <2>2 DEF Deploy, ReleasedMaterials, DecisionFingerprint, FingerprintMaterial
    <3>4. Authority!Release(m)
      BY <2>2, <3>2, <3>3 DEF Deploy, Authority!Release
    <3> QED  BY <3>1, <3>4 DEF Authority!Next, Materials
  <2>3. CASE UNCHANGED <<agreed, released>>
    BY <2>3 DEF ReleasedMaterials
  <2> QED
    BY <1>2, <2>1, <2>2, <2>3 DEF Next, vars, Push, Reprice, Analyse, Review, StartDeploy,
                                 Check, Refuse
<1> QED
  BY <1>1, <1>2, Invariant, PTL DEF Spec, ImplementsAuthority, Authority!Spec
=============================================================================
