---------------------------- MODULE ApprovalGate ----------------------------
(***************************************************************************)
(* From an analysis to a deployment: reports, the approval bound to a      *)
(* fingerprint of one report, and the deployment job that runs             *)
(* `cost-gate approval check` before it deploys (approvals.py,             *)
(* cli/approval.py, docs/runbooks/cost-approval.md).                       *)
(*                                                                         *)
(* Commits, price changes, re-runs of the analysis, reviewers and the      *)
(* deployment job interleave freely: the reviewer may be reading a report  *)
(* that has been replaced, and the approval on record may be one granted   *)
(* for an earlier commit.  The job modelled has no condition of its own    *)
(* but the exit code of the check, so that the check alone carries the     *)
(* properties; a workflow such as deploy-example.yml adds conditions.      *)
(*                                                                         *)
(* Abstractions: a commit and a state of the price list are values whose   *)
(* analysis is given by the constants Analysable, Estimate and Matched;    *)
(* the truncated SHA-256 is injective, so a fingerprint IS its material.   *)
(***************************************************************************)
EXTENDS GateLattice, FiniteSets, FiniteSetsExt

CONSTANTS
  Commit,      \* infrastructure revisions
  PriceList,   \* states of the price list, live or a catalog
  Environment, \* where a change would be deployed
  Rule,        \* policies and budget rules
  Group,       \* approver groups
  Approver,    \* people who can approve
  None,        \* a report, an approval or a cost that is not there
  MaxRuns,     \* bound on the number of analysis runs
  RuleAction, RuleGroup,          \* each rule's action and approver group
  Analysable,  \* the commits whose templates can be read and reconciled
  Matched,     \* [Commit \X PriceList \X Environment -> rules it matches]
  Estimate,    \* [Commit \X PriceList -> the cost side of its report]
  Member,      \* the groups each approver belongs to
  Claim        \* the groups the workflow passes as --approver-group for them

ASSUME RuleAssumption ==
  /\ RuleAction \in [Rule -> PolicyActions]
  /\ RuleGroup \in [Rule -> Group \cup {None}]
  /\ \A p \in Rule : RuleAction[p] = "REQUIRE_APPROVAL" <=> RuleGroup[p] # None

ASSUME AnalysisAssumption ==
  /\ Analysable \subseteq Commit
  /\ Matched \in [Commit \X PriceList \X Environment -> SUBSET Rule]

ASSUME ApproverAssumption == {Member, Claim} \subseteq [Approver -> SUBSET Group]

ASSUME BoundAssumption == MaxRuns \in Nat

ASSUME NoneAssumption == None \notin Group

VARIABLES
  head,        \* the commit the next analysis reads
  prices,      \* the price list it reads
  runs,        \* analyses run so far
  report,      \* the artifact of the last analysis
  reading,     \* the report each approver has in front of them
  approval,    \* the approval on record
  job,         \* the deployment job
  agreed,      \* history: who agreed to which material
  released     \* history: the reports whose change was deployed

vars == <<head, prices, runs, report, reading, approval, job, agreed, released>>

-----------------------------------------------------------------------------
(* Reports and their fingerprints.                                         *)

Reports ==
  [commit : Commit, prices : PriceList, environment : Environment, run : 1..MaxRuns]

CostOf(r) == Estimate[r.commit, r.prices]
MatchedBy(r) == Matched[r.commit, r.prices, r.environment]

Decisions == [r \in Reports |-> BuildDecision(MatchedBy(r), RuleAction, RuleGroup)]
Decision(r) == Decisions[r]

(* A component of unknown cost has None on either side; totals add up the  *)
(* known ones.                                                             *)
UnknownIn(cs) == {k \in DOMAIN cs : cs[k].current = None \/ cs[k].proposed = None}
Unknowns(r) == UnknownIn(CostOf(r).components)

TotalOf(cs) ==
  LET Known == DOMAIN cs \ UnknownIn(cs)
  IN  [current  |-> MapThenSumSet(LAMBDA k : cs[k].current, Known),
       proposed |-> MapThenSumSet(LAMBDA k : cs[k].proposed, Known),
       unknown  |-> Cardinality(UnknownIn(cs))]
Totals(r) == TotalOf(CostOf(r).components)

(* Faulty variant: the run id is part of the material.                     *)
MaterialWithRunId ==
  [r \in Reports |->
    [changes     |-> CostOf(r).summary,
     resources   |-> DOMAIN CostOf(r).components,
     totals      |-> Totals(r),
     result      |-> Decision(r).result,
     policies    |-> MatchedBy(r),
     approvers   |-> Decision(r).groups,
     unknowns    |-> Unknowns(r),
     environment |-> r.environment,
     run         |-> r.run]]

(* The material of a report's fingerprint.  The run id, the time and the   *)
(* tool's version are left out; so are the cost of each component and the  *)
(* properties of the resources.                                            *)
FingerprintMaterial ==
  [r \in Reports |->
    [changes     |-> CostOf(r).summary,
     resources   |-> DOMAIN CostOf(r).components,
     totals      |-> Totals(r),
     result      |-> Decision(r).result,
     policies    |-> MatchedBy(r),
     approvers   |-> Decision(r).groups,
     unknowns    |-> Unknowns(r),
     environment |-> r.environment]]

DecisionFingerprint(r) == FingerprintMaterial[r]

(* An approval on record: the fingerprint and who gave it.  "of" is the    *)
(* report the approver was reading, kept for the properties only.          *)
ApprovalOf(a, r) == [fingerprint |-> DecisionFingerprint(r), by |-> a, of |-> r]

IsApproval(ap) ==
  /\ ap.of \in Reports
  /\ ap.by \in Approver
  /\ ap = ApprovalOf(ap.by, ap.of)

-----------------------------------------------------------------------------
(* The check.                                                              *)

(* Faulty variant: a blocked change can be approved.                       *)
BlockIsApprovable(r) ==
  IF Decision(r).result \in {"REQUIRE_APPROVAL", "BLOCK"} THEN "REQUIRED"
  ELSE "NOT_REQUIRED"

RequirementFor(r) ==
  CASE Decision(r).result \in {"BLOCK", "ERROR"}    -> "REFUSED"
    [] Decision(r).result = "REQUIRE_APPROVAL"      -> "REQUIRED"
    [] Decision(r).result \in {"PASS", "WARN"}      -> "NOT_REQUIRED"

(* Faulty variants: any fingerprint will do; any group will do.            *)
AnyFingerprint(r, ap) ==
  IF RequirementFor(r) # "REQUIRED" \/ ap = None THEN RequirementFor(r)
  ELSE IF Claim[ap.by] \cap Decision(r).groups = {} THEN "REQUIRED" ELSE "SATISFIED"

AnyGroup(r, ap) ==
  IF RequirementFor(r) # "REQUIRED" \/ ap = None THEN RequirementFor(r)
  ELSE IF ap.fingerprint # DecisionFingerprint(r) THEN "STALE" ELSE "SATISFIED"

EvaluateApproval(r, ap) ==
  CASE RequirementFor(r) # "REQUIRED"               -> RequirementFor(r)
    [] RequirementFor(r) = "REQUIRED" /\ ap = None  -> "REQUIRED"
    [] OTHER ->
         IF ap.fingerprint # DecisionFingerprint(r) THEN "STALE"
         ELSE IF Decision(r).groups # {} /\ Claim[ap.by] \cap Decision(r).groups = {}
              THEN "REQUIRED"
              ELSE "SATISFIED"

Statuses == {"NOT_REQUIRED", "REQUIRED", "SATISFIED", "REFUSED", "STALE"}

ExitCode(status) ==
  CASE status \in {"NOT_REQUIRED", "SATISFIED"} -> 0
    [] status \in {"REQUIRED", "STALE"}         -> 10
    [] status = "REFUSED"                       -> 20

Unloadable == 30   \* the artifact is gone, or the loader rejects it

-----------------------------------------------------------------------------
(* Behaviours.                                                             *)

Idle == [pc |-> "idle", report |-> None, exit |-> None]

Init ==
  /\ head \in Commit
  /\ prices \in PriceList
  /\ runs = 0
  /\ report = None
  /\ reading = [a \in Approver |-> None]
  /\ approval = None
  /\ job = Idle
  /\ agreed = {}
  /\ released = {}

(* A further commit lands.                                                 *)
Push(c) ==
  /\ c # head
  /\ head' = c
  /\ UNCHANGED <<prices, runs, report, reading, approval, job, agreed, released>>

(* The price list moves.                                                   *)
Reprice(p) ==
  /\ p # prices
  /\ prices' = p
  /\ UNCHANGED <<head, runs, report, reading, approval, job, agreed, released>>

(* The analysis job runs, or runs again, for an environment.  A commit     *)
(* that cannot be analysed leaves no report: the job fails.                *)
Analyse(e) ==
  /\ runs < MaxRuns
  /\ runs' = runs + 1
  /\ report' = IF head \in Analysable
               THEN [commit |-> head, prices |-> prices,
                     environment |-> e, run |-> runs + 1]
               ELSE None
  /\ UNCHANGED <<head, prices, reading, approval, job, agreed, released>>

(* An approver opens the report and takes its fingerprint.  The command    *)
(* prints one for any report: nothing keeps people from agreeing to a      *)
(* change that is blocked, or that needs no approval.                      *)
Review(a) ==
  /\ report # None
  /\ reading' = [reading EXCEPT ![a] = report]
  /\ UNCHANGED <<head, prices, runs, report, approval, job, agreed, released>>

(* Faulty variant: the approval is bound to the latest report instead.     *)
ApproveLatest(a) ==
  /\ reading[a] # None
  /\ report # None
  /\ approval' = [fingerprint |-> DecisionFingerprint(report), by |-> a, of |-> reading[a]]
  /\ agreed' = agreed \cup {<<a, DecisionFingerprint(reading[a])>>}
  /\ reading' = [reading EXCEPT ![a] = None]
  /\ UNCHANGED <<head, prices, runs, report, job, released>>

(* The approver agrees to what they read, whatever the report is by now.   *)
Approve(a) ==
  /\ reading[a] # None
  /\ approval' = ApprovalOf(a, reading[a])
  /\ agreed' = agreed \cup {<<a, DecisionFingerprint(reading[a])>>}
  /\ reading' = [reading EXCEPT ![a] = None]
  /\ UNCHANGED <<head, prices, runs, report, job, released>>

(* The deployment job downloads the report of the last analysis.           *)
StartDeploy ==
  /\ job.pc = "idle"
  /\ report # None
  /\ job' = [pc |-> "check", report |-> report, exit |-> None]
  /\ UNCHANGED <<head, prices, runs, report, reading, approval, agreed, released>>

(* Faulty variant: the check reads the latest report, the deployment step  *)
(* deploys the one the job downloaded.                                     *)
CheckLatest ==
  /\ job.pc = "check"
  /\ report # None
  /\ \E exit \in {ExitCode(EvaluateApproval(report, approval)), Unloadable} :
       job' = [job EXCEPT !.pc = "checked", !.exit = exit]
  /\ UNCHANGED <<head, prices, runs, report, reading, approval, agreed, released>>

(* `cost-gate approval check`, with the approval on record.                *)
Check ==
  /\ job.pc = "check"
  /\ \E exit \in {ExitCode(EvaluateApproval(job.report, approval)), Unloadable} :
       job' = [job EXCEPT !.pc = "checked", !.exit = exit]
  /\ UNCHANGED <<head, prices, runs, report, reading, approval, agreed, released>>

Deploy ==
  /\ job.pc = "checked"
  /\ job.exit = 0
  /\ job' = Idle
  /\ released' = released \cup {job.report}
  /\ UNCHANGED <<head, prices, runs, report, reading, approval, agreed>>

(* A non-zero exit code fails the job before its deployment step.          *)
Refuse ==
  /\ job.pc = "checked"
  /\ job.exit # 0
  /\ job' = Idle
  /\ UNCHANGED <<head, prices, runs, report, reading, approval, agreed, released>>

Next ==
  \/ \E c \in Commit : Push(c)
  \/ \E p \in PriceList : Reprice(p)
  \/ \E e \in Environment : Analyse(e)
  \/ \E a \in Approver : Review(a)
  \/ \E a \in Approver : Approve(a)
  \/ StartDeploy
  \/ Check
  \/ Deploy
  \/ Refuse

Spec == Init /\ [][Next]_vars

-----------------------------------------------------------------------------
(* Properties.                                                             *)

(* Every variable holds what its declaration says.                         *)
TypeOK ==
  /\ head \in Commit
  /\ prices \in PriceList
  /\ runs \in 0..MaxRuns
  /\ report \in Reports \cup {None}
  /\ reading \in [Approver -> Reports \cup {None}]
  /\ approval = None \/ IsApproval(approval)
  /\ job \in [pc : {"idle", "check", "checked"}, report : Reports \cup {None},
              exit : {0, 10, 20, 30, None}]
  /\ job.pc # "idle" => job.report \in Reports
  /\ \A g \in agreed : g[1] \in Approver /\ \E r \in Reports : g[2] = DecisionFingerprint(r)
  /\ released \subseteq Reports

(* A change a blocking rule matched is never deployed, whatever other      *)
(* rules matched with it and whoever approved it: a BLOCK is not           *)
(* approvable, and no advisory rule disarms it (approvals.py:159,          *)
(* decision.py:152).                                                       *)
BlockedNeverReleased ==
  \A r \in released : \A p \in MatchedBy(r) : RuleAction[p] # "BLOCK"

(* A deployed change that a rule wanted approved was agreed to: somebody   *)
(* whose claimed groups include one of that change's own approver groups   *)
(* approved a report with the same verdict, the same matched rules, the    *)
(* same unknown costs, the same totals and the same environment, even if   *)
(* the approval on record has been replaced and the report re-run between  *)
(* the review and the deployment (approvals.py:8-18).                      *)
ReleasedWasAgreed ==
  \A r \in released :
    (\E p \in MatchedBy(r) : RuleAction[p] = "REQUIRE_APPROVAL") =>
      \E g \in agreed :
        /\ \E p \in MatchedBy(r) : RuleGroup[p] \in Claim[g[1]]
        /\ g[2].policies = MatchedBy(r)
        /\ g[2].unknowns = Unknowns(r)
        /\ g[2].totals = Totals(r)
        /\ g[2].environment = r.environment

(* An approval survives a re-run: the check never calls an approval stale  *)
(* when it was given for the same commit, analysed for the same            *)
(* environment at the same prices, in another run (approvals.py:16-17).    *)
SurvivesRerun ==
  (/\ job.pc = "check"
   /\ approval # None
   /\ approval.of.commit = job.report.commit
   /\ approval.of.prices = job.report.prices
   /\ approval.of.environment = job.report.environment)
  => EvaluateApproval(job.report, approval) # "STALE"

(* The deployment job implements the abstract release authority: it never  *)
(* releases a change the authority would not, however its steps interleave *)
(* with re-runs and approvals.                                             *)
Materials == {DecisionFingerprint(r) : r \in Reports}
ReleasedMaterials == {DecisionFingerprint(r) : r \in released}
Authority == INSTANCE ReleaseAuthority
               WITH Material <- Materials, Entitled <- Claim,
                    released <- ReleasedMaterials
ImplementsAuthority == Authority!Spec

(* Nobody outside the approver groups of a change can clear it: "it exits  *)
(* 0 only if the fingerprint matches and you belong to a group the policy  *)
(* named" (docs/runbooks/cost-approval.md:44).                             *)
ReleasedByMember ==
  \A r \in released :
    Decision(r).result = "REQUIRE_APPROVAL" =>
      \E g \in agreed : /\ g[2] = DecisionFingerprint(r)
                        /\ Member[g[1]] \cap Decision(r).groups # {}

(* What is deployed under an approval is the infrastructure that was       *)
(* approved: the fingerprint "changes the moment the infrastructure does,  *)
(* which invalidates the approval" (approvals.py:18).                      *)
ApprovalIsForThisCommit ==
  (/\ job.pc = "check"
   /\ EvaluateApproval(job.report, approval) = "SATISFIED")
  => approval.of.commit = job.report.commit
=============================================================================
