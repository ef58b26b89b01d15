# Verification of the cost-aware deployment gate

TLA+ modules, TLC configurations and TLAPS proofs for `cost-gate`, the program under
`src/cost_gate`, and for the GitHub workflows that run it (`.github/`). Line references
in comments are to those files.

## 1. The system

The gate reads two snapshots of an infrastructure, says what a change between them would
cost, and decides whether it may be deployed.

    templates -> parser -> snapshots -> matching -> change set ----+
                                           |                       v
                  prices, usage -> estimators -> cost report -> budgets, policies
                                                                   v
     deployment <- approval check <- artifact (JSON) <- reconcile <- decision
                                        |
                                        v
                        comment workflow -> pull request

| component | state | operations | what makes it correct |
|---|---|---|---|
| parser (`parsers/`) | none | load, resolve intrinsics, normalise | what cannot be resolved stays unresolved |
| matching (`diff/matching.py`) | candidates, matched ends | greedy assignment | one-to-one, best tier first |
| change set (`diff/engine.py`) | changes | compare | every resource once, renames visible |
| estimators (`estimators/`) | none | estimate a resource, pair, total | costs conserved, unknowns never folded in |
| pricing (`pricing/`, `adapters/aws_price_list.py`) | cache, retries | lookup | one rate per key in a run; failures are visible |
| usage, schedules (`config/usage.py`, `domain/schedule.py`) | none | resolve | precedence, hours bounded by the month |
| budgets (`budgets/`) | none | evaluate, turn into rules | thresholds at their boundary |
| policies (`policies/`) | none | evaluate conditions | a dearer change is never judged more leniently |
| decision (`domain/decision.py`) | none | combine results | the most severe rule wins |
| reconciliation (`reporting/reconcile.py`) | none | check | a report that does not add up is refused, one that does is not |
| approvals (`approvals.py`, `cli/approval.py`) | approval on record | fingerprint, check | an approval clears only what was approved |
| comment workflow (`adapters/github*.py`, `cli/comment.py`, two workflows) | runs, jobs, comments | resolve, list, update, create | one report, on the right pull request, about its head |
| feedback, recommendations, reports, demo, CDK and git adapters | none shared | - | not part of the decision |

The parts interact through values: the pipeline calls each in turn and publishes one
artifact. Concurrency comes in behind it. Analyses are re-run and cancelled by GitHub, the
comment jobs of several pushes run side by side and share the comments of a pull request,
and an approval is given at one time and checked at another. That is where tests reach
least, and what was modelled first. Inside the pipeline the difficulty is in the matching
of resources, in facts that are merged by key, in the price service (the only thing that
changes while a run is under way), and in what is unknown: an absent property, an unresolved
one and one that could not be priced must stay three things from the template to the verdict.

## 2. Modules

| module | models |
|---|---|
| `GateLattice` | ranks, `combine_results`, `build_decision` |
| `ReleaseAuthority` | abstract: releases follow a verdict or an agreement |
| `ApprovalGate` | reports, fingerprint, approval, `cost-gate approval check`, a deployment job |
| `CommentWorkflow` | the `cost-gate` and `cost-gate-comment` workflows |
| `ResourceMatching` | `match_resources` as a loop over candidates |
| `ChangeReport` | `compare`, `estimate_graphs`, totals, `reconcile_artifact`, in the order of `run_analysis` |
| `PriceBook` | abstract: what an asker may rely on about prices |
| `Pricing` | catalog, price list client, cache and chain, as a state machine; refines `PriceBook` |
| `PriceFiles` | files of the catalog, duplicates, lock |
| `Usage` | usage profiles, override names, schedules |
| `Estimators` | what each resource type is charged for, the unknown included |
| `Budgets`, `Policies` | evaluation of budgets and conditions into rules, validation |
| `Analysis` | one run of `cost-gate analyze`, composed of the six above |
| `Templates` | intrinsic functions, three-valued conditions, flattening, tags |
| `Recommendations`, `Feedback` | advice on a proposal; accuracy of past predictions |
| `Promises` | `Analysis` with the parts that answer in one step, and the properties of those |
| `Absence` | the constant None |
| `MC...` | instances for TLC |
| `SharedProofs` | what several components rest on: theorems about the lattice, lemmas about sums over finite sets |
| `ApprovalGateProofs`, `CommentWorkflowProofs`, `ChangeReportProofs`, `PricingProofs` | theorems about the modules they are named after |
| `EstimatorProofs` | theorems about `Estimators`, `Usage` and `Feedback`, as the properties of `Promises` state them |
| `TemplateProofs` | theorems about `Templates`, as the properties of `Promises` state them |
| `AnalysisProofs` | theorems about `Analysis`, the advice, the catalog files and the whole of a run |

    Absence --- Pricing ------------------------+
            --- Usage --- Estimators -----------+-- Analysis -- Promises -- MCAnalysis
            --- Budgets --- Policies -----------+                  |
      GateLattice --+                     Templates, PriceFiles, Recommendations, Feedback

`ApprovalGate` extends `GateLattice` and instantiates `ReleaseAuthority`; `ChangeReport`
extends `ResourceMatching`. A definition named `...Faulty variant` in the comment above it
is not part of the model: it is what the next definition would be with a plausible mistake,
kept to confirm that the properties notice it.

What a proof needs to know of a constant is a named assumption of the module that declares
it, and TLC evaluates it on the instances. They say what the program has checked or can only
build that way: no value is one of the tags `None`, `Miss` and `Broken`, and a price is a whole
number (`TellApartAssumption`); a condition has one key of the closed vocabulary, with an
argument of its kind, and the document is finite and has no cycle, as a parsed file has none
(`ConditionAssumption`); a configuration holds finitely many budgets and policies, with whole
limits and percentages that are not negative (`AnalysisAssumption`); names are well formed and
drivers not negative, a schedule is read as days of the week, and there are finitely many
predictions, each broken down by finitely many services, as a bill is (`QuestionAssumption`); an
expression of a template consists of expressions of that template (`DocumentAssumption`).

### ApprovalGate

A commit together with a state of the price list determines the cost side of a report
(`Estimate`), and with an environment the rules that match (`Matched`); these are
constants. A fingerprint is its material, so SHA-256 is taken to be injective.
`FingerprintMaterial` has the fields of `_fingerprint_material` that can tell two of these
reports apart; application and region would behave as the environment does, the budgets
in the material are rules here, and one-time costs are left out.

`Analyse`, `Review` and `Approve` are steps of different people at any time: an approver
agrees to the report they opened, which may have been replaced, and may agree to one that is
blocked or needs no approval: the fingerprint command prints one for any report. `StartDeploy` downloads the
report, `Check` is the command, and may find that the artifact cannot be loaded (exit code
30); `Deploy` and `Refuse` are what the exit code leads to. The job has no other condition.
`deploy-example.yml` also tests the verdict in its `if:`, and the model leaves that out so
that nothing but the check protects a deployment. `agreed` and `released` are history
variables.

### CommentWorkflow

A record in `runs` is one run of the analysis and the comment job its completion triggers,
with a phase per request: `resolving`, `listing` (page by page), `updating`, `creating`.
Other jobs, people and failures act between any two of them. `Completed` and `Trigger` are
the two concurrency groups: a new analysis of a pull request cancels the one in progress,
which still completes and triggers a comment job; comment jobs of one commit run one at a
time, and at most one waits. `Outcomes` is what the loader can find, including a report
without a number file, left by a cancelled run, and one that claims another pull request.
`Unavailable`, `LoseAnswer` and `Reject` are failures of a request: before its effect, after
it, for good.

GitHub itself is modelled from how the code uses it. The commits endpoint returns the open
pull requests that contain a commit, not only those whose head it is. A pull request is not
reopened, a request does not take effect after its client gave up on it, the `paths` filter
lets every push through, and nobody edits the gate's comment.

### ResourceMatching and ChangeReport

A resource is a key, a type, a construct path and a state that stands for its properties.
`Assign` is one turn of the greedy loop. `ChangeReport` adds the three steps after it. What
an estimator returns for a type and a state is the constant `Price`, with None for what
could not be established; what a difference of properties amounts to is `Effect`. The cost
components are indexed by the pairing and dimension they come from, so that two of them
with the same identifier remain two.

### Pricing

A key is a tuple; the API is external and serves, for each key with filters, a sequence of
pages with the rates on them. One lookup is a series of steps, `Ask`, `GetPage` or `Throttle`
for each call, then the answer is taken by the asker: the service changes its listing
(`Reprice`) and entries of the cache grow old (`Expire`) between any two of them. Pauses
between attempts are no steps. A client error that is not throttling ends the lookup
(`RefuseCall`), and the exception passes through cache and chain. `Verdict` is the refusal to
choose. A price is told apart from a miss and from no entry over all integers, so that amounts
made of prices are too. `KeepsPriceBook` is the refinement: a price is learnt, told again until it is
forgotten, and a provider that breaks leaves nothing behind. The chain caches what the API
said and asks the catalog each time, so the book is the cache read through the chain. The
provider for a run is the catalog, the API behind its cache, or the chain of both, in that
order (`build_provider`).

### Usage, Estimators

An estimate is a sequence of charges: dimension, price key, quantity, confidence. An estimator
that cannot establish a dimension makes a charge without a key. `Open`, `Known` and absence are
kept apart where the code does, and not where it does not (`AsDecimal`): that is how the
finding on volumes comes out. What varies by usage names its driver and the precedence override,
environment, defaults. Assumptions and reasons that only reach the report's text are left out,
and so are the ranges of a quantity. The properties of one resource have single values: nested
ones are flattened before, in `Templates`. `Completions` are the ways a deployment may settle
the properties a template leaves open. How closely an override names a construct is a distance,
the number of segments of its path that the name leaves out. What the lookup tries (`NamesOf`) and
what the warning compares (`MatchedBy`) are two definitions, as in the code, which share the
construct ids; that the first is within the second is a lemma (`TriedIsCompared`).

### Budgets, Policies, Analysis

`Analysis` follows `run_analysis`: load, read, build a provider, price, then everything that
makes no call in one step (`Conclude`). Nothing catches an exception of a lookup, and the
process ends with a traceback and exit code 1 (`Crash`), as it does in the code. A resource
keeps its key, so the pairing is by key and type. What a run has to ask for is planned as places: a
charge of a side of a pair, in the order in which the code comes to them. The condition document
is a constant graph and `Holds` a recursive function on it. The scope of a policy is a function
from what it names (environments, applications) to the values it names, and applies where the
context has one of them for each.

### Templates

A text is a sequence of atoms, which makes `Fn::Join` and `Fn::Split` concatenation and cutting.
Atoms are characters, or runs of them that nothing cuts; an index picks an atom. `Resolution` is one
recursive function on queries (mode, node, depth and the conditions being evaluated), since values
and conditions refer to each other; `ValueOf` and `VerdictOf` answer one, given the answers to the
deeper ones, and the depth limit is the code's. A list holds its items unresolved, and `Fn::Select`
hands one out as it is.

### Promises

Parts that answer in one step have no interleavings. `question` is chosen once, in the initial
state, from a finite set, and the properties quantify over what it leaves open: the ways a
deployment may settle unresolved properties or parameters, the resources an override may be
about, edits of a catalog. `Spec` has no fairness, so that what is proved of it holds without;
`FairSpec` is what the run checks.

## 3. Runs

| run | bounds | result |
|---|---|---|
| `approval_gate` | 3 commits, 2 price lists, 2 approvers, one in none of the groups named, 2 analyses | all properties hold |
| `approval_swap` | 2 commits | violated: see findings |
| `deploy_example` | 1 commit | violated |
| `comment_orderly` | 1 pull request, 2 pushes, 3 runs, 2 acts on comments, pages of 2 | holds |
| `comment_race` | 2 pull requests, 2 pushes, 2 runs, 1 act on comments, 1 failed request | holds |
| `comment_two_reports` | 1 run, 1 failed request | violated |
| `comment_stale` | 2 pushes, no failed request | violated |
| `change_report` | all pairs of snapshots of up to 2 resources, 4 keys in 2 stacks, 8 bodies | holds; a report is refused only where a name is reused (`OnlyReusedNamesFail`) |
| `type_swap`, `unknown_types` | snapshots of 1 resource | violated |
| `analysis` | 9 changes of up to 4 resources, 5 configurations, 3 providers; 10 keys, listings of up to 3 pages, 2 pages and 2 attempts, 1 price change, 1 expiry; 51 questions on estimates, and questions on profiles, schedules, templates, accuracy and catalogs | all properties hold |
| `unknown_vanishes` | 1 volume | violated |

Why the bounds are enough to be interesting. In `approval_gate` two analyses are what it
takes for the report read, the report approved and the report deployed to differ;
the base commit is advisory only at the old prices and needs one of two groups at the new
ones, one commit is blocked while asking for approval too, and one cannot be analysed. In
`comment_orderly` two remarks fill the first page, so that the report is on the second, and
three runs are needed for one job to run, one to wait and one to take its place. In
`comment_race` the second pull request can be stacked on the first, which can be closed
before the job resolves the commit. Its one failed request is retried or refused for good; a
job that uses up its attempts is not reached there. Two attempts stand for three, pages of two for pages of
a hundred. In `change_report` two resources a side give every way two candidates compete;
the theorems about the matching and the report have no bound.

In `analysis` one price change between two lookups is what it takes for two sides to differ,
one page more than is walked lets the prefix differ from the whole, and two attempts let a
call succeed after it was throttled and fail after it was throttled. The changes hold a
resource that is moved to another environment, one that is replaced, one whose key changes
its type, one with an unresolved property, one that is free, one that is unsupported and one
without a price, and two additions that get advice: on single resources and on several together, with
an amount, with zero, with part of one and with none, in an environment where compute is advised
on too; the configurations two that do not load, one that fails on warnings, a budget at exactly its threshold
and one of zero, a cap without a limit, an actual spend, and every combinator. The template of the
instance has every intrinsic, a cyclic condition among them, under every assignment of its two
parameters. Records for the accuracy report are one below and above the minimum of five.

The constants `MaxRuns`, `MaxPushes`, `MaxRemarks`, `MaxFaults`, `MaxResources`,
`MaxReprices` and `MaxExpiries` bound the models only. `MaxPages` and `MaxAttempts` are
constants of the code, 20 and 4. Deadlock is checked for `approval_gate`, where a push is always possible; the
other models stop when the bounds are used up or the report is published.

### What `Orderly` means

With `Orderly` pushes wait until both workflows are quiet, only the head commit is analysed
again, and nobody deletes another comment while a job lists them. Re-runs of the head commit
and deletions of the report still overlap with jobs. `OneReport` and `CurrentWhenQuiet` hold
then, and only then: `comment_stale` drops the condition, `comment_two_reports` keeps it and
loses one answer.

### Fairness

`FairSpec` assumes weak fairness of the steps of each run: GitHub starts jobs it has
accepted, and every request is answered or times out (`TIMEOUT_SECONDS`). A waiting job is
held up only by the job of the same commit, which ends. People and failures are under no
obligation. `Delivered` is checked without failures, `EveryRunEnds` with them.

`analysis` assumes weak fairness of the steps of the run, a single process, with the answers
to its calls: a call is answered, throttled or refused. Price changes and expiries are under
no obligation. `EveryRunEnds` holds there with any number of throttled calls, because
attempts are counted.

### Findings

* `approval_swap`: after an exchange of sizes between two resources, the approval still
  clears the change, although `approvals.py:18` says the fingerprint "changes the moment the
  infrastructure does".
* `deploy_example`: the workflow passes every group for any approver, so the group test does
  not test anything (`docs/runbooks/cost-approval.md:44`).
* `comment_two_reports`: a POST is retried after its answer was lost.
* `comment_stale`: comment jobs are grouped by commit, and a commit that is no longer the
  head still resolves, so a report on an earlier push can stay (`cost-gate.yml:25`).
* `type_swap`: a database that becomes a table under the same logical ID makes the whole
  analysis fail, because both have a dimension `Storage-GB-Month` (`changes.py:154`).
* `unknown_types`: the type of a removed resource with an unknown cost is replaced in the
  summary by the type that took its key (`cost.py:225`).
* `unknown_vanishes`: a gp3 volume whose `Iops` become an unresolved parameter keeps a known
  cost: the dimension is not estimated and counts as a real zero, so that the change is a
  decrease without any unknown (`compute.py:261`, `estimators/engine.py:104`). `Throughput` is
  read the same way.

### Observations

Met while modelling, and kept in the models as the code has them; none of them is a run of
its own.

* A PricingError in the middle of the estimate is not caught: the process ends with exit code
  1, where `exit_codes.py` has 30 for a provider failure. `BrokenNeverPasses` says that it is
  no verdict.
* `--fail-on warn` gives exit code 0 for a warning, as `_EXIT_CODES` has one code for a warning and
  a pass. `cli/analyze.py:10` ("advisory only, unless `--fail-on warn`"), the help of the option
  and `docs/policy-engine.md:207` say that a warning then fails the run; a comment in
  `tests/e2e/test_analyze.py:208` says that it maps to 0 by design. `PassingStaysWithin` is
  therefore about the verdict for a warning threshold, and about verdict and exit code for the
  others.
* `Fn::Select` returns the item as it is written; an intrinsic in it becomes a known value that
  is dropped when properties are flattened; a text is indexed by character, and a negative index
  counts from the end. `Fn::Equals`
  compares `str(True)` with `"true"` as different.
* A list whose resolution is unknown is recorded at the parent's path: a property read below
  it looks absent. The `Condition` of a resource is recorded and never evaluated.
* An unresolved `Tenancy`, `LogGroupClass`, `MemorySize` or alarm `Period` is priced as its
  default, an unresolved `BackupRetentionPeriod` adds no unknown, and `MultiAZ` as the text
  "true" is priced as one zone. `EstimateIsForced` speaks of the properties in `Guarded` only.
* The price list client leaves out attributes of a key it does not recognise, and reads at most
  20 pages.
* A NAT gateway's volume is looked up without its construct path, so an override by construct
  has no effect on it and is not warned about. `expected_lifetime_hours` counts in an
  environment and is ignored in defaults and overrides. Overlapping windows of a schedule are
  summed, beyond the month if need be.
* `settled_window` compares any deployment once its month is over, also one on the last day
  of it, and the bill of the month with the change it made.
* `AWS::AccountId` and `AWS::StackName` resolve to placeholders as if they were known
  (`intrinsics.py:59`). They are constants here too, `Pseudo`, and `ResolutionIsFinal` compares
  deployments that differ in parameters only: it does not question a verdict on a condition that
  compares the account with a text.
* The total of the advice is said to be `None` "unless every recommendation names a distinct
  resource" (`recommendations.py:140`). One about several resources names none, and counts next to
  others; one without an amount does not count. What the total promises holds nevertheless, as no
  two rules are about one component (`AdviceIsReal`).
* Two recommendation rules ask for dimensions no estimator has (`Cluster-Hours`, and
  `Storage-GB-Month` of a volume), so their amount is never known. `recommendations/engine.py`
  says the report tells when it was cut at twenty.
* The baseline cost of a resource that changes its tags is counted for the environment of the
  proposal (`pipeline.py:159`); `PassingStaysWithin` is about the proposed side.
* An accuracy record may have a total without services (`feedback/records.py:154`); in `Feedback`
  the prediction is the sum of its services.
* `verify_catalog` runs only for `cost-gate pricing`, not in an analysis.

## 4. Proofs

Checked by TLAPS for every value of the constants that satisfies the named assumptions. A
theorem that is listed with a property states that property of the specification; the run shows
it on the instance, the theorem in general.

**ApprovalGateProofs, SharedProofs.** The lattice: `CombineIsHighest` (the combined
result is one of the results and ranks highest), `DecisionOnMatched` (it bounds every rule
that matched, and a change that needs approval names at least one group of a rule that asked),
`MoreRulesAreStricter`. Then safety. The properties are about what was released; what justifies
a release happened at the check, on an approval that may since have been replaced, so none
is inductive. `IInv` adds what survives in between: the approval on record was agreed to by
the one who gave it (`OnRecord`), a report whose check exited 0 is cleared (`CheckedIsCleared`),
and so is all that was released (`ReleasedIsCleared`), where *cleared* refers to the agreements,
which only grow (`ClearedIsStable`). `OnlyMembersClear` has a hypothesis of its own: the claimed
groups are groups the approver belongs to, which the example workflow does not ensure.
`GateImplementsAuthority` is the refinement, step by step.

**CommentWorkflowProofs.** `IInv` says what a job may still rely on at its next request: the pull
request it resolved once contained its commit and is the one its artifact names, if it names
one (`Placed`), and the comment it found is the gate's own or gone for good, as no id is used
twice (`FoundOurs`). Each step moves runs, comments and pull requests soundly, each on its own
(`RunsMove`, `CommentsMove`, `SourceMoves`), and the three together keep `IInv`. That gives
`ReportsAreRouted` and `OthersAreUntouched` without any condition.

`OneReportAtATime` and `CurrentAtATime` hold under `Sequential`, which is what the run
`comment_orderly` instantiates: one pull request, `Orderly`, no failed request, and no more
comments than the gate pages through (`comment_two_reports` and `comment_stale` are why the
first conditions are needed; a report beyond the last page is not found, which is why the last
is). `Alone` is inductive relative to `IInv`: all that is under way is for the head, so one job
at a time posts (`AtHead`, `OneJob`); while it lists, either it has found the one report, or
that lies beyond the pages read (`Reading`); a job that creates one has found none. The last step
is about pages: the positions of the comments are 1, 2, and so on (`PositionsAreInOrder`), so
a page with a comment beyond it is full (`PagesBeforeAreFull`) and the job reads on, and ids are
counted against what was posted and finished (`Counted`), so none is beyond the last page.

**ChangeReportProofs, SharedProofs.** `OneToOne` is inductive; `GivenUpForBetter` needs that
candidates are taken best first (`MatchInv`). The change set and the report are functions of a
finished matching, so the other properties are about those functions: each resource is a side
of exactly one change or pairing. `SharedProofs` has what a total needs: sums of the community
module are defined by recursion over subsets, and the induction is on a smallest counterexample
among the subsets of the index set (`SmallestMember`), which needs no induction theorem.
`CostIsConserved` is then an argument by regrouping: components are indexed by pairing and
dimension, places in a price by resource and dimension, and both sums are the one over places,
grouped in two ways (`SumByGroup`).

**PricingProofs.** `PricingInv` relates a look-up under way to the cache and the listing: its
key is not cached, and unless the service changed its mind, the rates collected are those of
the pages walked. `PricesAreUnambiguous` follows, and `ProvidersImplementBook`, the refinement
of `PriceBook`, whose book is the cache read through the chain.

**EstimatorProofs.** An estimator knows its resource and what it is told of its use (`SameUse`),
which is what an unused override and a schedule of something that cannot be stopped leave
alone. `StatedChargesAreForced` goes through the estimators one by one; a sequence of charges is
joined from parts, each of which is forced (`ForcedJoin`). The closest override is the one at the
least distance, which exists by a smallest counterexample again. `SchedulesMeasureTheWeek` takes
each window as a block of hours of the week; blocks that do not overlap are disjoint groups, and
the sum of their sizes is the size of the union (`CountByGroup`).

The accuracy report: `NonePredictedIsLost` groups what is left out by reason, again with
`CountByGroup`. `SpreadsAreReal` needs that a quantile exists. It is the value with no more than
so many before it and more than so many up to it; the smallest value with more than so many up
to it is one (`RankHasValue`), since those before it are all at or below the greatest of them.
So a quantile occurs among the errors, and one of a higher rank is not lower.

**AnalysisProofs.** A run takes the steps of the providers (`RunsProviders`), and inherits their
theorems. `RunInv` types it, and carries that once the provider broke only `Crash` is left
(`Doomed`). `EstimateInv` follows the plan: what is estimated is a beginning of the plan, every
price in it is what the book says of its key, and so is the answer in hand, for as long as no
entry expired; `UnchangedIsFree` needs all three. `Gathered` says what a published component is
made of, from which `PassedIsWithinBudget` follows: a budget measures all of the proposal in its
scope, what exceeds a threshold, the warning included, is a rule, and the verdict is at least as
severe as each rule; for an approval and a block, the exit code then follows from the verdict and
what the run was asked to fail on (`PassIsLenient`).
`Judged` says that the verdict is the decision on the published components;
`DearerIsJudgedHarder` compares it with that on a dearer one, from sums and budgets through
every predicate to the conditions, which are evaluated by an argument on the largest part of the
document that has been evaluated (`ConditionsAreEvaluated`). `LoadedCatalogIsUnambiguous` and
`LockedCatalogIsPinned` are about catalogs of any size.

`AdviceIsReal` is about the total a run says its advice concerns. Each advice is about a set of known costs of
the resource it names, or of the resources of a type advised on together, and its amount is what
they add up to (`Backed`). A total is stated only if no two pieces of advice with an amount, zero
included, name the same resource or both several, so their sets are disjoint and the total is a sum over part of the report
(`AdviceAddsUp`). It has a hypothesis, `NothingNegative`: the expected lifetime of a profile and
the figures of a template are not negative. The code checks the sign of neither
(`config/usage.py:150`), and a negative cost would make the part more than the whole.

**TemplateProofs.** `KnownIsFinal` and `OutcomesAreForeseen` hold for every document. Resolution
recurses over it, and what ends the recursion is the limit on the depth, so both arguments go
from the deepest level, where everything is unknown, up to the first (`CountedUp`, from a smallest
counterexample). First, that there is such a function at all (`DocumentsResolve`): an answer
depends only on answers that are deeper (`VerdictAgrees`, `ValueAgrees`), given that the
unresolved items of every list are in the document (`ValueIsValue`). Then, that an answer that is
not unknown stays as it is when more parameters are given, if the deeper ones do, operator by
operator (`VerdictIsKept`, `ValueIsKept`); of a conjunction, the operand that was false is still
false. This is more than the property says: it holds of lists and references too.

**Only model-checked.** Liveness (`Delivered`, `EveryRunEnds` of both specifications), which is out
of the prover's reach. Every invariant and every action property of a passing run is a theorem.
The seven violated properties are not, of course.

## 5. Not modelled

* *YAML and JSON loading* (`cfn_loader.py`, `yaml_bounds.py`, `config/loader.py`,
  `config/strict.py`): syntax; a document that does not load is the `Refuse` of `Analysis`.
  Malformed arguments of an intrinsic resolve to unknown and are not distinguished.
* *Money arithmetic*: amounts are whole, so rounding of Decimals is not modelled; schedules and
  accuracy figures round as the code does.
* *Ranges* (`low`, `high`) of quantities and the reasons, assumptions and evidence of a report:
  they do not reach the decision.
* *The CDK and git adapters, reports, demo, schemas, scripts*: they run other programs or
  format text.
* *Cost Explorer* behind the feedback loop: a bill is given.

## 6. Plan

The safety properties that the runs check are proved. What is left is the hazards that no property
covers yet (`PROJECT.json` says why), and `EveryRunEnds`, of which the safety part can be proved:
a measure that every step of a run decreases.
