--------------------------- MODULE CommentWorkflow ---------------------------
(***************************************************************************)
(* The two workflows that put a report on a pull request.  `cost-gate`     *)
(* analyses a push without privileges and uploads an artifact; every one   *)
(* of its runs that ends, in success or not, triggers `cost-gate-comment`, *)
(* which loads the artifact as untrusted data, resolves the pull request   *)
(* from the head commit and posts the report, or updates the one already   *)
(* there (.github/workflows, adapters/github.py, adapters/github_http.py,  *)
(* cli/comment.py).                                                        *)
(*                                                                         *)
(* A comment job is split at its requests, so that jobs of different       *)
(* commits, people and GitHub interleave between any two of them.  A       *)
(* transient failure is retried; a request whose answer was lost has had   *)
(* its effect, and is retried all the same.                                *)
(*                                                                         *)
(* GitHub is modelled from how the workflows use it: concurrency groups    *)
(* with at most one waiting run, the pull requests associated with a       *)
(* commit (open ones that contain it), comments listed oldest first.       *)
(***************************************************************************)
EXTENDS Naturals, Sequences, FiniteSets

CONSTANTS
  PR,          \* pull requests
  None,        \* no pull request, no comment
  PageSize, MaxPages,   \* github_http.py: PAGE_SIZE, MAX_COMMENT_PAGES
  MaxAttempts, \* github_http.py: MAX_ATTEMPTS
  Orderly,     \* TRUE: one commit at a time, see Push, Rerun, Close and Delete
  MaxPushes, MaxRuns, MaxRemarks, MaxFaults    \* bounds on what happens

ASSUME PageAssumption == {PageSize, MaxPages, MaxAttempts} \subseteq Nat \ {0}
ASSUME LimitAssumption == {MaxPushes, MaxRuns, MaxRemarks, MaxFaults} \subseteq Nat
ASSUME OrderlyAssumption == Orderly \in BOOLEAN
ASSUME NoneIsNothing == None \notin PR \cup Nat

Sha == 1..MaxPushes
Run == 1..MaxRuns

VARIABLES
  open,        \* the open pull requests
  commits,     \* the commits each pull request contains
  pushed,      \* commits pushed so far; the last one is the newest
  runs,        \* analysis runs in the order they were triggered, each with
               \* the comment job its completion triggers
  comments,    \* the comments on all pull requests
  nextId,      \* the id of the next comment
  remarks,     \* what people did to comments so far, for MaxRemarks
  faults,      \* failed requests so far, for MaxFaults
  contained    \* history: which pull request ever contained which commit

vars == <<open, commits, pushed, runs, comments, nextId, remarks, faults, contained>>

-----------------------------------------------------------------------------

(* What a run leaves behind: a report that can be loaded or not (missing,  *)
(* oversized, not JSON, of another schema version, or beside a number file *)
(* that is not a number), and the pull request the number file names.  A   *)
(* run cancelled before its last line has written no number.               *)
Outcomes == [usable : {TRUE}, claimed : PR \cup {None}]
              \cup {[usable |-> FALSE, claimed |-> None]}

Requesting == {"resolving", "listing", "updating", "creating"}
Ended == {"done", "failed", "superseded"}
Phases == {"analysing", "waiting"} \cup Requesting \cup Ended

Runs == [sha : Sha, pr : PR, phase : Phases, usable : BOOLEAN, claimed : PR \cup {None},
         target : PR \cup {None}, page : 1..(MaxPages + 1),
         found : Nat \cup {None}, attempt : 1..MaxAttempts]

(* Faulty variant: attempts are counted from zero.                         *)
NewRunFromZero(p, s) ==
  [sha |-> s, pr |-> p, phase |-> "analysing", usable |-> FALSE, claimed |-> None,
   target |-> None, page |-> 1, found |-> None, attempt |-> 0]

NewRun(p, s) ==
  [sha |-> s, pr |-> p, phase |-> "analysing", usable |-> FALSE, claimed |-> None,
   target |-> None, page |-> 1, found |-> None, attempt |-> 1]

HeadCommit(p) == CHOOSE s \in commits[p] : \A t \in commits[p] : t <= s

(* The comments the gate takes for its own.                                *)
(* Faulty variant: the marker alone tells the gate's comments.             *)
OursByMarker(cs) == {c \in cs : c.marked}

Ours(cs) == {c \in cs : c.marked /\ c.by = "bot"}

Quiet == \A i \in DOMAIN runs : runs[i].phase \in Ended

(* Run i of rs has completed: its comment job waits, and takes the place   *)
(* of one that waits in the same concurrency group.                        *)
Completed(rs, i, o) ==
  [j \in DOMAIN rs |->
    CASE j = i -> [rs[j] EXCEPT !.phase = "waiting", !.usable = o.usable, !.claimed = o.claimed]
      [] j # i /\ rs[j].phase = "waiting" /\ rs[j].sha = rs[i].sha
           -> [rs[j] EXCEPT !.phase = "superseded"]
      [] OTHER -> rs[j]]

(* A new analysis of a pull request cancels the one in progress, which     *)
(* completes as cancelled, whatever it has written by then.                *)
Trigger(p, s) ==
  LET InProgress == {i \in DOMAIN runs : runs[i].pr = p /\ runs[i].phase = "analysing"}
  IN  /\ Len(runs) < MaxRuns
      /\ \/ /\ InProgress = {}
            /\ runs' = Append(runs, NewRun(p, s))
         \/ \E i \in InProgress, o \in Outcomes :
              runs' = Append(Completed(runs, i, o), NewRun(p, s))

-----------------------------------------------------------------------------
(* People.  With Orderly, pushes wait until the workflows are quiet, only  *)
(* the head commit is analysed again, and while a job may be listing the   *)
(* comments nobody deletes one that is not the gate's.                     *)

Init ==
  /\ open = PR
  /\ commits = [p \in PR |-> {}]
  /\ pushed = 0
  /\ runs = <<>>
  /\ comments = {}
  /\ nextId = 1
  /\ remarks = 0
  /\ faults = 0
  /\ contained = {}

(* A push adds to what the pull request contains, replaces it, or puts it  *)
(* on top of another pull request.                                         *)
Push(p) ==
  /\ Orderly => Quiet
  /\ p \in open
  /\ pushed < MaxPushes
  /\ pushed' = pushed + 1
  /\ \E kept \in {{}} \cup {commits[q] : q \in PR} :
       commits' = [commits EXCEPT ![p] = kept \cup {pushed'}]
  /\ contained' = contained \cup {<<p, s>> : s \in commits'[p]}
  /\ Trigger(p, pushed')
  /\ UNCHANGED <<open, comments, nextId, remarks, faults>>

(* Somebody re-runs an analysis that has ended.                            *)
Rerun(i) ==
  /\ Orderly => runs[i].sha = HeadCommit(runs[i].pr)
  /\ runs[i].phase # "analysing"
  /\ Trigger(runs[i].pr, runs[i].sha)
  /\ UNCHANGED <<open, commits, pushed, comments, nextId, remarks, faults, contained>>

Close(p) ==
  /\ Orderly => Quiet
  /\ p \in open
  /\ open' = open \ {p}
  /\ UNCHANGED <<commits, pushed, runs, comments, nextId, remarks, faults, contained>>

(* A comment by a person, who may quote the marker, or by another workflow *)
(* that shares the gate's identity but not its marker.                     *)
Remark(p, by, marked) ==
  /\ remarks < MaxRemarks
  /\ by = "bot" => ~marked
  /\ comments' = comments \cup {[id |-> nextId, pr |-> p, by |-> by,
                                 marked |-> marked, shows |-> None]}
  /\ nextId' = nextId + 1
  /\ remarks' = remarks + 1
  /\ UNCHANGED <<open, commits, pushed, runs, faults, contained>>

Delete(c) ==
  /\ Orderly => Quiet \/ c \in Ours(comments)
  /\ remarks < MaxRemarks
  /\ comments' = comments \ {c}
  /\ remarks' = remarks + 1
  /\ UNCHANGED <<open, commits, pushed, runs, nextId, faults, contained>>

-----------------------------------------------------------------------------
(* The workflows.                                                          *)

(* The analysis ends and its artifact is uploaded.                         *)
Analyse(i) ==
  /\ runs[i].phase = "analysing"
  /\ \E o \in Outcomes : runs' = Completed(runs, i, o)
  /\ UNCHANGED <<open, commits, pushed, comments, nextId, remarks, faults, contained>>

(* Faulty variant: comment jobs are not grouped by commit.                 *)
StartAtOnce(i) ==
  /\ runs[i].phase = "waiting"
  /\ runs' = [runs EXCEPT ![i].phase = IF runs[i].usable THEN "resolving" ELSE "failed"]
  /\ UNCHANGED <<open, commits, pushed, comments, nextId, remarks, faults, contained>>

(* The comment job starts once no other job of the same commit is running, *)
(* and loads the artifact.                                                 *)
Start(i) ==
  /\ runs[i].phase = "waiting"
  /\ \A j \in DOMAIN runs : runs[j].sha = runs[i].sha => runs[j].phase \notin Requesting
  /\ runs' = [runs EXCEPT ![i].phase = IF runs[i].usable THEN "resolving" ELSE "failed"]
  /\ UNCHANGED <<open, commits, pushed, comments, nextId, remarks, faults, contained>>

(* Open pull requests GitHub associates with the commit: not only those    *)
(* whose head it is.                                                       *)
PullRequestsForCommit(s) == {p \in open : s \in commits[p]}

(* Faulty variants: the number file decides; a missing number is refused.  *)
ResolveByClaim(i) ==
  /\ runs[i].phase = "resolving"
  /\ LET claimed == runs[i].claimed
     IN runs' = [runs EXCEPT ![i].phase = IF claimed # None THEN "listing" ELSE "failed",
                             ![i].target = claimed, ![i].attempt = 1]
  /\ UNCHANGED <<open, commits, pushed, comments, nextId, remarks, faults, contained>>

ResolveWithNumberOnly(i) ==
  /\ runs[i].phase = "resolving"
  /\ LET claimed == runs[i].claimed
         matching == PullRequestsForCommit(runs[i].sha) = {claimed}
     IN runs' = [runs EXCEPT ![i].phase = IF matching THEN "listing" ELSE "failed",
                             ![i].target = claimed, ![i].attempt = 1]
  /\ UNCHANGED <<open, commits, pushed, comments, nextId, remarks, faults, contained>>

(* The pull request is the only candidate, and the one the artifact claims *)
(* if it claims any; otherwise the job is refused.                         *)
Resolve(i) ==
  /\ runs[i].phase = "resolving"
  /\ LET candidates == PullRequestsForCommit(runs[i].sha)
     IN \/ \E p \in candidates :
             /\ candidates = {p}
             /\ runs[i].claimed \in {p, None}
             /\ runs' = [runs EXCEPT ![i].phase = "listing", ![i].target = p, ![i].attempt = 1]
        \/ /\ \A p \in candidates : candidates # {p} \/ runs[i].claimed \notin {p, None}
           /\ runs' = [runs EXCEPT ![i].phase = "failed"]
  /\ UNCHANGED <<open, commits, pushed, comments, nextId, remarks, faults, contained>>

(* The n-th page of the comments on a pull request, oldest first.          *)
Position(c) == Cardinality({d \in comments : d.pr = c.pr /\ d.id <= c.id})
Page(p, n) ==
  {c \in comments : c.pr = p /\ Position(c) \in ((n - 1) * PageSize + 1)..(n * PageSize)}

Oldest(cs) == CHOOSE c \in cs : \A d \in cs : c.id <= d.id

(* One page is listed, and the next one unless it was the last; the oldest *)
(* comment of the gate is the one to update.                               *)
ListPage(i) ==
  /\ runs[i].phase = "listing"
  /\ LET run == runs[i]
         page == Page(run.target, run.page)
         found == IF run.found = None /\ Ours(page) # {} THEN Oldest(Ours(page)).id
                  ELSE run.found
         more == Cardinality(page) = PageSize /\ run.page < MaxPages
     IN runs' = [runs EXCEPT
          ![i].found = found, ![i].page = run.page + 1, ![i].attempt = 1,
          ![i].phase = IF more THEN "listing" ELSE IF found = None THEN "creating" ELSE "updating"]
  /\ UNCHANGED <<open, commits, pushed, comments, nextId, remarks, faults, contained>>

Exists(id) == \E c \in comments : c.id = id

(* What PATCH and POST do to the comments.                                 *)
Patched(i) ==
  {IF c.id = runs[i].found THEN [c EXCEPT !.shows = i] ELSE c : c \in comments}
Posted(i) ==
  comments \cup {[id |-> nextId, pr |-> runs[i].target, by |-> "bot", marked |-> TRUE, shows |-> i]}

(* Faulty variant: an existing report is left alone.                       *)
UpdateNever(i) ==
  /\ runs[i].phase = "updating"
  /\ runs' = [runs EXCEPT ![i].phase = IF Exists(runs[i].found) THEN "done" ELSE "creating"]
  /\ UNCHANGED <<open, commits, pushed, comments, nextId, remarks, faults, contained>>

(* Faulty variant: a 404 is retried like a transient failure.              *)
UpdateInsisting(i) ==
  /\ runs[i].phase = "updating"
  /\ Exists(runs[i].found)
  /\ comments' = Patched(i)
  /\ runs' = [runs EXCEPT ![i].phase = "done"]
  /\ UNCHANGED <<open, commits, pushed, nextId, remarks, faults, contained>>

(* The comment is updated in place; one that is gone by now is replaced by *)
(* a new one.                                                              *)
Update(i) ==
  /\ runs[i].phase = "updating"
  /\ comments' = Patched(i)
  /\ runs' = [runs EXCEPT ![i].phase = IF Exists(runs[i].found) THEN "done" ELSE "creating",
                          ![i].attempt = 1]
  /\ UNCHANGED <<open, commits, pushed, nextId, remarks, faults, contained>>

Create(i) ==
  /\ runs[i].phase = "creating"
  /\ comments' = Posted(i)
  /\ nextId' = nextId + 1
  /\ runs' = [runs EXCEPT ![i].phase = "done"]
  /\ UNCHANGED <<open, commits, pushed, remarks, faults, contained>>

(* The attempt at a request failed: there is another one, up to a limit.   *)
Retried(i) ==
  IF runs[i].attempt < MaxAttempts THEN [runs EXCEPT ![i].attempt = @ + 1]
  ELSE [runs EXCEPT ![i].phase = "failed"]

(* A request is throttled, refused by an overloaded server or times out    *)
(* before it has had an effect.                                            *)
Unavailable(i) ==
  /\ faults < MaxFaults
  /\ runs[i].phase \in Requesting
  /\ runs' = Retried(i)
  /\ faults' = faults + 1
  /\ UNCHANGED <<open, commits, pushed, comments, nextId, remarks, contained>>

(* A request has its effect, and the answer is lost.                       *)
LoseAnswer(i) ==
  /\ faults < MaxFaults
  /\ \/ /\ runs[i].phase = "updating"
        /\ Exists(runs[i].found)
        /\ comments' = Patched(i)
        /\ UNCHANGED nextId
     \/ /\ runs[i].phase = "creating"
        /\ comments' = Posted(i)
        /\ nextId' = nextId + 1
  /\ runs' = Retried(i)
  /\ faults' = faults + 1
  /\ UNCHANGED <<open, commits, pushed, remarks, contained>>

(* A request is rejected for good, or the job is killed.                   *)
Reject(i) ==
  /\ faults < MaxFaults
  /\ runs[i].phase \in Requesting
  /\ runs' = [runs EXCEPT ![i].phase = "failed"]
  /\ faults' = faults + 1
  /\ UNCHANGED <<open, commits, pushed, comments, nextId, remarks, contained>>

Work(i) ==
  \/ Analyse(i)
  \/ Start(i)
  \/ Resolve(i)
  \/ ListPage(i)
  \/ Update(i)
  \/ Create(i)

Next ==
  \/ \E p \in PR : Push(p)
  \/ \E i \in DOMAIN runs : Rerun(i)
  \/ \E p \in PR : Close(p)
  \/ \E p \in PR, by \in {"bot", "human"}, marked \in BOOLEAN : Remark(p, by, marked)
  \/ \E c \in comments : Delete(c)
  \/ \E i \in DOMAIN runs : Work(i)
  \/ \E i \in DOMAIN runs : Unavailable(i)
  \/ \E i \in DOMAIN runs : LoseAnswer(i)
  \/ \E i \in DOMAIN runs : Reject(i)

Spec == Init /\ [][Next]_vars

(* GitHub runs the jobs it has accepted, and a request is answered or      *)
(* times out (github_http.py:114); nobody is obliged to push or comment.   *)
FairSpec == Spec /\ \A i \in Run : WF_vars(i \in DOMAIN runs /\ Work(i))

-----------------------------------------------------------------------------
(* Properties.                                                             *)

Comments == [id : Nat, pr : PR, by : {"bot", "human"}, marked : BOOLEAN, shows : Run \cup {None}]

(* Every variable holds what its declaration says; ids are unique.         *)
TypeOK ==
  /\ open \subseteq PR
  /\ commits \in [PR -> SUBSET Sha]
  /\ pushed \in 0..MaxPushes
  /\ runs \in Seq(Runs) /\ Len(runs) <= MaxRuns
  /\ comments \subseteq Comments
  /\ nextId \in Nat \ {0}
  /\ \A c \in comments : c.id < nextId
  /\ \A c, d \in comments : c.id = d.id => c = d
  /\ remarks \in 0..MaxRemarks
  /\ faults \in 0..MaxFaults
  /\ contained \subseteq PR \X Sha

GateComments(p) == {c \in comments : c.pr = p /\ c.shows # None}

(* A report is only ever on a pull request that contained the commit it is *)
(* about, and on no other than the one it names, if it names one, however  *)
(* pull requests are stacked, rewritten and closed while the job runs      *)
(* (github.py:159).                                                        *)
RoutedByCommit ==
  \A p \in PR : \A c \in GateComments(p) :
    /\ <<p, runs[c.shows].sha>> \in contained
    /\ runs[c.shows].claimed \in {p, None}

(* Comments the gate did not post are never changed, even if they quote    *)
(* its marker or share its author; people alone delete them                *)
(* (github.py:198).                                                        *)
OthersUntouched ==
  [][\A c \in {d \in comments : d.shows = None} :
        c \in comments' \/ (remarks' > remarks /\ \A d \in comments' : d.id # c.id)]_vars

(* Every comment job GitHub starts comes to an end, whatever is deleted,   *)
(* lost or closed meanwhile.                                               *)
EveryRunEnds ==
  \A i \in Run : i \in DOMAIN runs ~> i \in DOMAIN runs /\ runs[i].phase \in Ended

(* One comment that changes in place: a pull request never carries two     *)
(* reports (github.py:230).                                                *)
OneReport == \A p \in PR : Cardinality(GateComments(p)) <= 1

(* When the workflows are quiet and the head commit of a pull request was  *)
(* reported on, what is shown is a report on the head commit: "a rapid     *)
(* series of pushes should leave one current report, not a queue of        *)
(* contradictory ones racing to comment" (cost-gate.yml:25).               *)
CurrentWhenQuiet ==
  \A p \in open :
    (/\ Quiet
     /\ \E i \in DOMAIN runs : /\ runs[i].phase = "done"
                               /\ runs[i].target = p
                               /\ runs[i].sha = HeadCommit(p))
    => \A c \in GateComments(p) : runs[c.shows].sha = HeadCommit(p)

(* A report that was uploaded for a commit of one open pull request is     *)
(* eventually shown on it, with or without a number file, unless a later   *)
(* run for the same commit replaces it or the pull request changes first.  *)
Deliverable(i) ==
  /\ runs[i].phase = "waiting"
  /\ runs[i].usable
  /\ runs[i].claimed \in {runs[i].pr, None}
  /\ PullRequestsForCommit(runs[i].sha) = {runs[i].pr}

Delivered ==
  \A i \in Run :
    (i \in DOMAIN runs /\ Deliverable(i))
    ~> /\ i \in DOMAIN runs
       /\ \/ \E c \in GateComments(runs[i].pr) : c.shows = i
          \/ runs[i].phase = "superseded"
          \/ PullRequestsForCommit(runs[i].sha) # {runs[i].pr}
=============================================================================
