------------------------ MODULE CommentWorkflowProofs ------------------------
(***************************************************************************)
(* Theorems about CommentWorkflow, for every set of pull requests, every   *)
(* page size and every bound on pushes, runs, remarks and faults.          *)
(*                                                                         *)
(* What is shown on a pull request was decided several requests earlier,   *)
(* when the job resolved its commit, and in between pull requests are      *)
(* rewritten and closed and comments come and go.  The inductive invariant *)
(* says what a job may still rely on: its pull request once contained its  *)
(* commit and is the one its artifact names, if it names one; and the      *)
(* comment it has found is the gate's own, on that pull request, or gone   *)
(* for good, since GitHub never uses an id twice.                          *)
(*                                                                         *)
(* That a pull request carries one report, and the current one, is true of *)
(* one commit at a time only.  Why it is then is an argument about reading *)
(* in pages: the positions of the comments are 1, 2, and so on, so a page  *)
(* with a comment beyond it is full, and a job that stops without having   *)
(* found a report has read them all.                                       *)
(***************************************************************************)
EXTENDS CommentWorkflow, SequenceTheorems, FiniteSetTheorems, FunctionTheorems,
        WellFoundedInduction, TLAPS

-----------------------------------------------------------------------------
(* The inductive invariant.                                                *)

(* Before a job has read anything, and between there and its end.          *)
Unread == {"analysing", "waiting", "resolving"}
Posting == {"listing", "updating", "creating"}

(* What a job has read so far.                                             *)
ReadSoFar(r) ==
  /\ r.phase \in Unread => r.found = None /\ r.page = 1
  /\ r.phase = "listing" => r.page <= MaxPages
  /\ r.phase = "updating" => r.found # None

(* The pull request a job has resolved is one that its report belongs on.  *)
Placed(r) ==
  r.phase \in Posting =>
    /\ r.target \in PR
    /\ <<r.target, r.sha>> \in contained
    /\ r.claimed \in {r.target, None}

(* The comment a job has found is the gate's, on that pull request, or     *)
(* gone; no later comment will have its id.                                *)
FoundOurs(r) ==
  (r.phase \in Posting /\ r.found # None) =>
    /\ r.found < nextId
    /\ \A c \in comments : c.id = r.found => c.pr = r.target /\ c.marked /\ c.by = "bot"

RunsPlaced ==
  \A i \in DOMAIN runs : ReadSoFar(runs[i]) /\ Placed(runs[i]) /\ FoundOurs(runs[i])

(* The gate's comments are those that show a report, and the run they show *)
(* has ended its analysis: its commit and its claim are fixed.             *)
ReportsPlaced ==
  \A c \in comments :
    /\ (c.marked /\ c.by = "bot") <=> c.shows # None
    /\ c.shows # None =>
         /\ c.shows \in DOMAIN runs
         /\ runs[c.shows].phase # "analysing"
         /\ <<c.pr, runs[c.shows].sha>> \in contained
         /\ runs[c.shows].claimed \in {c.pr, None}

CommitsRecorded == \A p \in PR : \A s \in commits[p] : <<p, s>> \in contained

IInv == TypeOK /\ RunsPlaced /\ ReportsPlaced /\ CommitsRecorded

-----------------------------------------------------------------------------
(* Runs.                                                                   *)

LEMMA RunAt ==
  ASSUME TypeOK, NEW i \in DOMAIN runs
  PROVE  /\ runs[i] \in Runs /\ i \in Run /\ i \in Nat \ {0}
         /\ DOMAIN runs = 1..Len(runs) /\ i \in 1..Len(runs)
<1>1. DOMAIN runs = 1..Len(runs) /\ Len(runs) \in Nat
  BY LenProperties DEF TypeOK
<1>2. runs[i] \in Runs
  BY <1>1, ElementOfSeq DEF TypeOK
<1> QED  BY <1>1, <1>2, LimitAssumption DEF TypeOK, Run

(* What a step may do to a run that exists already: it keeps its commit,   *)
(* and once its analysis has ended the claim is settled.                   *)
Evolves(r, s) ==
  /\ s.sha = r.sha
  /\ r.phase # "analysing" => s.phase # "analysing" /\ s.claimed = r.claimed

(* What the invariant says of one run, in the state before a step.         *)
Sound(r) == r \in Runs /\ ReadSoFar(r) /\ Placed(r) /\ FoundOurs(r)

RunsMove ==
  /\ runs' \in Seq(Runs)
  /\ Len(runs') <= MaxRuns
  /\ DOMAIN runs \subseteq DOMAIN runs'
  /\ \A i \in DOMAIN runs' : Sound(runs'[i])
  /\ \A i \in DOMAIN runs : Evolves(runs[i], runs'[i])

LEMMA RunsStay == ASSUME IInv, UNCHANGED runs PROVE RunsMove
BY RunAt DEF IInv, RunsPlaced, RunsMove, Sound, Evolves, TypeOK

LEMMA OneRunMoves ==
  ASSUME IInv, NEW i \in DOMAIN runs, NEW r,
         runs' = [runs EXCEPT ![i] = r], Sound(r), Evolves(runs[i], r)
  PROVE  RunsMove
<1>1. runs \in Seq(Runs) /\ r \in Runs /\ i \in 1..Len(runs) /\ DOMAIN runs = 1..Len(runs)
  BY RunAt DEF IInv, TypeOK, Sound
<1>2. /\ runs' \in Seq(Runs) /\ Len(runs') = Len(runs)
      /\ \A j \in 1..Len(runs) : runs'[j] = IF j = i THEN r ELSE runs[j]
  BY <1>1, ExceptSeq
<1>3. DOMAIN runs' = DOMAIN runs
  BY <1>1, <1>2, LenProperties
<1>4. ASSUME NEW j \in DOMAIN runs PROVE Sound(runs'[j]) /\ Evolves(runs[j], runs'[j])
  BY <1>1, <1>2, RunAt DEF IInv, RunsPlaced, Sound, Evolves
<1> QED  BY <1>2, <1>3, <1>4 DEF IInv, TypeOK, RunsMove

(* A new run is sound, whatever it is for.                                 *)
LEMMA NewRunIsSound ==
  ASSUME NEW p \in PR, NEW s \in Sha
  PROVE  Sound(NewRun(p, s))
BY PageAssumption DEF Sound, NewRun, Runs, Phases, Requesting, Ended, ReadSoFar, Placed,
                      FoundOurs, Unread, Posting

(* A run that completes waits; one that waited for the same commit is      *)
(* superseded; every other run stays as it is.                             *)
LEMMA CompletedRuns ==
  ASSUME IInv, NEW i \in DOMAIN runs, NEW o \in Outcomes, runs[i].phase = "analysing"
  PROVE  /\ Completed(runs, i, o) \in Seq(Runs)
         /\ Len(Completed(runs, i, o)) = Len(runs)
         /\ \A j \in 1..Len(runs) : /\ Sound(Completed(runs, i, o)[j])
                                    /\ Evolves(runs[j], Completed(runs, i, o)[j])
<1> DEFINE rs == Completed(runs, i, o)
           After(j) == CASE j = i -> [runs[j] EXCEPT !.phase = "waiting", !.usable = o.usable,
                                                     !.claimed = o.claimed]
                        [] j # i /\ runs[j].phase = "waiting" /\ runs[j].sha = runs[i].sha
                             -> [runs[j] EXCEPT !.phase = "superseded"]
                        [] OTHER -> runs[j]
<1>1. o.usable \in BOOLEAN /\ o.claimed \in PR \cup {None}
  <2>1. CASE o \in [usable : {TRUE}, claimed : PR \cup {None}]
    <3>1. o.usable \in {TRUE} /\ o.claimed \in PR \cup {None}  BY <2>1
    <3> QED  BY <3>1, Zenon
  <2>2. CASE o = [usable |-> FALSE, claimed |-> None]
    <3>1. o.usable = FALSE /\ o.claimed = None  BY <2>2
    <3> QED  BY <3>1
  <2> QED  BY <2>1, <2>2 DEF Outcomes
<1>2. DOMAIN runs = 1..Len(runs) /\ Len(runs) \in Nat
  BY RunAt, LenProperties DEF IInv, TypeOK
<1>3. rs = [j \in 1..Len(runs) |-> After(j)]
  BY <1>2 DEF Completed
<1>4. ASSUME NEW j \in 1..Len(runs)
      PROVE  Sound(After(j)) /\ Evolves(runs[j], After(j))
  <2>1. /\ runs[j] \in Runs /\ ReadSoFar(runs[j]) /\ Placed(runs[j]) /\ FoundOurs(runs[j])
    BY <1>2, RunAt DEF IInv, RunsPlaced
  <2>2. CASE j = i
    <3> DEFINE r == [runs[j] EXCEPT !.phase = "waiting", !.usable = o.usable, !.claimed = o.claimed]
    <3>1. After(j) = r  BY <2>2
    <3>2. r \in Runs
      BY <1>1, <2>1 DEF Runs, Phases
    <3>3. /\ r.phase = "waiting" /\ r.sha = runs[j].sha
          /\ r.found = runs[j].found /\ r.page = runs[j].page
      BY <2>1 DEF Runs
    <3>4. ReadSoFar(r) /\ Placed(r) /\ FoundOurs(r)
      BY <2>1, <2>2, <3>3 DEF ReadSoFar, Placed, FoundOurs, Unread, Posting
    <3> HIDE DEF r, After
    <3> QED  BY <2>2, <3>1, <3>2, <3>3, <3>4 DEF Sound, Evolves
  <2>3. CASE j # i /\ runs[j].phase = "waiting" /\ runs[j].sha = runs[i].sha
    <3> DEFINE r == [runs[j] EXCEPT !.phase = "superseded"]
    <3>1. After(j) = r  BY <2>3
    <3>2. r \in Runs
      BY <2>1 DEF Runs, Phases, Ended
    <3>3. /\ r.phase = "superseded" /\ r.sha = runs[j].sha /\ r.claimed = runs[j].claimed
      BY <2>1 DEF Runs
    <3>4. ReadSoFar(r) /\ Placed(r) /\ FoundOurs(r)
      BY <3>3 DEF ReadSoFar, Placed, FoundOurs, Unread, Posting
    <3> HIDE DEF r, After
    <3> QED  BY <3>1, <3>2, <3>3, <3>4 DEF Sound, Evolves
  <2>4. CASE j # i /\ ~(runs[j].phase = "waiting" /\ runs[j].sha = runs[i].sha)
    <3>1. After(j) = runs[j]  BY <2>4
    <3> HIDE DEF After
    <3> QED  BY <2>1, <3>1 DEF Sound, Evolves
  <2> QED  BY <2>2, <2>3, <2>4
<1> HIDE DEF After
<1>5. \A j \in 1..Len(runs) : After(j) \in Runs
  BY <1>4 DEF Sound
<1>6. rs \in [1..Len(runs) -> Runs]
  BY <1>3, <1>5
<1>7. rs \in Seq(Runs) /\ Len(rs) = Len(runs)
  BY <1>2, <1>6, LenProperties, SeqDef
<1> QED  BY <1>3, <1>4, <1>7

-----------------------------------------------------------------------------
(* Every step moves every run soundly.                                     *)

(* A push or a re-run triggers an analysis, which may cancel one.          *)
LEMMA TriggerMoves ==
  ASSUME IInv, NEW p \in PR, NEW s \in Sha, Trigger(p, s)
  PROVE  RunsMove
<1>1. /\ runs \in Seq(Runs) /\ Len(runs) \in Nat /\ Len(runs) < MaxRuns /\ MaxRuns \in Nat
      /\ DOMAIN runs = 1..Len(runs)
  BY LenProperties, LimitAssumption DEF IInv, TypeOK, Trigger
<1>2. PICK rs : /\ rs \in Seq(Runs) /\ Len(rs) = Len(runs)
                /\ \A j \in 1..Len(runs) : Sound(rs[j]) /\ Evolves(runs[j], rs[j])
                /\ runs' = Append(rs, NewRun(p, s))
  <2>1. CASE runs' = Append(runs, NewRun(p, s))
    <3>1. \A j \in 1..Len(runs) : Sound(runs[j]) /\ Evolves(runs[j], runs[j])
      BY <1>1, RunAt DEF IInv, RunsPlaced, Sound, Evolves
    <3> QED  BY <1>1, <2>1, <3>1
  <2>2. CASE \E i \in {j \in DOMAIN runs : runs[j].pr = p /\ runs[j].phase = "analysing"},
                o \in Outcomes : runs' = Append(Completed(runs, i, o), NewRun(p, s))
    <3>1. PICK i \in DOMAIN runs, o \in Outcomes :
            /\ runs[i].phase = "analysing"
            /\ runs' = Append(Completed(runs, i, o), NewRun(p, s))
      BY <2>2
    <3> QED  BY <3>1, CompletedRuns
  <2> QED  BY <2>1, <2>2 DEF Trigger
<1>3. Sound(NewRun(p, s)) /\ NewRun(p, s) \in Runs
  BY NewRunIsSound DEF Sound
<1>4. /\ runs' \in Seq(Runs) /\ Len(runs') = Len(runs) + 1
      /\ \A j \in 1..Len(runs) : runs'[j] = rs[j]
      /\ runs'[Len(runs) + 1] = NewRun(p, s)
  BY <1>2, <1>3, AppendProperties
<1>5. DOMAIN runs' = 1..(Len(runs) + 1)
  BY <1>4, LenProperties
<1>6. \A j \in 1..(Len(runs) + 1) : Sound(runs'[j])
  BY <1>1, <1>2, <1>3, <1>4
<1> QED  BY <1>1, <1>2, <1>4, <1>5, <1>6 DEF RunsMove

(* A job that has not asked for anything yet, or will not again, relies on *)
(* nothing.                                                                *)
LEMMA IdleIsSound ==
  ASSUME IInv, NEW i \in DOMAIN runs,
         NEW phase \in {"resolving", "done", "failed"},
         phase = "resolving" => runs[i].phase = "waiting",
         runs[i].phase # "analysing"
  PROVE  /\ Sound([runs[i] EXCEPT !.phase = phase])
         /\ Evolves(runs[i], [runs[i] EXCEPT !.phase = phase])
<1> DEFINE r == [runs[i] EXCEPT !.phase = phase]
<1>1. runs[i] \in Runs /\ ReadSoFar(runs[i])
  BY RunAt DEF IInv, RunsPlaced
<1>2. r \in Runs
  BY <1>1 DEF Runs, Phases, Requesting, Ended
<1>3. /\ r.phase = phase /\ r.sha = runs[i].sha /\ r.claimed = runs[i].claimed
      /\ r.found = runs[i].found /\ r.page = runs[i].page
  BY <1>1 DEF Runs
<1>4. ReadSoFar(r) /\ Placed(r) /\ FoundOurs(r)
  BY <1>1, <1>3 DEF ReadSoFar, Placed, FoundOurs, Unread, Posting
<1>5. r.phase # "analysing"
  BY <1>3
<1> SUFFICES Sound(r) /\ Evolves(runs[i], r)
  OBVIOUS
<1> HIDE DEF r
<1> QED  BY <1>2, <1>3, <1>4, <1>5 DEF Sound, Evolves

(* Another attempt at the same request.                                    *)
LEMMA RetriedMoves ==
  ASSUME IInv, NEW i \in DOMAIN runs, runs[i].phase \in Requesting, runs' = Retried(i)
  PROVE  RunsMove
<1>1. /\ runs[i] \in Runs /\ ReadSoFar(runs[i]) /\ Placed(runs[i]) /\ FoundOurs(runs[i])
      /\ runs[i].phase # "analysing"
  BY RunAt DEF IInv, RunsPlaced, Requesting
<1>2. CASE runs[i].attempt < MaxAttempts
  <2> DEFINE r == [runs[i] EXCEPT !.attempt = runs[i].attempt + 1]
  <2>1. runs' = [runs EXCEPT ![i] = r]
    BY <1>2 DEF Retried
  <2>2. r \in Runs
    BY <1>1, <1>2, PageAssumption DEF Runs
  <2>3. /\ r.phase = runs[i].phase /\ r.sha = runs[i].sha /\ r.claimed = runs[i].claimed
        /\ r.found = runs[i].found /\ r.page = runs[i].page /\ r.target = runs[i].target
    BY <1>1 DEF Runs
  <2> HIDE DEF r
  <2>4. ReadSoFar(r) /\ Placed(r) /\ FoundOurs(r)
    BY <1>1, <2>3 DEF ReadSoFar, Placed, FoundOurs
  <2> QED  BY <1>1, <2>1, <2>2, <2>3, <2>4, OneRunMoves DEF Sound, Evolves
<1>3. CASE ~(runs[i].attempt < MaxAttempts)
  <2>1. runs' = [runs EXCEPT ![i] = [runs[i] EXCEPT !.phase = "failed"]]
    BY <1>3 DEF Retried
  <2> QED  BY <1>1, <2>1, IdleIsSound, OneRunMoves
<1> QED  BY <1>2, <1>3

(* The pull request resolved is open and contains the commit.              *)
LEMMA ResolveMoves ==
  ASSUME IInv, NEW i \in DOMAIN runs, Resolve(i)
  PROVE  RunsMove
<1>1. /\ runs[i] \in Runs /\ ReadSoFar(runs[i]) /\ runs[i].phase = "resolving"
  BY RunAt DEF IInv, RunsPlaced, Resolve
<1>2. CASE \E p \in PullRequestsForCommit(runs[i].sha) :
             /\ runs[i].claimed \in {p, None}
             /\ runs' = [runs EXCEPT ![i].phase = "listing", ![i].target = p, ![i].attempt = 1]
  <2>1. PICK p \in PullRequestsForCommit(runs[i].sha) :
             /\ runs[i].claimed \in {p, None}
             /\ runs' = [runs EXCEPT ![i].phase = "listing", ![i].target = p, ![i].attempt = 1]
    BY <1>2
  <2> DEFINE r == [runs[i] EXCEPT !.phase = "listing", !.target = p, !.attempt = 1]
  <2>2. runs' = [runs EXCEPT ![i] = r]
    BY <2>1
  <2>3. p \in PR /\ <<p, runs[i].sha>> \in contained
    BY <2>1 DEF IInv, TypeOK, PullRequestsForCommit, CommitsRecorded
  <2>4. r \in Runs
    <3>1. 1 \in 1..MaxAttempts /\ p \in PR \cup {None} /\ "listing" \in Phases
      BY <2>3, PageAssumption DEF Phases, Requesting
    <3> QED  BY <1>1, <3>1 DEF Runs
  <2>5. /\ r.phase = "listing" /\ r.sha = runs[i].sha /\ r.claimed = runs[i].claimed
        /\ r.found = runs[i].found /\ r.page = runs[i].page /\ r.target = p
    BY <1>1 DEF Runs
  <2> HIDE DEF r
  <2>6. ReadSoFar(r) /\ Placed(r) /\ FoundOurs(r)
    BY <1>1, <2>1, <2>3, <2>5, PageAssumption DEF ReadSoFar, Placed, FoundOurs, Unread
  <2> QED  BY <1>1, <2>2, <2>4, <2>5, <2>6, OneRunMoves DEF Sound, Evolves
<1>3. CASE runs' = [runs EXCEPT ![i].phase = "failed"]
  <2>1. runs' = [runs EXCEPT ![i] = [runs[i] EXCEPT !.phase = "failed"]]
    BY <1>3
  <2> QED  BY <1>1, <2>1, IdleIsSound, OneRunMoves
<1> QED  BY <1>2, <1>3 DEF Resolve

(* Of comments with different ids one is the oldest.                       *)
LEMMA OldestExists ==
  ASSUME NEW cs, cs # {}, \A c \in cs : c.id \in Nat
  PROVE  Oldest(cs) \in cs
<1> DEFINE ids == {c.id : c \in cs}
<1>1. ids \subseteq Nat /\ ids # {}  OBVIOUS
<1>2. PICK n \in ids : \A m \in ids : ~(<<m, n>> \in OpToRel(<, Nat))
  BY <1>1, NatLessThanWellFounded, WFMin
<1>3. ASSUME NEW m \in ids PROVE n <= m
  <2>1. n \in Nat /\ m \in Nat  BY <1>1
  <2>2. m < n => <<m, n>> \in OpToRel(<, Nat)
    BY <2>1 DEF OpToRel
  <2>3. ~(m < n)
    BY <1>2, <2>2, Zenon
  <2> QED  BY <2>1, <2>3
<1>4. \E c \in cs : \A d \in cs : c.id <= d.id
  BY <1>3
<1> QED  BY <1>4 DEF Oldest

(* The comment found on a page is the gate's, on the pull request listed;  *)
(* the page read last is remembered, and the next is within the limit.     *)
LEMMA ListPageMoves ==
  ASSUME IInv, NEW i \in DOMAIN runs, ListPage(i)
  PROVE  RunsMove
<1> DEFINE page == Page(runs[i].target, runs[i].page)
           found == IF runs[i].found = None /\ Ours(page) # {} THEN Oldest(Ours(page)).id
                    ELSE runs[i].found
           more == Cardinality(page) = PageSize /\ runs[i].page < MaxPages
           phase == IF more THEN "listing" ELSE IF found = None THEN "creating" ELSE "updating"
           r == [runs[i] EXCEPT !.found = found, !.page = runs[i].page + 1, !.attempt = 1,
                                !.phase = phase]
<1>1. /\ runs[i] \in Runs /\ ReadSoFar(runs[i]) /\ Placed(runs[i]) /\ FoundOurs(runs[i])
      /\ runs[i].phase = "listing"
  BY RunAt DEF IInv, RunsPlaced, ListPage
<1>2. runs' = [runs EXCEPT ![i] = r]
  BY DEF ListPage
<1>3. /\ runs[i].page \in Nat \ {0} /\ runs[i].page <= MaxPages /\ MaxPages \in Nat
      /\ 1 \in 1..MaxAttempts
  BY <1>1, PageAssumption DEF Runs, ReadSoFar
<1>4. \A c \in Ours(page) : /\ c \in comments /\ c.id \in Nat
                            /\ c.pr = runs[i].target /\ c.marked /\ c.by = "bot"
  BY DEF Ours, Page, IInv, TypeOK, Comments
<1>5. /\ found \in Nat \cup {None}
      /\ found # None =>
           /\ found < nextId
           /\ \A c \in comments : c.id = found => c.pr = runs[i].target /\ c.marked /\ c.by = "bot"
  <2>1. CASE runs[i].found = None /\ Ours(page) # {}
    <3>1. Oldest(Ours(page)) \in Ours(page)
      BY <1>4, <2>1, OldestExists
    <3>2. found = Oldest(Ours(page)).id
      BY <2>1
    <3> HIDE DEF page, found
    <3> QED  BY <1>4, <3>1, <3>2 DEF IInv, TypeOK
  <2>2. CASE ~(runs[i].found = None /\ Ours(page) # {})
    <3>1. found = runs[i].found
      BY <2>2
    <3> HIDE DEF page, found
    <3> QED  BY <1>1, <3>1 DEF FoundOurs, Posting, Runs
  <2> QED  BY <2>1, <2>2
<1>6. phase \in Posting /\ (phase = "listing" => runs[i].page + 1 <= MaxPages)
      /\ (phase = "updating" => found # None)
  <2> HIDE DEF page, found
  <2> QED  BY <1>3 DEF Posting
<1> HIDE DEF page, found, more, phase
<1>7. r \in Runs
  <2>1. phase \in Phases
    BY <1>6 DEF Phases, Requesting, Posting
  <2>2. runs[i].page + 1 \in 1..(MaxPages + 1)
    BY <1>3
  <2> QED  BY <1>1, <1>3, <1>5, <2>1, <2>2 DEF Runs
<1>8. /\ r.phase = phase /\ r.sha = runs[i].sha /\ r.claimed = runs[i].claimed
      /\ r.found = found /\ r.page = runs[i].page + 1 /\ r.target = runs[i].target
  BY <1>1 DEF Runs
<1> HIDE DEF r
<1>9. ReadSoFar(r) /\ Placed(r) /\ FoundOurs(r)
  <2>1. ReadSoFar(r)
    BY <1>6, <1>8 DEF ReadSoFar, Unread, Posting
  <2>2. Placed(r)
    BY <1>1, <1>8 DEF Placed, Posting
  <2>3. FoundOurs(r)
    BY <1>5, <1>8 DEF FoundOurs
  <2> QED  BY <2>1, <2>2, <2>3
<1>10. Evolves(runs[i], r)
  BY <1>1, <1>6, <1>8 DEF Evolves, Posting
<1> QED  BY <1>2, <1>7, <1>9, <1>10, OneRunMoves DEF Sound

(* An update that finds its comment gone goes on to create one, for the    *)
(* same pull request.                                                      *)
LEMMA UpdateMoves ==
  ASSUME IInv, NEW i \in DOMAIN runs, Update(i)
  PROVE  RunsMove
<1> DEFINE phase == IF Exists(runs[i].found) THEN "done" ELSE "creating"
           r == [runs[i] EXCEPT !.phase = phase, !.attempt = 1]
<1>1. /\ runs[i] \in Runs /\ Placed(runs[i]) /\ FoundOurs(runs[i])
      /\ runs[i].phase = "updating"
  BY RunAt DEF IInv, RunsPlaced, Update
<1>2. runs' = [runs EXCEPT ![i] = r]
  BY DEF Update
<1>3. phase \in {"done", "creating"}
  OBVIOUS
<1> HIDE DEF phase
<1>4. r \in Runs
  <2>1. phase \in Phases /\ 1 \in 1..MaxAttempts
    BY <1>3, PageAssumption DEF Phases, Requesting, Ended
  <2> QED  BY <1>1, <2>1 DEF Runs
<1>5. /\ r.phase = phase /\ r.sha = runs[i].sha /\ r.claimed = runs[i].claimed
      /\ r.found = runs[i].found /\ r.target = runs[i].target
  BY <1>1 DEF Runs
<1> HIDE DEF r
<1>6. ReadSoFar(r) /\ Placed(r) /\ FoundOurs(r)
  BY <1>1, <1>3, <1>5 DEF ReadSoFar, Placed, FoundOurs, Unread, Posting
<1>7. Evolves(runs[i], r)
  BY <1>1, <1>3, <1>5 DEF Evolves
<1> QED  BY <1>2, <1>4, <1>6, <1>7, OneRunMoves DEF Sound

LEMMA AllRunsMove ==
  ASSUME IInv, [Next]_vars
  PROVE  RunsMove
<1>1. ASSUME NEW p \in PR, Push(p) PROVE RunsMove
  <2>1. pushed' \in Sha /\ Trigger(p, pushed')
    BY <1>1, LimitAssumption DEF Push, IInv, TypeOK, Sha
  <2> QED  BY <2>1, TriggerMoves
<1>2. ASSUME NEW i \in DOMAIN runs, Rerun(i) PROVE RunsMove
  <2>1. runs[i].pr \in PR /\ runs[i].sha \in Sha
    BY RunAt DEF IInv, Runs
  <2> QED  BY <1>2, <2>1, TriggerMoves DEF Rerun
<1>3. ASSUME NEW p \in PR, Close(p) PROVE RunsMove
  BY <1>3, RunsStay DEF Close
<1>4. ASSUME NEW p \in PR, NEW by \in {"bot", "human"}, NEW marked \in BOOLEAN,
             Remark(p, by, marked)
      PROVE  RunsMove
  BY <1>4, RunsStay DEF Remark
<1>5. ASSUME NEW c \in comments, Delete(c) PROVE RunsMove
  BY <1>5, RunsStay DEF Delete
<1>6. ASSUME NEW i \in DOMAIN runs, Analyse(i) PROVE RunsMove
  <2>1. PICK o \in Outcomes : runs' = Completed(runs, i, o)
    BY <1>6 DEF Analyse
  <2>2. /\ runs' \in Seq(Runs) /\ Len(runs') = Len(runs)
        /\ \A j \in 1..Len(runs) : Sound(runs'[j]) /\ Evolves(runs[j], runs'[j])
    BY <1>6, <2>1, CompletedRuns DEF Analyse
  <2>3. DOMAIN runs' = 1..Len(runs) /\ DOMAIN runs = 1..Len(runs) /\ Len(runs) <= MaxRuns
    BY <2>2, RunAt, LenProperties DEF IInv, TypeOK
  <2> QED  BY <2>2, <2>3 DEF RunsMove
<1>7. ASSUME NEW i \in DOMAIN runs, Start(i) PROVE RunsMove
  <2> DEFINE phase == IF runs[i].usable THEN "resolving" ELSE "failed"
  <2>1. /\ runs[i].phase = "waiting" /\ phase \in {"resolving", "done", "failed"}
        /\ runs' = [runs EXCEPT ![i] = [runs[i] EXCEPT !.phase = phase]]
    BY <1>7 DEF Start
  <2> HIDE DEF phase
  <2> QED  BY <2>1, IdleIsSound, OneRunMoves
<1>8. ASSUME NEW i \in DOMAIN runs, Resolve(i) PROVE RunsMove
  BY <1>8, ResolveMoves
<1>9. ASSUME NEW i \in DOMAIN runs, ListPage(i) PROVE RunsMove
  BY <1>9, ListPageMoves
<1>10. ASSUME NEW i \in DOMAIN runs, Update(i) PROVE RunsMove
  BY <1>10, UpdateMoves
<1>11. ASSUME NEW i \in DOMAIN runs, Create(i) PROVE RunsMove
  <2>1. /\ runs[i].phase = "creating"
        /\ runs' = [runs EXCEPT ![i] = [runs[i] EXCEPT !.phase = "done"]]
    BY <1>11 DEF Create
  <2> QED  BY <2>1, IdleIsSound, OneRunMoves
<1>12. ASSUME NEW i \in DOMAIN runs, Unavailable(i) PROVE RunsMove
  BY <1>12, RetriedMoves DEF Unavailable
<1>13. ASSUME NEW i \in DOMAIN runs, LoseAnswer(i) PROVE RunsMove
  BY <1>13, RetriedMoves DEF LoseAnswer, Requesting
<1>14. ASSUME NEW i \in DOMAIN runs, Reject(i) PROVE RunsMove
  <2>1. /\ runs[i].phase # "analysing"
        /\ runs' = [runs EXCEPT ![i] = [runs[i] EXCEPT !.phase = "failed"]]
    BY <1>14 DEF Reject, Requesting
  <2> QED  BY <2>1, IdleIsSound, OneRunMoves
<1>15. ASSUME UNCHANGED vars PROVE RunsMove
  BY <1>15, RunsStay DEF vars
<1> QED  BY <1>1, <1>2, <1>3, <1>4, <1>5, <1>6, <1>7, <1>8, <1>9, <1>10, <1>11, <1>12, <1>13,
            <1>14, <1>15 DEF Next, Work

-----------------------------------------------------------------------------
(* What a step may do to the comments.                                     *)

SameComment(c, d) == d.id = c.id /\ d.pr = c.pr /\ d.by = c.by /\ d.marked = c.marked

(* A comment that a job has just written: its report, where it belongs.    *)
Reported(d) ==
  \E i \in DOMAIN runs :
    /\ d.shows = i
    /\ runs[i].phase \in {"updating", "creating"}
    /\ d.pr = runs[i].target
    /\ d.marked /\ d.by = "bot"

(* A comment there is after a step was there before, apart from the report *)
(* it shows, or has the next id; only the gate's own show a report.        *)
Follows(d) ==
  \/ \E c \in comments : SameComment(c, d) /\ (d.shows = c.shows \/ Reported(d))
  \/ /\ d.id = nextId
     /\ nextId' = nextId + 1
     /\ (d.shows = None /\ ~(d.marked /\ d.by = "bot")) \/ Reported(d)

CommentsMove ==
  /\ nextId' \in {nextId, nextId + 1}
  /\ \A d \in comments' : d \in Comments /\ Follows(d)
  /\ \A d, e \in comments' : d.id = e.id => d = e

LEMMA CommentsStay ==
  ASSUME IInv, comments' \subseteq comments, UNCHANGED nextId
  PROVE  CommentsMove
BY DEF IInv, TypeOK, CommentsMove, Follows, SameComment

(* The comment a job updates is the gate's, on its pull request.           *)
LEMMA PatchMoves ==
  ASSUME IInv, NEW i \in DOMAIN runs, runs[i].phase = "updating",
         comments' = Patched(i), UNCHANGED nextId
  PROVE  CommentsMove
<1> DEFINE Patch(c) == IF c.id = runs[i].found THEN [c EXCEPT !.shows = i] ELSE c
<1>1. comments' = {Patch(c) : c \in comments}
  BY DEF Patched
<1>2. ASSUME NEW c \in comments
      PROVE  /\ Patch(c) \in Comments /\ SameComment(c, Patch(c))
             /\ Patch(c).shows = c.shows \/ Reported(Patch(c))
  <2>1. c \in Comments
    BY DEF IInv, TypeOK
  <2>2. CASE c.id = runs[i].found
    <3> DEFINE d == [c EXCEPT !.shows = i]
    <3>1. Patch(c) = d
      BY <2>2
    <3>2. i \in Run
      BY RunAt DEF IInv
    <3>3. /\ d \in Comments /\ SameComment(c, d) /\ d.shows = i
      BY <2>1, <3>2 DEF Comments, SameComment
    <3> HIDE DEF d, Patch
    <3>4. c.pr = runs[i].target /\ c.marked /\ c.by = "bot"
      BY <2>2 DEF IInv, RunsPlaced, ReadSoFar, FoundOurs, Posting
    <3>5. Reported(d)
      BY <3>3, <3>4 DEF Reported, SameComment
    <3> QED  BY <3>1, <3>3, <3>5
  <2>3. CASE c.id # runs[i].found
    <3>1. Patch(c) = c
      BY <2>3
    <3> HIDE DEF Patch
    <3> QED  BY <2>1, <3>1 DEF SameComment
  <2> QED  BY <2>2, <2>3
<1> HIDE DEF Patch
<1>3. \A d \in comments' : d \in Comments /\ Follows(d)
  BY <1>1, <1>2 DEF Follows
<1>4. ASSUME NEW d \in comments', NEW e \in comments', d.id = e.id
      PROVE  d = e
  <2>1. PICK b \in comments, c \in comments : d = Patch(b) /\ e = Patch(c)
    BY <1>1
  <2>2. b.id = c.id
    BY <1>2, <1>4, <2>1 DEF SameComment
  <2> QED  BY <2>1, <2>2 DEF IInv, TypeOK
<1> QED  BY <1>3, <1>4 DEF CommentsMove

(* A comment with the next id has nobody else's.                           *)
LEMMA NewCommentMoves ==
  ASSUME IInv, NEW d \in Comments, d.id = nextId, nextId' = nextId + 1,
         comments' = comments \cup {d},
         (d.shows = None /\ ~(d.marked /\ d.by = "bot")) \/ Reported(d)
  PROVE  CommentsMove
<1>1. \A c \in comments : c \in Comments /\ Follows(c) /\ c.id # nextId
  BY DEF IInv, TypeOK, Comments, Follows, SameComment
<1>2. Follows(d)
  BY DEF Follows
<1>3. \A c, e \in comments' : c.id = e.id => c = e
  BY <1>1 DEF IInv, TypeOK
<1> QED  BY <1>1, <1>2, <1>3 DEF CommentsMove

LEMMA PostMoves ==
  ASSUME IInv, NEW i \in DOMAIN runs, runs[i].phase = "creating",
         comments' = Posted(i), nextId' = nextId + 1
  PROVE  CommentsMove
<1> DEFINE d == [id |-> nextId, pr |-> runs[i].target, by |-> "bot", marked |-> TRUE, shows |-> i]
<1>1. /\ d.id = nextId /\ d.pr = runs[i].target /\ d.by = "bot" /\ d.marked /\ d.shows = i
      /\ comments' = comments \cup {d}
  BY DEF Posted
<1>2. i \in Run /\ runs[i].target \in PR /\ nextId \in Nat
  BY RunAt DEF IInv, TypeOK, RunsPlaced, Placed, Posting
<1>3. d \in Comments
  BY <1>2 DEF Comments
<1> HIDE DEF d
<1>4. Reported(d)
  BY <1>1 DEF Reported
<1> QED  BY <1>1, <1>3, <1>4, NewCommentMoves

LEMMA AllCommentsMove ==
  ASSUME IInv, [Next]_vars
  PROVE  CommentsMove
<1>1. ASSUME NEW p \in PR, Push(p) PROVE CommentsMove
  BY <1>1, CommentsStay DEF Push
<1>2. ASSUME NEW i \in DOMAIN runs, Rerun(i) PROVE CommentsMove
  BY <1>2, CommentsStay DEF Rerun
<1>3. ASSUME NEW p \in PR, Close(p) PROVE CommentsMove
  BY <1>3, CommentsStay DEF Close
<1>4. ASSUME NEW p \in PR, NEW by \in {"bot", "human"}, NEW marked \in BOOLEAN,
             Remark(p, by, marked)
      PROVE  CommentsMove
  <2> DEFINE d == [id |-> nextId, pr |-> p, by |-> by, marked |-> marked, shows |-> None]
  <2>1. /\ d.id = nextId /\ d.shows = None /\ ~(d.marked /\ d.by = "bot")
        /\ comments' = comments \cup {d} /\ nextId' = nextId + 1
    BY <1>4 DEF Remark
  <2>2. d \in Comments
    BY DEF Comments, IInv, TypeOK
  <2> HIDE DEF d
  <2> QED  BY <2>1, <2>2, NewCommentMoves
<1>5. ASSUME NEW c \in comments, Delete(c) PROVE CommentsMove
  BY <1>5, CommentsStay DEF Delete
<1>6. ASSUME NEW i \in DOMAIN runs, Analyse(i) PROVE CommentsMove
  BY <1>6, CommentsStay DEF Analyse
<1>7. ASSUME NEW i \in DOMAIN runs, Start(i) PROVE CommentsMove
  BY <1>7, CommentsStay DEF Start
<1>8. ASSUME NEW i \in DOMAIN runs, Resolve(i) PROVE CommentsMove
  BY <1>8, CommentsStay DEF Resolve
<1>9. ASSUME NEW i \in DOMAIN runs, ListPage(i) PROVE CommentsMove
  BY <1>9, CommentsStay DEF ListPage
<1>10. ASSUME NEW i \in DOMAIN runs, Update(i) PROVE CommentsMove
  BY <1>10, PatchMoves DEF Update
<1>11. ASSUME NEW i \in DOMAIN runs, Create(i) PROVE CommentsMove
  BY <1>11, PostMoves DEF Create
<1>12. ASSUME NEW i \in DOMAIN runs, Unavailable(i) PROVE CommentsMove
  BY <1>12, CommentsStay DEF Unavailable
<1>13. ASSUME NEW i \in DOMAIN runs, LoseAnswer(i) PROVE CommentsMove
  BY <1>13, PatchMoves, PostMoves DEF LoseAnswer
<1>14. ASSUME NEW i \in DOMAIN runs, Reject(i) PROVE CommentsMove
  BY <1>14, CommentsStay DEF Reject
<1>15. ASSUME UNCHANGED vars PROVE CommentsMove
  BY <1>15, CommentsStay DEF vars
<1> QED  BY <1>1, <1>2, <1>3, <1>4, <1>5, <1>6, <1>7, <1>8, <1>9, <1>10, <1>11, <1>12, <1>13,
            <1>14, <1>15 DEF Next, Work

-----------------------------------------------------------------------------
(* What a step may do to the pull requests, and the history of it.         *)

SourceMoves ==
  /\ open' \subseteq PR
  /\ commits' \in [PR -> SUBSET Sha]
  /\ pushed' \in 0..MaxPushes
  /\ remarks' \in 0..MaxRemarks
  /\ faults' \in 0..MaxFaults
  /\ contained' \subseteq PR \X Sha
  /\ contained \subseteq contained'
  /\ CommitsRecorded'

LEMMA PushMoves ==
  ASSUME IInv, NEW p \in PR, Push(p)
  PROVE  SourceMoves
<1>1. PICK kept \in {{}} \cup {commits[q] : q \in PR} :
        commits' = [commits EXCEPT ![p] = kept \cup {pushed'}]
  BY DEF Push
<1>2. pushed' \in 0..MaxPushes /\ pushed' \in Sha
  BY LimitAssumption DEF Push, IInv, TypeOK, Sha
<1>3. kept \subseteq Sha
  BY DEF IInv, TypeOK
<1>4. /\ commits' \in [PR -> SUBSET Sha]
      /\ \A q \in PR \ {p} : commits'[q] = commits[q]
  BY <1>1, <1>2, <1>3 DEF IInv, TypeOK
<1>5. contained' = contained \cup {<<p, s>> : s \in commits'[p]}
  BY DEF Push
<1>6. contained' \subseteq PR \X Sha
  BY <1>4, <1>5 DEF IInv, TypeOK
<1>7. CommitsRecorded'
  BY <1>4, <1>5 DEF CommitsRecorded, IInv
<1> QED  BY <1>2, <1>4, <1>5, <1>6, <1>7 DEF SourceMoves, Push, IInv, TypeOK

LEMMA AllSourcesMove ==
  ASSUME IInv, [Next]_vars
  PROVE  SourceMoves
<1>1. ASSUME /\ open' \subseteq open
             /\ UNCHANGED <<commits, pushed, contained>>
             /\ remarks' \in 0..MaxRemarks
             /\ faults' \in 0..MaxFaults
      PROVE  SourceMoves
  BY <1>1 DEF IInv, TypeOK, SourceMoves, CommitsRecorded
<1>2. ASSUME NEW p \in PR, Close(p) PROVE SourceMoves
  BY <1>1, <1>2 DEF Close, IInv, TypeOK
<1>3. ASSUME NEW p \in PR, NEW by \in {"bot", "human"}, NEW marked \in BOOLEAN,
             Remark(p, by, marked)
      PROVE  SourceMoves
  BY <1>1, <1>3, LimitAssumption DEF Remark, IInv, TypeOK
<1>4. ASSUME NEW c \in comments, Delete(c) PROVE SourceMoves
  BY <1>1, <1>4, LimitAssumption DEF Delete, IInv, TypeOK
<1>5. ASSUME NEW i \in DOMAIN runs, Rerun(i) PROVE SourceMoves
  BY <1>1, <1>5 DEF Rerun, IInv, TypeOK
<1>6. ASSUME NEW i \in DOMAIN runs, Work(i) PROVE SourceMoves
  <2>1. UNCHANGED <<open, commits, pushed, remarks, faults, contained>>
    BY <1>6 DEF Work, Analyse, Start, Resolve, ListPage, Update, Create
  <2> QED  BY <1>1, <2>1 DEF IInv, TypeOK
<1>7. ASSUME NEW i \in DOMAIN runs, Unavailable(i) \/ LoseAnswer(i) \/ Reject(i)
      PROVE  SourceMoves
  <2>1. /\ faults < MaxFaults /\ faults' = faults + 1
        /\ UNCHANGED <<open, commits, pushed, remarks, contained>>
    BY <1>7 DEF Unavailable, LoseAnswer, Reject
  <2> QED  BY <1>1, <2>1, LimitAssumption DEF IInv, TypeOK
<1>8. ASSUME UNCHANGED vars PROVE SourceMoves
  BY <1>1, <1>8 DEF vars, IInv, TypeOK
<1> QED  BY PushMoves, <1>2, <1>3, <1>4, <1>5, <1>6, <1>7, <1>8 DEF Next

-----------------------------------------------------------------------------
(* The invariant is inductive.                                             *)

(* What a run relies on outlives whatever others do meanwhile: a pull      *)
(* request never stops having contained a commit, and no comment with the  *)
(* id of the one found ever becomes somebody else's.                       *)
LEMMA StaysSound ==
  ASSUME IInv, CommentsMove, SourceMoves, NEW r, Sound(r)
  PROVE  ReadSoFar(r)' /\ Placed(r)' /\ FoundOurs(r)'
<1>1. ReadSoFar(r)'
  BY DEF Sound, ReadSoFar
<1>2. Placed(r)'
  BY DEF Sound, Placed, SourceMoves
<1>3. FoundOurs(r)'
  <2> SUFFICES ASSUME r.phase \in Posting, r.found # None
               PROVE  /\ r.found < nextId'
                      /\ \A d \in comments' :
                           d.id = r.found => d.pr = r.target /\ d.marked /\ d.by = "bot"
    BY DEF FoundOurs
  <2>1. /\ r.found \in Nat /\ r.found < nextId /\ nextId \in Nat
        /\ \A c \in comments : c.id = r.found => c.pr = r.target /\ c.marked /\ c.by = "bot"
    BY DEF Sound, FoundOurs, Runs, IInv, TypeOK
  <2>2. r.found < nextId'
    BY <2>1 DEF CommentsMove
  <2>3. ASSUME NEW d \in comments', d.id = r.found
        PROVE  d.pr = r.target /\ d.marked /\ d.by = "bot"
    <3>1. d.id # nextId
      BY <2>1, <2>3
    <3>2. PICK c \in comments : SameComment(c, d)
      BY <3>1 DEF CommentsMove, Follows
    <3> QED  BY <2>1, <2>3, <3>2 DEF SameComment
  <2> QED  BY <2>2, <2>3
<1> QED  BY <1>1, <1>2, <1>3

LEMMA RunsStayPlaced ==
  ASSUME IInv, RunsMove, CommentsMove, SourceMoves
  PROVE  RunsPlaced'
<1> SUFFICES ASSUME NEW i \in DOMAIN runs'
             PROVE  (ReadSoFar(runs[i]) /\ Placed(runs[i]) /\ FoundOurs(runs[i]))'
  BY DEF RunsPlaced
<1>1. PICK r : r = runs'[i]
  OBVIOUS
<1>2. Sound(r)
  BY <1>1 DEF RunsMove
<1>3. ReadSoFar(r)' /\ Placed(r)' /\ FoundOurs(r)'
  BY <1>2, StaysSound
<1> QED  BY <1>1, <1>3 DEF ReadSoFar, Placed, FoundOurs

(* What a comment shows belongs where it is: a report just written because *)
(* its job was placed, the others because their runs have kept their       *)
(* commits and claims.                                                     *)
LEMMA ReportsStayPlaced ==
  ASSUME IInv, RunsMove, CommentsMove, SourceMoves
  PROVE  ReportsPlaced'
<1> SUFFICES ASSUME NEW d \in comments'
             PROVE  /\ (d.marked /\ d.by = "bot") <=> d.shows # None
                    /\ d.shows # None =>
                         /\ d.shows \in DOMAIN runs'
                         /\ runs'[d.shows].phase # "analysing"
                         /\ <<d.pr, runs'[d.shows].sha>> \in contained'
                         /\ runs'[d.shows].claimed \in {d.pr, None}
  BY DEF ReportsPlaced
<1>1. d \in Comments /\ Follows(d)
  BY DEF CommentsMove
<1>2. ASSUME NEW i \in DOMAIN runs, runs[i].phase # "analysing",
             <<d.pr, runs[i].sha>> \in contained, runs[i].claimed \in {d.pr, None}
      PROVE  /\ i \in DOMAIN runs' /\ runs'[i].phase # "analysing"
             /\ <<d.pr, runs'[i].sha>> \in contained' /\ runs'[i].claimed \in {d.pr, None}
  BY <1>2 DEF RunsMove, Evolves, SourceMoves
<1>3. CASE Reported(d)
  <2>1. PICK i \in DOMAIN runs : /\ d.shows = i
                                 /\ runs[i].phase \in {"updating", "creating"}
                                 /\ d.pr = runs[i].target
                                 /\ d.marked /\ d.by = "bot"
    BY <1>3 DEF Reported
  <2>2. Placed(runs[i]) /\ i \in Nat
    BY RunAt DEF IInv, RunsPlaced
  <2>3. /\ runs[i].phase # "analysing" /\ <<d.pr, runs[i].sha>> \in contained
        /\ runs[i].claimed \in {d.pr, None}
    BY <2>1, <2>2 DEF Placed, Posting
  <2>4. i # None
    BY <2>2, NoneIsNothing
  <2> QED  BY <1>2, <2>1, <2>3, <2>4
<1>4. CASE \E c \in comments : SameComment(c, d) /\ d.shows = c.shows
  <2>1. PICK c \in comments : SameComment(c, d) /\ d.shows = c.shows
    BY <1>4
  <2>2. (d.marked /\ d.by = "bot") <=> d.shows # None
    BY <2>1 DEF IInv, ReportsPlaced, SameComment
  <2>3. ASSUME d.shows # None
        PROVE  /\ d.shows \in DOMAIN runs /\ runs[d.shows].phase # "analysing"
               /\ <<d.pr, runs[d.shows].sha>> \in contained
               /\ runs[d.shows].claimed \in {d.pr, None}
    BY <2>1, <2>3 DEF IInv, ReportsPlaced, SameComment
  <2> QED  BY <1>2, <2>2, <2>3
<1>5. CASE d.shows = None /\ ~(d.marked /\ d.by = "bot")
  BY <1>5
<1> QED  BY <1>1, <1>3, <1>4, <1>5 DEF Follows

LEMMA TypesStay ==
  ASSUME IInv, RunsMove, CommentsMove, SourceMoves
  PROVE  TypeOK'
<1>1. nextId' \in Nat \ {0}
  BY DEF IInv, TypeOK, CommentsMove
<1>2. comments' \subseteq Comments
  BY DEF CommentsMove
<1>3. ASSUME NEW d \in comments' PROVE d.id < nextId'
  <2>1. (d.id = nextId /\ nextId' = nextId + 1) \/ \E c \in comments : d.id = c.id
    BY DEF CommentsMove, Follows, SameComment
  <2> QED  BY <2>1 DEF CommentsMove, IInv, TypeOK, Comments
<1>4. \A d, e \in comments' : d.id = e.id => d = e
  BY DEF CommentsMove
<1> QED  BY <1>1, <1>2, <1>3, <1>4 DEF TypeOK, RunsMove, SourceMoves

LEMMA Initially == Init => IInv
<1> SUFFICES ASSUME Init PROVE IInv
  OBVIOUS
<1>1. DOMAIN runs = {} /\ runs \in Seq(Runs) /\ Len(runs) = 0
  BY EmptySeq DEF Init
<1>2. TypeOK
  BY <1>1, LimitAssumption DEF Init, TypeOK
<1> QED  BY <1>1, <1>2 DEF Init, IInv, RunsPlaced, ReportsPlaced, CommitsRecorded

LEMMA Inductive == IInv /\ [Next]_vars => IInv'
<1> SUFFICES ASSUME IInv, [Next]_vars PROVE IInv'
  OBVIOUS
<1>1. RunsMove /\ CommentsMove /\ SourceMoves
  BY AllRunsMove, AllCommentsMove, AllSourcesMove
<1>2. TypeOK' /\ RunsPlaced' /\ ReportsPlaced'
  BY <1>1, TypesStay, RunsStayPlaced, ReportsStayPlaced
<1> QED  BY <1>1, <1>2 DEF IInv, SourceMoves

(* In every reachable state of the two workflows the inductive invariant   *)
(* holds.                                                                  *)
THEOREM Invariant == Spec => []IInv
BY Initially, Inductive, PTL DEF Spec

-----------------------------------------------------------------------------
(* What the invariant shows.                                               *)

(* Runs, comments and the history keep their types, and no two comments    *)
(* ever share an id (github.py:198 picks the comment to update by it).     *)
THEOREM TypeCorrect == Spec => []TypeOK
<1>1. IInv => TypeOK
  BY DEF IInv
<1> QED  BY Invariant, <1>1, PTL

(* However many pull requests there are and however their commits overlap, *)
(* a report is only ever shown on a pull request that contained its        *)
(* commit, and on no other than the one the artifact names (github.py:159).*)
THEOREM ReportsAreRouted == Spec => []RoutedByCommit
<1>1. IInv => RoutedByCommit
  BY DEF IInv, ReportsPlaced, RoutedByCommit, GateComments
<1> QED  BY Invariant, <1>1, PTL

(* The workflows never change a comment that is not a report of theirs,    *)
(* and never delete one (github.py:198).                                   *)
THEOREM OthersAreUntouched == Spec => OthersUntouched
<1> DEFINE Untouched ==
      \A c \in {d \in comments : d.shows = None} :
        c \in comments' \/ (remarks' > remarks /\ \A d \in comments' : d.id # c.id)
<1>1. ASSUME IInv, [Next]_vars PROVE [Untouched]_vars
  <2> SUFFICES ASSUME NEW c \in comments, c.shows = None
               PROVE  c \in comments' \/ (remarks' > remarks /\ \A d \in comments' : d.id # c.id)
    OBVIOUS
  <2>1. ~(c.marked /\ c.by = "bot")
    BY <1>1 DEF ReportsPlaced, IInv
  <2>2. ASSUME NEW i \in DOMAIN runs, runs[i].phase = "updating", comments' = Patched(i)
        PROVE  c \in comments'
    <3>1. c.id # runs[i].found
      BY <1>1, <2>1, <2>2 DEF IInv, RunsPlaced, ReadSoFar, FoundOurs, Posting
    <3> QED  BY <2>2, <3>1 DEF Patched
  <2>3. ASSUME NEW i \in DOMAIN runs, comments' = Posted(i)
        PROVE  c \in comments'
    BY <2>3 DEF Posted
  <2>4. ASSUME NEW b \in comments, Delete(b)
        PROVE  c \in comments' \/ (remarks' > remarks /\ \A d \in comments' : d.id # c.id)
    <3>1. comments' = comments \ {b} /\ remarks' > remarks
      BY <1>1, <2>4 DEF Delete, IInv, TypeOK
    <3> QED  BY <1>1, <3>1 DEF IInv, TypeOK
  <2>5. ASSUME NEW p \in PR, NEW by \in {"bot", "human"}, NEW marked \in BOOLEAN,
               Remark(p, by, marked)
        PROVE  c \in comments'
    BY <2>5 DEF Remark
  <2>6. ASSUME NEW i \in DOMAIN runs, Work(i) PROVE c \in comments'
    BY <2>2, <2>3, <2>6 DEF Work, Analyse, Start, Resolve, ListPage, Update, Create
  <2>7. ASSUME NEW i \in DOMAIN runs, LoseAnswer(i) PROVE c \in comments'
    BY <2>2, <2>3, <2>7 DEF LoseAnswer
  <2>8. ASSUME UNCHANGED comments PROVE c \in comments'
    BY <2>8
  <2> QED  BY <1>1, <2>4, <2>5, <2>6, <2>7, <2>8
           DEF Next, Push, Rerun, Close, Unavailable, Reject, vars
<1> QED  BY Invariant, <1>1, PTL DEF Spec, OthersUntouched

-----------------------------------------------------------------------------
(* One commit at a time.                                                   *)

(* One pull request, whose commits are pushed one after the other has been *)
(* dealt with, whose requests are answered, and which carries no more      *)
(* comments than the gate pages through.                                   *)
Sequential(p) ==
  /\ PR = {p} /\ Orderly /\ MaxFaults = 0
  /\ MaxRemarks + MaxRuns <= PageSize * MaxPages

(* The last commit pushed is the head, and runs are of no later one.       *)
Heads(p) ==
  /\ \A i \in DOMAIN runs : runs[i].sha \in 1 .. pushed
  /\ pushed > 0 => pushed \in commits[p]
  /\ commits[p] \subseteq 1 .. pushed

(* Whatever is under way is for the head, so one job at a time posts.      *)
AtHead == \A i \in DOMAIN runs : runs[i].phase \notin Ended => runs[i].sha = pushed
OneJob ==
  \A i, j \in DOMAIN runs :
    runs[i].phase \in Requesting /\ runs[j].phase \in Requesting => i = j

(* Comments are people's remarks and what jobs that are done have posted.  *)
Finished == {i \in DOMAIN runs : runs[i].phase = "done"}
Counted == nextId <= 1 + remarks + Cardinality(Finished) /\ \A c \in comments : c.id # 0

(* Until a job has found the report it has read past none, and after that  *)
(* there is no other; a job that creates one found none, or it is gone.    *)
Overlooked(p, r) ==
  (r.phase = "listing" /\ r.found = None) =>
    \A c \in GateComments(p) : Position(c) > (r.page - 1) * PageSize
Updatable(p, r) ==
  (r.phase \in {"listing", "updating"} /\ r.found # None) =>
    \A c \in GateComments(p) : c.id = r.found
Absent(p, r) == r.phase = "creating" => GateComments(p) = {}
Reading(p) ==
  \A i \in DOMAIN runs :
    Overlooked(p, runs[i]) /\ Updatable(p, runs[i]) /\ Absent(p, runs[i])

(* There is one report, and it is on the head once one on the head was     *)
(* posted.                                                                 *)
Single(p) == \A c, d \in GateComments(p) : c = d
Current(p) ==
  (\E i \in Finished : runs[i].sha = pushed) =>
    \A c \in GateComments(p) : runs[c.shows].sha = pushed

Alone(p) ==
  /\ Heads(p) /\ AtHead /\ OneJob /\ Counted
  /\ Reading(p) /\ Single(p) /\ Current(p)

(* Comments have different ids below the next one.                         *)
LEMMA CommentsAreFew ==
  ASSUME IInv, \A c \in comments : c.id # 0
  PROVE  IsFiniteSet(comments) /\ Cardinality(comments) <= nextId - 1
<1> DEFINE T == 1 .. (nextId - 1)
           f == [c \in comments |-> c.id]
<1>1. nextId \in Nat \ {0} /\ \A c \in comments : c.id \in T
  BY DEF IInv, TypeOK, Comments
<1>2. \A c, d \in comments : f[c] = f[d] => c = d
  BY DEF IInv, TypeOK
<1>3. f \in [comments -> T]
  BY <1>1
<1>4. IsFiniteSet(T) /\ Cardinality(T) = nextId - 1
  BY <1>1, FS_Interval
<1> HIDE DEF f, T
<1>5. f \in Injection(comments, T)
  BY <1>2, <1>3, Fun_IsInj
<1> QED  BY <1>4, <1>5, FS_Injection

(* The positions of the comments on a pull request are 1, 2, and so on.    *)
LEMMA PositionsAreInOrder ==
  ASSUME IInv, IsFiniteSet(comments), NEW p, NEW C, C = {c \in comments : c.pr = p}
  PROVE  /\ IsFiniteSet(C) /\ Cardinality(C) <= Cardinality(comments)
         /\ [c \in C |-> Position(c)] \in Injection(C, 1 .. Cardinality(C))
         /\ [c \in C |-> Position(c)] \in Surjection(C, 1 .. Cardinality(C))
<1> DEFINE n == Cardinality(C)
           upto(c) == {d \in comments : d.pr = c.pr /\ d.id <= c.id}
           f == [c \in C |-> Position(c)]
<1>1. IsFiniteSet(C) /\ n \in Nat /\ n <= Cardinality(comments)
  <2>1. C \in SUBSET comments
    OBVIOUS
  <2> QED  BY <2>1, FS_Subset, FS_CardinalityType
<1>2. ASSUME NEW c \in C
      PROVE  /\ upto(c) \in SUBSET C /\ c \in upto(c) /\ IsFiniteSet(upto(c))
             /\ f[c] = Cardinality(upto(c)) /\ f[c] \in 1 .. n
  <2>1. upto(c) \in SUBSET C /\ c \in upto(c)
    BY DEF IInv, TypeOK, Comments
  <2>2. f[c] = Cardinality(upto(c))
    BY DEF Position
  <2> HIDE DEF upto, f
  <2>3. IsFiniteSet(upto(c)) /\ Cardinality(upto(c)) <= n
    BY <1>1, <2>1, FS_Subset
  <2>4. Cardinality(upto(c)) \in Nat /\ Cardinality(upto(c)) # 0
    BY <2>1, <2>3, FS_CardinalityType, FS_EmptySet
  <2>5. f[c] \in 1 .. n
    <3> HIDE DEF n
    <3> QED  BY <1>1, <2>2, <2>3, <2>4
  <2> QED  BY <2>1, <2>2, <2>3, <2>5
<1>3. ASSUME NEW c \in C, NEW d \in C, c.id < d.id PROVE f[c] # f[d]
  <2>1. upto(c) \in SUBSET upto(d) /\ d \in upto(d) /\ d \notin upto(c)
    BY <1>3 DEF IInv, TypeOK, Comments
  <2>2. Cardinality(upto(c)) # Cardinality(upto(d))
    <3>1. IsFiniteSet(upto(d))
      BY <1>2
    <3> HIDE DEF upto, f
    <3> QED  BY <2>1, <3>1, FS_Subset
  <2> HIDE DEF upto, f
  <2> QED  BY <1>2, <2>2
<1>4. \A c, d \in C : f[c] = f[d] => c = d
  <2> SUFFICES ASSUME NEW c \in C, NEW d \in C, f[c] = f[d] PROVE c = d
    OBVIOUS
  <2>1. c.id \in Nat /\ d.id \in Nat /\ (c.id = d.id => c = d)
    BY DEF IInv, TypeOK, Comments
  <2>2. ~(c.id < d.id) /\ ~(d.id < c.id)
    BY <1>3
  <2> QED  BY <2>1, <2>2
<1>5. f \in [C -> 1 .. n]
  BY <1>2
<1>6. IsFiniteSet(1 .. n) /\ Cardinality(1 .. n) = n
  BY <1>1, FS_Interval
<1> HIDE DEF f, n
<1>7. f \in Injection(C, 1 .. n)
  BY <1>4, <1>5, Fun_IsInj
<1>8. f \in Surjection(C, 1 .. n)
  BY <1>6, <1>7, FS_Injection DEF n
<1> QED  BY <1>1, <1>7, <1>8 DEF f, n

(* A page that is not the last one is full.                                *)
LEMMA PagesBeforeAreFull ==
  ASSUME IInv, IsFiniteSet(comments), NEW p, NEW n \in Nat \ {0},
         NEW c \in comments, c.pr = p, ~(Position(c) <= n * PageSize)
  PROVE  Cardinality(Page(p, n)) = PageSize
<1> DEFINE C == {d \in comments : d.pr = p}
           last == Cardinality(C)
           f == [d \in C |-> Position(d)]
<1>1. PICK low \in Nat, high \in Nat, size \in Nat \ {0} :
        low = (n - 1) * PageSize /\ high = n * PageSize /\ size = PageSize /\ high = low + size
  <2>1. PageSize \in Nat \ {0}
    BY PageAssumption
  <2>2. n - 1 \in Nat
    OBVIOUS
  <2>3. (n - 1) * PageSize \in Nat /\ n * PageSize \in Nat
    BY <2>1, <2>2
  <2>4. n * PageSize = (n - 1) * PageSize + PageSize
    BY <2>1, <2>2
  <2> QED  BY <2>1, <2>3, <2>4
<1> DEFINE I == (low + 1) .. high
           page == {d \in C : Position(d) \in I}
           g == [d \in page |-> Position(d)]
<1>2. Page(p, n) = page
  BY <1>1 DEF Page
<1>3. /\ IsFiniteSet(C) /\ last \in Nat
      /\ f \in [C -> 1 .. last]
      /\ \A d, e \in C : f[d] = f[e] => d = e
      /\ \A k \in 1 .. last : \E d \in C : f[d] = k
  <2>1. /\ IsFiniteSet(C) /\ f \in Injection(C, 1 .. last) /\ f \in Surjection(C, 1 .. last)
    BY PositionsAreInOrder
  <2> HIDE DEF f, C
  <2>2. last \in Nat
    BY <2>1, FS_CardinalityType
  <2> HIDE DEF last
  <2>3. f \in [C -> 1 .. last] /\ \A d, e \in C : f[d] = f[e] => d = e
    BY <2>1, Fun_InjectionProperties
  <2>4. \A k \in 1 .. last : \E d \in C : f[d] = k
    BY <2>1, Fun_SurjectionProperties
  <2> QED  BY <2>1, <2>2, <2>3, <2>4
<1>4. Position(c) \in 1 .. last /\ high < last
  <2>1. c \in C /\ f[c] = Position(c)
    OBVIOUS
  <2>2. f[c] \in 1 .. last
    <3> HIDE DEF f, C
    <3> QED  BY <1>3, <2>1
  <2>3. ~(Position(c) <= high)
    BY <1>1
  <2> HIDE DEF f, C, last
  <2> QED  BY <1>3, <2>1, <2>2, <2>3
<1>5. I \subseteq 1 .. last
  <2> HIDE DEF last
  <2> QED  BY <1>1, <1>3, <1>4
<1>6. /\ g \in [page -> I]
      /\ \A d, e \in page : g[d] = g[e] => d = e
      /\ \A k \in I : \E d \in page : g[d] = k
  <2>1. /\ \A d, e \in C : Position(d) = Position(e) => d = e
        /\ \A k \in 1 .. last : \E d \in C : Position(d) = k
    BY <1>3
  <2> HIDE DEF C, I, f, last
  <2> QED  BY <1>5, <2>1
<1>7. IsFiniteSet(I) /\ Cardinality(I) = size
  <2>1. low + 1 \in Int /\ high \in Int /\ ~(low + 1 > high) /\ high - (low + 1) + 1 = size
    BY <1>1
  <2> QED  BY <2>1, FS_Interval
<1> HIDE DEF g, page, I
<1>8. g \in Injection(page, I) /\ g \in Surjection(page, I)
  BY <1>6, Fun_IsInj, Fun_IsSurj
<1>9. Cardinality(page) = Cardinality(I)
  BY <1>7, <1>8, FS_Injection
<1> QED  BY <1>1, <1>2, <1>7, <1>9

(* The head is the last commit pushed.                                     *)
LEMMA HeadIsLast ==
  ASSUME NEW p, Heads(p), pushed \in Nat, pushed > 0
  PROVE  HeadCommit(p) = pushed
<1>1. pushed \in commits[p] /\ \A t \in commits[p] : t \in 1 .. pushed
  BY DEF Heads
<1>2. \A t \in commits[p] : (\A u \in commits[p] : u <= t) => t = pushed
  BY <1>1
<1> QED  BY <1>1, <1>2 DEF HeadCommit

LEMMA FinishedAreFew ==
  ASSUME IInv
  PROVE  /\ IsFiniteSet(Finished) /\ Cardinality(Finished) \in Nat
         /\ Cardinality(Finished) <= MaxRuns
<1>1. Len(runs) \in Nat /\ Len(runs) <= MaxRuns /\ DOMAIN runs = 1 .. Len(runs)
  BY LenProperties DEF IInv, TypeOK
<1>2. Finished \in SUBSET (1 .. Len(runs))
  BY <1>1 DEF Finished
<1>3. IsFiniteSet(1 .. Len(runs)) /\ Cardinality(1 .. Len(runs)) = Len(runs)
  <2>1. PICK n \in Nat, one \in Nat : n = Len(runs) /\ one = 1
    BY <1>1
  <2>2. IsFiniteSet(one .. n) /\ Cardinality(one .. n) = IF one > n THEN 0 ELSE n - one + 1
    BY FS_Interval
  <2> QED  BY <2>1, <2>2
<1>4. IsFiniteSet(Finished) /\ Cardinality(Finished) <= Len(runs)
  BY <1>2, <1>3, FS_Subset
<1>5. Cardinality(Finished) \in Nat
  BY <1>4, FS_CardinalityType
<1> QED  BY <1>1, <1>4, <1>5, LimitAssumption

(* What becomes of runs while no job does anything: they come, they wait,  *)
(* they make way for each other.                                           *)
Queue ==
  /\ DOMAIN runs \subseteq DOMAIN runs'
  /\ \A j \in DOMAIN runs' :
       \/ j \in DOMAIN runs /\ runs'[j] = runs[j]
       \/ /\ runs'[j].phase \in {"analysing", "waiting", "superseded"}
          /\ IF j \in DOMAIN runs
             THEN runs[j].phase \in {"analysing", "waiting"} /\ runs'[j].sha = runs[j].sha
             ELSE runs'[j].sha = pushed'

LEMMA CompletedQueue ==
  ASSUME IInv, NEW i \in DOMAIN runs, runs[i].phase = "analysing", NEW o \in Outcomes,
         NEW rs, rs = Completed(runs, i, o)
  PROVE  /\ DOMAIN rs = DOMAIN runs
         /\ \A j \in DOMAIN runs :
              \/ rs[j] = runs[j]
              \/ /\ rs[j].phase \in {"waiting", "superseded"} /\ rs[j].sha = runs[j].sha
                 /\ runs[j].phase \in {"analysing", "waiting"}
<1>1. DOMAIN rs = DOMAIN runs
  BY DEF Completed
<1>2. ASSUME NEW j \in DOMAIN runs
      PROVE  \/ rs[j] = runs[j]
             \/ /\ rs[j].phase \in {"waiting", "superseded"} /\ rs[j].sha = runs[j].sha
                /\ runs[j].phase \in {"analysing", "waiting"}
  <2>1. runs[j] \in Runs
    BY RunAt DEF IInv
  <2>2. CASE j = i
    <3>1. rs[j] = [runs[j] EXCEPT !.phase = "waiting", !.usable = o.usable, !.claimed = o.claimed]
      BY <2>2 DEF Completed
    <3> QED  BY <2>1, <2>2, <3>1 DEF Runs
  <2>3. CASE j # i /\ runs[j].phase = "waiting" /\ runs[j].sha = runs[i].sha
    <3>1. rs[j] = [runs[j] EXCEPT !.phase = "superseded"]
      BY <2>3 DEF Completed
    <3> QED  BY <2>1, <2>3, <3>1 DEF Runs
  <2>4. CASE j # i /\ ~(runs[j].phase = "waiting" /\ runs[j].sha = runs[i].sha)
    BY <2>4 DEF Completed
  <2> QED  BY <2>2, <2>3, <2>4
<1> QED  BY <1>1, <1>2

LEMMA TriggeredQueue ==
  ASSUME IInv, NEW p, Trigger(p, pushed')
  PROVE  /\ Queue /\ (Quiet => \A j \in DOMAIN runs : runs'[j] = runs[j])
         /\ \A j \in DOMAIN runs' \ DOMAIN runs : runs'[j].phase = "analysing"
<1>1. PICK rs : /\ runs' = Append(rs, NewRun(p, pushed')) /\ DOMAIN rs = DOMAIN runs
                /\ \A j \in DOMAIN runs :
                     \/ rs[j] = runs[j]
                     \/ /\ rs[j].phase \in {"waiting", "superseded"} /\ rs[j].sha = runs[j].sha
                        /\ runs[j].phase \in {"analysing", "waiting"}
                /\ Quiet => rs = runs
                /\ rs \in Seq(Runs) /\ Len(rs) \in Nat /\ DOMAIN rs = 1 .. Len(rs)
  <2>1. runs \in Seq(Runs) /\ Len(runs) \in Nat /\ DOMAIN runs = 1 .. Len(runs)
    BY LenProperties DEF IInv, TypeOK
  <2>2. CASE runs' = Append(runs, NewRun(p, pushed'))
    BY <2>1, <2>2
  <2>3. CASE \E i \in {j \in DOMAIN runs : runs[j].pr = p /\ runs[j].phase = "analysing"},
                o \in Outcomes : runs' = Append(Completed(runs, i, o), NewRun(p, pushed'))
    <3>1. PICK i \in DOMAIN runs, o \in Outcomes :
            /\ runs[i].phase = "analysing"
            /\ runs' = Append(Completed(runs, i, o), NewRun(p, pushed'))
      BY <2>3
    <3>2. PICK rs : rs = Completed(runs, i, o)
      OBVIOUS
    <3>3. ~Quiet
      BY <3>1 DEF Quiet, Ended
    <3>4. rs \in Seq(Runs)
      BY <3>1, <3>2, CompletedRuns
    <3>5. Len(rs) \in Nat /\ DOMAIN rs = 1 .. Len(rs)
      BY <3>4, LenProperties
    <3> QED  BY <3>1, <3>2, <3>3, <3>4, <3>5, CompletedQueue
  <2> QED  BY <2>2, <2>3 DEF Trigger
<1>2. /\ DOMAIN runs' = 1 .. (Len(rs) + 1)
      /\ \A j \in DOMAIN rs : runs'[j] = rs[j]
      /\ runs'[Len(rs) + 1] = NewRun(p, pushed')
  BY <1>1, SMTT(30)
<1>3. \A j \in DOMAIN runs' \ DOMAIN runs : runs'[j] = NewRun(p, pushed')
  BY <1>1, <1>2
<1>4. NewRun(p, pushed').phase = "analysing" /\ NewRun(p, pushed').sha = pushed'
  BY DEF NewRun
<1>5. DOMAIN runs \subseteq DOMAIN runs'
  BY <1>1, <1>2
<1>6. ASSUME NEW j \in DOMAIN runs'
      PROVE  \/ j \in DOMAIN runs /\ runs'[j] = runs[j]
             \/ /\ runs'[j].phase \in {"analysing", "waiting", "superseded"}
                /\ IF j \in DOMAIN runs
                   THEN runs[j].phase \in {"analysing", "waiting"} /\ runs'[j].sha = runs[j].sha
                   ELSE runs'[j].sha = pushed'
  <2>1. CASE j \in DOMAIN runs
    BY <1>1, <1>2, <2>1
  <2>2. CASE j \notin DOMAIN runs
    BY <1>3, <1>4, <2>2
  <2> QED  BY <2>1, <2>2
<1>7. Quiet => \A j \in DOMAIN runs : runs'[j] = runs[j]
  BY <1>1, <1>2
<1> QED  BY <1>3, <1>4, <1>5, <1>6, <1>7 DEF Queue

(* None of that touches what a job relies on.                              *)
LEMMA QueueKeepsReports ==
  ASSUME IInv, IInv', NEW p, Alone(p), Queue, UNCHANGED <<comments, nextId, remarks>>
  PROVE  /\ OneJob' /\ Counted' /\ Reading(p)' /\ Single(p)'
         /\ Finished' = Finished
         /\ \A c \in GateComments(p)' :
              c \in GateComments(p) /\ c.shows \in DOMAIN runs /\ runs'[c.shows].sha = runs[c.shows].sha
<1>1. \A j \in DOMAIN runs' :
        runs'[j].phase \in Requesting \cup {"done"} => j \in DOMAIN runs /\ runs'[j] = runs[j]
  BY DEF Queue, Requesting
<1>2. OneJob'
  BY <1>1 DEF OneJob, Alone
<1>3. Finished' = Finished
  BY <1>1 DEF Finished, Queue
<1>4. Counted'
  BY <1>3 DEF Counted, Alone
<1>5. GateComments(p)' = GateComments(p) /\ \A c : Position(c)' = Position(c)
  BY DEF GateComments, Position
<1>6. Reading(p)'
  <2> SUFFICES ASSUME NEW j \in DOMAIN runs'
               PROVE  Overlooked(p, runs[j])' /\ Updatable(p, runs[j])' /\ Absent(p, runs[j])'
    BY DEF Reading
  <2>1. CASE runs'[j].phase \in Requesting
    <3>1. PICK r : r = runs[j] /\ r = runs'[j] /\ j \in DOMAIN runs
      BY <1>1, <2>1
    <3>2. Overlooked(p, r) /\ Updatable(p, r) /\ Absent(p, r)
      BY <3>1 DEF Alone, Reading
    <3> QED  BY <1>5, <3>1, <3>2 DEF Overlooked, Updatable, Absent
  <2>2. CASE runs'[j].phase \notin Requesting
    BY <2>2 DEF Overlooked, Updatable, Absent, Requesting
  <2> QED  BY <2>1, <2>2
<1>7. Single(p)'
  BY <1>5 DEF Single, Alone
<1>8. \A c \in GateComments(p) : c.shows \in DOMAIN runs /\ runs'[c.shows].sha = runs[c.shows].sha
  <2>1. \A c \in GateComments(p) : c.shows \in DOMAIN runs
    BY DEF GateComments, IInv, ReportsPlaced
  <2>2. \A j \in DOMAIN runs : runs'[j].sha = runs[j].sha
    BY DEF Queue
  <2> QED  BY <2>1, <2>2
<1> QED  BY <1>2, <1>3, <1>4, <1>5, <1>6, <1>7, <1>8

(* One job moves on: it is the only one that had started, so only what it  *)
(* relies on itself need hold afterwards.                                  *)
JobMoves(i, r) ==
  /\ runs' = [runs EXCEPT ![i] = r]
  /\ r.phase \in Requesting \cup {"done", "failed"} /\ r.sha = runs[i].sha
  /\ \/ runs[i].phase \in Requesting
     \/ runs[i].phase = "waiting" /\ \A j \in DOMAIN runs : runs[j].phase \notin Requesting

LEMMA JobKeepsReports ==
  ASSUME IInv, IInv', NEW p, Alone(p), NEW i \in DOMAIN runs, NEW r, JobMoves(i, r),
         UNCHANGED <<commits, pushed, remarks>>, Overlooked(p, r)', Updatable(p, r)', Absent(p, r)',
         Single(p)', \A c \in comments' : c.id # 0,
         nextId' = IF r.phase = "done" /\ comments' # comments /\ runs[i].phase = "creating"
                   THEN nextId + 1 ELSE nextId,
         r.phase = "done" => \A c \in GateComments(p)' : c.shows = i,
         r.phase # "done" => comments' = comments
  PROVE  Alone(p)'
<1>1. /\ DOMAIN runs' = DOMAIN runs /\ runs'[i] = r
      /\ \A j \in DOMAIN runs : j # i => runs'[j] = runs[j]
      /\ \A j \in DOMAIN runs : runs'[j].sha = runs[j].sha
  BY DEF JobMoves
<1>2. runs[i].phase \notin Ended /\ runs[i].sha = pushed
  BY DEF JobMoves, Requesting, Ended, Alone, AtHead
<1>3. \A j \in DOMAIN runs : j # i => runs[j].phase \notin Requesting
  BY DEF JobMoves, Alone, OneJob
<1>4. Heads(p)'
  BY <1>1 DEF Heads, Alone
<1>5. AtHead'
  BY <1>1, <1>2 DEF AtHead, Alone
<1>6. OneJob'
  BY <1>1, <1>3 DEF OneJob
<1>7. Finished' = IF r.phase = "done" THEN Finished \cup {i} ELSE Finished
  BY <1>1, <1>2 DEF Finished, Ended
<1>8. i \notin Finished
  BY <1>2 DEF Finished, Ended
<1>9. Counted'
  <2>1. IsFiniteSet(Finished) /\ Cardinality(Finished) \in Nat
    BY FinishedAreFew
  <2>2. PICK n \in Nat, k \in Nat, m \in Nat :
          n = nextId /\ k = Cardinality(Finished) /\ m = remarks /\ n <= 1 + m + k
    <3>1. nextId \in Nat /\ remarks \in Nat
      BY LimitAssumption DEF IInv, TypeOK
    <3>2. nextId <= 1 + remarks + Cardinality(Finished)
      BY DEF Alone, Counted
    <3> QED  BY <2>1, <3>1, <3>2
  <2>3. Cardinality(Finished') = IF r.phase = "done" THEN k + 1 ELSE k
    BY <1>7, <1>8, <2>1, <2>2, FS_AddElement
  <2>4. nextId' \in {n, n + 1} /\ (nextId' = n + 1 => r.phase = "done" \/ nextId' = n)
    BY <2>2
  <2>5. nextId' <= 1 + remarks' + Cardinality(Finished')
    BY <2>2, <2>3, <2>4
  <2> QED  BY <2>5 DEF Counted
<1>10. Reading(p)'
  <2> SUFFICES ASSUME NEW j \in DOMAIN runs'
               PROVE  Overlooked(p, runs[j])' /\ Updatable(p, runs[j])' /\ Absent(p, runs[j])'
    BY DEF Reading
  <2>1. CASE j = i
    BY <1>1, <2>1 DEF Overlooked, Updatable, Absent
  <2>2. CASE j # i
    <3>1. runs'[j].phase \notin Requesting
      BY <1>1, <1>3, <2>2
    <3> QED  BY <3>1 DEF Overlooked, Updatable, Absent, Requesting
  <2> QED  BY <2>1, <2>2
<1>11. Current(p)'
  <2>1. CASE r.phase = "done"
    BY <1>1, <1>2, <2>1 DEF Current
  <2>2. CASE r.phase # "done"
    <3>1. Finished' = Finished /\ GateComments(p)' = GateComments(p)
      BY <1>7, <2>2 DEF GateComments
    <3>2. \A c \in GateComments(p) : c.shows \in DOMAIN runs
      BY DEF GateComments, IInv, ReportsPlaced
    <3>3. \A j \in Finished : j \in DOMAIN runs
      BY DEF Finished
    <3> QED  BY <1>1, <3>1, <3>2, <3>3 DEF Current, Alone
  <2> QED  BY <2>1, <2>2
<1> QED  BY <1>4, <1>5, <1>6, <1>9, <1>10, <1>11 DEF Alone

(* No comment is beyond the last page.                                     *)
LEMMA NoneIsBeyond ==
  ASSUME IInv, Counted, NEW c \in comments
  PROVE  /\ Position(c) \in Nat \ {0}
         /\ \A p : Sequential(p) => Position(c) <= MaxPages * PageSize
<1>1. IsFiniteSet(comments) /\ Cardinality(comments) <= nextId - 1
  BY CommentsAreFew DEF Counted
<1> DEFINE D == {d \in comments : d.pr = c.pr}
<1>2. PICK C : C = D /\ c \in C
  <2>1. c \in D
    OBVIOUS
  <2> HIDE DEF D
  <2> QED  BY <2>1
<1> DEFINE f == [d \in C |-> Position(d)]
<1>3. f[c] = Position(c)
  BY <1>2
<1>4. /\ f \in Injection(C, 1 .. Cardinality(C)) /\ IsFiniteSet(C)
      /\ Cardinality(C) <= Cardinality(comments)
  BY <1>1, <1>2, PositionsAreInOrder
<1>5. Cardinality(C) \in Nat /\ Cardinality(comments) \in Nat
  BY <1>1, <1>4, FS_CardinalityType
<1> HIDE DEF f
<1>6. f \in [C -> 1 .. Cardinality(C)]
  BY <1>4, Fun_InjectionProperties
<1>7. Position(c) \in Nat \ {0} /\ Position(c) <= Cardinality(C)
  BY <1>2, <1>3, <1>5, <1>6
<1>8. ASSUME NEW p, Sequential(p) PROVE Position(c) <= MaxPages * PageSize
  <2>1. Cardinality(Finished) \in Nat /\ Cardinality(Finished) <= MaxRuns
    BY FinishedAreFew
  <2>2. /\ remarks \in Nat /\ remarks <= MaxRemarks /\ nextId \in Nat
        /\ MaxRemarks \in Nat /\ MaxRuns \in Nat
    BY LimitAssumption DEF IInv, TypeOK
  <2>3. nextId <= 1 + remarks + Cardinality(Finished)
    BY DEF Counted
  <2>4. PICK all \in Nat : all = MaxPages * PageSize /\ MaxRemarks + MaxRuns <= all
    <3>1. PageSize \in Nat /\ MaxPages \in Nat
      BY PageAssumption
    <3>2. MaxPages * PageSize \in Nat /\ PageSize * MaxPages = MaxPages * PageSize
      BY <3>1
    <3> QED  BY <1>8, <3>2 DEF Sequential
  <2> QED  BY <1>1, <1>4, <1>5, <1>7, <2>1, <2>2, <2>3, <2>4
<1> QED  BY <1>7, <1>8

(* A job that starts, or learns its pull request, has read no page.        *)
LEMMA StartKeepsReports ==
  ASSUME IInv, IInv', NEW p, Alone(p), NEW i \in DOMAIN runs, Start(i) \/ Resolve(i)
  PROVE  Alone(p)'
<1>1. runs[i] \in Runs /\ ReadSoFar(runs[i])
  BY RunAt DEF IInv, RunsPlaced
<1>2. UNCHANGED <<commits, pushed, remarks, comments, nextId>>
  BY DEF Start, Resolve
<1>3. PICK r : /\ runs' = [runs EXCEPT ![i] = r] /\ r.sha = runs[i].sha
               /\ r.phase \in {"resolving", "listing", "failed"}
               /\ r.page = 1 /\ r.found = None
  <2>1. CASE Start(i)
    <3>1. PICK phase \in {"resolving", "failed"} : runs' = [runs EXCEPT ![i].phase = phase]
      BY <2>1 DEF Start
    <3>2. PICK r : r = [runs[i] EXCEPT !.phase = phase] /\ runs' = [runs EXCEPT ![i] = r]
      BY <3>1
    <3>3. runs[i].page = 1 /\ runs[i].found = None
      BY <1>1, <2>1 DEF Start, ReadSoFar, Unread
    <3>4. /\ r.sha = runs[i].sha /\ r.phase = phase
          /\ r.page = runs[i].page /\ r.found = runs[i].found
      BY <1>1, <3>2 DEF Runs
    <3> QED  BY <3>2, <3>3, <3>4
  <2>2. CASE Resolve(i)
    <3>1. runs[i].page = 1 /\ runs[i].found = None
      BY <1>1, <2>2 DEF Resolve, ReadSoFar, Unread
    <3>2. CASE runs' = [runs EXCEPT ![i].phase = "failed"]
      <4>1. PICK r : r = [runs[i] EXCEPT !.phase = "failed"] /\ runs' = [runs EXCEPT ![i] = r]
        BY <3>2
      <4>2. /\ r.sha = runs[i].sha /\ r.phase = "failed"
            /\ r.page = runs[i].page /\ r.found = runs[i].found
        BY <1>1, <4>1 DEF Runs
      <4> QED  BY <3>1, <4>1, <4>2
    <3>3. CASE \E q : runs' = [runs EXCEPT ![i].phase = "listing", ![i].target = q, ![i].attempt = 1]
      <4>1. PICK q : runs' = [runs EXCEPT ![i].phase = "listing", ![i].target = q, ![i].attempt = 1]
        BY <3>3
      <4>2. PICK r : /\ r = [runs[i] EXCEPT !.phase = "listing", !.target = q, !.attempt = 1]
                     /\ runs' = [runs EXCEPT ![i] = r]
        BY <4>1
      <4>3. /\ r.sha = runs[i].sha /\ r.phase = "listing"
            /\ r.page = runs[i].page /\ r.found = runs[i].found
        BY <1>1, <4>2 DEF Runs
      <4> QED  BY <3>1, <4>2, <4>3
    <3> QED  BY <2>2, <3>2, <3>3 DEF Resolve
  <2> QED  BY <2>1, <2>2
<1>4. JobMoves(i, r)
  <2>1. \/ runs[i].phase \in Requesting
        \/ runs[i].phase = "waiting" /\ \A j \in DOMAIN runs : runs[j].phase \notin Requesting
    <3>1. CASE Resolve(i)
      BY <3>1 DEF Resolve, Requesting
    <3>2. CASE Start(i)
      <4>1. runs[i].phase = "waiting" /\ runs[i].sha = pushed
        BY <3>2 DEF Start, Alone, AtHead, Ended
      <4>2. \A j \in DOMAIN runs : runs[j].phase \in Requesting => runs[j].sha = pushed
        BY DEF Alone, AtHead, Ended, Requesting
      <4> QED  BY <3>2, <4>1, <4>2 DEF Start
    <3> QED  BY <3>1, <3>2
  <2>2. r.phase \in Requesting \cup {"done", "failed"}
    BY <1>3 DEF Requesting
  <2> QED  BY <1>3, <2>1, <2>2 DEF JobMoves
<1>5. Overlooked(p, r)'
  <2>1. \A c \in GateComments(p) : Position(c) > 0
    BY NoneIsBeyond DEF Alone, GateComments
  <2>2. PageSize \in Nat
    BY PageAssumption
  <2>3. (r.page - 1) * PageSize = 0
    BY <1>3, <2>2
  <2> QED  BY <1>2, <2>1, <2>3 DEF Overlooked, GateComments, Position
<1>6. Updatable(p, r)' /\ Absent(p, r)'
  BY <1>3 DEF Updatable, Absent
<1>7. Single(p)' /\ \A c \in comments' : c.id # 0
  BY <1>2 DEF Single, GateComments, Alone, Counted
<1> QED  BY <1>2, <1>3, <1>4, <1>5, <1>6, <1>7, JobKeepsReports

(* The gate's comments are those that show a report.                       *)
LEMMA ReportsAreOurs ==
  ASSUME IInv, NEW p
  PROVE  GateComments(p) = {c \in Ours(comments) : c.pr = p}
BY DEF GateComments, Ours, IInv, ReportsPlaced

(* A page that is read shows the report, or there is none up to its end;   *)
(* a job that finds none on any page has looked at all comments.           *)
LEMMA ListKeepsReports ==
  ASSUME IInv, IInv', NEW p, Sequential(p), Alone(p), NEW i \in DOMAIN runs, ListPage(i)
  PROVE  Alone(p)'
<1> DEFINE page == Page(runs[i].target, runs[i].page)
           found == IF runs[i].found = None /\ Ours(page) # {} THEN Oldest(Ours(page)).id
                    ELSE runs[i].found
           more == Cardinality(page) = PageSize /\ runs[i].page < MaxPages
           phase == IF more THEN "listing" ELSE IF found = None THEN "creating" ELSE "updating"
<1>1. /\ runs[i] \in Runs /\ ReadSoFar(runs[i]) /\ Placed(runs[i])
      /\ runs[i].phase = "listing"
  BY RunAt DEF IInv, RunsPlaced, ListPage
<1>2. runs[i].target = p
  BY <1>1 DEF Placed, Posting, Sequential
<1>3. UNCHANGED <<commits, pushed, remarks, comments, nextId>>
  BY DEF ListPage
<1>4. PICK r : /\ r = [runs[i] EXCEPT !.found = found, !.page = runs[i].page + 1, !.attempt = 1,
                                      !.phase = phase]
               /\ runs' = [runs EXCEPT ![i] = r]
  BY DEF ListPage
<1>5. PICK n \in Nat \ {0} : n = runs[i].page /\ n <= MaxPages
  BY <1>1 DEF Runs, ReadSoFar
<1>6. r.sha = runs[i].sha /\ r.phase = phase /\ r.page = n + 1 /\ r.found = found
  BY <1>1, <1>4, <1>5 DEF Runs
<1>7. PageSize \in Nat \ {0} /\ MaxPages \in Nat \ {0}
  BY PageAssumption
<1>8. Ours(page) \subseteq GateComments(p) /\ \A c \in page : c \in comments /\ c.id \in Nat
  BY <1>2, ReportsAreOurs DEF Ours, Page, IInv, TypeOK, Comments
<1>9. GateComments(p) \subseteq comments
  BY DEF GateComments
<1>10. ASSUME found # None, NEW c \in GateComments(p) PROVE c.id = found
  <2>1. CASE runs[i].found # None
    <3>1. found = runs[i].found
      BY <2>1
    <3>2. Updatable(p, runs[i])
      BY DEF Alone, Reading
    <3> HIDE DEF found
    <3> QED  BY <1>1, <1>10, <2>1, <3>1, <3>2 DEF Updatable
  <2>2. CASE runs[i].found = None
    <3>1. Ours(page) # {} /\ found = Oldest(Ours(page)).id
      BY <1>10, <2>2
    <3>2. Oldest(Ours(page)) \in Ours(page)
      <4>1. \A d \in Ours(page) : d.id \in Nat
        BY <1>8 DEF Ours
      <4> HIDE DEF page
      <4> QED  BY <3>1, <4>1, OldestExists
    <3>3. Oldest(Ours(page)) \in GateComments(p)
      BY <1>8, <3>2
    <3> HIDE DEF found, page
    <3> QED  BY <1>10, <3>1, <3>3 DEF Alone, Single
  <2> QED  BY <2>1, <2>2
<1>11. ASSUME found = None, NEW c \in GateComments(p) PROVE Position(c) > n * PageSize
  <2>1. runs[i].found = None /\ Ours(page) = {}
    <3>1. CASE runs[i].found = None /\ Ours(page) # {}
      <4>1. Oldest(Ours(page)) \in Ours(page) /\ found = Oldest(Ours(page)).id
        <5>1. \A d \in Ours(page) : d.id \in Nat
          BY <1>8 DEF Ours
        <5>2. found = Oldest(Ours(page)).id
          BY <3>1
        <5> HIDE DEF page, found
        <5> QED  BY <3>1, <5>1, <5>2, OldestExists
      <4>2. found \in Nat
        <5> HIDE DEF page, found
        <5> QED  BY <1>8, <4>1 DEF Ours
      <4> HIDE DEF page, found
      <4> QED  BY <1>11, <4>2, NoneIsNothing
    <3>2. CASE ~(runs[i].found = None /\ Ours(page) # {})
      BY <1>11, <3>2
    <3> QED  BY <3>1, <3>2
  <2>2. Position(c) > (n - 1) * PageSize
    <3>1. Overlooked(p, runs[i])
      BY DEF Alone, Reading
    <3> HIDE DEF page, found
    <3> QED  BY <1>1, <1>5, <1>11, <2>1, <3>1 DEF Overlooked
  <2>3. c \notin page
    BY <1>11, <2>1, ReportsAreOurs DEF Ours
  <2>4. c \in comments /\ c.pr = p /\ Position(c) \in Nat
    BY <1>9, <1>11, NoneIsBeyond DEF Alone, GateComments
  <2>5. Position(c) \notin ((n - 1) * PageSize + 1) .. (n * PageSize)
    BY <1>2, <1>5, <2>3, <2>4 DEF Page
  <2>6. (n - 1) * PageSize \in Nat /\ n * PageSize \in Nat
    <3>1. n - 1 \in Nat
      OBVIOUS
    <3> QED  BY <1>7, <3>1
  <2> HIDE DEF page, found
  <2> QED  BY <2>2, <2>4, <2>5, <2>6
<1>12. ASSUME phase = "creating" PROVE GateComments(p) = {}
  <2>1. found = None /\ ~more
    BY <1>12
  <2> SUFFICES ASSUME NEW c \in GateComments(p) PROVE FALSE
    OBVIOUS
  <2>2. c \in comments /\ c.pr = p /\ Position(c) \in Nat /\ Position(c) <= MaxPages * PageSize
    BY <1>9, NoneIsBeyond DEF Alone, GateComments
  <2>3. Position(c) > n * PageSize
    BY <1>11, <2>1
  <2>4. n * PageSize \in Nat
    BY <1>7
  <2>5. Cardinality(page) = PageSize
    <3>1. IsFiniteSet(comments)
      BY CommentsAreFew DEF Alone, Counted
    <3>2. ~(Position(c) <= n * PageSize)
      BY <2>2, <2>3, <2>4
    <3>3. Cardinality(Page(p, n)) = PageSize
      BY <2>2, <3>1, <3>2, PagesBeforeAreFull
    <3> QED  BY <1>2, <1>5, <3>3
  <2>6. n = MaxPages
    <3>1. ~(runs[i].page < MaxPages)
      BY <2>1, <2>5
    <3> HIDE DEF page, found, more
    <3> QED  BY <1>5, <1>7, <3>1
  <2> HIDE DEF page, found, more
  <2> QED  BY <2>2, <2>3, <2>4, <2>6
<1>13. JobMoves(i, r)
  <2>1. phase \in Requesting
    BY DEF Requesting
  <2> HIDE DEF phase
  <2> QED  BY <1>1, <1>4, <1>6, <2>1 DEF JobMoves, Requesting
<1>14. r.phase # "done" /\ phase \in {"listing", "creating", "updating"}
  <2>1. phase \in {"listing", "creating", "updating"}
    OBVIOUS
  <2> HIDE DEF phase
  <2> QED  BY <1>6, <2>1
<1> HIDE DEF page, found, more, phase
<1>15. GateComments(p)' = GateComments(p) /\ \A c : Position(c)' = Position(c)
  BY <1>3 DEF GateComments, Position
<1>16. Overlooked(p, r)' /\ Updatable(p, r)' /\ Absent(p, r)'
  <2>1. n + 1 - 1 = n
    OBVIOUS
  <2> QED  BY <1>6, <1>10, <1>11, <1>12, <1>15, <2>1 DEF Overlooked, Updatable, Absent
<1>17. Single(p)' /\ \A c \in comments' : c.id # 0
  BY <1>3, <1>15 DEF Single, Alone, Counted
<1> QED  BY <1>3, <1>13, <1>14, <1>16, <1>17, JobKeepsReports

(* An update changes the one report; one that is gone leaves none.         *)
LEMMA UpdateKeepsReports ==
  ASSUME IInv, IInv', NEW p, Alone(p), NEW i \in DOMAIN runs, Update(i)
  PROVE  Alone(p)'
<1> DEFINE phase == IF Exists(runs[i].found) THEN "done" ELSE "creating"
<1>1. runs[i] \in Runs /\ runs[i].phase = "updating" /\ runs[i].found # None
  BY RunAt DEF IInv, RunsPlaced, ReadSoFar, Update
<1>2. UNCHANGED <<commits, pushed, remarks, nextId>> /\ comments' = Patched(i)
  BY DEF Update
<1>3. PICK r : /\ r = [runs[i] EXCEPT !.phase = phase, !.attempt = 1]
               /\ runs' = [runs EXCEPT ![i] = r]
  BY DEF Update
<1>4. r.sha = runs[i].sha /\ r.phase = phase
  BY <1>1, <1>3 DEF Runs
<1>5. ASSUME NEW c \in GateComments(p) PROVE c.id = runs[i].found
  BY <1>1, <1>5 DEF Alone, Reading, Updatable
<1>6. \A c \in comments : c \in Comments
  BY DEF IInv, TypeOK
<1>7. \A c \in comments : c.id # runs[i].found => c.shows = None \/ c.pr # p
  BY <1>5 DEF GateComments
<1>8. phase \in {"done", "creating"} /\ (phase = "done" <=> Exists(runs[i].found))
  OBVIOUS
<1> HIDE DEF phase
<1>9. JobMoves(i, r)
  BY <1>1, <1>3, <1>4, <1>8 DEF JobMoves, Requesting
<1>10. \A c \in comments' : c.id # 0
  <2> SUFFICES ASSUME NEW d \in comments' PROVE d.id # 0
    OBVIOUS
  <2>1. PICK c \in comments : d = IF c.id = runs[i].found THEN [c EXCEPT !.shows = i] ELSE c
    BY <1>2 DEF Patched
  <2>2. c.id # 0 /\ c \in Comments
    BY <1>6 DEF Alone, Counted
  <2> QED  BY <2>1, <2>2 DEF Comments
<1>11. CASE phase = "done"
  <2>1. ASSUME NEW d \in GateComments(p)' PROVE d.shows = i /\ d.id = runs[i].found
    <3>1. d \in comments' /\ d.pr = p /\ d.shows # None
      BY <2>1 DEF GateComments
    <3>2. PICK c \in comments : d = IF c.id = runs[i].found THEN [c EXCEPT !.shows = i] ELSE c
      BY <1>2, <3>1 DEF Patched
    <3>3. c.id = runs[i].found
      BY <1>7, <3>1, <3>2
    <3>4. d = [c EXCEPT !.shows = i] /\ c \in Comments
      BY <1>6, <3>2, <3>3
    <3> QED  BY <3>3, <3>4 DEF Comments
  <2>2. Single(p)'
    BY <2>1 DEF Single, GateComments, IInv, TypeOK
  <2>3. Overlooked(p, r)' /\ Updatable(p, r)' /\ Absent(p, r)'
    BY <1>4, <1>11 DEF Overlooked, Updatable, Absent
  <2> QED  BY <1>1, <1>2, <1>4, <1>9, <1>10, <1>11, <2>1, <2>2, <2>3, JobKeepsReports
<1>12. CASE phase = "creating"
  <2>1. \A c \in comments : c.id # runs[i].found
    BY <1>8, <1>12 DEF Exists
  <2>2. comments' = comments
    BY <1>2, <2>1 DEF Patched
  <2>3. GateComments(p) = {} /\ GateComments(p)' = GateComments(p)
    BY <1>5, <2>1, <2>2 DEF GateComments
  <2>4. Single(p)'
    BY <2>3 DEF Single
  <2>5. Overlooked(p, r)' /\ Updatable(p, r)' /\ Absent(p, r)'
    BY <1>4, <1>12, <2>3 DEF Overlooked, Updatable, Absent
  <2> QED  BY <1>2, <1>4, <1>9, <1>10, <1>12, <2>2, <2>4, <2>5, JobKeepsReports
<1> QED  BY <1>8, <1>11, <1>12

(* A job that creates a report has found none, and there still is none.    *)
LEMMA CreateKeepsReports ==
  ASSUME IInv, IInv', NEW p, Alone(p), NEW i \in DOMAIN runs, Create(i)
  PROVE  Alone(p)'
<1>1. runs[i] \in Runs /\ runs[i].phase = "creating"
  BY RunAt DEF IInv, Create
<1>2. UNCHANGED <<commits, pushed, remarks>> /\ nextId' = nextId + 1
  BY DEF Create
<1>3. PICK r : /\ r = [runs[i] EXCEPT !.phase = "done"]
               /\ runs' = [runs EXCEPT ![i] = r]
  BY DEF Create
<1>4. r.sha = runs[i].sha /\ r.phase = "done"
  BY <1>1, <1>3 DEF Runs
<1>5. PICK d : /\ comments' = comments \cup {d} /\ d.id = nextId /\ d.shows = i
  <2> DEFINE new == [id |-> nextId, pr |-> runs[i].target, by |-> "bot", marked |-> TRUE,
                     shows |-> i]
  <2>1. comments' = comments \cup {new} /\ new.id = nextId /\ new.shows = i
    BY DEF Create, Posted
  <2> HIDE DEF new
  <2> QED  BY <2>1
<1>6. GateComments(p) = {}
  BY <1>1 DEF Alone, Reading, Absent
<1>7. \A c \in GateComments(p)' : c = d
  BY <1>5, <1>6 DEF GateComments
<1>8. Single(p)' /\ \A c \in GateComments(p)' : c.shows = i
  BY <1>5, <1>7 DEF Single
<1>9. JobMoves(i, r)
  BY <1>1, <1>3, <1>4 DEF JobMoves, Requesting
<1>10. \A c \in comments' : c.id # 0
  BY <1>5 DEF Alone, Counted, IInv, TypeOK
<1>11. comments' # comments
  <2>1. d \notin comments
    BY <1>5 DEF IInv, TypeOK
  <2> QED  BY <1>5, <2>1
<1>12. Overlooked(p, r)' /\ Updatable(p, r)' /\ Absent(p, r)'
  BY <1>4 DEF Overlooked, Updatable, Absent
<1> QED  BY <1>1, <1>2, <1>4, <1>8, <1>9, <1>10, <1>11, <1>12, JobKeepsReports

(* Analyses of the head commit come and go without touching the reports.   *)
LEMMA HeadQueueKeepsReports ==
  ASSUME IInv, IInv', NEW p, Alone(p), Queue, pushed \in Nat \ {0} \/ DOMAIN runs' = DOMAIN runs,
         UNCHANGED <<commits, pushed, comments, nextId, remarks>>
  PROVE  Alone(p)'
<1>1. \A j \in DOMAIN runs : j \in DOMAIN runs' /\ runs'[j].sha = runs[j].sha
  BY DEF Queue
<1>2. \A j \in DOMAIN runs' \ DOMAIN runs : runs'[j].sha = pushed
  BY DEF Queue
<1>3. Heads(p)'
  <2>1. \A j \in DOMAIN runs' : runs'[j].sha \in 1 .. pushed
    BY <1>1, <1>2 DEF Heads, Alone
  <2> QED  BY <2>1 DEF Heads, Alone
<1>4. AtHead'
  <2> SUFFICES ASSUME NEW j \in DOMAIN runs', runs'[j].phase \notin Ended
               PROVE  runs'[j].sha = pushed
    BY DEF AtHead
  <2>1. CASE j \in DOMAIN runs
    <3>1. runs[j].phase \notin Ended
      BY <2>1 DEF Queue, Ended
    <3> QED  BY <1>1, <2>1, <3>1 DEF Alone, AtHead
  <2>2. CASE j \notin DOMAIN runs
    BY <1>2, <2>2
  <2> QED  BY <2>1, <2>2
<1>5. Current(p)'
  <2>1. /\ Finished' = Finished
        /\ \A c \in GateComments(p)' :
             c \in GateComments(p) /\ c.shows \in DOMAIN runs /\ runs'[c.shows].sha = runs[c.shows].sha
    BY QueueKeepsReports
  <2>2. \A i \in Finished : i \in DOMAIN runs
    BY DEF Finished
  <2> QED  BY <1>1, <2>1, <2>2 DEF Current, Alone
<1> QED  BY <1>3, <1>4, <1>5, QueueKeepsReports DEF Alone

(* A new head: no job is under way, and no report is on it yet.            *)
LEMMA PushKeepsReports ==
  ASSUME IInv, IInv', NEW p, Sequential(p), Alone(p), Push(p)
  PROVE  Alone(p)'
<1>1. PICK n \in Nat : n = pushed
  BY LimitAssumption DEF IInv, TypeOK
<1>2. /\ pushed' = n + 1 /\ Quiet /\ Trigger(p, pushed')
      /\ UNCHANGED <<comments, nextId, remarks>>
  BY <1>1 DEF Push, Sequential
<1>3. /\ Queue /\ \A j \in DOMAIN runs : runs'[j] = runs[j]
  BY <1>2, TriggeredQueue
<1>4. \A j \in DOMAIN runs : runs[j].phase \in Ended /\ runs[j].sha \in 1 .. n
  BY <1>1, <1>2 DEF Quiet, Alone, Heads
<1>5. \A j \in DOMAIN runs' \ DOMAIN runs : runs'[j].sha = n + 1
  BY <1>2, <1>3 DEF Queue
<1>6. Heads(p)'
  <2>1. \A j \in DOMAIN runs' : runs'[j].sha \in 1 .. (n + 1)
    BY <1>3, <1>4, <1>5
  <2>2. PICK kept \in {{}} \cup {commits[q] : q \in PR} :
          commits' = [commits EXCEPT ![p] = kept \cup {pushed'}]
    BY DEF Push
  <2>3. kept \subseteq 1 .. n
    BY <1>1 DEF Alone, Heads, Sequential
  <2>4. commits'[p] = kept \cup {n + 1}
    <3>1. p \in DOMAIN commits
      BY DEF IInv, TypeOK, Sequential
    <3> QED  BY <1>2, <2>2, <3>1
  <2> QED  BY <1>2, <2>1, <2>3, <2>4 DEF Heads
<1>7. AtHead'
  BY <1>2, <1>3, <1>4, <1>5 DEF AtHead
<1>8. /\ OneJob' /\ Counted' /\ Reading(p)' /\ Single(p)' /\ Finished' = Finished
  BY <1>2, <1>3, QueueKeepsReports
<1>9. Current(p)'
  <2>1. \A j \in Finished : j \in DOMAIN runs
    BY DEF Finished
  <2>2. \A j \in Finished : runs'[j].sha # n + 1
    BY <1>3, <1>4, <2>1
  <2> QED  BY <1>2, <1>8, <2>2 DEF Current
<1> QED  BY <1>6, <1>7, <1>8, <1>9 DEF Alone

(* What people do to the comments leaves a job what it has read.           *)
LEMMA RemarkKeepsReports ==
  ASSUME IInv, IInv', NEW p, Alone(p), NEW q, NEW by, NEW marked, Remark(q, by, marked)
  PROVE  Alone(p)'
<1> DEFINE d == [id |-> nextId, pr |-> q, by |-> by, marked |-> marked, shows |-> None]
<1>1. /\ UNCHANGED <<commits, pushed, runs>> /\ comments' = comments \cup {d}
      /\ d.id = nextId /\ d.shows = None
      /\ nextId' = nextId + 1 /\ remarks' = remarks + 1
  BY DEF Remark
<1> HIDE DEF d
<1>2. nextId \in Nat \ {0} /\ remarks \in Nat /\ \A c \in comments : c.id < nextId /\ c.id \in Nat
  BY LimitAssumption DEF IInv, TypeOK, Comments
<1>3. Counted'
  <2>1. Finished' = Finished /\ Cardinality(Finished) \in Nat
    BY <1>1, FinishedAreFew DEF Finished
  <2>2. nextId' <= 1 + remarks' + Cardinality(Finished)
    BY <1>1, <1>2, <2>1 DEF Alone, Counted
  <2> QED  BY <1>1, <1>2, <2>1, <2>2 DEF Alone, Counted
<1>4. GateComments(p)' = GateComments(p) /\ GateComments(p) \subseteq comments
  BY <1>1 DEF GateComments
<1>5. ASSUME NEW c \in comments PROVE Position(c)' = Position(c)
  <2>1. {e \in comments' : e.pr = c.pr /\ e.id <= c.id}
          = {e \in comments : e.pr = c.pr /\ e.id <= c.id}
    <3>1. ~(d.id <= c.id)
      BY <1>1, <1>2
    <3> QED  BY <1>1, <3>1
  <2> QED  BY <2>1 DEF Position
<1>6. Reading(p)'
  BY <1>1, <1>4, <1>5 DEF Reading, Overlooked, Updatable, Absent, Alone
<1> QED  BY <1>1, <1>3, <1>4, <1>6 DEF Alone, Heads, AtHead, OneJob, Single, Current, Finished

LEMMA DeleteKeepsReports ==
  ASSUME IInv, IInv', NEW p, Sequential(p), Alone(p), NEW c \in comments, Delete(c)
  PROVE  Alone(p)'
<1>1. /\ UNCHANGED <<commits, pushed, runs, nextId>> /\ comments' = comments \ {c}
      /\ remarks' = remarks + 1 /\ (Quiet \/ c \in Ours(comments))
  BY DEF Delete, Sequential
<1>2. nextId \in Nat \ {0} /\ remarks \in Nat
  BY LimitAssumption DEF IInv, TypeOK
<1>3. Counted'
  <2>1. Finished' = Finished /\ Cardinality(Finished) \in Nat
    BY <1>1, FinishedAreFew DEF Finished
  <2>2. nextId' <= 1 + remarks' + Cardinality(Finished)
    BY <1>1, <1>2, <2>1 DEF Alone, Counted
  <2> QED  BY <1>1, <2>1, <2>2 DEF Alone, Counted
<1>4. GateComments(p)' = GateComments(p) \ {c}
  BY <1>1 DEF GateComments
<1>5. Single(p)' /\ Current(p)'
  <2>1. Finished' = Finished
    BY <1>1 DEF Finished
  <2> QED  BY <1>1, <1>4, <2>1 DEF Alone, Single, Current
<1>6. Reading(p)'
  <2>1. CASE Quiet
    BY <1>1, <2>1 DEF Reading, Overlooked, Updatable, Absent, Quiet, Ended
  <2>2. CASE c \in Ours(comments)
    <3>1. c \in GateComments(p)
      BY <2>2, ReportsAreOurs DEF IInv, TypeOK, Comments, Sequential
    <3>2. GateComments(p)' = {}
      BY <1>4, <3>1 DEF Alone, Single
    <3> QED  BY <3>2 DEF Reading, Overlooked, Updatable, Absent
  <2> QED  BY <1>1, <2>1, <2>2
<1> QED  BY <1>1, <1>3, <1>5, <1>6 DEF Alone, Heads, AtHead, OneJob

(* Whatever happens next, the one report stays.                            *)
LEMMA OnceAlone ==
  ASSUME IInv, IInv', NEW p, Sequential(p), Alone(p), [Next]_vars
  PROVE  Alone(p)'
<1>1. ASSUME UNCHANGED <<commits, pushed, runs, comments, nextId, remarks>>
      PROVE  Alone(p)'
  <2>1. Queue
    BY <1>1 DEF Queue
  <2> QED  BY <1>1, <2>1, HeadQueueKeepsReports
<1>2. ASSUME NEW q \in PR, Push(q) PROVE Alone(p)'
  BY <1>2, PushKeepsReports DEF Sequential
<1>3. ASSUME NEW i \in DOMAIN runs, Rerun(i) PROVE Alone(p)'
  <2>1. runs[i].pr = p /\ pushed \in Nat
    <3>1. runs[i].pr \in PR
      BY RunAt DEF IInv, Runs
    <3>2. pushed \in Nat
      BY LimitAssumption DEF IInv, TypeOK
    <3> QED  BY <3>1, <3>2 DEF Sequential
  <2>2. pushed > 0
    BY <2>1 DEF Alone, Heads
  <2>3. runs[i].sha = pushed
    <3>1. HeadCommit(p) = pushed
      BY <2>1, <2>2, HeadIsLast DEF Alone
    <3> QED  BY <1>3, <2>1, <3>1 DEF Rerun, Sequential
  <2>4. UNCHANGED <<commits, pushed, comments, nextId, remarks>> /\ Trigger(p, pushed')
    BY <1>3, <2>1, <2>3 DEF Rerun
  <2>5. Queue
    BY <2>4, TriggeredQueue
  <2> QED  BY <2>1, <2>2, <2>4, <2>5, HeadQueueKeepsReports
<1>4. ASSUME NEW i \in DOMAIN runs, Analyse(i) PROVE Alone(p)'
  <2>1. /\ runs[i].phase = "analysing"
        /\ UNCHANGED <<commits, pushed, comments, nextId, remarks>>
    BY <1>4 DEF Analyse
  <2>2. PICK o \in Outcomes : runs' = Completed(runs, i, o)
    BY <1>4 DEF Analyse
  <2>3. /\ DOMAIN runs' = DOMAIN runs
        /\ \A j \in DOMAIN runs :
             \/ runs'[j] = runs[j]
             \/ /\ runs'[j].phase \in {"waiting", "superseded"} /\ runs'[j].sha = runs[j].sha
                /\ runs[j].phase \in {"analysing", "waiting"}
    BY <2>1, <2>2, CompletedQueue
  <2>4. Queue
    BY <2>3 DEF Queue
  <2> QED  BY <2>1, <2>3, <2>4, HeadQueueKeepsReports
<1>5. ASSUME NEW i \in DOMAIN runs, Work(i) PROVE Alone(p)'
  BY <1>4, <1>5, StartKeepsReports, ListKeepsReports, UpdateKeepsReports, CreateKeepsReports
     DEF Work
<1>6. ASSUME NEW i \in DOMAIN runs, Unavailable(i) \/ LoseAnswer(i) \/ Reject(i)
      PROVE  FALSE
  BY <1>6 DEF Unavailable, LoseAnswer, Reject, Sequential, IInv, TypeOK
<1>7. ASSUME NEW q \in PR, Close(q) PROVE Alone(p)'
  BY <1>1, <1>7 DEF Close
<1>8. ASSUME UNCHANGED vars PROVE Alone(p)'
  BY <1>1, <1>8 DEF vars
<1> QED  BY <1>2, <1>3, <1>5, <1>6, <1>7, <1>8, RemarkKeepsReports, DeleteKeepsReports DEF Next

LEMMA AloneAtFirst ==
  ASSUME NEW p, Sequential(p), Init
  PROVE  Alone(p)
<1>1. DOMAIN runs = {} /\ comments = {} /\ nextId = 1 /\ remarks = 0 /\ pushed = 0
      /\ commits[p] = {}
  BY DEF Init, Sequential
<1>2. GateComments(p) = {} /\ Finished = {}
  BY <1>1 DEF GateComments, Finished
<1>3. Cardinality(Finished) = 0
  BY <1>2, FS_EmptySet
<1> QED  BY <1>1, <1>2, <1>3 DEF Alone, Heads, AtHead, OneJob, Counted, Reading, Single, Current

(* While one commit at a time is dealt with, the pull request carries one  *)
(* report at most, whatever people do to it meanwhile, and every job that  *)
(* looks for it either finds it or has looked at every comment there is.   *)
LEMMA AlwaysAlone ==
  ASSUME NEW p, Sequential(p)
  PROVE  Spec => []Alone(p)
<1>1. Init => Alone(p)
  BY AloneAtFirst
<1>2. IInv /\ IInv' /\ Alone(p) /\ [Next]_vars => Alone(p)'
  BY OnceAlone
<1> QED  BY <1>1, <1>2, Invariant, PTL DEF Spec

-----------------------------------------------------------------------------
(* One report, and the current one.                                        *)

(* One comment that changes in place: as long as one commit at a time is   *)
(* dealt with and requests are answered, however often the head is         *)
(* analysed again and whatever people write or delete, a pull request      *)
(* never carries two reports (github.py:230).                              *)
THEOREM OneReportAtATime ==
  ASSUME NEW p, Sequential(p)
  PROVE  Spec => []OneReport
<1>1. Alone(p) => OneReport
  <2> SUFFICES ASSUME Alone(p), NEW q \in PR PROVE Cardinality(GateComments(q)) <= 1
    BY DEF OneReport
  <2>1. q = p
    BY DEF Sequential
  <2>2. CASE GateComments(p) = {}
    BY <2>1, <2>2, FS_EmptySet
  <2>3. CASE GateComments(p) # {}
    <3>1. PICK c : GateComments(p) = {c}
      BY <2>3 DEF Alone, Single
    <3>2. Cardinality({c}) = 1
      BY FS_Singleton
    <3> QED  BY <2>1, <3>1, <3>2
  <2> QED  BY <2>2, <2>3
<1>2. Spec => []Alone(p)
  BY AlwaysAlone
<1> QED  BY <1>1, <1>2, PTL

(* And that report is on the head commit, once everything is quiet and one *)
(* on it was posted: a report on an earlier commit never ends up on top    *)
(* (cost-gate.yml:25).                                                     *)
THEOREM CurrentAtATime ==
  ASSUME NEW p, Sequential(p)
  PROVE  Spec => []CurrentWhenQuiet
<1>1. IInv /\ Alone(p) => CurrentWhenQuiet
  <2> SUFFICES ASSUME IInv, Alone(p), NEW q \in open, NEW i \in DOMAIN runs,
                      runs[i].phase = "done", runs[i].sha = HeadCommit(q),
                      NEW c \in GateComments(q)
               PROVE  runs[c.shows].sha = HeadCommit(q)
    BY DEF CurrentWhenQuiet
  <2>1. q = p /\ pushed \in Nat
    BY LimitAssumption DEF Sequential, IInv, TypeOK
  <2>2. pushed > 0
    BY <2>1 DEF Alone, Heads
  <2>3. HeadCommit(p) = pushed
    BY <2>1, <2>2, HeadIsLast DEF Alone
  <2> QED  BY <2>1, <2>3 DEF Alone, Current, Finished
<1>2. Spec => []Alone(p)
  BY AlwaysAlone
<1> QED  BY <1>1, <1>2, Invariant, PTL
=============================================================================
