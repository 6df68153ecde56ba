---------------------------- MODULE Daemon_proofs ----------------------------
(***************************************************************************)
(* Theorems about module Daemon, for any number of pull requests,          *)
(* revisions, findings, workers and slots, and any number of faults.       *)
(***************************************************************************)
EXTENDS DaemonProperties, FiniteSetTheorems, SequenceTheorems, TLAPS

(* A job knows what it is about: types alone would let it be None. *)
Placed == \A w \in Workers : Active(w) => job[w].pr \in PullRequests /\ job[w].rev \in Revisions

TypeInv == TypeOK /\ Placed

---------------------------------------------------------------------------
(* Typing of the constant operators *)

LEMMA RecordTypes ==
  /\ NoRecord \in RoundRecord
  /\ InProgress \in CheckRun
  /\ NoThread \in Thread /\ NoThreads \in [Findings -> Thread]
<1>1. NoRecord \in RoundRecord
  BY DEF NoRecord, RoundRecord
<1>2. InProgress \in CheckRun
  BY <1>1 DEF InProgress, CheckRun
<1>3. NoThread \in Thread /\ NoThreads \in [Findings -> Thread]
  BY DEF NoThreads, NoThread, Thread
<1> QED
  BY <1>1, <1>2, <1>3

LEMMA NewJobTypes ==
  ASSUME NEW pc \in ReviewSteps \cup OtherSteps \cup {"idle", "dead"},
         NEW pr \in PullRequests \cup {None}, NEW rev \in Revisions \cup {None}
  PROVE  /\ NewJob(pc, pr, rev) \in Job
         /\ NewJob(pc, pr, rev).pc = pc
         /\ NewJob(pc, pr, rev).pr = pr
         /\ NewJob(pc, pr, rev).rev = rev
BY RecordTypes DEF NewJob, NoPlan, Job

LEMMA IdleTypes == Idle \in Job /\ Idle.pc = "idle" /\ Dead \in Job /\ Dead.pc = "dead"
BY NewJobTypes DEF Idle, Dead

LEMMA BaselineTypes ==
  ASSUME NEW rs \in Seq(CheckRun)
  PROVE  Baseline(rs) \in RoundRecord
<1>1. CASE rs = <<>>
  BY <1>1, RecordTypes DEF Baseline
<1>2. CASE rs # <<>>
  <2>1. Len(rs) \in 1..Len(rs)
    BY <1>2, EmptySeq, LenProperties
  <2>2. rs[Len(rs)] \in CheckRun
    BY <2>1, ElementOfSeq
  <2> QED
    BY <1>2, <2>2 DEF Baseline, CheckRun
<1> QED
  BY <1>1, <1>2

---------------------------------------------------------------------------
(* What the platform's calls keep *)

LEMMA CreateRunTypes ==
  ASSUME GitHubTypeOK, NEW pr \in PullRequests, NEW rev \in Revisions, CreateRun(pr, rev)
  PROVE  GitHubTypeOK'
<1>1. runs[pr][rev] \in Seq(CheckRun)
  BY DEF GitHubTypeOK
<1>2. Append(runs[pr][rev], InProgress) \in Seq(CheckRun)
  BY <1>1, RecordTypes, AppendProperties
<1> QED
  BY <1>2 DEF GitHubTypeOK, CreateRun

LEMMA UpdateRunTypes ==
  ASSUME GitHubTypeOK, NEW pr \in PullRequests, NEW rev \in Revisions, NEW id,
         NEW concl \in {"none", "success", "failure"}, NEW rec \in RoundRecord,
         UpdateRun(pr, rev, id, concl, rec)
  PROVE  GitHubTypeOK'
<1> DEFINE rs == runs[pr][rev]
           run == [status |-> "completed", conclusion |-> concl, record |-> rec]
<1>1. rs \in Seq(CheckRun)
  BY DEF GitHubTypeOK
<1>2. run \in CheckRun
  BY DEF CheckRun
<1>3. [rs EXCEPT ![id] = run] \in Seq(CheckRun)
  <2>1. CASE id \in 1..Len(rs)
    BY <1>1, <1>2, <2>1, ExceptSeq
  <2>2. CASE id \notin 1..Len(rs)
    <3>1. rs \in [1..Len(rs) -> CheckRun]
      BY <1>1, LenProperties
    <3>2. [rs EXCEPT ![id] = run] = rs
      BY <3>1, <2>2
    <3> QED
      BY <1>1, <3>2
  <2> QED
    BY <2>1, <2>2
<1>4. runs' = [runs EXCEPT ![pr] = [@ EXCEPT ![rev] = [rs EXCEPT ![id] = run]]]
  BY DEF UpdateRun, GitHubTypeOK
<1> QED
  BY <1>3, <1>4 DEF GitHubTypeOK, UpdateRun

LEMMA ThreadTypes ==
  ASSUME NEW t \in Thread
  PROVE  /\ \A n \in Nat : [t EXCEPT !.resolved = @ \cup {n}] \in Thread
         /\ \A n \in Nat : [t EXCEPT !.posted = @ + n] \in Thread
         /\ [t EXCEPT !.replies = @ + 1] \in Thread
<1>1. ASSUME NEW n \in Nat PROVE [t EXCEPT !.resolved = @ \cup {n}] \in Thread
  <2>1. t.resolved \cup {n} \in SUBSET Nat
    BY DEF Thread
  <2> QED
    BY <2>1 DEF Thread
<1>2. ASSUME NEW n \in Nat PROVE [t EXCEPT !.posted = @ + n] \in Thread
  BY DEF Thread
<1>3. [t EXCEPT !.replies = @ + 1] \in Thread
  BY DEF Thread
<1> QED
  BY <1>1, <1>2, <1>3

LEMMA OpenThreadTypes ==
  ASSUME NEW th \in [Findings -> Thread], NEW f \in Findings
  PROVE  OpenThreads(th, f) \in SUBSET Nat
<1>1. th[f].posted \in Nat
  BY DEF Thread
<1> QED
  BY <1>1 DEF OpenThreads

LEMMA ResolveThreadTypes ==
  ASSUME GitHubTypeOK, NEW pr \in PullRequests, NEW f \in Findings, NEW t \in Nat,
         ResolveThread(pr, f, t)
  PROVE  GitHubTypeOK'
<1>1. threads[pr][f] \in Thread
  BY DEF GitHubTypeOK
<1> QED
  BY <1>1, ThreadTypes DEF GitHubTypeOK, ResolveThread

LEMMA CreateReviewTypes ==
  ASSUME GitHubTypeOK, NEW pr \in PullRequests, NEW copies \in [Findings -> Nat],
         CreateReview(pr, copies)
  PROVE  GitHubTypeOK'
<1>1. \A f \in Findings : threads[pr][f] \in Thread /\ copies[f] \in Nat
  BY DEF GitHubTypeOK
<1>2. Posted(threads[pr], copies) \in [Findings -> Thread]
  BY <1>1, ThreadTypes DEF Posted
<1> QED
  BY <1>2 DEF GitHubTypeOK, CreateReview

LEMMA CreateCommentTypes ==
  ASSUME GitHubTypeOK, NEW delivered \in Deliveries, CreateComment(delivered)
  PROVE  GitHubTypeOK'
BY DEF GitHubTypeOK, CreateComment

LEMMA QuietTypes == GitHubTypeOK /\ UNCHANGED githubVars => GitHubTypeOK'
BY DEF GitHubTypeOK, githubVars

LEMMA PeopleTypes == GitHubTypeOK /\ People => GitHubTypeOK'
<1> SUFFICES ASSUME GitHubTypeOK, NEW pr \in PullRequests,
                    \/ \E rev \in Revisions : Push(pr, rev)
                    \/ \E f \in Findings :
                         \/ Reply(pr, f)
                         \/ \E t \in OpenThreads(threads[pr], f) : ResolveByHand(pr, f, t)
             PROVE  GitHubTypeOK'
  BY DEF People
<1>1. ASSUME NEW rev \in Revisions, Push(pr, rev) PROVE GitHubTypeOK'
  BY <1>1 DEF Push, GitHubTypeOK
<1>2. ASSUME NEW f \in Findings, Reply(pr, f) PROVE GitHubTypeOK'
  <2>1. threads[pr][f] \in Thread
    BY DEF GitHubTypeOK
  <2> QED
    BY <1>2, <2>1, ThreadTypes DEF Reply, GitHubTypeOK
<1>3. ASSUME NEW f \in Findings, NEW t \in OpenThreads(threads[pr], f), ResolveByHand(pr, f, t)
      PROVE  GitHubTypeOK'
  <2>1. threads[pr][f] \in Thread /\ t \in Nat
    BY OpenThreadTypes DEF GitHubTypeOK
  <2> QED
    BY <1>3, <2>1, ThreadTypes DEF ResolveByHand, GitHubTypeOK
<1> QED
  BY <1>1, <1>2, <1>3

---------------------------------------------------------------------------
(* One step of a review: its own job changes, and the pull request it is   *)
(* about does not, until the review is over.                               *)

Moved(w) ==
  /\ Active(w) /\ obstacle' = obstacle
  /\ \E j \in Job : /\ job' = [job EXCEPT ![w] = j]
                    /\ j = Idle \/ (j.pr = job[w].pr /\ j.rev \in Revisions)

LEMMA ActiveJob ==
  ASSUME TypeInv, NEW w \in Workers, Active(w)
  PROVE  /\ job \in [Workers -> Job] /\ job[w] \in Job
         /\ job[w].pr \in PullRequests /\ job[w].rev \in Revisions
         /\ job[w].base \in RoundRecord
         /\ head[job[w].pr] \in Revisions
         /\ threads[job[w].pr] \in [Findings -> Thread]
         /\ runs[job[w].pr][job[w].rev] \in Seq(CheckRun)
<1>1. job[w].pr \in PullRequests /\ job[w].rev \in Revisions
  BY DEF TypeInv, Placed
<1>2. job \in [Workers -> Job] /\ job[w] \in Job
  BY DEF TypeInv, TypeOK, ReviewTypeOK
<1>3. job[w].base \in RoundRecord
  BY <1>2 DEF Job
<1> QED
  BY <1>1, <1>2, <1>3 DEF TypeInv, TypeOK, GitHubTypeOK

LEMMA FinishMoves ==
  ASSUME TypeInv, NEW w \in Workers, Active(w), Finish(w), obstacle' = obstacle
  PROVE  Moved(w)
BY IdleTypes DEF Moved, Finish

LEMMA GoToMoves ==
  ASSUME TypeInv, NEW w \in Workers, Active(w), NEW pc \in ReviewSteps \cup OtherSteps,
         GoTo(w, pc), obstacle' = obstacle
  PROVE  Moved(w)
<1> DEFINE j == [job[w] EXCEPT !.pc = pc]
<1>a. job \in [Workers -> Job] /\ job[w] \in Job /\ job[w].rev \in Revisions
  BY ActiveJob
<1>1. j \in Job /\ j.pr = job[w].pr /\ j.rev \in Revisions
  BY <1>a DEF Job
<1>2. job' = [job EXCEPT ![w] = j]
  BY <1>a DEF GoTo
<1> HIDE DEF j
<1> QED
  BY <1>1, <1>2 DEF Moved

LEMMA ReadSnapshotTypes ==
  ASSUME TypeInv, NEW w \in Workers, ReadSnapshot(w)
  PROVE  Moved(w) /\ GitHubTypeOK'
<1> DEFINE j == [job[w] EXCEPT !.pc = "prerequisites", !.rev = head[job[w].pr]]
<1>1. Active(w) /\ UNCHANGED <<githubVars, obstacle>>
  BY DEF Active, ReadSnapshot
<1>a. job \in [Workers -> Job] /\ job[w] \in Job /\ head[job[w].pr] \in Revisions
  BY <1>1, ActiveJob
<1>2. j \in Job /\ j.pr = job[w].pr /\ j.rev \in Revisions
  <2>1. "prerequisites" \in ReviewSteps
    BY DEF ReviewSteps
  <2> QED
    BY <1>a, <2>1 DEF Job
<1>3. job' = [job EXCEPT ![w] = j]
  BY <1>a DEF ReadSnapshot
<1> HIDE DEF j
<1> QED
  BY <1>1, <1>2, <1>3, QuietTypes DEF Moved, TypeInv, TypeOK

LEMMA CheckPrerequisitesTypes ==
  ASSUME TypeInv, NEW w \in Workers, CheckPrerequisites(w)
  PROVE  Moved(w) /\ GitHubTypeOK'
<1>1. Active(w) /\ UNCHANGED <<githubVars, obstacle>>
  BY DEF Active, CheckPrerequisites
<1>2. PICK pc \in {"stop_failure", "history"} : GoTo(w, pc)
  BY DEF CheckPrerequisites
<1>3. pc \in ReviewSteps \cup OtherSteps
  BY DEF ReviewSteps, OtherSteps
<1> QED
  BY <1>1, <1>2, <1>3, GoToMoves, QuietTypes DEF TypeInv, TypeOK

LEMMA ReadHistoryTypes ==
  ASSUME TypeInv, NEW w \in Workers, ReadHistory(w)
  PROVE  Moved(w) /\ GitHubTypeOK'
<1> DEFINE base == Baseline(runs[job[w].pr][job[w].rev])
           j == [job[w] EXCEPT !.pc = "threads", !.base = base]
<1>1. Active(w) /\ UNCHANGED <<githubVars, obstacle>>
  BY DEF Active, ReadHistory
<1>a. /\ job \in [Workers -> Job] /\ job[w] \in Job /\ job[w].rev \in Revisions
      /\ runs[job[w].pr][job[w].rev] \in Seq(CheckRun)
  BY <1>1, ActiveJob
<1>2. j \in Job /\ j.pr = job[w].pr /\ j.rev \in Revisions
  <2>1. "threads" \in ReviewSteps
    BY DEF ReviewSteps
  <2>2. base \in RoundRecord
    BY <1>a, BaselineTypes
  <2> HIDE DEF base
  <2> QED
    BY <1>a, <2>1, <2>2 DEF Job
<1>3. job' = [job EXCEPT ![w] = j]
  BY <1>a DEF ReadHistory
<1> HIDE DEF j
<1> QED
  BY <1>1, <1>2, <1>3, QuietTypes DEF Moved, TypeInv, TypeOK

LEMMA ReadThreadsTypes ==
  ASSUME TypeInv, NEW w \in Workers, ReadThreads(w)
  PROVE  Moved(w) /\ GitHubTypeOK'
<1>1. Active(w) /\ UNCHANGED <<githubVars, obstacle>>
  BY DEF Active, ReadThreads
<1>a. /\ job \in [Workers -> Job] /\ job[w] \in Job /\ job[w].rev \in Revisions
      /\ job[w].base \in RoundRecord /\ threads[job[w].pr] \in [Findings -> Thread]
  BY <1>1, ActiveJob
<1>2. PICK pc \in {"stop_failure", "diff"} :
        job' = [job EXCEPT ![w].prior = threads[job[w].pr],
                           ![w].base = [NoRecord EXCEPT !.round = job[w].base.round],
                           ![w].pc = pc]
  BY DEF ReadThreads
<1> DEFINE base == [NoRecord EXCEPT !.round = job[w].base.round]
           j == [job[w] EXCEPT !.prior = threads[job[w].pr], !.base = base, !.pc = pc]
<1>3. base \in RoundRecord
  BY <1>a, RecordTypes DEF RoundRecord
<1>4. pc \in ReviewSteps \cup OtherSteps
  BY DEF ReviewSteps, OtherSteps
<1>5. job' = [job EXCEPT ![w] = j]
  BY <1>a, <1>2
<1>6. j \in Job /\ j.pr = job[w].pr /\ j.rev \in Revisions
  <2> HIDE DEF base
  <2> QED
    BY <1>a, <1>3, <1>4 DEF Job
<1> HIDE DEF j
<1> QED
  BY <1>1, <1>5, <1>6, QuietTypes DEF Moved, TypeInv, TypeOK

LEMMA ReadDiffTypes ==
  ASSUME TypeInv, NEW w \in Workers, ReadDiff(w)
  PROVE  Moved(w) /\ GitHubTypeOK'
<1>1. Active(w) /\ UNCHANGED <<githubVars, obstacle>>
  BY DEF Active, ReadDiff
<1>a. /\ job \in [Workers -> Job] /\ job[w] \in Job /\ job[w].rev \in Revisions
      /\ head[job[w].pr] \in Revisions
  BY <1>1, ActiveJob
<1>2. PICK pc \in {"stop_failure", "stop_unreported", "open"} :
        job' = [job EXCEPT ![w].examined = head[job[w].pr], ![w].pc = pc]
  BY DEF ReadDiff
<1> DEFINE j == [job[w] EXCEPT !.examined = head[job[w].pr], !.pc = pc]
<1>3. pc \in ReviewSteps \cup OtherSteps
  BY DEF ReviewSteps, OtherSteps
<1>4. job' = [job EXCEPT ![w] = j]
  BY <1>a, <1>2
<1>5. j \in Job /\ j.pr = job[w].pr /\ j.rev \in Revisions
  BY <1>a, <1>3 DEF Job
<1> HIDE DEF j
<1> QED
  BY <1>1, <1>4, <1>5, QuietTypes DEF Moved, TypeInv, TypeOK

LEMMA StopTypes ==
  ASSUME TypeInv, NEW w \in Workers, Stop(w)
  PROVE  Moved(w) /\ GitHubTypeOK'
<1>1. Active(w) /\ obstacle' = obstacle
  BY DEF Active, Stop
<1>2. Moved(w)
  BY <1>1, FinishMoves DEF Stop
<1>3. GitHubTypeOK
  BY DEF TypeInv, TypeOK
<1> QED
  BY <1>2, <1>3, CreateCommentTypes DEF Stop

LEMMA NotifyWaiversTypes ==
  ASSUME TypeInv, NEW w \in Workers, NotifyWaivers(w)
  PROVE  Moved(w) /\ GitHubTypeOK'
<1>1. Active(w) /\ obstacle' = obstacle
  BY DEF Active, NotifyWaivers
<1>2. Moved(w)
  BY <1>1, FinishMoves DEF NotifyWaivers
<1>3. GitHubTypeOK
  BY DEF TypeInv, TypeOK
<1> QED
  BY <1>2, <1>3, CreateCommentTypes, QuietTypes DEF NotifyWaivers

LEMMA WaitNotifyTypes ==
  ASSUME TypeInv, NEW w \in Workers, WaitNotify(w)
  PROVE  Moved(w) /\ GitHubTypeOK'
<1>1. Active(w) /\ obstacle' = obstacle
  BY DEF Active, WaitNotify
<1>2. Moved(w)
  BY <1>1, FinishMoves DEF WaitNotify
<1>3. GitHubTypeOK
  BY DEF TypeInv, TypeOK
<1> QED
  BY <1>2, <1>3, CreateCommentTypes DEF WaitNotify

LEMMA OpenGateTypes ==
  ASSUME TypeInv, NEW w \in Workers, OpenGate(w)
  PROVE  Moved(w) /\ GitHubTypeOK'
<1>1. Active(w) /\ obstacle' = obstacle
  BY DEF Active, OpenGate
<1>a. /\ job \in [Workers -> Job] /\ job[w] \in Job
      /\ job[w].pr \in PullRequests /\ job[w].rev \in Revisions
  BY <1>1, ActiveJob
<1> DEFINE run == Len(runs[job[w].pr][job[w].rev]) + 1
           j == [job[w] EXCEPT !.pc = "roles", !.run = run]
<1>2. run \in Nat
  BY <1>1, ActiveJob, LenProperties
<1>3. GitHubTypeOK'
  BY <1>a, CreateRunTypes DEF OpenGate, TypeInv, TypeOK
<1>4. j \in Job /\ j.pr = job[w].pr /\ j.rev \in Revisions
  <2>1. "roles" \in ReviewSteps \cup OtherSteps
    BY DEF ReviewSteps, OtherSteps
  <2> HIDE DEF run
  <2> QED
    BY <1>a, <1>2, <2>1 DEF Job
<1>5. job' = [job EXCEPT ![w] = j]
  BY <1>a DEF OpenGate
<1> HIDE DEF j
<1> QED
  BY <1>1, <1>3, <1>4, <1>5 DEF Moved

LEMMA WaitOpenTypes ==
  ASSUME TypeInv, NEW w \in Workers, WaitOpen(w)
  PROVE  Moved(w) /\ GitHubTypeOK'
<1>1. Active(w) /\ obstacle' = obstacle
  BY DEF Active, WaitOpen
<1>a. /\ job \in [Workers -> Job] /\ job[w] \in Job
      /\ job[w].pr \in PullRequests /\ job[w].rev \in Revisions
  BY <1>1, ActiveJob
<1> DEFINE run == Len(runs[job[w].pr][job[w].rev]) + 1
           j == [job[w] EXCEPT !.pc = "wait_report", !.run = run]
<1>2. run \in Nat
  BY <1>1, ActiveJob, LenProperties
<1>3. GitHubTypeOK'
  BY <1>a, CreateRunTypes DEF WaitOpen, TypeInv, TypeOK
<1>4. j \in Job /\ j.pr = job[w].pr /\ j.rev \in Revisions
  <2>1. "wait_report" \in ReviewSteps \cup OtherSteps
    BY DEF ReviewSteps, OtherSteps
  <2> HIDE DEF run
  <2> QED
    BY <1>a, <1>2, <2>1 DEF Job
<1>5. job' = [job EXCEPT ![w] = j]
  BY <1>a DEF WaitOpen
<1> HIDE DEF j
<1> QED
  BY <1>1, <1>3, <1>4, <1>5 DEF Moved

LEMMA WaitReportTypes ==
  ASSUME TypeInv, NEW w \in Workers, WaitReport(w)
  PROVE  Moved(w) /\ GitHubTypeOK'
<1>1. Active(w) /\ obstacle' = obstacle
  BY DEF Active, WaitReport
<1>a. /\ job \in [Workers -> Job] /\ job[w] \in Job
      /\ job[w].pr \in PullRequests /\ job[w].rev \in Revisions
  BY <1>1, ActiveJob
<1>2. "wait_notify" \in ReviewSteps \cup OtherSteps
  BY DEF OtherSteps
<1>3. Moved(w)
  BY <1>1, <1>2, GoToMoves DEF WaitReport
<1>4. GitHubTypeOK'
  BY <1>a, RecordTypes, UpdateRunTypes DEF WaitReport, TypeInv, TypeOK
<1> QED
  BY <1>3, <1>4

LEMMA ReportGateTypes ==
  ASSUME TypeInv, NEW w \in Workers, ReportGate(w)
  PROVE  Moved(w) /\ GitHubTypeOK'
<1>1. Active(w) /\ obstacle' = obstacle
  BY DEF Active, ReportGate
<1>a. /\ job \in [Workers -> Job] /\ job[w] \in Job
      /\ job[w].pr \in PullRequests /\ job[w].rev \in Revisions
  BY <1>1, ActiveJob
<1>2. "waivers" \in ReviewSteps \cup OtherSteps
  BY DEF ReviewSteps
<1>3. Moved(w)
  BY <1>1, <1>2, GoToMoves DEF ReportGate
<1> DEFINE rec == RecordOf(job[w], RepliesOf(threads[job[w].pr]))
<1>4. rec \in RoundRecord
  <2>1. threads[job[w].pr] \in [Findings -> Thread] /\ job[w].base \in RoundRecord
    BY <1>1, ActiveJob
  <2>2. RepliesOf(threads[job[w].pr]) \in [Findings -> Nat]
    BY <2>1 DEF RepliesOf, Thread
  <2>3. job[w].raised \in SUBSET Findings
    BY <1>a DEF Job
  <2>4. NextRoundNumber(job[w].base) \in Nat
    BY <2>1 DEF NextRoundNumber, RoundRecord
  <2> QED
    BY <2>2, <2>3, <2>4 DEF RecordOf, RoundRecord
<1>5. job[w].conclusion \in {"none", "success", "failure"}
  BY <1>a DEF Job
<1>6. UpdateRun(job[w].pr, job[w].rev, job[w].run, job[w].conclusion, rec)
  BY DEF ReportGate
<1>7. GitHubTypeOK'
  <2> HIDE DEF rec
  <2> QED
    BY <1>a, <1>4, <1>5, <1>6, UpdateRunTypes DEF TypeInv, TypeOK
<1> QED
  BY <1>3, <1>7

LEMMA ResolveNextTypes ==
  ASSUME TypeInv, NEW w \in Workers, ResolveNext(w)
  PROVE  Moved(w) /\ GitHubTypeOK'
<1>1. Active(w) /\ obstacle' = obstacle
  BY DEF Active, ResolveNext
<1>a. /\ job \in [Workers -> Job] /\ job[w] \in Job
      /\ job[w].pr \in PullRequests /\ job[w].rev \in Revisions
  BY <1>1, ActiveJob
<1>2. PICK f \in Findings : \E t \in job[w].resolving[f], pc \in {"submit", "resolve"} :
        /\ ResolveThread(job[w].pr, f, t)
        /\ job' = [job EXCEPT ![w].resolving = [job[w].resolving EXCEPT ![f] = @ \ {t}],
                              ![w].pc = pc]
  BY DEF ResolveNext
<1>b. PICK t \in job[w].resolving[f], pc \in {"submit", "resolve"} :
        /\ ResolveThread(job[w].pr, f, t)
        /\ job' = [job EXCEPT ![w].resolving = [job[w].resolving EXCEPT ![f] = @ \ {t}],
                              ![w].pc = pc]
  BY <1>2
<1> DEFINE left == [job[w].resolving EXCEPT ![f] = @ \ {t}]
           j == [job[w] EXCEPT !.resolving = left, !.pc = pc]
<1>3. t \in Nat /\ left \in [Findings -> SUBSET Nat]
  <2>1. job[w].resolving \in [Findings -> SUBSET Nat]
    BY <1>a DEF Job
  <2> QED
    BY <2>1
<1>4. GitHubTypeOK'
  BY <1>a, <1>b, <1>3, ResolveThreadTypes DEF TypeInv, TypeOK
<1>5. j \in Job /\ j.pr = job[w].pr /\ j.rev \in Revisions
  <2>1. pc \in ReviewSteps \cup OtherSteps
    BY DEF ReviewSteps, OtherSteps
  <2> HIDE DEF left
  <2> QED
    BY <1>a, <1>3, <2>1 DEF Job
<1>6. job' = [job EXCEPT ![w] = j]
  BY <1>a, <1>b
<1> HIDE DEF j
<1> QED
  BY <1>1, <1>4, <1>5, <1>6 DEF Moved

LEMMA PartTypes ==
  ASSUME NEW posting \in [Findings -> Nat], NEW fs
  PROVE  Part(posting, fs) \in [Findings -> Nat]
BY DEF Part

LEMMA SubmitTypes ==
  ASSUME TypeInv, NEW w \in Workers, Submit(w)
  PROVE  Moved(w) /\ GitHubTypeOK'
<1>1. Active(w) /\ obstacle' = obstacle
  BY DEF Active, Submit
<1>a. /\ job \in [Workers -> Job] /\ job[w] \in Job
      /\ job[w].pr \in PullRequests /\ job[w].rev \in Revisions
  BY <1>1, ActiveJob
<1> DEFINE role == RoleOrder[job[w].next]
<1>2. PICK pc \in {"report", "submit"} :
        job' = [job EXCEPT ![w].next = @ + 1,
                           ![w].posting = Part(@, Findings \ FindingsOf(role)), ![w].pc = pc]
  BY DEF Submit
<1> DEFINE now == Part(job[w].posting, FindingsOf(role))
           posting == Part(job[w].posting, Findings \ FindingsOf(role))
           j == [job[w] EXCEPT !.next = @ + 1, !.posting = posting, !.pc = pc]
<1>3. job[w].next + 1 \in Nat /\ posting \in [Findings -> Nat] /\ now \in [Findings -> Nat]
  BY <1>a, PartTypes DEF Job
<1>4. GitHubTypeOK'
  <2>1. UNCHANGED githubVars \/ CreateReview(job[w].pr, now)
    BY DEF Submit
  <2> HIDE DEF now
  <2> QED
    BY <1>a, <1>3, <2>1, CreateReviewTypes, QuietTypes DEF TypeInv, TypeOK
<1>5. j \in Job /\ j.pr = job[w].pr /\ j.rev \in Revisions
  <2>1. pc \in ReviewSteps \cup OtherSteps
    BY DEF ReviewSteps, OtherSteps
  <2> HIDE DEF posting
  <2> QED
    BY <1>a, <1>3, <2>1 DEF Job
<1>6. job' = [job EXCEPT ![w] = j]
  BY <1>a, <1>2
<1> HIDE DEF j
<1> QED
  BY <1>1, <1>4, <1>5, <1>6 DEF Moved

LEMMA AnswerTypes ==
  ASSUME NEW w \in Workers, RunRoles(w)
  PROVE  \E decision \in [Roles -> Decisions], copies \in [Findings -> Nat] :
           \E accepted \in SUBSET Findings : Judge(w, decision, copies, accepted)
<1>1. PICK decision \in [Roles -> Decisions], copies \in [Findings -> 0..MaxCopies] :
        \E accepted \in SUBSET RaisedOf(copies) : Judge(w, decision, copies, accepted)
  BY DEF RunRoles
<1>2. copies \in [Findings -> Nat]
  BY ReviewAssumption DEF ReviewAssumption
<1>3. RaisedOf(copies) \subseteq Findings
  BY DEF RaisedOf
<1> QED
  BY <1>1, <1>2, <1>3

LEMMA RunRolesTypes ==
  ASSUME TypeInv, NEW w \in Workers, RunRoles(w)
  PROVE  Moved(w) /\ GitHubTypeOK'
<1>1. Active(w) /\ obstacle' = obstacle
  BY DEF Active, RunRoles
<1>a. /\ job \in [Workers -> Job] /\ job[w] \in Job
      /\ job[w].pr \in PullRequests /\ job[w].rev \in Revisions
  BY <1>1, ActiveJob
<1>2. PICK decision \in [Roles -> Decisions], copies \in [Findings -> Nat] :
        \E accepted \in SUBSET Findings : Judge(w, decision, copies, accepted)
  BY AnswerTypes
<1>b. PICK accepted \in SUBSET Findings : Judge(w, decision, copies, accepted)
  BY <1>2
<1> DEFINE raised == RaisedOf(copies)
           waived == WaiversRaised(raised, accepted)
           toResolve == ToResolve(job[w].prior, raised)
           toPost == ToPost(job[w].prior, copies)
           outcomes == [r \in Roles |-> [decision |-> decision[r], revision |-> job[w].rev]]
           conclusion == Aggregate(outcomes, raised, waived, job[w].rev)
           unheard == {r \in Roles : decision[r] = "missing"}
           pc == IF Finished(toResolve) THEN "submit" ELSE "resolve"
           j == [job[w] EXCEPT !.pc = pc, !.prior = NoThreads, !.unheard = unheard,
                               !.raised = raised, !.waived = waived,
                               !.conclusion = conclusion,
                               !.resolving = toResolve, !.posting = toPost]
<1>3. /\ raised \in SUBSET Findings /\ waived \in SUBSET Findings
      /\ toResolve \in [Findings -> SUBSET Nat] /\ toPost \in [Findings -> Nat]
      /\ unheard \in SUBSET Roles
  <2>1. job[w].prior \in [Findings -> Thread]
    BY <1>a DEF Job
  <2>2. raised \in SUBSET Findings /\ waived \in SUBSET Findings
    BY RulesAssumption DEF RulesAssumption, RaisedOf, WaiversRaised
  <2>3. toResolve \in [Findings -> SUBSET Nat]
    BY <2>1, OpenThreadTypes DEF ToResolve
  <2>4. toPost \in [Findings -> Nat]
    BY DEF ToPost
  <2> QED
    BY <2>2, <2>3, <2>4
<1>4. conclusion \in {"none", "success", "failure"}
  BY DEF Aggregate
<1>5. pc \in ReviewSteps \cup OtherSteps
  BY DEF ReviewSteps, OtherSteps
<1>6. job' = [job EXCEPT ![w] = j]
  BY <1>a, <1>b DEF Judge, Reconcile
<1>7. j \in Job /\ j.pr = job[w].pr /\ j.rev \in Revisions
  <2> HIDE DEF raised, waived, toResolve, toPost, conclusion, unheard, pc
  <2> QED
    BY <1>a, <1>3, <1>4, <1>5, RecordTypes DEF Job
<1>8. GitHubTypeOK'
  BY QuietTypes DEF RunRoles, TypeInv, TypeOK
<1> HIDE DEF j
<1> QED
  BY <1>1, <1>6, <1>7, <1>8 DEF Moved

LEMMA ReviewStepTypes ==
  ASSUME TypeInv, NEW w \in Workers, ReviewStep(w)
  PROVE  Moved(w) /\ GitHubTypeOK'
BY ReadSnapshotTypes, CheckPrerequisitesTypes, ReadHistoryTypes, ReadThreadsTypes, ReadDiffTypes,
   StopTypes, OpenGateTypes, RunRolesTypes, ResolveNextTypes, SubmitTypes, ReportGateTypes,
   NotifyWaiversTypes, WaitOpenTypes, WaitReportTypes, WaitNotifyTypes DEF ReviewStep

LEMMA MovedTypes ==
  ASSUME TypeInv, NEW w \in Workers, Moved(w)
  PROVE  ReviewTypeOK' /\ Placed'
<1>1. job \in [Workers -> Job] /\ job[w].pr \in PullRequests
  BY ActiveJob DEF Moved
<1>2. PICK j \in Job : /\ job' = [job EXCEPT ![w] = j]
                       /\ j = Idle \/ (j.pr = job[w].pr /\ j.rev \in Revisions)
  BY DEF Moved
<1>3. ReviewTypeOK'
  BY <1>1, <1>2 DEF Moved, ReviewTypeOK, TypeInv, TypeOK
<1>4. ASSUME NEW v \in Workers, Active(v)'
      PROVE  job'[v].pr \in PullRequests /\ job'[v].rev \in Revisions
  <2>1. CASE v = w
    BY <1>1, <1>2, <1>4, <2>1, IdleTypes DEF Active
  <2>2. CASE v # w
    BY <1>1, <1>2, <1>4, <2>2 DEF Active, TypeInv, Placed
  <2> QED
    BY <2>1, <2>2
<1> QED
  BY <1>3, <1>4 DEF Placed

---------------------------------------------------------------------------
(* The daemon: types *)

LEMMA InitTypeInv == Init => TypeInv
<1> SUFFICES ASSUME Init PROVE TypeInv
  OBVIOUS
<1>1. GitHubTypeOK
  <2>1. <<>> \in Seq(CheckRun)
    BY EmptySeq
  <2> QED
    BY <2>1, RecordTypes DEF Init, GitHubInit, GitHubTypeOK
<1>2. ReviewTypeOK /\ Placed
  BY IdleTypes DEF Init, ReviewInit, ReviewTypeOK, Placed, Active
<1>3. DaemonTypeOK
  BY DaemonAssumption DEF DaemonAssumption, Init, DaemonTypeOK, Phases
<1> QED
  BY <1>1, <1>2, <1>3 DEF TypeInv, TypeOK

(* What leaves the jobs alone keeps their types. *)
LEMMA SameJobs ==
  ASSUME TypeInv, job' = job, obstacle' \in [PullRequests -> Obstacles \cup {"none"}]
  PROVE  ReviewTypeOK' /\ Placed'
BY DEF TypeInv, TypeOK, ReviewTypeOK, Placed, Active

LEMMA FaultTypes ==
  ASSUME TypeInv, NEW kind \in FaultKinds, Fault(kind)
  PROVE  faults' \in [FaultKinds -> Nat]
<1>1. faults \in [FaultKinds -> Nat]
  BY DEF TypeInv, TypeOK, DaemonTypeOK
<1> QED
  BY <1>1 DEF Fault

LEMMA StopsNowTypes ==
  ASSUME TypeInv, StopsNow
  PROVE  GitHubTypeOK' /\ ReviewTypeOK' /\ Placed'
<1>1. GitHubTypeOK'
  BY QuietTypes DEF StopsNow, TypeInv, TypeOK
<1>2. ReviewTypeOK' /\ Placed'
  BY IdleTypes DEF StopsNow, TypeInv, TypeOK, ReviewTypeOK, Placed, Active
<1> QED
  BY <1>1, <1>2

LEMMA LoopTypes == TypeInv /\ Loop => TypeInv'
<1> SUFFICES ASSUME TypeInv, Loop PROVE TypeInv'
  OBVIOUS
<1> USE DEF TypeInv, TypeOK
<1>1. CASE ListOpen
  <2>1. todo' \subseteq Entries
    BY <1>1 DEF ListOpen, Entries, GitHubTypeOK
  <2>2. GitHubTypeOK'
    BY <1>1 DEF ListOpen, GitHubTypeOK
  <2>3. ReviewTypeOK' /\ Placed'
    BY <1>1, SameJobs DEF ListOpen, reviewVars, ReviewTypeOK
  <2> QED
    BY <1>1, <2>1, <2>2, <2>3 DEF ListOpen, DaemonTypeOK, Phases
<1>2. CASE Decide
  <2>1. PICK e \in todo :
          todo' = todo \ {e} /\ (queue' = queue \cup {e} \/ queue' = queue)
    BY <1>2 DEF Decide
  <2>2. GitHubTypeOK'
    BY <1>2, QuietTypes DEF Decide
  <2>3. ReviewTypeOK' /\ Placed'
    BY <1>2, SameJobs DEF Decide, reviewVars, ReviewTypeOK
  <2> QED
    BY <1>2, <2>1, <2>2, <2>3 DEF Decide, DaemonTypeOK
<1>3. CASE Enqueue
  <2>1. GitHubTypeOK'
    BY <1>3, QuietTypes DEF Enqueue
  <2>2. ReviewTypeOK' /\ Placed'
    BY <1>3, SameJobs DEF Enqueue, reviewVars, ReviewTypeOK
  <2> QED
    BY <1>3, <2>1, <2>2 DEF Enqueue, DaemonTypeOK, Phases
<1>4. CASE EndTick
  <2>1. GitHubTypeOK'
    BY <1>4, QuietTypes DEF EndTick
  <2>2. ReviewTypeOK' /\ Placed'
    BY <1>4, SameJobs DEF EndTick, reviewVars, ReviewTypeOK
  <2> QED
    BY <1>4, <2>1, <2>2 DEF EndTick, DaemonTypeOK, Phases
<1>5. CASE Exit
  BY <1>5, StopsNowTypes DEF Exit, StopsNow, DaemonTypeOK, Phases
<1>6. CASE Restart
  <2>1. GitHubTypeOK'
    BY <1>6 DEF Restart, GitHubTypeOK
  <2>2. ReviewTypeOK' /\ Placed'
    BY <1>6, SameJobs DEF Restart, reviewVars, ReviewTypeOK
  <2> QED
    BY <1>6, <2>1, <2>2 DEF Restart, DaemonTypeOK, Phases
<1> QED
  BY <1>1, <1>2, <1>3, <1>4, <1>5, <1>6 DEF Loop

(* A job started on an entry is about that entry's pull request. *)
(* What a judgement leaves of the review it is about. *)
JobFields == {"pc", "pr", "rev", "base", "prior", "examined", "run", "unheard", "raised", "waived",
              "conclusion", "resolving", "posting", "next"}

LEMMA JudgeMakes ==
  ASSUME NEW w \in Workers, job \in [Workers -> Job], NEW decision, NEW copies, NEW accepted,
         Judge(w, decision, copies, accepted)
  PROVE  LET j == job'[w]
             raised == RaisedOf(copies)
             waived == WaiversRaised(raised, accepted)
             outcomes == [r \in Roles |-> [decision |-> decision[r], revision |-> job[w].rev]]
         IN  /\ j.pc \in {"submit", "resolve"}
             /\ j.pc = "submit" => Finished(j.resolving)
             /\ j.pr = job[w].pr /\ j.rev = job[w].rev
             /\ j.base = job[w].base /\ j.run = job[w].run
             /\ j.unheard = {r \in Roles : decision[r] = "missing"} /\ j.raised = raised
             /\ j.conclusion = Aggregate(outcomes, raised, waived, job[w].rev)
             /\ j.resolving = ToResolve(job[w].prior, raised)
             /\ j.posting = ToPost(job[w].prior, copies)
<1> DEFINE j == job'[w]
           raised == RaisedOf(copies)
           waived == WaiversRaised(raised, accepted)
           plan == Reconcile(job[w].prior, copies, raised, waived)
           outcomes == [r \in Roles |-> [decision |-> decision[r], revision |-> job[w].rev]]
           pc == IF Finished(plan.toResolve) THEN "submit" ELSE "resolve"
           unheard == {r \in Roles : decision[r] = "missing"}
           conclusion == Aggregate(outcomes, raised, waived, job[w].rev)
           given == [job[w] EXCEPT !.pc = pc, !.prior = NoThreads, !.unheard = unheard,
                       !.raised = raised, !.waived = waived, !.conclusion = conclusion,
                       !.resolving = plan.toResolve, !.posting = plan.toPost]
<1>1. DOMAIN job[w] = JobFields
  BY DEF Job, JobFields
<1>2. plan.toResolve = ToResolve(job[w].prior, raised) /\ plan.toPost = ToPost(job[w].prior, copies)
  BY DEF Reconcile
<1>3. j = given
  BY DEF Judge
<1>4. pc \in {"submit", "resolve"} /\ (pc = "submit" => Finished(plan.toResolve))
  OBVIOUS
<1> HIDE DEF pc, plan, unheard, raised, waived, conclusion
<1>5. /\ given.pc = pc /\ given.pr = job[w].pr /\ given.rev = job[w].rev
      /\ given.base = job[w].base /\ given.run = job[w].run
  BY <1>1 DEF JobFields
<1>6. /\ given.unheard = unheard /\ given.raised = raised /\ given.conclusion = conclusion
      /\ given.resolving = plan.toResolve /\ given.posting = plan.toPost
  BY <1>1 DEF JobFields
<1> HIDE DEF given, j
<1> QED
  BY <1>2, <1>3, <1>4, <1>5, <1>6 DEF unheard, conclusion, raised, waived, j

LEMMA StartMakesJob ==
  ASSUME TypeInv, NEW w \in Workers, NEW e \in queue, Start(w, e)
  PROVE  \E j \in Job : /\ job' = [job EXCEPT ![w] = j]
                        /\ j.pr = e[1] /\ j.rev = e[2]
<1> DEFINE pc == IF e \in overdue THEN "wait_open" ELSE "snapshot"
<1>1. pc \in ReviewSteps \cup OtherSteps \cup {"idle", "dead"}
  BY DEF ReviewSteps, OtherSteps
<1>2. e[1] \in PullRequests /\ e[2] \in Revisions
  BY DEF TypeInv, TypeOK, DaemonTypeOK, Entries
<1>3. job' = [job EXCEPT ![w] = NewJob(pc, e[1], e[2])]
  BY DEF Start
<1> DEFINE j == NewJob(pc, e[1], e[2])
<1>4. j \in Job /\ j.pr = e[1] /\ j.rev = e[2]
  <2> HIDE DEF pc
  <2> QED
    BY <1>1, <1>2, NewJobTypes
<1>5. job' = [job EXCEPT ![w] = j]
  BY <1>3
<1> HIDE DEF j
<1> QED
  BY <1>4, <1>5

LEMMA WorkTypes ==
  ASSUME TypeInv, NEW w \in Workers, Work(w)
  PROVE  TypeInv'
<1> USE DEF TypeInv, TypeOK
<1>1. ASSUME NEW e \in queue, NoSlot(w, e) PROVE TypeInv'
  <2>1. GitHubTypeOK'
    BY <1>1, QuietTypes DEF NoSlot
  <2>2. ReviewTypeOK' /\ Placed'
    BY <1>1, SameJobs DEF NoSlot, reviewVars, ReviewTypeOK
  <2> QED
    BY <1>1, <2>1, <2>2 DEF NoSlot, Take, DaemonTypeOK
<1>2. ASSUME NEW e \in queue, Start(w, e) PROVE TypeInv'
  <2>1. GitHubTypeOK'
    BY <1>2, QuietTypes DEF Start
  <2>2. PICK j \in Job : job' = [job EXCEPT ![w] = j] /\ j.pr = e[1] /\ j.rev = e[2]
    BY <1>2, StartMakesJob
  <2>3. e[1] \in PullRequests /\ e[2] \in Revisions
    BY DEF DaemonTypeOK, Entries
  <2>4. ReviewTypeOK' /\ Placed'
    BY <1>2, <2>2, <2>3 DEF Start, ReviewTypeOK, Placed, Active
  <2> QED
    BY <1>2, <2>1, <2>4 DEF Start, Take, DaemonTypeOK
<1>3. ASSUME ReviewStep(w), UNCHANGED daemonVars PROVE TypeInv'
  BY <1>3, ReviewStepTypes, MovedTypes DEF daemonVars, DaemonTypeOK
<1> QED
  BY <1>1, <1>2, <1>3 DEF Work

LEMMA FaultStepTypes ==
  ASSUME TypeInv, (\E w \in Workers : ReviewThrows(w)) \/ TickThrows \/ Crash
  PROVE  TypeInv'
<1> USE DEF TypeInv, TypeOK
<1>1. ASSUME NEW w \in Workers, ReviewThrows(w) PROVE TypeInv'
  <2>1. GitHubTypeOK' /\ faults' \in [FaultKinds -> Nat]
    BY <1>1, QuietTypes, FaultTypes DEF ReviewThrows, FaultKinds
  <2>2. ReviewTypeOK' /\ Placed'
    BY <1>1, IdleTypes DEF ReviewThrows, ReviewTypeOK, Placed, Active
  <2> QED
    BY <1>1, <2>1, <2>2 DEF ReviewThrows, DaemonTypeOK, Phases
<1>2. CASE TickThrows
  <2>1. GitHubTypeOK' /\ faults' \in [FaultKinds -> Nat]
    BY <1>2, QuietTypes, FaultTypes DEF TickThrows, FaultKinds
  <2>2. ReviewTypeOK' /\ Placed'
    BY <1>2, SameJobs DEF TickThrows, reviewVars, ReviewTypeOK
  <2> QED
    BY <1>2, <2>1, <2>2 DEF TickThrows, DaemonTypeOK, Phases
<1>3. CASE Crash
  <2>1. faults' \in [FaultKinds -> Nat]
    BY <1>3, FaultTypes DEF Crash, FaultKinds
  <2> QED
    BY <1>3, <2>1, StopsNowTypes DEF Crash, StopsNow, DaemonTypeOK, Phases
<1> QED
  BY <1>1, <1>2, <1>3

LEMMA WorldTypes == TypeInv /\ World => TypeInv'
<1> SUFFICES ASSUME TypeInv, World PROVE TypeInv'
  OBVIOUS
<1> USE DEF TypeInv, TypeOK
<1>1. CASE People /\ UNCHANGED <<reviewVars, daemonVars>>
  <2>1. ReviewTypeOK' /\ Placed'
    BY <1>1, SameJobs DEF reviewVars, ReviewTypeOK
  <2> QED
    BY <1>1, <2>1, PeopleTypes DEF daemonVars, DaemonTypeOK
<1>2. CASE WaitGrows
  <2>1. ReviewTypeOK' /\ Placed'
    BY <1>2, SameJobs DEF WaitGrows, reviewVars, ReviewTypeOK
  <2>2. overdue' \subseteq Entries
    BY <1>2 DEF WaitGrows, DaemonTypeOK
  <2> QED
    BY <1>2, <2>1, <2>2, QuietTypes DEF WaitGrows, DaemonTypeOK
<1>3. CASE Obstruct
  <2>1. faults' \in [FaultKinds -> Nat]
    BY <1>3, FaultTypes DEF Obstruct, FaultKinds
  <2>2. ReviewTypeOK' /\ Placed'
    BY <1>3, SameJobs DEF Obstruct, ReviewTypeOK
  <2> QED
    BY <1>3, <2>1, <2>2, QuietTypes DEF Obstruct, DaemonTypeOK
<1>4. CASE Clear
  <2>1. ReviewTypeOK' /\ Placed'
    BY <1>4, SameJobs DEF Clear, ReviewTypeOK
  <2> QED
    BY <1>4, <2>1, QuietTypes DEF Clear, daemonVars, DaemonTypeOK
<1> QED
  BY <1>1, <1>2, <1>3, <1>4 DEF World

LEMMA StutterTypes == TypeInv /\ UNCHANGED vars => TypeInv'
BY DEF TypeInv, TypeOK, GitHubTypeOK, ReviewTypeOK, DaemonTypeOK, Placed, Active,
       vars, githubVars, reviewVars, daemonVars

LEMMA TypeInvariant == Spec => []TypeInv
<1>1. TypeInv /\ [Next]_vars => TypeInv'
  BY LoopTypes, WorkTypes, FaultStepTypes, WorldTypes, StutterTypes DEF Next
<1> QED
  BY <1>1, InitTypeInv, PTL DEF Spec

(* The whole state of daemon, reviews and platform stays well typed: in    *)
(* particular a job that is under way always has a pull request and a      *)
(* revision, and every record it leaves is one the next round can read     *)
(* (daemon.ts, composition.ts).                                            *)
THEOREM TypesAreKept == Spec => []TypeOK
<1>1. TypeInv => TypeOK
  BY DEF TypeInv
<1> QED
  BY <1>1, TypeInvariant, PTL

---------------------------------------------------------------------------
(* One review per pull request.  OneReviewPerPullRequest is not inductive: *)
(* what keeps a second review of a pull request from starting is that the  *)
(* tick lists it once, that it is in todo or in queue but not in both, and *)
(* that nothing is listed while a review is still running.                 *)

AtMostOnePerPr(es) == \A d, e \in es : d[1] = e[1] => d = e

UniqueInv ==
  /\ OneReviewPerPullRequest
  /\ \A w \in Workers, e \in queue : Active(w) => job[w].pr # e[1]
  /\ AtMostOnePerPr(todo \cup queue)
  /\ phase \in {"sleeping", "deciding", "down"} => \A w \in Workers : ~ Active(w)
  /\ phase \in {"sleeping", "down"} => queue = {}

LEMMA InitUnique == Init => UniqueInv
BY IdleTypes DEF Init, ReviewInit, UniqueInv, OneReviewPerPullRequest, AtMostOnePerPr, Active

(* A review that moves on, or is over, disturbs nobody else's. *)
LEMMA MovedUnique ==
  ASSUME TypeInv, UniqueInv, NEW w \in Workers, Moved(w), UNCHANGED daemonVars
  PROVE  UniqueInv'
<1>1. job \in [Workers -> Job]
  BY DEF TypeInv, TypeOK, ReviewTypeOK
<1>2. PICK j \in Job : /\ job' = [job EXCEPT ![w] = j]
                       /\ j = Idle \/ (j.pr = job[w].pr /\ j.rev \in Revisions)
  BY DEF Moved
<1>3. \A v \in Workers : Active(v)' => Active(v) /\ job'[v].pr = job[v].pr
  BY <1>1, <1>2, IdleTypes DEF Moved, Active
<1> QED
  BY <1>3 DEF UniqueInv, OneReviewPerPullRequest, AtMostOnePerPr, daemonVars

(* Nor does a step that starts no review and adds no entry. *)
LEMMA FewerUnique ==
  ASSUME UniqueInv,
         \A v \in Workers : Active(v)' => Active(v) /\ job'[v].pr = job[v].pr,
         queue' \subseteq queue, todo' \cup queue' \subseteq todo \cup queue,
         phase' \in {"sleeping", "deciding", "down"} => \A v \in Workers : ~ Active(v)',
         phase' \in {"sleeping", "down"} => queue' = {}
  PROVE  UniqueInv'
BY DEF UniqueInv, OneReviewPerPullRequest, AtMostOnePerPr

LEMMA LoopUnique == TypeInv /\ UniqueInv /\ Loop => UniqueInv'
<1> SUFFICES ASSUME TypeInv, UniqueInv, Loop PROVE UniqueInv'
  OBVIOUS
<1>1. CASE ListOpen
  <2>1. queue = {} /\ \A w \in Workers : ~ Active(w)
    BY <1>1 DEF ListOpen, UniqueInv
  <2>2. AtMostOnePerPr(todo')
    BY <1>1 DEF ListOpen, AtMostOnePerPr
  <2>3. \A w \in Workers : ~ Active(w)'
    BY <1>1, <2>1 DEF ListOpen, reviewVars, Active
  <2> QED
    BY <1>1, <2>1, <2>2, <2>3
    DEF ListOpen, UniqueInv, OneReviewPerPullRequest, AtMostOnePerPr
<1>2. CASE Decide
  <2>1. PICK e \in todo :
          todo' = todo \ {e} /\ (queue' = queue \cup {e} \/ queue' = queue)
    BY <1>2 DEF Decide
  <2>2. todo' \cup queue' \subseteq todo \cup queue
    BY <2>1
  <2>3. \A w \in Workers : ~ Active(w)'
    BY <1>2 DEF Decide, reviewVars, Active, UniqueInv
  <2> QED
    BY <1>2, <2>2, <2>3 DEF Decide, UniqueInv, OneReviewPerPullRequest, AtMostOnePerPr
<1>3. CASE Enqueue
  <2>1. \A v \in Workers : Active(v)' => Active(v) /\ job'[v].pr = job[v].pr
    BY <1>3 DEF Enqueue, reviewVars, Active
  <2> QED
    BY <1>3, <2>1, FewerUnique DEF Enqueue
<1>4. CASE EndTick
  <2>1. \A v \in Workers : ~ Active(v)'
    BY <1>4 DEF EndTick, reviewVars, Active
  <2> QED
    BY <1>4, <2>1, FewerUnique DEF EndTick
<1>5. CASE Exit
  <2>1. \A v \in Workers : ~ Active(v)'
    BY <1>5, IdleTypes DEF Exit, StopsNow, Active
  <2> QED
    BY <1>5, <2>1, FewerUnique DEF Exit, StopsNow
<1>6. CASE Restart
  <2>1. \A v \in Workers : ~ Active(v)'
    BY <1>6 DEF Restart, reviewVars, Active, UniqueInv
  <2>2. queue' = {}
    BY <1>6 DEF Restart, UniqueInv
  <2> QED
    BY <1>6, <2>1, <2>2, FewerUnique DEF Restart
<1> QED
  BY <1>1, <1>2, <1>3, <1>4, <1>5, <1>6 DEF Loop

LEMMA StartUnique ==
  ASSUME TypeInv, UniqueInv, NEW w \in Workers, NEW e \in queue, Start(w, e)
  PROVE  UniqueInv'
<1>1. job \in [Workers -> Job]
  BY DEF TypeInv, TypeOK, ReviewTypeOK
<1>2. PICK j \in Job : job' = [job EXCEPT ![w] = j] /\ j.pr = e[1] /\ j.rev = e[2]
  BY StartMakesJob
<1>3. /\ queue' = queue \ {e} /\ todo' = todo /\ phase' = phase
      /\ phase \in {"draining", "failing"}
  BY DEF Start, Take
<1>4. \A d \in queue : d[1] = e[1] => d = e
  BY DEF UniqueInv, AtMostOnePerPr
<1>5. \A v \in Workers : Active(v)' =>
        \/ v = w /\ job'[v].pr = e[1]
        \/ v # w /\ Active(v) /\ job'[v].pr = job[v].pr
  BY <1>1, <1>2 DEF Active
<1>6. \A v \in Workers : Active(v) => job[v].pr # e[1]
  BY DEF UniqueInv
<1>7. OneReviewPerPullRequest'
  BY <1>5, <1>6 DEF UniqueInv, OneReviewPerPullRequest
<1>8. \A v \in Workers, d \in queue' : Active(v)' => job'[v].pr # d[1]
  BY <1>3, <1>4, <1>5 DEF UniqueInv
<1> QED
  BY <1>3, <1>7, <1>8 DEF UniqueInv, AtMostOnePerPr

LEMMA WorkUnique ==
  ASSUME TypeInv, UniqueInv, NEW w \in Workers, Work(w)
  PROVE  UniqueInv'
<1>1. ASSUME NEW e \in queue, NoSlot(w, e) PROVE UniqueInv'
  <2>1. \A v \in Workers : Active(v)' => Active(v) /\ job'[v].pr = job[v].pr
    BY <1>1 DEF NoSlot, reviewVars, Active
  <2>2. phase \in {"draining", "failing"} /\ phase' = phase
    BY <1>1 DEF NoSlot, Take
  <2> QED
    BY <1>1, <2>1, <2>2, FewerUnique DEF NoSlot, Take
<1>2. ASSUME NEW e \in queue, Start(w, e) PROVE UniqueInv'
  BY <1>2, StartUnique
<1>3. ASSUME ReviewStep(w), UNCHANGED daemonVars PROVE UniqueInv'
  BY <1>3, ReviewStepTypes, MovedUnique
<1> QED
  BY <1>1, <1>2, <1>3 DEF Work

LEMMA FaultUnique ==
  ASSUME TypeInv, UniqueInv, (\E w \in Workers : ReviewThrows(w)) \/ TickThrows \/ Crash
  PROVE  UniqueInv'
<1>1. ASSUME NEW w \in Workers, ReviewThrows(w) PROVE UniqueInv'
  <2>1. job \in [Workers -> Job]
    BY DEF TypeInv, TypeOK, ReviewTypeOK
  <2>2. \A v \in Workers : Active(v)' => Active(v) /\ job'[v].pr = job[v].pr
    BY <1>1, <2>1, IdleTypes DEF ReviewThrows, Active
  <2> QED
    BY <1>1, <2>2, FewerUnique DEF ReviewThrows
<1>2. CASE TickThrows
  <2>1. \A v \in Workers : Active(v)' => Active(v) /\ job'[v].pr = job[v].pr
    BY <1>2 DEF TickThrows, reviewVars, Active
  <2> QED
    BY <1>2, <2>1, FewerUnique DEF TickThrows
<1>3. CASE Crash
  <2>1. \A v \in Workers : ~ Active(v)'
    BY <1>3, IdleTypes DEF Crash, StopsNow, Active
  <2> QED
    BY <1>3, <2>1, FewerUnique DEF Crash, StopsNow
<1> QED
  BY <1>1, <1>2, <1>3

LEMMA WorldUnique ==
  ASSUME UniqueInv, World
  PROVE  UniqueInv'
<1>1. job' = job /\ queue' = queue /\ todo' = todo /\ phase' = phase
  BY DEF World, WaitGrows, Obstruct, Clear, reviewVars, daemonVars
<1> QED
  BY <1>1 DEF UniqueInv, OneReviewPerPullRequest, AtMostOnePerPr, Active

LEMMA StutterUnique == UniqueInv /\ UNCHANGED vars => UniqueInv'
BY DEF UniqueInv, OneReviewPerPullRequest, AtMostOnePerPr, Active, vars, reviewVars, daemonVars

(* No two workers ever review the same pull request, for any number of     *)
(* workers, whatever crashes, fails or restarts (daemon.ts, runDaemon).    *)
THEOREM ReviewsAreUnique == Spec => []OneReviewPerPullRequest
<1>1. TypeInv /\ UniqueInv /\ [Next]_vars => UniqueInv'
  BY LoopUnique, WorkUnique, FaultUnique, WorldUnique, StutterUnique DEF Next
<1>2. UniqueInv => OneReviewPerPullRequest
  BY DEF UniqueInv
<1> QED
  BY <1>1, <1>2, InitUnique, TypeInvariant, PTL DEF Spec
=============================================================================
