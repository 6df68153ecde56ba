----------------------------- MODULE Gate_proofs -----------------------------
(***************************************************************************)
(* The check runs of the gate: what a review knows of the runs on its      *)
(* revision at each of its steps, and from it that the daemon implements   *)
(* the merge gate, that concluded runs are final, and that rounds are      *)
(* counted, capped and earned by a reply.                                  *)
(***************************************************************************)
EXTENDS ReviewThreads_proofs

(* A run is either as it was opened or has a verdict; a pass left nothing  *)
(* open and carries a record, which is what the next review stalls on.     *)
SoundRun(run) ==
  \/ run = InProgress
  \/ /\ run.status = "completed" /\ run.conclusion \in {"success", "failure"}
     /\ run.conclusion = "success" => run.record.open = {} /\ run.record # NoRecord

SoundRuns(rs) == \A i \in 1..Len(rs) : SoundRun(rs[i])

RecordBefore(rs, i) == IF i <= 1 THEN NoRecord ELSE rs[i - 1].record

(* A round counts on from the one before it, and a reply earned it. *)
Follows(record, before) ==
  record # NoRecord =>
    /\ record.round = before.round + 1 /\ record.round <= MaxReviewRounds
    /\ before # NoRecord => \E f \in before.open : record.seen[f] > before.seen[f]

RoundsOf(rs) == \A i \in 1..Len(rs) : Follows(rs[i].record, RecordBefore(rs, i))

Reviewable(rs) ==
  rs # <<>> => rs[Len(rs)].status = "completed" /\ rs[Len(rs)].conclusion = "failure"
NotPassed(rs) == rs # <<>> => rs[Len(rs)].conclusion # "success"

BeforeTheGate == {"snapshot", "prerequisites", "history", "threads", "diff", "open",
                  "stop_failure", "stop_unreported", "wait_open"}
WithTheGate == {"roles", "resolve", "submit", "report", "wait_report"}
AfterTheGate == {"waivers", "wait_notify"}

(* What job j knows of the runs rs on its revision. *)
KnowsRuns(j, rs) ==
  /\ j.pc = "wait_open" => Reviewable(rs)
  /\ j.pc = "threads" => j.base = Baseline(rs)
  /\ j.pc \in {"diff", "open"} => NotPassed(rs)
  /\ j.pc \in BeforeTheGate => j.run = 0
  /\ j.pc \in WithTheGate => rs # <<>> /\ j.run = Len(rs) /\ rs[Len(rs)] = InProgress
  /\ j.pc \in AfterTheGate => j.run \in 1..Len(rs) /\ rs[j.run].status = "completed"
  /\ j.pc \in {"resolve", "submit", "report"} => j.conclusion # "none"

(* The record job j builds its round on. *)
Ground(j, rs) ==
  IF j.pc \in {"diff", "open"} THEN Baseline(rs) ELSE RecordBefore(rs, Len(rs))

KnowsRound(j, rs, replies) ==
  j.pc \in {"diff", "open", "roles", "resolve", "submit", "report"} =>
    /\ j.base.round = Ground(j, rs).round /\ j.base.round < MaxReviewRounds
    /\ Ground(j, rs) # NoRecord => RepliedSince(Ground(j, rs), replies)

JobHolds(w) ==
  Active(w) =>
    /\ KnowsRuns(job[w], runs[job[w].pr][job[w].rev])
    /\ KnowsRound(job[w], runs[job[w].pr][job[w].rev], RepliesOf(threads[job[w].pr]))

GateInv ==
  /\ \A pr \in PullRequests, rev \in Revisions :
       SoundRuns(runs[pr][rev]) /\ RoundsOf(runs[pr][rev])
  /\ \A e \in queue : Reviewable(runs[e[1]][e[2]])
  /\ \A w \in Workers : JobHolds(w)

---------------------------------------------------------------------------
(* Sequences of runs *)

LEMMA SameRuns ==
  ASSUME NEW rs \in Seq(CheckRun)
  PROVE  /\ Len(rs) \in Nat /\ \A i \in 1..Len(rs) : rs[i] \in CheckRun
         /\ rs # <<>> <=> Len(rs) # 0
BY EmptySeq, LenProperties, ElementOfSeq

LEMMA InProgressIs ==
  /\ InProgress \in CheckRun /\ InProgress.status = "in_progress"
  /\ InProgress.conclusion = "none" /\ InProgress.record = NoRecord
  /\ NoRecord.round = 0 /\ NoRecord.open = {}
BY RecordTypes DEF InProgress, NoRecord

(* A run opened after those there are. *)
LEMMA AppendRun ==
  ASSUME NEW rs \in Seq(CheckRun), SoundRuns(rs), RoundsOf(rs),
         NEW ts, ts = Append(rs, InProgress)
  PROVE  /\ ts \in Seq(CheckRun) /\ Len(ts) = Len(rs) + 1 /\ ts # <<>>
         /\ ts[Len(ts)] = InProgress
         /\ \A i \in 1..Len(rs) : ts[i] = rs[i]
         /\ SoundRuns(ts) /\ RoundsOf(ts)
         /\ RecordBefore(ts, Len(ts)) = Baseline(rs)
<1>1. /\ ts \in Seq(CheckRun) /\ Len(ts) = Len(rs) + 1
      /\ \A i \in 1..Len(rs) : ts[i] = rs[i]
      /\ ts[Len(ts)] = InProgress
  BY InProgressIs, AppendProperties
<1>2. Len(rs) \in Nat /\ (rs # <<>> <=> Len(rs) # 0) /\ ts # <<>>
  BY <1>1, SameRuns
<1>3. SoundRuns(ts)
  BY <1>1, <1>2 DEF SoundRuns, SoundRun
<1>4. RoundsOf(ts)
  <2> SUFFICES ASSUME NEW i \in 1..Len(ts), ts[i].record # NoRecord
               PROVE  Follows(ts[i].record, RecordBefore(ts, i))
    BY DEF RoundsOf, Follows
  <2>1. i \in 1..Len(rs)
    BY <1>1, <1>2, InProgressIs
  <2>2. ts[i] = rs[i] /\ RecordBefore(ts, i) = RecordBefore(rs, i)
    BY <1>1, <1>2, <2>1 DEF RecordBefore
  <2> QED
    BY <2>1, <2>2 DEF RoundsOf
<1>5. RecordBefore(ts, Len(ts)) = Baseline(rs)
  BY <1>1, <1>2 DEF RecordBefore, Baseline
<1> QED
  BY <1>1, <1>2, <1>3, <1>4, <1>5

(* The last run, still in progress, is concluded. *)
LEMMA ConcludeRun ==
  ASSUME NEW rs \in Seq(CheckRun), SoundRuns(rs), RoundsOf(rs), rs # <<>>,
         NEW run \in CheckRun, SoundRun(run),
         Follows(run.record, RecordBefore(rs, Len(rs))),
         NEW ts \in Seq(CheckRun), ts = [rs EXCEPT ![Len(rs)] = run]
  PROVE  /\ Len(ts) = Len(rs) /\ ts # <<>> /\ ts[Len(ts)] = run
         /\ \A i \in 1..(Len(rs) - 1) : ts[i] = rs[i]
         /\ SoundRuns(ts) /\ RoundsOf(ts)
<1>1. Len(rs) \in Nat /\ Len(rs) # 0 /\ Len(rs) \in 1..Len(rs)
  BY SameRuns
<1>2. /\ Len(ts) = Len(rs)
      /\ \A i \in 1..Len(rs) : ts[i] = IF i = Len(rs) THEN run ELSE rs[i]
  BY <1>1, ExceptSeq
<1>3. ts # <<>> /\ ts[Len(ts)] = run
  BY <1>1, <1>2
<1>4. \A i \in 1..(Len(rs) - 1) : ts[i] = rs[i]
  <2> SUFFICES ASSUME NEW i \in 1..(Len(rs) - 1) PROVE ts[i] = rs[i]
    OBVIOUS
  <2>1. i \in 1..Len(rs) /\ i # Len(rs)
    BY <1>1
  <2> QED
    BY <1>2, <2>1
<1>5. SoundRuns(ts)
  BY <1>1, <1>2 DEF SoundRuns
<1>6. \A i \in 1..Len(rs) : RecordBefore(ts, i) = RecordBefore(rs, i)
  <2> SUFFICES ASSUME NEW i \in 1..Len(rs), i > 1 PROVE ts[i - 1] = rs[i - 1]
    BY DEF RecordBefore
  <2>1. i - 1 \in 1..(Len(rs) - 1)
    BY <1>1
  <2> QED
    BY <1>4, <2>1
<1>7. RoundsOf(ts)
  <2> SUFFICES ASSUME NEW i \in 1..Len(rs) PROVE Follows(ts[i].record, RecordBefore(rs, i))
    BY <1>2, <1>6 DEF RoundsOf
  <2>1. CASE i = Len(rs)
    BY <1>2, <2>1
  <2>2. CASE i # Len(rs)
    BY <1>2, <2>2 DEF RoundsOf
  <2> QED
    BY <2>1, <2>2
<1> QED
  BY <1>1, <1>2, <1>3, <1>4, <1>5, <1>7

---------------------------------------------------------------------------
(* One step of a review touches the runs of its own revision alone.        *)

OwnRuns(w) == runs[job[w].pr][job[w].rev]

LocalStep(w) ==
  /\ Active(w) /\ queue' = queue
  /\ \A v \in Workers \ {w} : job'[v] = job[v]
  /\ \A pr \in PullRequests, rev \in Revisions :
       pr # job[w].pr \/ rev # job[w].rev => runs'[pr][rev] = runs[pr][rev]
  /\ LET rs == runs'[job[w].pr][job[w].rev] IN SoundRuns(rs) /\ RoundsOf(rs)
  /\ \A pr \in PullRequests, f \in Findings : threads'[pr][f].replies >= threads[pr][f].replies
  /\ JobHolds(w)'

(* More replies never undo a reason for another round. *)
LEMMA RepliesStay ==
  ASSUME NEW record \in RoundRecord, NEW pr \in PullRequests,
         threads[pr] \in [Findings -> Thread], threads'[pr] \in [Findings -> Thread],
         \A f \in Findings : threads'[pr][f].replies >= threads[pr][f].replies,
         RepliedSince(record, RepliesOf(threads[pr]))
  PROVE  RepliedSince(record, RepliesOf(threads'[pr]))
<1>1. PICK f \in record.open : RepliesOf(threads[pr])[f] > record.seen[f]
  BY DEF RepliedSince
<1>2. f \in Findings /\ record.seen[f] \in Nat
  BY <1>1 DEF RoundRecord
<1>3. threads[pr][f].replies \in Nat /\ threads'[pr][f].replies \in Nat
  BY <1>2 DEF Thread
<1>4. /\ RepliesOf(threads[pr])[f] = threads[pr][f].replies
      /\ RepliesOf(threads'[pr])[f] = threads'[pr][f].replies
  BY <1>2 DEF RepliesOf
<1>5. threads'[pr][f].replies >= threads[pr][f].replies
  BY <1>2
<1>6. RepliesOf(threads'[pr])[f] > record.seen[f]
  BY <1>1, <1>2, <1>3, <1>4, <1>5
<1> QED
  BY <1>1, <1>6 DEF RepliedSince

LEMMA GroundTypes ==
  ASSUME NEW rs \in Seq(CheckRun), NEW j
  PROVE  Ground(j, rs) \in RoundRecord
<1>1. \A i \in 1..Len(rs) : rs[i].record \in RoundRecord
  <2>1. \A run \in CheckRun : run.record \in RoundRecord
    BY DEF CheckRun
  <2> QED
    BY <2>1, SameRuns
<1>2. Len(rs) \in Nat /\ (rs # <<>> <=> Len(rs) # 0)
  BY SameRuns
<1>3. CASE j.pc \in {"diff", "open"}
  BY <1>3, BaselineTypes DEF Ground
<1>4. CASE j.pc \notin {"diff", "open"} /\ Len(rs) <= 1
  BY <1>4, RecordTypes DEF Ground, RecordBefore
<1>5. CASE j.pc \notin {"diff", "open"} /\ Len(rs) > 1
  <2>1. Len(rs) - 1 \in 1..Len(rs)
    BY <1>2, <1>5
  <2> QED
    BY <1>1, <1>5, <2>1 DEF Ground, RecordBefore
<1> QED
  BY <1>3, <1>4, <1>5

(* What a job knows stays true while nobody else works on its pull request. *)
LEMMA StaysHeld ==
  ASSUME TypeInv, TypeInv', NEW v \in Workers, JobHolds(v), job'[v] = job[v],
         Active(v) => runs'[job[v].pr][job[v].rev] = OwnRuns(v),
         \A pr \in PullRequests, f \in Findings :
           threads'[pr][f].replies >= threads[pr][f].replies
  PROVE  JobHolds(v)'
<1> SUFFICES ASSUME Active(v) PROVE JobHolds(v)'
  BY DEF JobHolds, Active
<1>1. /\ job[v].pr \in PullRequests /\ OwnRuns(v) \in Seq(CheckRun)
      /\ threads[job[v].pr] \in [Findings -> Thread]
      /\ threads'[job[v].pr] \in [Findings -> Thread]
  BY ActiveJob DEF OwnRuns, TypeInv, TypeOK, GitHubTypeOK
<1> DEFINE ground == Ground(job[v], OwnRuns(v))
<1>2. RepliedSince(ground, RepliesOf(threads[job[v].pr])) =>
        RepliedSince(ground, RepliesOf(threads'[job[v].pr]))
  <2>1. ground \in RoundRecord
    BY <1>1, GroundTypes
  <2> HIDE DEF ground
  <2> QED
    BY <1>1, <2>1, RepliesStay
<1>3. KnowsRuns(job[v], OwnRuns(v))
      /\ KnowsRound(job[v], OwnRuns(v), RepliesOf(threads[job[v].pr]))
  BY DEF JobHolds, OwnRuns
<1>4. KnowsRound(job[v], OwnRuns(v), RepliesOf(threads'[job[v].pr]))
  BY <1>2, <1>3 DEF KnowsRound
<1> QED
  BY <1>3, <1>4 DEF JobHolds

LEMMA LocalKeeps ==
  ASSUME TypeInv, TypeInv', UniqueInv, GateInv, NEW w \in Workers, LocalStep(w)
  PROVE  GateInv'
<1>1. job[w].pr \in PullRequests /\ job[w].rev \in Revisions
  BY ActiveJob DEF LocalStep
<1>2. ASSUME NEW pr \in PullRequests, NEW rev \in Revisions
      PROVE  SoundRuns(runs'[pr][rev]) /\ RoundsOf(runs'[pr][rev])
  <2>1. CASE pr = job[w].pr /\ rev = job[w].rev
    BY <2>1 DEF LocalStep
  <2>2. CASE pr # job[w].pr \/ rev # job[w].rev
    BY <2>2 DEF LocalStep, GateInv
  <2> QED
    BY <2>1, <2>2
<1>3. ASSUME NEW e \in queue PROVE Reviewable(runs'[e[1]][e[2]])
  <2>1. e[1] \in PullRequests /\ e[2] \in Revisions /\ job[w].pr # e[1]
    BY DEF LocalStep, UniqueInv, TypeInv, TypeOK, DaemonTypeOK, Entries
  <2> QED
    BY <2>1 DEF LocalStep, GateInv
<1>4. ASSUME NEW v \in Workers PROVE JobHolds(v)'
  <2>1. CASE v = w
    BY <2>1 DEF LocalStep
  <2>2. CASE v # w
    <3>1. job'[v] = job[v] /\ JobHolds(v)
      BY <2>2 DEF LocalStep, GateInv
    <3>2. ASSUME Active(v) PROVE runs'[job[v].pr][job[v].rev] = OwnRuns(v)
      <4>1. job[v].pr \in PullRequests /\ job[v].rev \in Revisions /\ job[v].pr # job[w].pr
        BY <2>2, <3>2, ActiveJob DEF LocalStep, UniqueInv, OneReviewPerPullRequest
      <4> QED
        BY <4>1 DEF LocalStep, OwnRuns
    <3> QED
      BY <3>1, <3>2, StaysHeld DEF LocalStep
  <2> QED
    BY <2>1, <2>2
<1> QED
  BY <1>2, <1>3, <1>4 DEF GateInv, LocalStep

(* A step that writes no run and no reply. *)
LEMMA SilentStep ==
  ASSUME TypeInv, GateInv, NEW w \in Workers, Active(w), queue' = queue, runs' = runs,
         \A v \in Workers \ {w} : job'[v] = job[v],
         \A pr \in PullRequests, f \in Findings :
           threads'[pr][f].replies = threads[pr][f].replies,
         JobHolds(w)'
  PROVE  LocalStep(w)
<1>1. job[w].pr \in PullRequests /\ job[w].rev \in Revisions
  BY ActiveJob
<1>2. \A pr \in PullRequests, f \in Findings :
        threads'[pr][f].replies >= threads[pr][f].replies
  <2>1. \A pr \in PullRequests, f \in Findings : threads[pr][f].replies \in Nat
    BY DEF TypeInv, TypeOK, GitHubTypeOK, Thread
  <2> QED
    BY <2>1
<1> QED
  BY <1>1, <1>2 DEF LocalStep, GateInv

---------------------------------------------------------------------------
(* The steps of a review *)

LEMMA EarlyStepsLocal ==
  ASSUME TypeInv, GateInv, NEW w \in Workers, UNCHANGED daemonVars,
         ReadSnapshot(w) \/ CheckPrerequisites(w) \/ ReadHistory(w) \/ ReadDiff(w)
  PROVE  LocalStep(w)
<1>1. Active(w) /\ UNCHANGED <<runs, threads, queue>>
  BY DEF ReadSnapshot, CheckPrerequisites, ReadHistory, ReadDiff, Active, githubVars, daemonVars
<1>2. job \in [Workers -> Job] /\ job[w] \in Job
  BY <1>1, ActiveJob
<1>3. KnowsRuns(job[w], OwnRuns(w))
      /\ KnowsRound(job[w], OwnRuns(w), RepliesOf(threads[job[w].pr]))
  BY <1>1 DEF GateInv, JobHolds, OwnRuns
<1>4. JobHolds(w)'
  <2>1. CASE ReadSnapshot(w)
    <3>1. job'[w].pc = "prerequisites" /\ job'[w].run = job[w].run /\ job[w].pc = "snapshot"
      BY <1>2, <2>1 DEF ReadSnapshot, Job
    <3> QED
      BY <1>3, <3>1
      DEF JobHolds, KnowsRuns, KnowsRound, BeforeTheGate, WithTheGate, AfterTheGate
  <2>2. CASE CheckPrerequisites(w)
    <3>1. /\ job'[w].pc \in {"stop_failure", "history"} /\ job'[w].run = job[w].run
          /\ job[w].pc = "prerequisites"
      BY <1>2, <2>2 DEF CheckPrerequisites, GoTo, Job
    <3> QED
      BY <1>3, <3>1
      DEF JobHolds, KnowsRuns, KnowsRound, BeforeTheGate, WithTheGate, AfterTheGate
  <2>3. CASE ReadHistory(w)
    <3>1. /\ job'[w].pc = "threads" /\ job'[w].run = job[w].run /\ job[w].pc = "history"
          /\ job'[w].pr = job[w].pr /\ job'[w].rev = job[w].rev
          /\ job'[w].base = Baseline(OwnRuns(w))
      BY <1>2, <2>3 DEF ReadHistory, Job, OwnRuns
    <3> QED
      BY <1>1, <1>3, <3>1
      DEF JobHolds, KnowsRuns, KnowsRound, BeforeTheGate, WithTheGate, AfterTheGate, OwnRuns
  <2>4. CASE ReadDiff(w)
    <3>1. /\ job'[w].pc \in {"stop_failure", "stop_unreported", "open"}
          /\ job'[w].run = job[w].run /\ job[w].pc = "diff"
          /\ job'[w].pr = job[w].pr /\ job'[w].rev = job[w].rev /\ job'[w].base = job[w].base
      BY <1>2, <2>4 DEF ReadDiff, Job
    <3>2. KnowsRuns(job'[w], OwnRuns(w))
      BY <1>3, <3>1 DEF KnowsRuns, BeforeTheGate, WithTheGate, AfterTheGate
    <3>3. KnowsRound(job'[w], OwnRuns(w), RepliesOf(threads[job[w].pr]))
      BY <1>3, <3>1 DEF KnowsRound, Ground
    <3> QED
      BY <1>1, <3>1, <3>2, <3>3 DEF JobHolds, OwnRuns
  <2> QED
    BY <2>1, <2>2, <2>3, <2>4
<1>5. \A v \in Workers \ {w} : job'[v] = job[v]
  BY <1>2 DEF ReadSnapshot, CheckPrerequisites, ReadHistory, ReadDiff, GoTo
<1> QED
  BY <1>1, <1>4, <1>5, SilentStep

(* A baseline that is not stalled on was no pass, and drew a reply. *)
LEMMA NotStalled ==
  ASSUME NEW rs \in Seq(CheckRun), SoundRuns(rs), NEW replies \in [Findings -> Nat],
         ~ RoundCapExceeded(Baseline(rs)), ~ NoForwardProgress(Baseline(rs), replies)
  PROVE  /\ NotPassed(rs) /\ Baseline(rs).round < MaxReviewRounds
         /\ Baseline(rs) # NoRecord => RepliedSince(Baseline(rs), replies)
<1>1. Baseline(rs) # NoRecord => RepliedSince(Baseline(rs), replies)
  BY DEF NoForwardProgress
<1>2. Baseline(rs).round < MaxReviewRounds
  <2>1. Baseline(rs).round \in Nat /\ MaxReviewRounds \in Nat
    BY BaselineTypes, RulesAssumption DEF RoundRecord, RulesAssumption
  <2> QED
    BY <2>1 DEF RoundCapExceeded, NextRoundNumber
<1>3. NotPassed(rs)
  <2> SUFFICES ASSUME rs # <<>>, rs[Len(rs)].conclusion = "success" PROVE FALSE
    BY DEF NotPassed
  <2>1. SoundRun(rs[Len(rs)])
    BY SameRuns DEF SoundRuns
  <2>2. Baseline(rs).open = {} /\ Baseline(rs) # NoRecord
    BY <2>1, InProgressIs DEF SoundRun, Baseline
  <2> QED
    BY <1>1, <2>2 DEF RepliedSince
<1> QED
  BY <1>1, <1>2, <1>3

LEMMA ReadThreadsLocal ==
  ASSUME TypeInv, GateInv, NEW w \in Workers, UNCHANGED daemonVars, ReadThreads(w)
  PROVE  LocalStep(w)
<1>1. Active(w) /\ UNCHANGED <<runs, threads, queue>>
  BY DEF ReadThreads, Active, githubVars, daemonVars
<1>2. /\ job \in [Workers -> Job] /\ job[w] \in Job
      /\ job[w].pr \in PullRequests /\ job[w].rev \in Revisions
      /\ OwnRuns(w) \in Seq(CheckRun) /\ threads[job[w].pr] \in [Findings -> Thread]
  BY <1>1, ActiveJob DEF OwnRuns
<1> DEFINE replies == RepliesOf(threads[job[w].pr])
           base == job[w].base
           stalled == RoundCapExceeded(base) \/ NoForwardProgress(base, replies)
<1>3. KnowsRuns(job[w], OwnRuns(w)) /\ SoundRuns(OwnRuns(w))
  BY <1>1, <1>2 DEF GateInv, JobHolds, OwnRuns
<1>4. base = Baseline(OwnRuns(w)) /\ job[w].run = 0
  BY <1>3 DEF ReadThreads, KnowsRuns, BeforeTheGate
<1>5. /\ job'[w].pc = IF stalled THEN "stop_failure" ELSE "diff"
      /\ job'[w].run = 0 /\ job'[w].base.round = base.round
      /\ job'[w].pr = job[w].pr /\ job'[w].rev = job[w].rev
  BY <1>2, <1>4 DEF ReadThreads, Job, NoRecord
<1>6. ~ stalled => /\ NotPassed(OwnRuns(w)) /\ base.round < MaxReviewRounds
                   /\ base # NoRecord => RepliedSince(base, replies)
  <2>1. replies \in [Findings -> Nat]
    BY <1>2 DEF RepliesOf, Thread
  <2> HIDE DEF replies
  <2> QED
    BY <1>2, <1>3, <1>4, <2>1, NotStalled
<1>7. KnowsRuns(job'[w], OwnRuns(w))
  BY <1>5, <1>6 DEF KnowsRuns, BeforeTheGate, WithTheGate, AfterTheGate
<1>8. KnowsRound(job'[w], OwnRuns(w), replies)
  BY <1>4, <1>5, <1>6 DEF KnowsRound, Ground
<1>9. JobHolds(w)'
  BY <1>1, <1>5, <1>7, <1>8 DEF JobHolds, OwnRuns
<1>10. \A v \in Workers \ {w} : job'[v] = job[v]
  BY <1>2 DEF ReadThreads
<1> QED
  BY <1>1, <1>9, <1>10, SilentStep

LEMMA FinishLocal ==
  ASSUME TypeInv, GateInv, NEW w \in Workers, UNCHANGED daemonVars,
         Stop(w) \/ NotifyWaivers(w) \/ WaitNotify(w)
  PROVE  LocalStep(w)
<1>1. Active(w) /\ UNCHANGED <<runs, threads, queue>> /\ Finish(w)
  BY DEF Stop, NotifyWaivers, WaitNotify, Active, CreateComment, githubVars, daemonVars
<1>2. job \in [Workers -> Job]
  BY <1>1, ActiveJob
<1>3. ~ Active(w)' /\ \A v \in Workers \ {w} : job'[v] = job[v]
  BY <1>1, <1>2, IdleTypes DEF Finish, Active
<1> QED
  BY <1>1, <1>3, SilentStep DEF JobHolds

(* Opening a run: openGate of a review, or of a wait that was too long *)
LEMMA OpenLocal ==
  ASSUME TypeInv, GateInv, NEW w \in Workers, UNCHANGED daemonVars, OpenGate(w) \/ WaitOpen(w)
  PROVE  LocalStep(w)
<1>1. Active(w) /\ UNCHANGED <<threads, queue>> /\ CreateRun(job[w].pr, job[w].rev)
  BY DEF OpenGate, WaitOpen, Active, CreateRun, daemonVars
<1>2. /\ job \in [Workers -> Job] /\ job[w] \in Job
      /\ job[w].pr \in PullRequests /\ job[w].rev \in Revisions
      /\ OwnRuns(w) \in Seq(CheckRun)
  BY <1>1, ActiveJob DEF OwnRuns
<1> DEFINE rs == OwnRuns(w)
           ts == runs'[job[w].pr][job[w].rev]
<1>3. /\ ts = Append(rs, InProgress)
      /\ \A pr \in PullRequests, rev \in Revisions :
           pr # job[w].pr \/ rev # job[w].rev => runs'[pr][rev] = runs[pr][rev]
  <2>1. runs \in [PullRequests -> [Revisions -> Seq(CheckRun)]]
    BY DEF TypeInv, TypeOK, GitHubTypeOK
  <2> QED
    BY <1>1, <1>2, <2>1 DEF CreateRun, OwnRuns
<1>4. SoundRuns(rs) /\ RoundsOf(rs)
  BY <1>2 DEF GateInv, OwnRuns
<1>5. /\ Len(ts) = Len(rs) + 1 /\ ts # <<>> /\ ts[Len(ts)] = InProgress
      /\ SoundRuns(ts) /\ RoundsOf(ts) /\ RecordBefore(ts, Len(ts)) = Baseline(rs)
  <2> HIDE DEF rs, ts
  <2> QED
    BY <1>2, <1>3, <1>4, AppendRun DEF rs
<1>6. /\ job'[w].pc \in {"roles", "wait_report"} /\ job'[w].run = Len(ts)
      /\ job'[w].pr = job[w].pr /\ job'[w].rev = job[w].rev /\ job'[w].base = job[w].base
      /\ job'[w].pc = "roles" => job[w].pc = "open"
  BY <1>2, <1>5 DEF OpenGate, WaitOpen, Job, OwnRuns
<1>7. KnowsRuns(job'[w], ts)
  BY <1>5, <1>6 DEF KnowsRuns, BeforeTheGate, WithTheGate, AfterTheGate
<1>8. KnowsRound(job'[w], ts, RepliesOf(threads[job[w].pr]))
  <2>1. KnowsRound(job[w], rs, RepliesOf(threads[job[w].pr]))
    BY <1>1 DEF GateInv, JobHolds, OwnRuns
  <2> HIDE DEF rs, ts
  <2> QED
    BY <1>5, <1>6, <2>1 DEF KnowsRound, Ground
<1>9. JobHolds(w)'
  BY <1>1, <1>6, <1>7, <1>8 DEF JobHolds
<1>10. \A v \in Workers \ {w} : job'[v] = job[v]
  BY <1>2 DEF OpenGate, WaitOpen
<1>11. \A pr \in PullRequests, f \in Findings :
         threads'[pr][f].replies >= threads[pr][f].replies
  BY <1>1 DEF TypeInv, TypeOK, GitHubTypeOK, Thread
<1> QED
  BY <1>1, <1>3, <1>5, <1>9, <1>10, <1>11 DEF LocalStep

(* The work between opening and reporting *)
LEMMA MiddleLocal ==
  ASSUME TypeInv, GateInv, NEW w \in Workers, UNCHANGED daemonVars,
         RunRoles(w) \/ ResolveNext(w) \/ Submit(w)
  PROVE  LocalStep(w)
<1>1. Active(w) /\ UNCHANGED <<runs, queue>>
  BY DEF RunRoles, ResolveNext, Submit, Active, githubVars, ResolveThread, CreateReview, daemonVars
<1>2. /\ job \in [Workers -> Job] /\ job[w] \in Job /\ job[w].pr \in PullRequests
      /\ threads \in [PullRequests -> [Findings -> Thread]]
  BY <1>1, ActiveJob DEF TypeInv, TypeOK, GitHubTypeOK
<1>3. KnowsRuns(job[w], OwnRuns(w))
      /\ KnowsRound(job[w], OwnRuns(w), RepliesOf(threads[job[w].pr]))
  BY <1>1 DEF GateInv, JobHolds, OwnRuns
<1>4. \A pr \in PullRequests, f \in Findings :
        threads'[pr][f].replies = threads[pr][f].replies
  <2>1. \A pr \in PullRequests, f \in Findings : threads[pr][f] \in Thread
    BY <1>2
  <2>2. CASE RunRoles(w)
    BY <2>2 DEF RunRoles, githubVars
  <2>3. CASE ResolveNext(w)
    <3>1. PICK f, t : ResolveThread(job[w].pr, f, t)
      BY <2>3 DEF ResolveNext
    <3> QED
      BY <1>2, <2>1, <3>1 DEF ResolveThread, Thread
  <2>4. CASE Submit(w)
    <3>1. UNCHANGED threads \/ \E copies : threads' = [threads EXCEPT ![job[w].pr] = Posted(@, copies)]
      BY <2>4 DEF Submit, CreateReview, githubVars
    <3>2. \A t \in Thread : \A n : [t EXCEPT !.posted = @ + n].replies = t.replies
      BY DEF Thread
    <3>3. ASSUME NEW copies, NEW f \in Findings
          PROVE  Posted(threads[job[w].pr], copies)[f].replies = threads[job[w].pr][f].replies
      BY <1>2, <2>1, <3>2 DEF Posted
    <3> QED
      BY <1>2, <3>1, <3>3
  <2> QED
    BY <2>2, <2>3, <2>4
<1>5. RepliesOf(threads'[job[w].pr]) = RepliesOf(threads[job[w].pr])
  BY <1>2, <1>4 DEF RepliesOf
<1>6. /\ job'[w].pc \in {"resolve", "submit", "report"} /\ job'[w].conclusion # "none"
      /\ job'[w].run = job[w].run /\ job'[w].base = job[w].base
      /\ job'[w].pr = job[w].pr /\ job'[w].rev = job[w].rev
      /\ job[w].pc \in {"roles", "resolve", "submit"}
  <2>1. CASE RunRoles(w)
    <3>1. PICK decision \in [Roles -> Decisions], copies \in [Findings -> Nat] :
            \E accepted \in SUBSET Findings : Judge(w, decision, copies, accepted)
      BY <2>1, AnswerTypes
    <3>2. PICK accepted : Judge(w, decision, copies, accepted)
      BY <3>1
    <3> DEFINE raised == RaisedOf(copies)
               outcomes == [r \in Roles |-> [decision |-> decision[r], revision |-> job[w].rev]]
               verdict == Aggregate(outcomes, raised, WaiversRaised(raised, accepted), job[w].rev)
    <3>3. /\ job'[w].pc \in {"resolve", "submit"} /\ job'[w].conclusion = verdict
          /\ job'[w].run = job[w].run /\ job'[w].base = job[w].base
          /\ job'[w].pr = job[w].pr /\ job'[w].rev = job[w].rev
      BY <1>2, <3>2, JudgeMakes
    <3>4. verdict \in {"success", "failure"}
      BY DEF Aggregate
    <3> HIDE DEF verdict
    <3> QED
      BY <2>1, <3>3, <3>4 DEF RunRoles
  <2>2. CASE ResolveNext(w)
    <3>1. PICK left, pc :
            /\ pc \in {"submit", "resolve"}
            /\ job' = [job EXCEPT ![w].resolving = left, ![w].pc = pc]
      BY <2>2 DEF ResolveNext
    <3> QED
      BY <1>2, <1>3, <2>2, <3>1 DEF ResolveNext, KnowsRuns, Job
  <2>3. CASE Submit(w)
    BY <1>2, <1>3, <2>3 DEF Submit, KnowsRuns, Job
  <2> QED
    BY <2>1, <2>2, <2>3
<1>7. KnowsRuns(job'[w], OwnRuns(w))
  BY <1>3, <1>6 DEF KnowsRuns, BeforeTheGate, WithTheGate, AfterTheGate
<1>8. KnowsRound(job'[w], OwnRuns(w), RepliesOf(threads[job[w].pr]))
  BY <1>3, <1>6 DEF KnowsRound, Ground
<1>9. JobHolds(w)'
  BY <1>1, <1>5, <1>6, <1>7, <1>8 DEF JobHolds, OwnRuns
<1>10. \A v \in Workers \ {w} : job'[v] = job[v]
  <2>1. ASSUME NEW decision, NEW copies, NEW accepted, Judge(w, decision, copies, accepted)
        PROVE  <1>10!:
    BY <1>2, <2>1 DEF Judge
  <2>2. CASE RunRoles(w)
    BY <2>1, <2>2 DEF RunRoles
  <2>3. CASE ResolveNext(w) \/ Submit(w)
    BY <1>2, <2>3 DEF ResolveNext, Submit
  <2> QED
    BY <2>2, <2>3
<1> QED
  BY <1>1, <1>4, <1>9, <1>10, SilentStep

(* Concluding the run that was opened *)
LEMMA ReportLocal ==
  ASSUME TypeInv, ThreadInv, GateInv, NEW w \in Workers, UNCHANGED daemonVars,
         ReportGate(w) \/ WaitReport(w)
  PROVE  LocalStep(w)
<1>1. Active(w) /\ UNCHANGED <<threads, queue>>
  BY DEF ReportGate, WaitReport, Active, UpdateRun, daemonVars
<1>2. /\ job \in [Workers -> Job] /\ job[w] \in Job
      /\ job[w].pr \in PullRequests /\ job[w].rev \in Revisions
      /\ OwnRuns(w) \in Seq(CheckRun) /\ threads[job[w].pr] \in [Findings -> Thread]
      /\ job[w].base \in RoundRecord
  BY <1>1, ActiveJob DEF OwnRuns
<1> DEFINE rs == OwnRuns(w)
           ts == runs'[job[w].pr][job[w].rev]
           replies == RepliesOf(threads[job[w].pr])
<1>3. KnowsRuns(job[w], rs) /\ KnowsRound(job[w], rs, replies) /\ SoundRuns(rs) /\ RoundsOf(rs)
  BY <1>1, <1>2 DEF GateInv, JobHolds, OwnRuns
<1>4. rs # <<>> /\ job[w].run = Len(rs)
  BY <1>3 DEF KnowsRuns, WithTheGate, ReportGate, WaitReport
<1> DEFINE run == [status |-> "completed",
                   conclusion |-> IF job[w].pc = "report" THEN job[w].conclusion ELSE "failure",
                   record |-> IF job[w].pc = "report" THEN RecordOf(job[w], replies) ELSE NoRecord]
<1>5. /\ runs' = [runs EXCEPT ![job[w].pr][job[w].rev][job[w].run] = run]
      /\ job[w].pc \in {"report", "wait_report"}
  BY DEF ReportGate, WaitReport, UpdateRun
<1>6. /\ ts = [rs EXCEPT ![Len(rs)] = run]
      /\ \A pr \in PullRequests, rev \in Revisions :
           pr # job[w].pr \/ rev # job[w].rev => runs'[pr][rev] = runs[pr][rev]
  <2>1. runs \in [PullRequests -> [Revisions -> Seq(CheckRun)]]
    BY DEF TypeInv, TypeOK, GitHubTypeOK
  <2> HIDE DEF run
  <2> QED
    BY <1>2, <1>4, <1>5, <2>1 DEF OwnRuns
<1>7. replies \in [Findings -> Nat]
  BY <1>2 DEF RepliesOf, Thread
<1>8. job[w].pc = "report" =>
        /\ RecordOf(job[w], replies) \in RoundRecord
        /\ RecordOf(job[w], replies).round = job[w].base.round + 1
        /\ RecordOf(job[w], replies).open = job[w].raised \cap Blocking
        /\ RecordOf(job[w], replies).seen = replies
        /\ RecordOf(job[w], replies) # NoRecord
  <2>1. job[w].base.round \in Nat /\ job[w].raised \in SUBSET Findings
    BY <1>2 DEF RoundRecord, Job
  <2>2. RecordOf(job[w], replies) = [round |-> job[w].base.round + 1,
                                     open |-> job[w].raised \cap Blocking, seen |-> replies]
    BY DEF RecordOf, NextRoundNumber
  <2>3. job[w].base.round + 1 # 0
    BY <2>1
  <2> HIDE DEF replies
  <2> QED
    BY <1>7, <2>1, <2>2, <2>3, InProgressIs DEF RoundRecord
<1>9. run \in CheckRun /\ SoundRun(run)
  <2>1. CASE job[w].pc = "report"
    <3>1. job[w].conclusion \in {"success", "failure"}
      BY <1>2, <1>3, <2>1 DEF KnowsRuns, Job
    <3>2. job[w].conclusion = "success" => job[w].raised \cap Blocking = {}
      BY <2>1 DEF ThreadInv, ReviewInv, PassHolds, Carrying
    <3> HIDE DEF replies
    <3> QED
      BY <1>8, <2>1, <3>1, <3>2 DEF SoundRun, CheckRun
  <2>2. CASE job[w].pc = "wait_report"
    BY <2>2, RecordTypes DEF SoundRun, CheckRun
  <2> QED
    BY <1>5, <2>1, <2>2
<1>10. Follows(run.record, RecordBefore(rs, Len(rs)))
  <2> SUFFICES ASSUME job[w].pc = "report" PROVE Follows(run.record, RecordBefore(rs, Len(rs)))
    BY <1>5 DEF Follows
  <2>1. Ground(job[w], rs) = RecordBefore(rs, Len(rs))
    BY DEF Ground
  <2>2. /\ job[w].base.round = RecordBefore(rs, Len(rs)).round
        /\ job[w].base.round < MaxReviewRounds
        /\ RecordBefore(rs, Len(rs)) # NoRecord =>
             RepliedSince(RecordBefore(rs, Len(rs)), replies)
    BY <1>3, <2>1 DEF KnowsRound
  <2>3. job[w].base.round + 1 <= MaxReviewRounds
    BY <1>2, <2>2, RulesAssumption DEF RoundRecord, RulesAssumption
  <2>4. run.record = RecordOf(job[w], replies)
    OBVIOUS
  <2> HIDE DEF run, replies, rs
  <2> QED
    BY <1>8, <2>2, <2>3, <2>4 DEF RepliedSince, Follows
<1>11. /\ Len(ts) = Len(rs) /\ ts # <<>> /\ ts[Len(ts)] = run
       /\ SoundRuns(ts) /\ RoundsOf(ts)
  <2>1. rs \in Seq(CheckRun) /\ SoundRuns(rs) /\ RoundsOf(rs) /\ rs # <<>>
    BY <1>2, <1>3, <1>4
  <2>2. ts = [rs EXCEPT ![Len(rs)] = run]
    BY <1>6
  <2>3. Follows(run.record, RecordBefore(rs, Len(rs))) /\ run \in CheckRun /\ SoundRun(run)
    BY <1>9, <1>10
  <2>4. Len(rs) \in 1..Len(rs)
    BY <2>1, SameRuns
  <2>5. ts \in Seq(CheckRun)
    BY <2>1, <2>2, <2>3, <2>4, ExceptSeq
  <2> HIDE DEF rs, ts, run
  <2> QED
    <3>1. SoundRuns(ts)
      BY <2>1, <2>2, <2>3, <2>5, ConcludeRun
    <3>2. Len(ts) = Len(rs)
      BY <2>1, <2>2, <2>3, <2>5, ConcludeRun
    <3>3. ts # <<>>
      BY <2>1, <2>2, <2>3, <2>5, ConcludeRun
    <3>4. ts[Len(ts)] = run
      BY <2>1, <2>2, <2>3, <2>5, ConcludeRun
    <3>5. RoundsOf(ts)
      BY <2>1, <2>2, <2>3, <2>5, ConcludeRun
    <3> QED
      BY <3>1, <3>2, <3>3, <3>4, <3>5
<1>12. /\ job'[w].pc \in {"waivers", "wait_notify"} /\ job'[w].run = Len(ts)
       /\ job'[w].pr = job[w].pr /\ job'[w].rev = job[w].rev
  <2>1. job'[w].run = job[w].run
    BY <1>2 DEF ReportGate, WaitReport, GoTo, Job
  <2> QED
    BY <1>2, <1>4, <1>11, <2>1 DEF ReportGate, WaitReport, GoTo, Job
<1>13. JobHolds(w)'
  <2>1. Len(ts) \in 1..Len(ts)
    BY <1>2, <1>4, <1>11, SameRuns
  <2>2. ts[job'[w].run].status = "completed"
    BY <1>11, <1>12
  <2>3. KnowsRuns(job'[w], ts)
    BY <1>12, <2>1, <2>2 DEF KnowsRuns, BeforeTheGate, WithTheGate, AfterTheGate
  <2>4. KnowsRound(job'[w], ts, RepliesOf(threads'[job[w].pr]))
    BY <1>12 DEF KnowsRound
  <2> QED
    BY <1>12, <2>3, <2>4 DEF JobHolds
<1>14. \A v \in Workers \ {w} : job'[v] = job[v]
  BY <1>2 DEF ReportGate, WaitReport, GoTo
<1>15. \A pr \in PullRequests, f \in Findings :
         threads'[pr][f].replies >= threads[pr][f].replies
  BY <1>1 DEF TypeInv, TypeOK, GitHubTypeOK, Thread
<1> QED
  BY <1>1, <1>6, <1>11, <1>13, <1>14, <1>15 DEF LocalStep

LEMMA ReviewStepLocal ==
  ASSUME TypeInv, ThreadInv, GateInv, NEW w \in Workers, ReviewStep(w), UNCHANGED daemonVars
  PROVE  LocalStep(w)
BY EarlyStepsLocal, ReadThreadsLocal, FinishLocal, OpenLocal, MiddleLocal, ReportLocal
DEF ReviewStep

---------------------------------------------------------------------------
(* The daemon and the world *)

(* A step that writes no run: jobs go on as they are or are gone, and the  *)
(* queue grows at most by entries that may be reviewed.                    *)
LEMMA QuietKeeps ==
  ASSUME TypeInv, TypeInv', GateInv, runs' = runs,
         \A v \in Workers : job'[v] = job[v] \/ ~ Active(v)',
         \A pr \in PullRequests, f \in Findings :
           threads'[pr][f].replies >= threads[pr][f].replies,
         \A e \in queue' : e \in queue \/ Reviewable(runs[e[1]][e[2]])
  PROVE  GateInv'
<1>1. ASSUME NEW v \in Workers PROVE JobHolds(v)'
  <2>1. CASE ~ Active(v)'
    BY <2>1 DEF JobHolds
  <2>2. CASE job'[v] = job[v]
    BY <2>2, StaysHeld DEF GateInv, OwnRuns
  <2> QED
    BY <2>1, <2>2
<1> QED
  BY <1>1 DEF GateInv

LEMMA SameReplies ==
  ASSUME TypeInv, threads' = threads
  PROVE  \A pr \in PullRequests, f \in Findings :
           threads'[pr][f].replies >= threads[pr][f].replies
BY DEF TypeInv, TypeOK, GitHubTypeOK, Thread

(* What is selected may be reviewed. *)
LEMMA SelectedIsReviewable ==
  ASSUME NEW rs, NEW replies, Selected(rs, replies)
  PROVE  Reviewable(rs)
BY DEF Selected, Reviewable

LEMMA StartKeepsGate ==
  ASSUME TypeInv, TypeInv', GateInv, NEW w \in Workers, NEW e \in queue, Start(w, e)
  PROVE  GateInv'
<1> DEFINE pc == IF e \in overdue THEN "wait_open" ELSE "snapshot"
           j == NewJob(pc, e[1], e[2])
<1>1. /\ job' = [job EXCEPT ![w] = j] /\ UNCHANGED <<runs, threads>>
      /\ queue' = queue \ {e} /\ job \in [Workers -> Job]
  BY DEF Start, Take, githubVars, TypeInv, TypeOK, ReviewTypeOK
<1>2. /\ j.pc \in {"wait_open", "snapshot"} /\ j.run = 0 /\ j.pr = e[1] /\ j.rev = e[2]
  BY DEF NewJob
<1>3. Reviewable(runs[e[1]][e[2]])
  BY DEF GateInv
<1> HIDE DEF j
<1>4. JobHolds(w)'
  <2>1. job'[w] = j
    BY <1>1
  <2> QED
    BY <1>1, <1>2, <1>3, <2>1
    DEF JobHolds, KnowsRuns, KnowsRound, BeforeTheGate, WithTheGate, AfterTheGate
<1>5. \A v \in Workers \ {w} : JobHolds(v)'
  BY <1>1, StaysHeld, SameReplies DEF GateInv, OwnRuns
<1> QED
  BY <1>1, <1>4, <1>5 DEF GateInv

LEMMA WorkKeepsGate ==
  ASSUME TypeInv, TypeInv', UniqueInv, ThreadInv, GateInv, NEW w \in Workers, Work(w)
  PROVE  GateInv'
<1>1. ASSUME NEW e \in queue, NoSlot(w, e) PROVE GateInv'
  BY <1>1, QuietKeeps, SameReplies DEF NoSlot, Take, githubVars, reviewVars
<1>2. ASSUME NEW e \in queue, Start(w, e) PROVE GateInv'
  BY <1>2, StartKeepsGate
<1>3. ASSUME ReviewStep(w), UNCHANGED daemonVars PROVE GateInv'
  BY <1>3, ReviewStepLocal, LocalKeeps
<1> QED
  BY <1>1, <1>2, <1>3 DEF Work

LEMMA PeopleReply ==
  ASSUME TypeInv, People
  PROVE  /\ runs' = runs
         /\ \A pr \in PullRequests, f \in Findings :
              threads'[pr][f].replies >= threads[pr][f].replies
<1>0. /\ threads \in [PullRequests -> [Findings -> Thread]]
      /\ \A pr \in PullRequests, f \in Findings : threads[pr][f] \in Thread
  BY DEF TypeInv, TypeOK, GitHubTypeOK
<1>1. ASSUME NEW p \in PullRequests, NEW g \in Findings, Reply(p, g)
      PROVE  runs' = runs /\ \A pr \in PullRequests, f \in Findings :
               threads'[pr][f].replies >= threads[pr][f].replies
  BY <1>0, <1>1 DEF Reply, Thread
<1>2. ASSUME NEW p \in PullRequests, NEW g \in Findings, NEW t, ResolveByHand(p, g, t)
      PROVE  runs' = runs /\ \A pr \in PullRequests, f \in Findings :
               threads'[pr][f].replies >= threads[pr][f].replies
  BY <1>0, <1>2 DEF ResolveByHand, Thread
<1>3. ASSUME NEW p \in PullRequests, NEW rev \in Revisions, Push(p, rev)
      PROVE  runs' = runs /\ \A pr \in PullRequests, f \in Findings :
               threads'[pr][f].replies >= threads[pr][f].replies
  BY <1>3, SameReplies DEF Push
<1> QED
  BY <1>1, <1>2, <1>3 DEF People

LEMMA StepKeepsGate ==
  ASSUME TypeInv, TypeInv', UniqueInv, ThreadInv, GateInv, [Next]_vars
  PROVE  GateInv'
<1>0. job \in [Workers -> Job]
  BY DEF TypeInv, TypeOK, ReviewTypeOK
<1>1. CASE ListOpen \/ Enqueue \/ EndTick \/ Restart \/ TickThrows \/ UNCHANGED vars
  BY <1>1, QuietKeeps, SameReplies
  DEF ListOpen, Enqueue, EndTick, Restart, TickThrows, vars, githubVars, reviewVars, daemonVars
<1>2. CASE Decide
  <2>1. PICK e \in todo :
          queue' = IF Selected(runs[e[1]][e[2]], RepliesOf(threads[e[1]]))
                   THEN queue \cup {e} ELSE queue
    BY <1>2 DEF Decide
  <2> QED
    BY <1>2, <2>1, QuietKeeps, SameReplies, SelectedIsReviewable
    DEF Decide, githubVars, reviewVars
<1>3. CASE Exit \/ Crash
  BY <1>3, IdleTypes, QuietKeeps, SameReplies DEF Exit, Crash, StopsNow, githubVars, Active
<1>4. ASSUME NEW w \in Workers, Work(w) PROVE GateInv'
  BY <1>4, WorkKeepsGate
<1>5. ASSUME NEW w \in Workers, ReviewThrows(w) PROVE GateInv'
  BY <1>0, <1>5, IdleTypes, QuietKeeps, SameReplies DEF ReviewThrows, githubVars, Active
<1>6. CASE WaitGrows \/ Obstruct \/ Clear
  BY <1>6, QuietKeeps, SameReplies
  DEF WaitGrows, Obstruct, Clear, githubVars, reviewVars, daemonVars
<1>7. CASE People /\ UNCHANGED <<reviewVars, daemonVars>>
  BY <1>7, PeopleReply, QuietKeeps DEF reviewVars, daemonVars
<1> QED
  BY <1>1, <1>2, <1>3, <1>4, <1>5, <1>6, <1>7 DEF Next, Loop, World

LEMMA InitGate == Init => GateInv
<1> SUFFICES ASSUME Init PROVE GateInv
  OBVIOUS
<1>1. \A pr \in PullRequests, rev \in Revisions : runs[pr][rev] = <<>>
  BY DEF Init, GitHubInit
<1>2. \A w \in Workers : ~ Active(w)
  BY IdleTypes DEF Init, ReviewInit, Active
<1>3. queue = {} /\ Len(<<>>) = 0
  BY EmptySeq DEF Init
<1>4. SoundRuns(<<>>) /\ RoundsOf(<<>>)
  BY <1>3 DEF SoundRuns, RoundsOf
<1> QED
  BY <1>1, <1>2, <1>3, <1>4 DEF GateInv, JobHolds

LEMMA GateInvariant == Spec => [](TypeInv /\ UniqueInv /\ ThreadInv /\ GateInv)
<1>1. TypeInv /\ UniqueInv /\ [Next]_vars => UniqueInv'
  BY LoopUnique, WorkUnique, FaultUnique, WorldUnique, StutterUnique DEF Next
<1> QED
  BY <1>1, InitUnique, InitGate, StepKeepsGate, ThreadInvariant, TypeInvariant, PTL DEF Spec

---------------------------------------------------------------------------
(* What a step does to the runs: nothing, or it opens one on a revision    *)
(* that has not passed, or it concludes the newest one of a revision.      *)

OpensOn(pr, rev) ==
  /\ NotPassed(runs[pr][rev])
  /\ runs' = [runs EXCEPT ![pr][rev] = Append(@, InProgress)]

ConcludesOn(pr, rev, run) ==
  /\ runs[pr][rev] # <<>> /\ runs[pr][rev][Len(runs[pr][rev])] = InProgress
  /\ run.status = "completed" /\ run.conclusion \in {"success", "failure"}
  /\ runs' = [runs EXCEPT ![pr][rev][Len(runs[pr][rev])] = run]

RunsStep ==
  \/ runs' = runs
  \/ \E pr \in PullRequests, rev \in Revisions :
       OpensOn(pr, rev) \/ \E run \in CheckRun : ConcludesOn(pr, rev, run)

LEMMA ReportConcludes ==
  ASSUME TypeInv, GateInv, NEW w \in Workers, ReportGate(w) \/ WaitReport(w)
  PROVE  RunsStep
<1>1. Active(w)
  BY DEF ReportGate, WaitReport, Active
<1>2. /\ job[w] \in Job /\ job[w].pr \in PullRequests /\ job[w].rev \in Revisions
      /\ job[w].base \in RoundRecord /\ threads[job[w].pr] \in [Findings -> Thread]
      /\ OwnRuns(w) \in Seq(CheckRun)
  BY <1>1, ActiveJob DEF OwnRuns, TypeInv, TypeOK, ReviewTypeOK
<1> DEFINE rs == OwnRuns(w)
           replies == RepliesOf(threads[job[w].pr])
           run == [status |-> "completed",
                   conclusion |-> IF job[w].pc = "report" THEN job[w].conclusion ELSE "failure",
                   record |-> IF job[w].pc = "report" THEN RecordOf(job[w], replies) ELSE NoRecord]
<1>3. /\ rs # <<>> /\ job[w].run = Len(rs) /\ rs[Len(rs)] = InProgress
      /\ job[w].pc = "report" => job[w].conclusion \in {"success", "failure"}
  BY <1>1, <1>2 DEF GateInv, JobHolds, KnowsRuns, WithTheGate, ReportGate, WaitReport, OwnRuns, Job
<1>4. /\ runs' = [runs EXCEPT ![job[w].pr][job[w].rev][job[w].run] = run]
      /\ job[w].pc \in {"report", "wait_report"}
  BY DEF ReportGate, WaitReport, UpdateRun
<1>5. run \in CheckRun
  <2>1. job[w].pc = "report" => RecordOf(job[w], replies) \in RoundRecord
    <3>1. job[w].base.round \in Nat /\ job[w].raised \in SUBSET Findings
      BY <1>2 DEF RoundRecord, Job
    <3>2. replies \in [Findings -> Nat]
      BY <1>2 DEF RepliesOf, Thread
    <3> HIDE DEF replies
    <3> QED
      BY <3>1, <3>2 DEF RecordOf, NextRoundNumber, RoundRecord
  <2> QED
    BY <1>3, <2>1, RecordTypes DEF CheckRun
<1>6. run.status = "completed" /\ run.conclusion \in {"success", "failure"}
  BY <1>3
<1> HIDE DEF run
<1>7. ConcludesOn(job[w].pr, job[w].rev, run)
  BY <1>3, <1>4, <1>6 DEF ConcludesOn, OwnRuns
<1> QED
  BY <1>2, <1>5, <1>7 DEF RunsStep

LEMMA OpenOpens ==
  ASSUME TypeInv, GateInv, NEW w \in Workers, OpenGate(w) \/ WaitOpen(w)
  PROVE  RunsStep
<1>1. Active(w)
  BY DEF OpenGate, WaitOpen, Active
<1>2. job[w].pr \in PullRequests /\ job[w].rev \in Revisions
  BY <1>1, ActiveJob
<1>3. NotPassed(OwnRuns(w))
  BY <1>1
  DEF GateInv, JobHolds, KnowsRuns, OpenGate, WaitOpen, OwnRuns, NotPassed, Reviewable
<1>4. OpensOn(job[w].pr, job[w].rev)
  BY <1>3 DEF OpensOn, OpenGate, WaitOpen, CreateRun, OwnRuns
<1> QED
  BY <1>2, <1>4 DEF RunsStep

LEMMA StepOnRuns ==
  ASSUME TypeInv, GateInv, [Next]_vars
  PROVE  RunsStep
<1>1. ASSUME NEW w \in Workers, Work(w) PROVE RunsStep
  <2>1. CASE OpenGate(w) \/ WaitOpen(w)
    BY <2>1, OpenOpens
  <2>2. CASE ReportGate(w) \/ WaitReport(w)
    BY <2>2, ReportConcludes
  <2>3. CASE \E e \in queue : NoSlot(w, e) \/ Start(w, e)
    BY <2>3 DEF NoSlot, Start, githubVars, RunsStep
  <2>4. CASE ReadSnapshot(w) \/ CheckPrerequisites(w) \/ ReadHistory(w) \/ ReadThreads(w)
             \/ ReadDiff(w) \/ RunRoles(w)
    BY <2>4 DEF ReadSnapshot, CheckPrerequisites, ReadHistory, ReadThreads, ReadDiff, RunRoles,
                githubVars, RunsStep
  <2>5. CASE Stop(w) \/ ResolveNext(w) \/ Submit(w) \/ NotifyWaivers(w) \/ WaitNotify(w)
    BY <2>5 DEF Stop, ResolveNext, Submit, NotifyWaivers, WaitNotify,
                CreateComment, ResolveThread, CreateReview, githubVars, RunsStep
  <2> QED
    BY <1>1, <2>1, <2>2, <2>3, <2>4, <2>5 DEF Work, ReviewStep
<1>2. ASSUME NEW w \in Workers, ReviewThrows(w) PROVE RunsStep
  BY <1>2 DEF ReviewThrows, githubVars, RunsStep
<1>3. CASE Loop \/ TickThrows \/ Crash \/ UNCHANGED vars
  BY <1>3 DEF Loop, ListOpen, Decide, Enqueue, EndTick, Exit, Restart, TickThrows, Crash,
              StopsNow, vars, githubVars, RunsStep
<1>4. CASE World
  BY <1>4, PeopleReply
  DEF World, WaitGrows, Obstruct, Clear, githubVars, RunsStep
<1> QED
  BY <1>1, <1>2, <1>3, <1>4 DEF Next

LEMMA RunsTyped ==
  ASSUME TypeInv, NEW pr \in PullRequests, NEW rev \in Revisions
  PROVE  /\ runs[pr][rev] \in Seq(CheckRun) /\ Len(runs[pr][rev]) \in Nat
         /\ DOMAIN runs[pr][rev] = 1..Len(runs[pr][rev])
         /\ runs[pr][rev] # <<>> <=> Len(runs[pr][rev]) # 0
<1>1. runs[pr][rev] \in Seq(CheckRun)
  BY DEF TypeInv, TypeOK, GitHubTypeOK
<1> QED
  BY <1>1, SameRuns, LenProperties

---------------------------------------------------------------------------
(* Rounds *)

(* On one revision a round that follows a round is one more, one that      *)
(* follows nothing, or a run without a record, is round 1, and no number   *)
(* is past settings.maxReviewRounds, for any number of pull requests,      *)
(* workers, pushes, crashes and restarts.  The count is not of the pull    *)
(* request, and a run without a record starts it again                     *)
(* (review/progress.ts, review/round-history.ts).                          *)
THEOREM RoundsCounted == Spec => []RoundsAreCountedAndCapped
<1>1. TypeInv /\ GateInv => RoundsAreCountedAndCapped
  <2> SUFFICES ASSUME TypeInv, GateInv, NEW pr \in PullRequests, NEW rev \in Revisions,
                      NEW i \in DOMAIN runs[pr][rev], HasRecord(pr, rev, i)
               PROVE  /\ RecordAt(pr, rev, i).round = RoundBefore(pr, rev, i) + 1
                      /\ RecordAt(pr, rev, i).round <= MaxReviewRounds
    BY DEF RoundsAreCountedAndCapped
  <2> DEFINE rs == runs[pr][rev]
  <2>1. i \in 1..Len(rs) /\ Len(rs) \in Nat
    BY RunsTyped
  <2>2. Follows(rs[i].record, RecordBefore(rs, i))
    BY <2>1 DEF GateInv, RoundsOf
  <2>3. RecordBefore(rs, i).round = RoundBefore(pr, rev, i)
    BY <2>1, InProgressIs DEF RecordBefore, RoundBefore, RecordAt
  <2> QED
    BY <2>2, <2>3 DEF Follows, RecordAt, HasRecord
<1> QED
  BY <1>1, GateInvariant, PTL

(* A further round on a revision was earned by a reply that came after the *)
(* round before it concluded, to a finding that round left open (daemon.ts *)
(* decideReview, review/progress.ts).                                      *)
THEOREM RoundsAreEarned == Spec => []EveryFurtherRoundHasAReply
<1>1. TypeInv /\ GateInv => EveryFurtherRoundHasAReply
  <2> SUFFICES ASSUME TypeInv, GateInv, NEW pr \in PullRequests, NEW rev \in Revisions,
                      NEW i \in DOMAIN runs[pr][rev],
                      HasRecord(pr, rev, i), i > 1, HasRecord(pr, rev, i - 1)
               PROVE  \E f \in RecordAt(pr, rev, i - 1).open :
                        RecordAt(pr, rev, i).seen[f] > RecordAt(pr, rev, i - 1).seen[f]
    BY DEF EveryFurtherRoundHasAReply
  <2> DEFINE rs == runs[pr][rev]
  <2>1. i \in 1..Len(rs) /\ Len(rs) \in Nat
    BY RunsTyped
  <2>2. Follows(rs[i].record, RecordBefore(rs, i))
    BY <2>1 DEF GateInv, RoundsOf
  <2>3. RecordBefore(rs, i) = RecordAt(pr, rev, i - 1)
    BY <2>1 DEF RecordBefore, RecordAt
  <2> QED
    BY <2>2, <2>3 DEF Follows, RecordAt, HasRecord
<1> QED
  BY <1>1, GateInvariant, PTL

---------------------------------------------------------------------------
(* Verdicts *)

(* A run that has concluded is never written again and none is taken away, *)
(* across crashes and restarts too (github/check-run.ts).                  *)
THEOREM RunsAreFinal == Spec => ConcludedRunsAreFinal
<1>1. ASSUME TypeInv, TypeInv', RunsStep, NEW pr \in PullRequests, NEW rev \in Revisions,
             NEW i \in DOMAIN runs[pr][rev]
      PROVE  /\ i \in DOMAIN runs'[pr][rev]
             /\ runs[pr][rev][i].status = "completed" => runs'[pr][rev][i] = runs[pr][rev][i]
  <2> DEFINE rs == runs[pr][rev]
             ts == runs'[pr][rev]
  <2>0. runs \in [PullRequests -> [Revisions -> Seq(CheckRun)]]
    BY <1>1 DEF TypeInv, TypeOK, GitHubTypeOK
  <2>1. /\ rs \in Seq(CheckRun) /\ DOMAIN rs = 1..Len(rs) /\ Len(rs) \in Nat
        /\ ts \in Seq(CheckRun) /\ DOMAIN ts = 1..Len(ts) /\ Len(ts) \in Nat
    <3>1. ts \in Seq(CheckRun)
      BY <1>1 DEF TypeInv, TypeOK, GitHubTypeOK
    <3> HIDE DEF ts
    <3> QED
      BY <1>1, <3>1, RunsTyped, SameRuns, LenProperties
  <2>2. CASE ts = rs
    BY <2>2
  <2>3. CASE ts # rs
    <3>1. PICK p \in PullRequests, r \in Revisions :
            OpensOn(p, r) \/ \E run \in CheckRun : ConcludesOn(p, r, run)
      BY <1>1, <2>3 DEF RunsStep
    <3>2. CASE OpensOn(p, r)
      <4>1. ts = Append(rs, InProgress)
        BY <2>0, <2>3, <3>2 DEF OpensOn
      <4> HIDE DEF rs, ts
      <4>2. /\ Len(ts) = Len(rs) + 1 /\ \A k \in 1..Len(rs) : ts[k] = rs[k]
        BY <2>1, <4>1, InProgressIs, AppendProperties
      <4> QED
        BY <1>1, <2>1, <4>2 DEF rs, ts
    <3>3. ASSUME NEW run \in CheckRun, ConcludesOn(p, r, run)
          PROVE  ts = [rs EXCEPT ![Len(rs)] = run] /\ rs[Len(rs)] = InProgress
      BY <2>0, <2>3, <3>3 DEF ConcludesOn
    <3>4. CASE \E run \in CheckRun : ConcludesOn(p, r, run)
      <4>1. PICK run \in CheckRun : ts = [rs EXCEPT ![Len(rs)] = run] /\ rs[Len(rs)] = InProgress
        BY <3>3, <3>4
      <4>2. i \in DOMAIN ts /\ (i # Len(rs) => ts[i] = rs[i])
        BY <1>1, <4>1
      <4>3. i = Len(rs) => rs[i].status # "completed"
        BY <4>1, InProgressIs
      <4> QED
        BY <4>2, <4>3
    <3> QED
      BY <3>1, <3>2, <3>4
  <2> QED
    BY <2>2, <2>3
<1>2. TypeInv /\ TypeInv' /\ GateInv /\ [Next]_vars =>
        [\A pr \in PullRequests, rev \in Revisions : \A i \in DOMAIN runs[pr][rev] :
           /\ i \in DOMAIN runs'[pr][rev]
           /\ runs[pr][rev][i].status = "completed" => runs'[pr][rev][i] = runs[pr][rev][i]]_vars
  BY <1>1, StepOnRuns
<1> QED
  BY <1>2, GateInvariant, PTL DEF Spec, ConcludedRunsAreFinal

---------------------------------------------------------------------------
(* Refinement *)

(* What branch protection sees of every revision. *)
Seen == [pr \in PullRequests |-> [rev \in Revisions |-> GateOf(runs[pr][rev])]]

LEMMA GateOfLast ==
  ASSUME NEW rs \in Seq(CheckRun), SoundRuns(rs)
  PROVE  /\ rs = <<>> => GateOf(rs) = "unreported"
         /\ rs # <<>> /\ rs[Len(rs)] = InProgress => GateOf(rs) = "pending"
         /\ rs # <<>> /\ rs[Len(rs)].status = "completed" =>
              GateOf(rs) = rs[Len(rs)].conclusion
         /\ NotPassed(rs) => GateOf(rs) \in {"unreported", "pending", "failure"}
<1>1. rs # <<>> => SoundRun(rs[Len(rs)])
  BY SameRuns DEF SoundRuns
<1> QED
  BY <1>1, InProgressIs DEF GateOf, SoundRun, NotPassed

(* Only the gate of the revision whose runs a step wrote can change. *)
LEMMA SeenChanges ==
  ASSUME TypeInv, NEW p \in PullRequests, NEW r \in Revisions, NEW ts,
         runs' = [runs EXCEPT ![p][r] = ts]
  PROVE  Seen' = [Seen EXCEPT ![p][r] = GateOf(ts)]
<1>1. runs \in [PullRequests -> [Revisions -> Seq(CheckRun)]]
  BY DEF TypeInv, TypeOK, GitHubTypeOK
<1>2. /\ runs'[p][r] = ts
      /\ \A pr \in PullRequests, rev \in Revisions :
           pr # p \/ rev # r => runs'[pr][rev] = runs[pr][rev]
  BY <1>1
<1>3. /\ Seen' = [pr \in PullRequests |-> [rev \in Revisions |-> GateOf(runs'[pr][rev])]]
      /\ Seen = [pr \in PullRequests |-> [rev \in Revisions |-> GateOf(runs[pr][rev])]]
  BY DEF Seen
<1>4. \A pr \in PullRequests, rev \in Revisions :
        GateOf(runs'[pr][rev]) =
          IF pr = p /\ rev = r THEN GateOf(ts) ELSE GateOf(runs[pr][rev])
  BY <1>2
<1> QED
  BY <1>3, <1>4

GateStep ==
  \E pr \in PullRequests, rev \in Revisions :
    \/ /\ Seen[pr][rev] \in {"unreported", "failure"}
       /\ Seen' = [Seen EXCEPT ![pr][rev] = "pending"]
    \/ \E verdict \in {"success", "failure"} :
         /\ Seen[pr][rev] = "pending"
         /\ Seen' = [Seen EXCEPT ![pr][rev] = verdict]

LEMMA OpenIsSeen ==
  ASSUME TypeInv, GateInv, NEW p \in PullRequests, NEW r \in Revisions, OpensOn(p, r)
  PROVE  GateStep \/ Seen' = Seen
<1> DEFINE rs == runs[p][r]
           ts == Append(rs, InProgress)
<1>1. rs \in Seq(CheckRun) /\ SoundRuns(rs) /\ RoundsOf(rs)
  BY RunsTyped DEF GateInv
<1>2. GateOf(ts) = "pending"
  <2>1. ts \in Seq(CheckRun) /\ SoundRuns(ts) /\ ts # <<>> /\ ts[Len(ts)] = InProgress
    BY <1>1, AppendRun
  <2> HIDE DEF ts
  <2> QED
    BY <2>1, GateOfLast
<1>3. GateOf(rs) \in {"unreported", "pending", "failure"}
  BY <1>1, GateOfLast DEF OpensOn
<1>4. Seen' = [Seen EXCEPT ![p][r] = "pending"]
  <2>1. runs' = [runs EXCEPT ![p][r] = ts]
    BY DEF OpensOn
  <2> HIDE DEF ts
  <2> QED
    BY <1>2, <2>1, SeenChanges
<1>5. Seen[p][r] = GateOf(rs)
  BY DEF Seen
<1>6. CASE GateOf(rs) = "pending"
  <2>1. Seen = [pr \in PullRequests |-> [rev \in Revisions |-> Seen[pr][rev]]]
    BY DEF Seen
  <2> HIDE DEF rs, ts
  <2>2. [Seen EXCEPT ![p][r] = Seen[p][r]] = Seen
    BY <2>1
  <2> QED
    BY <1>4, <1>5, <1>6, <2>2
<1>7. CASE GateOf(rs) # "pending"
  BY <1>3, <1>4, <1>5, <1>7 DEF GateStep
<1> QED
  BY <1>6, <1>7

LEMMA ConclusionIsSeen ==
  ASSUME TypeInv, GateInv, NEW p \in PullRequests, NEW r \in Revisions,
         NEW run \in CheckRun, ConcludesOn(p, r, run)
  PROVE  GateStep
<1> DEFINE rs == runs[p][r]
           ts == [rs EXCEPT ![Len(rs)] = run]
<1>1. /\ rs \in Seq(CheckRun) /\ SoundRuns(rs) /\ rs # <<>> /\ rs[Len(rs)] = InProgress
      /\ run.status = "completed" /\ run.conclusion \in {"success", "failure"}
      /\ Len(rs) \in 1..Len(rs)
  <2>1. Len(rs) \in Nat /\ (rs # <<>> <=> Len(rs) # 0) /\ rs \in Seq(CheckRun)
    BY RunsTyped
  <2>2. SoundRuns(rs) /\ rs # <<>>
    BY DEF ConcludesOn, GateInv
  <2> QED
    BY <2>1, <2>2 DEF ConcludesOn
<1>2. Len(ts) = Len(rs) /\ ts # <<>> /\ ts[Len(ts)] = run
  <2>1. /\ Len(ts) = Len(rs)
        /\ \A i \in 1..Len(rs) : ts[i] = IF i = Len(rs) THEN run ELSE rs[i]
        /\ ts \in Seq(CheckRun)
    BY <1>1, ExceptSeq
  <2> HIDE DEF ts
  <2> QED
    BY <1>1, <2>1, SameRuns
<1>3. GateOf(ts) = run.conclusion
  <2> HIDE DEF ts
  <2> QED
    BY <1>1, <1>2 DEF GateOf
<1>4. Seen' = [Seen EXCEPT ![p][r] = run.conclusion]
  <2>1. runs' = [runs EXCEPT ![p][r] = ts]
    <3>1. runs \in [PullRequests -> [Revisions -> Seq(CheckRun)]]
      BY DEF TypeInv, TypeOK, GitHubTypeOK
    <3> QED
      BY <3>1 DEF ConcludesOn
  <2> HIDE DEF ts
  <2> QED
    BY <1>3, <2>1, SeenChanges
<1>5. Seen[p][r] = "pending"
  BY <1>1, GateOfLast DEF Seen
<1> QED
  BY <1>1, <1>4, <1>5 DEF GateStep

LEMMA StepIsSeen ==
  ASSUME TypeInv, GateInv, RunsStep
  PROVE  GateStep \/ Seen' = Seen
BY OpenIsSeen, ConclusionIsSeen DEF RunsStep, Seen

(* The daemon with its reviews, its faults and the people around it        *)
(* implements module MergeGate: no run is concluded but the newest and an  *)
(* open one, and a revision that passed is never opened again, for any     *)
(* number of revisions, workers and crashes (github/check-run.ts,          *)
(* daemon.ts, review/progress.ts).                                         *)
THEOREM DaemonImplementsMergeGate == Spec => ImplementsMergeGate
<1>1. Init => Gate!Init
  <2> SUFFICES ASSUME Init PROVE Gate!Init
    OBVIOUS
  <2>1. \A pr \in PullRequests, rev \in Revisions : GateOf(runs[pr][rev]) = "unreported"
    BY DEF Init, GitHubInit, GateOf
  <2> QED
    BY <2>1 DEF Gate!Init
<1>2. GateStep => Gate!Next
  BY DEF GateStep, Seen, Gate!Next, Gate!Open, Gate!Conclude
<1>3. TypeInv /\ GateInv /\ [Next]_vars =>
        [Gate!Next]_([pr \in PullRequests |-> [rev \in Revisions |-> GateOf(runs[pr][rev])]])
  BY <1>2, StepOnRuns, StepIsSeen DEF Seen
<1> QED
  BY <1>1, <1>3, GateInvariant, PTL DEF Spec, ImplementsMergeGate, Gate!Spec

---------------------------------------------------------------------------
(* Whose run is in progress *)

Calm == faults["crash"] + faults["failure"] = 0

Open(pr, rev, i) == runs[pr][rev][i].status = "in_progress"
Reviews(v, pr, rev, i) == Active(v) /\ job[v].pr = pr /\ job[v].rev = rev /\ job[v].run = i

Owned ==
  \A pr \in PullRequests, rev \in Revisions : \A i \in DOMAIN runs[pr][rev] :
    Open(pr, rev, i) => \E v \in Workers : Reviews(v, pr, rev, i)

(* A worker keeps its run, or had none that was open. *)
KeepsRun(v) ==
  \/ job'[v] = job[v]
  \/ Active(v)' /\ job'[v].pr = job[v].pr /\ job'[v].rev = job[v].rev /\ job'[v].run = job[v].run
  \/ ~ Active(v) \/ job[v].run = 0
  \/ runs[job[v].pr][job[v].rev][job[v].run].status = "completed"

LEMMA RunsKept ==
  ASSUME TypeInv, Owned, runs' = runs, \A v \in Workers : KeepsRun(v)
  PROVE  Owned'
<1> SUFFICES ASSUME NEW pr \in PullRequests, NEW rev \in Revisions,
                    NEW i \in DOMAIN runs[pr][rev], Open(pr, rev, i)
             PROVE  \E v \in Workers : Reviews(v, pr, rev, i)'
  BY DEF Owned, Open
<1>1. PICK v \in Workers : Reviews(v, pr, rev, i)
  BY DEF Owned
<1>2. i \in Nat /\ i # 0
  BY RunsTyped
<1>3. \/ job'[v] = job[v]
      \/ /\ Active(v)' /\ job'[v].pr = job[v].pr /\ job'[v].rev = job[v].rev
         /\ job'[v].run = job[v].run
  BY <1>1, <1>2 DEF KeepsRun, Reviews, Open
<1> QED
  BY <1>1, <1>3 DEF Reviews, Active

(* A worker opens a run: it had none, and has this one. *)
LEMMA OpenedIsOwned ==
  ASSUME TypeInv, TypeInv', GateInv, Owned, NEW w \in Workers, OpenGate(w) \/ WaitOpen(w)
  PROVE  Owned'
<1>1. Active(w)
  BY DEF OpenGate, WaitOpen, Active
<1>2. /\ job \in [Workers -> Job] /\ job[w] \in Job /\ job[w].run = 0
      /\ job[w].pr \in PullRequests /\ job[w].rev \in Revisions
      /\ runs \in [PullRequests -> [Revisions -> Seq(CheckRun)]]
  BY <1>1, ActiveJob
  DEF GateInv, JobHolds, KnowsRuns, BeforeTheGate, OpenGate, WaitOpen, TypeInv, TypeOK, GitHubTypeOK
<1> DEFINE rs == OwnRuns(w)
<1>3. /\ runs' = [runs EXCEPT ![job[w].pr][job[w].rev] = Append(rs, InProgress)]
      /\ job'[w].pr = job[w].pr /\ job'[w].rev = job[w].rev /\ job'[w].run = Len(rs) + 1
      /\ Active(w)' /\ \A v \in Workers \ {w} : job'[v] = job[v]
  BY <1>2 DEF OpenGate, WaitOpen, CreateRun, OwnRuns, Active, Job
<1>4. rs \in Seq(CheckRun) /\ Len(rs) \in Nat
  BY <1>2, RunsTyped DEF OwnRuns
<1>5. ASSUME NEW pr \in PullRequests, NEW rev \in Revisions,
             NEW i \in DOMAIN runs'[pr][rev], Open(pr, rev, i)'
      PROVE  \E v \in Workers : Reviews(v, pr, rev, i)'
  <2>1. CASE pr = job[w].pr /\ rev = job[w].rev /\ i = Len(rs) + 1
    BY <1>3, <2>1 DEF Reviews
  <2>2. CASE ~ (pr = job[w].pr /\ rev = job[w].rev /\ i = Len(rs) + 1)
    <3>1. i \in DOMAIN runs[pr][rev] /\ runs'[pr][rev][i] = runs[pr][rev][i]
      <4>1. CASE pr = job[w].pr /\ rev = job[w].rev
        <5>1. runs'[pr][rev] = Append(rs, InProgress) /\ rs = runs[pr][rev]
          BY <1>2, <1>3, <4>1 DEF OwnRuns
        <5> HIDE DEF rs
        <5>2. DOMAIN runs'[pr][rev] = 1..(Len(rs) + 1) /\ DOMAIN rs = 1..Len(rs)
          BY <1>4, <5>1, InProgressIs, AppendProperties, LenProperties
        <5>3. i \in 1..Len(rs)
          BY <1>4, <2>2, <4>1, <5>2
        <5> QED
          BY <1>4, <5>1, <5>2, <5>3, InProgressIs, AppendProperties
      <4>2. CASE ~ (pr = job[w].pr /\ rev = job[w].rev)
        BY <1>2, <1>3, <4>2
      <4> QED
        BY <4>1, <4>2
    <3>2. PICK v \in Workers : Reviews(v, pr, rev, i)
      BY <1>5, <3>1 DEF Owned, Open
    <3>3. i # 0
      BY <3>1, RunsTyped
    <3>4. v # w
      BY <1>2, <3>2, <3>3 DEF Reviews
    <3> QED
      BY <1>3, <3>2, <3>4 DEF Reviews, Active
  <2> QED
    BY <2>1, <2>2
<1> QED
  BY <1>5 DEF Owned

(* A worker concludes its own run: nobody's other is touched. *)
LEMMA ReportedIsOwned ==
  ASSUME TypeInv, TypeInv', GateInv, Owned, NEW w \in Workers, ReportGate(w) \/ WaitReport(w)
  PROVE  Owned'
<1>1. Active(w)
  BY DEF ReportGate, WaitReport, Active
<1>2. /\ job \in [Workers -> Job] /\ job[w] \in Job
      /\ job[w].pr \in PullRequests /\ job[w].rev \in Revisions
      /\ runs \in [PullRequests -> [Revisions -> Seq(CheckRun)]]
  BY <1>1, ActiveJob DEF TypeInv, TypeOK, GitHubTypeOK
<1>3. PICK run : /\ runs' = [runs EXCEPT ![job[w].pr][job[w].rev][job[w].run] = run]
                 /\ run.status = "completed"
  <2> DEFINE reported == [status |-> "completed", conclusion |-> job[w].conclusion,
                          record |-> RecordOf(job[w], RepliesOf(threads[job[w].pr]))]
             overdueRun == [status |-> "completed", conclusion |-> "failure", record |-> NoRecord]
  <2>1. \/ runs' = [runs EXCEPT ![job[w].pr][job[w].rev][job[w].run] = reported]
        \/ runs' = [runs EXCEPT ![job[w].pr][job[w].rev][job[w].run] = overdueRun]
    BY DEF ReportGate, WaitReport, UpdateRun
  <2>2. reported.status = "completed" /\ overdueRun.status = "completed"
    OBVIOUS
  <2> HIDE DEF reported, overdueRun
  <2> QED
    BY <2>1, <2>2
<1>4. /\ job'[w].pr = job[w].pr /\ job'[w].rev = job[w].rev /\ job'[w].run = job[w].run
      /\ Active(w)' /\ \A v \in Workers \ {w} : job'[v] = job[v]
  BY <1>2 DEF ReportGate, WaitReport, GoTo, Active, Job
<1>5. ASSUME NEW pr \in PullRequests, NEW rev \in Revisions,
             NEW i \in DOMAIN runs'[pr][rev], Open(pr, rev, i)'
      PROVE  \E v \in Workers : Reviews(v, pr, rev, i)'
  <2>1. i \in DOMAIN runs[pr][rev] /\ runs'[pr][rev][i] = runs[pr][rev][i]
    BY <1>2, <1>3, <1>5 DEF Open
  <2>2. PICK v \in Workers : Reviews(v, pr, rev, i)
    BY <1>5, <2>1 DEF Owned, Open
  <2> QED
    BY <1>4, <2>2 DEF Reviews, Active
<1> QED
  BY <1>5 DEF Owned

LEMMA ReviewStepOwned ==
  ASSUME TypeInv, TypeInv', GateInv, Owned, NEW w \in Workers, ReviewStep(w)
  PROVE  Owned'
<1>0. job \in [Workers -> Job] /\ (Active(w) => job[w] \in Job)
  BY DEF TypeInv, TypeOK, ReviewTypeOK
<1>1. CASE ReadSnapshot(w) \/ Stop(w) \/ NotifyWaivers(w) \/ WaitNotify(w)
  <2>1. /\ Active(w) /\ runs' = runs /\ \A v \in Workers \ {w} : job'[v] = job[v]
        /\ job[w].pc \in {"snapshot", "stop_failure", "stop_unreported", "waivers", "wait_notify"}
    BY <1>0, <1>1 DEF ReadSnapshot, Stop, NotifyWaivers, WaitNotify, Finish, Active,
                      githubVars, CreateComment
  <2>2. KnowsRuns(job[w], OwnRuns(w))
    BY <2>1 DEF GateInv, JobHolds, OwnRuns
  <2>3. CASE job[w].pc # "snapshot"
    BY <2>1, <2>2, <2>3, RunsKept
    DEF KnowsRuns, KeepsRun, BeforeTheGate, AfterTheGate, OwnRuns
  <2>4. CASE job[w].pc = "snapshot"
    BY <2>1, <2>2, <2>4, RunsKept DEF KnowsRuns, KeepsRun, BeforeTheGate
  <2> QED
    BY <2>3, <2>4
<1>2. CASE CheckPrerequisites(w) \/ ReadHistory(w) \/ ReadThreads(w) \/ ReadDiff(w)
  <2>1. /\ Active(w)' /\ runs' = runs /\ \A v \in Workers \ {w} : job'[v] = job[v]
        /\ job'[w].pr = job[w].pr /\ job'[w].rev = job[w].rev /\ job'[w].run = job[w].run
    BY <1>0, <1>2 DEF CheckPrerequisites, ReadHistory, ReadThreads, ReadDiff, GoTo,
                      Active, githubVars, Job
  <2> QED
    BY <2>1, RunsKept DEF KeepsRun
<1>3. CASE RunRoles(w)
  <2>1. PICK decision, copies, accepted : Judge(w, decision, copies, accepted)
    BY <1>3 DEF RunRoles
  <2>2. /\ job \in [Workers -> Job] /\ job[w] \in Job /\ runs' = runs
        /\ \A v \in Workers \ {w} : job'[v] = job[v]
    <3>1. /\ job \in [Workers -> Job] /\ job[w] \in Job /\ runs' = runs
      BY <1>0, <1>3 DEF RunRoles, Active, githubVars
    <3>2. \A v \in Workers \ {w} : job'[v] = job[v]
      BY <1>0, <2>1 DEF Judge
    <3> QED
      BY <3>1, <3>2
  <2>3. /\ job'[w].pc \in {"resolve", "submit"} /\ job'[w].run = job[w].run
        /\ job'[w].pr = job[w].pr /\ job'[w].rev = job[w].rev
    BY <2>1, <2>2, JudgeMakes
  <2> QED
    BY <2>2, <2>3, RunsKept DEF KeepsRun, Active
<1>4. CASE ResolveNext(w) \/ Submit(w)
  <2>1. /\ runs' = runs /\ \A v \in Workers \ {w} : job'[v] = job[v]
        /\ job'[w].pc \in {"resolve", "submit", "report"}
        /\ job'[w].pr = job[w].pr /\ job'[w].rev = job[w].rev /\ job'[w].run = job[w].run
    <3>1. CASE ResolveNext(w)
      <4>1. PICK f, t : ResolveThread(job[w].pr, f, t)
        BY <3>1 DEF ResolveNext
      <4>2. PICK left, pc :
              /\ pc \in {"submit", "resolve"}
              /\ job' = [job EXCEPT ![w].resolving = left, ![w].pc = pc]
        BY <3>1 DEF ResolveNext
      <4> QED
        BY <1>0, <3>1, <4>1, <4>2 DEF ResolveNext, ResolveThread, Active, Job
    <3>2. CASE Submit(w)
      <4>1. runs' = runs
        BY <3>2 DEF Submit, CreateReview, githubVars
      <4> QED
        BY <1>0, <3>2, <4>1 DEF Submit, Active, Job
    <3> QED
      BY <1>4, <3>1, <3>2
  <2> QED
    BY <2>1, RunsKept DEF KeepsRun, Active
<1> QED
  BY <1>1, <1>2, <1>3, <1>4, OpenedIsOwned, ReportedIsOwned DEF ReviewStep

OwnerInv == Calm => Owned /\ phase \notin {"failing", "down"}

LEMMA FaultEndsCalm ==
  ASSUME TypeInv, NEW kind \in {"crash", "failure"}, Fault(kind)
  PROVE  ~ Calm'
<1>1. faults \in [FaultKinds -> Nat] /\ kind \in FaultKinds
  BY DEF TypeInv, TypeOK, DaemonTypeOK, FaultKinds
<1>2. /\ faults'["crash"] \in Nat /\ faults'["failure"] \in Nat /\ faults'[kind] # 0
  BY <1>1 DEF Fault, FaultKinds
<1> QED
  BY <1>2 DEF Calm

LEMMA StepKeepsOwner ==
  ASSUME TypeInv, TypeInv', GateInv, OwnerInv, [Next]_vars
  PROVE  OwnerInv'
<1>0. faults \in [FaultKinds -> Nat] /\ job \in [Workers -> Job]
  BY DEF TypeInv, TypeOK, DaemonTypeOK, ReviewTypeOK
<1>1. CASE TickThrows \/ Crash \/ \E w \in Workers : ReviewThrows(w)
  BY <1>1, FaultEndsCalm DEF TickThrows, Crash, ReviewThrows, OwnerInv
<1>2. CASE Exit \/ Restart
  BY <1>2 DEF Exit, Restart, StopsNow, OwnerInv, Calm
<1>3. CASE ListOpen \/ Decide \/ Enqueue \/ EndTick \/ WaitGrows \/ Clear
           \/ UNCHANGED vars
  <2>1. /\ runs' = runs /\ job' = job /\ faults' = faults
        /\ phase' = phase \/ phase' \notin {"failing", "down"}
    BY <1>3 DEF ListOpen, Decide, Enqueue, EndTick, WaitGrows, Clear, vars,
                githubVars, reviewVars, daemonVars
  <2> QED
    BY <2>1, RunsKept DEF OwnerInv, Calm, KeepsRun
<1>4. CASE Obstruct
  <2>1. runs' = runs /\ job' = job /\ phase' = phase /\ (Calm' => Calm)
    BY <1>0, <1>4 DEF Obstruct, Fault, FaultKinds, Calm, githubVars
  <2> QED
    BY <2>1, RunsKept DEF OwnerInv, KeepsRun
<1>5. CASE People /\ UNCHANGED <<reviewVars, daemonVars>>
  <2>1. runs' = runs /\ job' = job /\ phase' = phase /\ faults' = faults
    BY <1>5, PeopleReply DEF reviewVars, daemonVars
  <2> QED
    BY <2>1, RunsKept DEF OwnerInv, Calm, KeepsRun
<1>6. ASSUME NEW w \in Workers, Work(w) PROVE OwnerInv'
  <2>1. faults' = faults /\ phase' = phase
    BY <1>6 DEF Work, NoSlot, Start, daemonVars
  <2>2. ASSUME NEW e \in queue, NoSlot(w, e) \/ Start(w, e), Owned PROVE Owned'
    <3>1. runs' = runs /\ ~ Active(w) /\ \A v \in Workers \ {w} : job'[v] = job[v]
      BY <1>0, <2>2 DEF NoSlot, Start, Take, Active, githubVars, reviewVars
    <3> QED
      BY <2>2, <3>1, RunsKept DEF KeepsRun
  <2> QED
    BY <1>6, <2>1, <2>2, ReviewStepOwned DEF Work, OwnerInv, Calm
<1> QED
  BY <1>1, <1>2, <1>3, <1>4, <1>5, <1>6 DEF Next, Loop, World

(* Without a crash and without a failed call, a gate run that is in        *)
(* progress is the run of a review some worker is carrying out: none is    *)
(* orphaned by the loop itself (github/check-run.ts openGate, daemon.ts).  *)
THEOREM OpenRunsAreReviewed == Spec => []InProgressMeansReviewed
<1>1. Init => OwnerInv
  <2> SUFFICES ASSUME Init PROVE OwnerInv
    OBVIOUS
  <2>1. \A pr \in PullRequests, rev \in Revisions : runs[pr][rev] = <<>>
    BY DEF Init, GitHubInit
  <2>2. DOMAIN <<>> = {}
    BY EmptySeq
  <2> QED
    BY <2>1, <2>2 DEF Init, OwnerInv, Owned
<1>2. OwnerInv => InProgressMeansReviewed
  BY DEF OwnerInv, Calm, Owned, Open, Reviews, InProgressMeansReviewed
<1> QED
  BY <1>1, <1>2, StepKeepsOwner, GateInvariant, PTL DEF Spec
=============================================================================
