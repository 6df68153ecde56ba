-------------------------- MODULE DaemonProperties --------------------------
(***************************************************************************)
(* What the daemon and its reviews must satisfy, stated over the machine   *)
(* of module Daemon.                                                       *)
(***************************************************************************)
EXTENDS Daemon, SequencesExt

(* The round records on a revision.  A run that was orphaned by a crash or *)
(* failed for its queue wait carries none, and hides those before it from  *)
(* a reader that sees only the newest run.                                 *)
RecordAt(pr, rev, i) == runs[pr][rev][i].record
HasRecord(pr, rev, i) == RecordAt(pr, rev, i) # NoRecord
RoundBefore(pr, rev, i) == IF i = 1 THEN 0 ELSE RecordAt(pr, rev, i - 1).round

(* The step by which worker w concludes the check run of its review. *)
Reports(w) == job[w].pc = "report" /\ job'[w].pc = "waivers"

(* The step by which worker w resolves a thread of finding f. *)
Resolves(w, f) ==
  /\ job[w].pc = "resolve" /\ job'[w].pc \in {"resolve", "submit"}
  /\ \E t \in job[w].resolving[f] : t \notin job'[w].resolving[f]

Concluded(pr, rev) ==
  runs[pr][rev] # <<>> /\ Last(runs[pr][rev]).status = "completed"

---------------------------------------------------------------------------
(* Safety *)

(* No two workers ever review the same pull request: neither a tick over a *)
(* queue that is still being drained, nor a restart beside siblings that a *)
(* failed worker left running, starts a second review (daemon.ts, the      *)
(* Promise.all over the workers).                                          *)
OneReviewPerPullRequest ==
  \A v, w \in Workers : Active(v) /\ Active(w) /\ v # w => job[v].pr # job[w].pr

(* From one run of a revision to the next, rounds are counted: a round     *)
(* that follows a round is one more, one that follows a run without a      *)
(* record, or nothing, is round 1, and no number is past the cap, whatever *)
(* was pushed, crashed or rejected meanwhile (progress.ts,                 *)
(* round-history.ts).  The count is of one revision and starts again after *)
(* an orphaned or overdue run; FR-020 counts per pull request.             *)
RoundsAreCountedAndCapped ==
  \A pr \in PullRequests, rev \in Revisions : \A i \in DOMAIN runs[pr][rev] :
    HasRecord(pr, rev, i) =>
      /\ RecordAt(pr, rev, i).round = RoundBefore(pr, rev, i) + 1
      /\ RecordAt(pr, rev, i).round <= MaxReviewRounds

(* A further round on a revision was earned by a reply: some finding the   *)
(* previous round left open and blocking drew one after it concluded       *)
(* (daemon.ts decideReview, progress.ts checkProgress).                    *)
EveryFurtherRoundHasAReply ==
  \A pr \in PullRequests, rev \in Revisions : \A i \in DOMAIN runs[pr][rev] :
    HasRecord(pr, rev, i) /\ i > 1 /\ HasRecord(pr, rev, i - 1) =>
      \E f \in RecordAt(pr, rev, i - 1).open :
        RecordAt(pr, rev, i).seen[f] > RecordAt(pr, rev, i - 1).seen[f]

(* A run in progress that no worker is reviewing exists only after a fault *)
(* took its worker away (check-run.ts openGate, daemon.ts runOne).         *)
InProgressMeansReviewed ==
  faults["crash"] + faults["failure"] = 0 =>
    \A pr \in PullRequests, rev \in Revisions : \A i \in DOMAIN runs[pr][rev] :
      runs[pr][rev][i].status = "in_progress" =>
        \E w \in Workers : Active(w) /\ job[w].pr = pr /\ job[w].rev = rev /\ job[w].run = i

---------------------------------------------------------------------------
(* What a step may never do *)

(* A pass is earned: when the gate turns to success, every role gave a     *)
(* verdict in that round, the round raised no blocking finding, waived or  *)
(* not, and no thread of a blocking finding is left open on the pull       *)
(* request (gate.ts aggregate after reconcile.ts and threads.ts), as long  *)
(* as people do not reopen a resolved conversation.                        *)
PassIsEarned ==
  [][\A w \in Workers :
       Reports(w) /\ job[w].conclusion = "success" =>
         /\ job[w].unheard = {} /\ job[w].raised \cap Blocking = {}
         /\ \A f \in Blocking : OpenThreads(threads[job[w].pr], f) = {}]_vars

(* A check run that has concluded is never written again, and none is ever *)
(* taken away: what a round recorded stays for the next one to read        *)
(* (check-run.ts openGate, reportGate).                                    *)
ConcludedRunsAreFinal ==
  [][\A pr \in PullRequests, rev \in Revisions : \A i \in DOMAIN runs[pr][rev] :
       /\ i \in DOMAIN runs'[pr][rev]
       /\ runs[pr][rev][i].status = "completed" => runs'[pr][rev][i] = runs[pr][rev][i]]_vars

(* A finding that has a thread is never posted again: all its threads come *)
(* from one submission, whatever rounds, pushes, crashes, rejections and   *)
(* hand-resolved threads come between (spec.md FR-039, "left open rather   *)
(* than reposted as a duplicate"; reconcile.ts, alreadyRaised, over        *)
(* threads read calls earlier).  Within one submission a finding that was  *)
(* raised twice is posted twice.                                           *)
NothingIsReposted ==
  [][\A pr \in PullRequests, f \in Findings :
       HasThread(threads[pr], f) => threads'[pr][f].posted = threads[pr][f].posted]_vars

(* Reconciliation never resolves the thread of a finding this round still  *)
(* raised, a finding whose justification was accepted included             *)
(* (reconcile.ts: "left open and visible as a waiver request").            *)
RaisedThreadsStayOpen ==
  [][\A w \in Workers, f \in Findings : Resolves(w, f) => f \notin job[w].raised]_vars

---------------------------------------------------------------------------
(* Refinement *)

(* What branch protection sees of the gate's runs on one revision: the     *)
(* newest.                                                                 *)
GateOf(runsOfRevision) ==
  IF runsOfRevision = <<>> THEN "unreported"
  ELSE LET run == runsOfRevision[Len(runsOfRevision)] IN
       IF run.status = "in_progress" THEN "pending" ELSE run.conclusion

Gate == INSTANCE MergeGate
  WITH gate <- [pr \in PullRequests |-> [rev \in Revisions |-> GateOf(runs[pr][rev])]]

(* Daemon, reviews, faults and people together implement the merge gate:   *)
(* a revision that passed is never opened again, not even by a review that *)
(* was selected for another revision and finds the head forced back to     *)
(* this one, and no run is concluded but one that is the newest and in     *)
(* progress (check-run.ts, daemon.ts decideReview, progress.ts).           *)
ImplementsMergeGate == Gate!Spec

---------------------------------------------------------------------------
(* Liveness, under FairSpec *)

(* Every head revision that stays the head gets a concluded gate, though a *)
(* budget, the allowance or a prerequisite may stand in the way first, and *)
(* another after it was cleared (daemon.ts: the next tick reads the same   *)
(* facts and converges).                                                   *)
EveryHeadIsJudged ==
  \A pr \in PullRequests, rev \in Revisions :
    head[pr] = rev ~> head[pr] # rev \/ Concluded(pr, rev)

(* The gate on pr's head waits for a reply that has come, and another      *)
(* round is allowed.                                                       *)
AwaitsRound(pr, rev) ==
  /\ head[pr] = rev /\ Concluded(pr, rev)
  /\ LET record == Last(runs[pr][rev]).record IN
       /\ record # NoRecord /\ record.round < MaxReviewRounds
       /\ RepliedSince(record, RepliesOf(threads[pr]))

(* A reply to an open blocking finding that arrives after its round        *)
(* concluded leads to another round (daemon.ts decideReview, clause (b)).  *)
LateReplyIsAnswered ==
  \A pr \in PullRequests, rev \in Revisions :
    AwaitsRound(pr, rev) ~> ~ AwaitsRound(pr, rev)

---------------------------------------------------------------------------
(* What documents and comments of the repository say, and the code does    *)
(* not do                                                                  *)

(* docs/independent-review-service.md:64: it "never resolves a finding it  *)
(* did not see fixed".  A role whose model call failed saw nothing fixed   *)
(* (composition.ts, reconcile over the findings of the roles that spoke).  *)
ResolvesOnlyWhatItSawFixed ==
  [][\A w \in Workers, f \in Findings :
       Resolves(w, f) => RoleOf[f] \notin job[w].unheard]_vars

(* spec.md FR-009: "Each verdict MUST be bound to the exact revision it    *)
(* examined" (composition.ts, headSha of the snapshot and a later          *)
(* readDiff).                                                              *)
VerdictIsAboutItsRevision ==
  [][\A w \in Workers : Reports(w) => job[w].examined = job[w].rev]_vars

(* spec.md FR-023 and docs/independent-review-service.md:437: every        *)
(* inability to review is a failure of the gate (composition.ts, stop).    *)
RefusalFailsTheGate ==
  [][\A w \in Workers :
       job[w].pc = "stop_failure" /\ job'[w].pc = "idle" /\ phase' # "down" =>
         Concluded(job[w].pr, job[w].rev)]_vars

(* daemon.ts:381: "the host is full ... and the next tick tries again".  A *)
(* tick whose listing answers 304 selects nothing (daemon.ts,              *)
(* reconcileTick and queuedSince).                                         *)
WaitingReviewsAreTriedAgain ==
  [][phase = "deciding" /\ phase' = "draining" =>
       \A e \in waiting : head[e[1]] = e[2] => e \in queue]_vars
=============================================================================
