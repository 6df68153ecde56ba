------------------------------- MODULE Review -------------------------------
(***************************************************************************)
(* One review of one pull request: reviewPullRequest of composition.ts, as *)
(* the sequence of its awaited calls.  Between two calls the event loop    *)
(* runs other reviews and the author acts, so every call is a step of its  *)
(* own, and what a step read is kept in the job's fields until it is used. *)
(*                                                                         *)
(* The daemon (module Daemon) creates a job per worker; this module says   *)
(* what a job does until it is over.                                       *)
(***************************************************************************)
EXTENDS GitHub

CONSTANTS
  Workers,          \* at most settings.maxConcurrentReviews reviews at a time
  RoleOrder,        \* the required roles in the order they run and submit
  Obstacles,        \* the conditions that stop a review before it spends
  Deliveries,       \* outcomes of delivering an escalation comment
  MaxCopies,        \* bound: how often one round raises the same finding
  None              \* no pull request, no revision

ASSUME ReviewAssumption ==
  /\ RoleOrder \in Seq(Roles) /\ RoleOrder # <<>>
  /\ \A r \in Roles : \E i \in 1..Len(RoleOrder) : RoleOrder[i] = r
  /\ Obstacles \subseteq {"prerequisites.missing", "identity.self_authored", "diff.empty",
                          "size.exceeds_reviewable", "budget.exhausted",
                          "platform.reserve", "platform.wait_too_long"}
  /\ Deliveries \subseteq BOOLEAN /\ MaxCopies \in Nat
  /\ None \notin PullRequests /\ None \notin Revisions

VARIABLES
  job,              \* job[w]: the review worker w runs
  obstacle          \* obstacle[pr]: what would stop a review of pr now, or "none"

reviewVars == <<job, obstacle>>

(* The calls a review awaits, in order. *)
ReviewSteps == {"snapshot", "prerequisites", "history", "threads", "diff", "open", "roles",
                "resolve", "submit", "report", "waivers"}
(* Ways a review ends early, and the queue-wait path of runOne. *)
OtherSteps == {"stop_failure", "stop_unreported", "wait_open", "wait_report", "wait_notify"}

Job == [pc : ReviewSteps \cup OtherSteps \cup {"idle", "dead"},
        pr : PullRequests \cup {None},
        rev : Revisions \cup {None},        \* headSha of the snapshot
        base : RoundRecord,                 \* baseline round; at the end only its number
        prior : [Findings -> Thread],       \* threads as read, until they are reconciled
        examined : Revisions \cup {None},   \* the revision whose diff was read
        run : Nat,                          \* the check run opened
        unheard : SUBSET Roles,             \* roles whose verdict is missing
        raised : SUBSET Findings,
        waived : SUBSET Findings,
        conclusion : {"none", "success", "failure"},
        resolving : [Findings -> SUBSET Nat],   \* threads still to resolve
        posting : [Findings -> Nat],        \* comments to post, per finding
        next : Nat]                         \* next role to submit

NoPlan == [resolving |-> [f \in Findings |-> {}], posting |-> [f \in Findings |-> 0]]

NewJob(pc, pr, rev) ==
  [pc |-> pc, pr |-> pr, rev |-> rev, base |-> NoRecord, prior |-> NoThreads,
   examined |-> None, run |-> 0, unheard |-> {}, raised |-> {}, waived |-> {},
   conclusion |-> "none", resolving |-> NoPlan.resolving,
   posting |-> NoPlan.posting, next |-> 1]

Idle == NewJob("idle", None, None)
Dead == NewJob("dead", None, None)

Active(w) == job[w].pc \notin {"idle", "dead"}

ReviewTypeOK ==
  /\ job \in [Workers -> Job]
  /\ obstacle \in [PullRequests -> Obstacles \cup {"none"}]

ReviewInit ==
  /\ job = [w \in Workers |-> Idle]
  /\ obstacle = [pr \in PullRequests |-> "none"]

---------------------------------------------------------------------------
(* Steps that only read the platform *)

GoTo(w, pc) == job' = [job EXCEPT ![w].pc = pc]
Finish(w) == job' = [job EXCEPT ![w] = Idle]

Blocks(w, causes) == obstacle[job[w].pr] \in causes

(* readPullRequest: the head as it is now, whatever the tick had listed *)
ReadSnapshot(w) ==
  /\ job[w].pc = "snapshot"
  /\ job' = [job EXCEPT ![w].pc = "prerequisites", ![w].rev = head[job[w].pr]]
  /\ UNCHANGED <<githubVars, obstacle>>

(* Branch protection, permissions, model credential; then the identity. *)
CheckPrerequisites(w) ==
  /\ job[w].pc = "prerequisites"
  /\ GoTo(w, IF Blocks(w, {"prerequisites.missing", "identity.self_authored"})
             THEN "stop_failure" ELSE "history")
  /\ UNCHANGED <<githubVars, obstacle>>

ReadHistory(w) ==
  /\ job[w].pc = "history"
  /\ job' = [job EXCEPT ![w].pc = "threads",
                        ![w].base = Baseline(runs[job[w].pr][job[w].rev])]
  /\ UNCHANGED <<githubVars, obstacle>>

(* Threads are read once; progress, prior findings and reconciliation all  *)
(* use this reading.                                                       *)
ReadThreads(w) ==
  /\ job[w].pc = "threads"
  /\ LET seen == threads[job[w].pr]
         base == job[w].base
         stalled == RoundCapExceeded(base) \/ NoForwardProgress(base, RepliesOf(seen))
     IN job' = [job EXCEPT ![w].prior = seen,
                           ![w].base = [NoRecord EXCEPT !.round = base.round],
                           ![w].pc = IF stalled THEN "stop_failure" ELSE "diff"]
  /\ UNCHANGED <<githubVars, obstacle>>

(* readDiff fetches the pull request's diff as it is now; then the stops   *)
(* for an empty or oversized diff, the token budget and the platform       *)
(* allowance, of which only a bearable wait leaves the gate unreported.    *)
ReadDiff(w) ==
  /\ job[w].pc = "diff"
  /\ job' = [job EXCEPT ![w].examined = head[job[w].pr],
               ![w].pc =
                 IF Blocks(w, {"diff.empty", "size.exceeds_reviewable", "budget.exhausted",
                               "platform.wait_too_long"}) THEN "stop_failure"
                 ELSE IF Blocks(w, {"platform.reserve"}) THEN "stop_unreported"
                 ELSE "open"]
  /\ UNCHANGED <<githubVars, obstacle>>

(* Slip: nothing is said on the pull request. *)
StopSilently(w) ==
  /\ job[w].pc \in {"stop_failure", "stop_unreported"}
  /\ Finish(w)
  /\ UNCHANGED <<githubVars, obstacle>>

(* stop: the run is recorded and escalated, and nothing else.  The         *)
(* conclusion goes back to a caller that does not read it.                 *)
Stop(w) ==
  /\ job[w].pc \in {"stop_failure", "stop_unreported"}
  /\ \E delivered \in Deliveries : CreateComment(delivered)
  /\ Finish(w)
  /\ UNCHANGED obstacle

---------------------------------------------------------------------------
(* Steps of a review that reached the model *)

(* Slip: the run a revision already has is opened again. *)
ReopenGate(w) ==
  LET rs == runs[job[w].pr][job[w].rev] IN
  /\ job[w].pc = "open"
  /\ IF rs = <<>> THEN CreateRun(job[w].pr, job[w].rev)
     ELSE /\ runs' = [runs EXCEPT ![job[w].pr][job[w].rev][Len(rs)] = InProgress]
          /\ UNCHANGED <<head, threads, unchanged>>
  /\ job' = [job EXCEPT ![w].pc = "roles",
                        ![w].run = IF rs = <<>> THEN 1 ELSE Len(rs)]
  /\ UNCHANGED obstacle

(* openGate, before any role runs *)
OpenGate(w) ==
  /\ job[w].pc = "open"
  /\ CreateRun(job[w].pr, job[w].rev)
  /\ job' = [job EXCEPT ![w].pc = "roles",
                        ![w].run = Len(runs[job[w].pr][job[w].rev]) + 1]
  /\ UNCHANGED obstacle

(* Slip: reconcile is given only what still stands. *)
KeepOnlyStanding(prior, copies, raised, waived) ==
  [toResolve |-> ToResolve(prior, raised \ waived), toPost |-> ToPost(prior, copies)]
(* reconcile is given the judged findings: a waived one is still among them. *)
Reconcile(prior, copies, raised, waived) ==
  [toResolve |-> ToResolve(prior, raised), toPost |-> ToPost(prior, copies)]

RaisedOf(copies) == {f \in Findings : copies[f] > 0}
Finished(resolving) == \A f \in Findings : resolving[f] = {}

(* judgeReplies, reconcile and aggregate over the roles' answers *)
Judge(w, decision, copies, accepted) ==
  LET raised == RaisedOf(copies)
      waived == WaiversRaised(raised, accepted)
      plan == Reconcile(job[w].prior, copies, raised, waived)
      outcomes == [r \in Roles |-> [decision |-> decision[r], revision |-> job[w].rev]]
  IN job' = [job EXCEPT
       ![w].pc = IF Finished(plan.toResolve) THEN "submit" ELSE "resolve",
       ![w].prior = NoThreads,
       ![w].unheard = {r \in Roles : decision[r] = "missing"},
       ![w].raised = raised, ![w].waived = waived,
       ![w].conclusion = Aggregate(outcomes, raised, waived, job[w].rev),
       ![w].resolving = plan.toResolve, ![w].posting = plan.toPost]

(* The roles run one after another and share nothing but the ledger, so    *)
(* their answers are one choice.  An answer may raise the same finding     *)
(* more than once: two lines of a file with the same text, say.  The       *)
(* judgements of a role that spoke may name any finding, answered or not.  *)
RunRoles(w) ==
  /\ job[w].pc = "roles"
  /\ \E decision \in [Roles -> Decisions], copies \in [Findings -> 0..MaxCopies] :
       /\ \A r \in Roles : RoleMayRaise(decision, RaisedOf(copies), r)
       /\ \E accepted \in SUBSET RaisedOf(copies) :
            /\ accepted # {} => \E r \in Roles : decision[r] # "missing"
            /\ Judge(w, decision, copies, accepted)
  /\ UNCHANGED <<githubVars, obstacle>>

(* resolveThreads: one mutation per thread *)
ResolveNext(w) ==
  /\ job[w].pc = "resolve"
  /\ \E f \in Findings : \E t \in job[w].resolving[f] :
       LET left == [job[w].resolving EXCEPT ![f] = @ \ {t}] IN
       /\ ResolveThread(job[w].pr, f, t)
       /\ job' = [job EXCEPT ![w].resolving = left,
                    ![w].pc = IF Finished(left) THEN "submit" ELSE "resolve"]
  /\ UNCHANGED obstacle

(* The part of what is to be posted that the findings fs make up. *)
Part(posting, fs) == [f \in Findings |-> IF f \in fs THEN posting[f] ELSE 0]

(* submitReview, one per role that raised anything *)
Submit(w) ==
  LET role == RoleOrder[job[w].next] IN
  /\ job[w].pc = "submit"
  /\ IF job[w].raised \cap FindingsOf(role) = {} THEN UNCHANGED githubVars
     ELSE CreateReview(job[w].pr, Part(job[w].posting, FindingsOf(role)))
  /\ job' = [job EXCEPT ![w].next = @ + 1,
               ![w].posting = Part(@, Findings \ FindingsOf(role)),
               ![w].pc = IF job[w].next = Len(RoleOrder) THEN "report" ELSE "submit"]
  /\ UNCHANGED obstacle

(* The record this round leaves: the blocking findings it did not resolve, *)
(* the waived ones included, and the replies there were when it concluded. *)
RecordOf(j, replies) ==
  [round |-> NextRoundNumber(j.base), open |-> j.raised \cap Blocking, seen |-> replies]

ReportGate(w) ==
  LET j == job[w] IN
  /\ j.pc = "report"
  /\ UpdateRun(j.pr, j.rev, j.run, j.conclusion, RecordOf(j, RepliesOf(threads[j.pr])))
  /\ GoTo(w, "waivers")
  /\ UNCHANGED obstacle

(* Waiver requests are escalated after the gate says what it says. *)
NotifyWaivers(w) ==
  /\ job[w].pc = "waivers"
  /\ IF job[w].waived = {} THEN UNCHANGED githubVars
     ELSE \E delivered \in Deliveries : CreateComment(delivered)
  /\ Finish(w)
  /\ UNCHANGED obstacle

---------------------------------------------------------------------------
(* A review that waited past the configured maximum: runOne opens a run on *)
(* the revision the tick listed, fails it and escalates, with no record.   *)

WaitOpen(w) ==
  /\ job[w].pc = "wait_open"
  /\ CreateRun(job[w].pr, job[w].rev)
  /\ job' = [job EXCEPT ![w].pc = "wait_report",
                        ![w].run = Len(runs[job[w].pr][job[w].rev]) + 1]
  /\ UNCHANGED obstacle

(* Slip: the run is left open. *)
WaitReportNothing(w) ==
  /\ job[w].pc = "wait_report"
  /\ GoTo(w, "wait_notify")
  /\ UNCHANGED <<githubVars, obstacle>>

WaitReport(w) ==
  /\ job[w].pc = "wait_report"
  /\ UpdateRun(job[w].pr, job[w].rev, job[w].run, "failure", NoRecord)
  /\ GoTo(w, "wait_notify")
  /\ UNCHANGED obstacle

WaitNotify(w) ==
  /\ job[w].pc = "wait_notify"
  /\ \E delivered \in Deliveries : CreateComment(delivered)
  /\ Finish(w)
  /\ UNCHANGED obstacle

ReviewStep(w) ==
  \/ ReadSnapshot(w) \/ CheckPrerequisites(w) \/ ReadHistory(w) \/ ReadThreads(w)
  \/ ReadDiff(w) \/ Stop(w) \/ OpenGate(w) \/ RunRoles(w) \/ ResolveNext(w)
  \/ Submit(w) \/ ReportGate(w) \/ NotifyWaivers(w)
  \/ WaitOpen(w) \/ WaitReport(w) \/ WaitNotify(w)
=============================================================================
