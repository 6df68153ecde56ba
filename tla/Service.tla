------------------------------ MODULE Service ------------------------------
(***************************************************************************)
(* Reviews as composition.ts composes them out of their parts: the stops   *)
(* before spending, the roles with their model calls and their rules, the  *)
(* token ledger, and the escalation of a stop.  Module Review has the same *)
(* review between its author and the check run; here is what it computes   *)
(* on the way and what it shares with other processes on the host.         *)
(*                                                                         *)
(* A slot is a process that reviews: a worker of the daemon, or the command *)
(* line.  They share the ledger file and the repository's open issues.     *)
(***************************************************************************)
EXTENDS Stops, FindingRules, ModelCall

CONSTANTS
  Slots,
  RoleOrder,        \* settings.requiredReviewerRoles
  Scenes,           \* what the slots may be asked to review: facts by slot
  Transports,       \* settings.modelTransport
  Streams           \* what a model call may bring back

(* What a review finds that decides how it goes.  The platform states no   *)
(* time to retry after (composition.ts, octokitRateLimit).                 *)
Plausible(f) ==
  /\ f.round \in Nat \ {0} /\ f.length \in Nat
  /\ {f.replied, f.credential, f.justified, f.signals.readable} \subseteq BOOLEAN
  /\ f.signals.retryAfter = -1
  /\ {f.signals.remaining, f.signals.reset} \subseteq Int

ASSUME ServiceAssumption ==
  /\ IsFiniteSet(Slots)
  /\ RoleOrder \in Seq({"security", "implementation"}) /\ RoleOrder # <<>>
  /\ \A scene \in Scenes :
       DOMAIN scene \subseteq Slots /\ \A s \in DOMAIN scene : Plausible(scene[s])
  /\ Transports \subseteq {"agent-sdk", "api"}
  /\ Streams \subseteq [ended : Endings, usage : Nat \cup {NoUsage}, text : Texts]

ASSUME DiffAssumption ==
  \A scene \in Scenes : \A s \in DOMAIN scene : Diffable(scene[s].change)

Causes == {"none", "prerequisites.missing", "identity.self_authored", "rounds.cap_exceeded",
           "progress.no_forward_progress", "diff.empty", "size.exceeds_reviewable",
           "budget.exhausted", "platform.rate_limit"}
Stopping == {"find", "deliver", "comment"}
Steps == {"idle", "snapshot", "prerequisites", "history", "threads", "diff", "allowance",
          "open", "roles", "reconcile", "report", "ended"} \cup Stopping

VARIABLES
  facts,            \* facts[s]: what slot s is asked to review, for the slots there are
  transport,
  slot,             \* slot[s]: the review under way
  drafts,           \* drafts[s]: what its roles have handed back
  spent,            \* what the ledger adds up to
  owed,             \* ghost: the tokens of every ask whose process did not die with them
  issues            \* open escalation issues, the newest first

vars == <<facts, transport, slot, drafts, spent, owed, issues>>
rest == <<facts, transport, drafts, spent, owed, issues>>

Present == DOMAIN facts

NewReview(pc) ==
  [pc |-> pc, cause |-> "none", conclusion |-> "none", found |-> FALSE,
   call |-> NewCall, tokens |-> 0, stated |-> <<>>]

(* The harness authenticates itself: only the API lacks a credential. *)
Init ==
  /\ facts \in Scenes
  /\ transport \in Transports
  /\ (\E s \in Present : ~ facts[s].credential) => transport = "api"
  /\ slot = [s \in Slots |-> NewReview("idle")]
  /\ drafts = [s \in Slots |-> {}]
  /\ spent = 0 /\ owed = 0
  /\ issues = <<>>

---------------------------------------------------------------------------
(* What a review computes from the facts *)

(* What it reads out of the diff of a change: once, after readDiff. *)
Reading(change) ==
  LET diff == Render(change)
      index == IndexDiff(diff)
      excluded == ExcludedPaths(diff)
  IN [substantive |-> HasSubstantiveChange(diff),
      index |-> index, excluded |-> excluded,
      changedLines |-> ChangedLineCount(index, excluded),
      rules |-> [justified \in BOOLEAN |-> ApplyRules(diff, excluded, justified)]]

Readings ==
  LET changes == UNION {{scene[s].change : s \in DOMAIN scene} : scene \in Scenes}
  IN [change \in changes |-> Reading(change)]

Read(s) == Readings[facts[s].change]

(* What the roles together are expected to cost *)
Reservation(s) == EstimateReviewTokens(facts[s].length) * Len(RoleOrder)

Raised(s) == Raise(drafts[s], Read(s).index, Read(s).excluded)

(* What the calls of a review have cost before the ledger knows of it. *)
Pending(review) ==
  IF review.pc = "roles" THEN review.tokens + review.call.spent ELSE 0

---------------------------------------------------------------------------
(* Checks before anything is spent *)

At(s, pc) == s \in Present /\ slot[s].pc = pc
GoTo(s, pc) == slot' = [slot EXCEPT ![s].pc = pc]

(* stop: the run is recorded as concluded, then escalated. *)
StopWith(s, cause, conclusion) ==
  slot' = [slot EXCEPT ![s].pc = "find", ![s].cause = cause, ![s].conclusion = conclusion]

StopOrGo(s, cause, pc) == IF cause = "none" THEN GoTo(s, pc) ELSE StopWith(s, cause, "failure")

(* By the daemon's tick or by hand; the command line takes no lease. *)
Begin(s) ==
  /\ At(s, "idle") \/ At(s, "ended")
  /\ slot' = [slot EXCEPT ![s] = NewReview("snapshot")]
  /\ UNCHANGED rest

(* The pull request and its base branch's protection *)
ReadSnapshot(s) ==
  /\ At(s, "snapshot")
  /\ GoTo(s, "prerequisites")
  /\ UNCHANGED rest

CheckPrerequisites(s) ==
  LET f == facts[s]
      hold == PrerequisitesHold(f.granted, f.response, f.credential)
      own == IsSelfAuthored(f.author)
  IN /\ At(s, "prerequisites")
     /\ StopOrGo(s, CASE ~ hold -> "prerequisites.missing"
                      [] hold /\ own -> "identity.self_authored"
                      [] hold /\ ~ own -> "none", "history")
     /\ UNCHANGED rest

ReadHistory(s) ==
  /\ At(s, "history")
  /\ GoTo(s, "threads")
  /\ UNCHANGED rest

CheckProgressOf(s) ==
  /\ At(s, "threads")
  /\ StopOrGo(s, CheckProgress(facts[s].round, facts[s].replied), "diff")
  /\ UNCHANGED rest

(* Nothing is awaited between these three. *)
CheckDiff(s) ==
  LET empty == ~ Read(s).substantive
      tooLarge == ExceedsReviewable(Read(s).changedLines)
      allowed == Allowed(spent, Reservation(s))
  IN /\ At(s, "diff")
     /\ StopOrGo(s, CASE empty -> "diff.empty"
                      [] ~ empty /\ tooLarge -> "size.exceeds_reviewable"
                      [] ~ empty /\ ~ tooLarge /\ ~ allowed -> "budget.exhausted"
                      [] OTHER -> "none", "allowance")
     /\ UNCHANGED rest

CheckAllowance(s) ==
  LET verdict == Assess(facts[s].signals) IN
  /\ At(s, "allowance")
  /\ IF verdict = "proceed" THEN GoTo(s, "open")
     ELSE StopWith(s, "platform.rate_limit",
                   IF verdict = "wait" THEN "unreported" ELSE "failure")
  /\ UNCHANGED rest

---------------------------------------------------------------------------
(* The roles *)

OpenGate(s) ==
  /\ At(s, "open")
  /\ GoTo(s, "roles")
  /\ UNCHANGED rest

RoleOf(s) == RoleOrder[Len(slot[s].stated) + 1]

(* What a role hands back: its rules' findings in any case, the model's    *)
(* only with a review.                                                     *)
DraftsBy(s, role, proposals) ==
  {Draft(role, p.rule, p.severity, p.blocking, NormalizeLocation(p.location), p.rule) :
     p \in proposals}
    \cup IF role = "implementation" THEN Read(s).rules[facts[s].justified] ELSE {}

(* The role is over.  After the last one the cost of all is recorded, once, *)
(* and the findings are raised and judged.                                 *)
EndRole(s, cost, verdict, proposals) ==
  LET review == slot[s]
      tokens == review.tokens + cost
      stated == Append(review.stated, verdict)
      handed == drafts[s] \cup DraftsBy(s, RoleOf(s), proposals)
      findings == Raise(handed, Read(s).index, Read(s).excluded)
      last == Len(stated) = Len(RoleOrder)
  IN /\ slot' = [slot EXCEPT ![s] =
          [review EXCEPT !.tokens = tokens, !.stated = stated,
             !.call = NewCall,
             !.pc = IF last THEN "reconcile" ELSE "roles",
             !.conclusion = IF last THEN Verdict(stated, findings) ELSE @]]
     /\ drafts' = [drafts EXCEPT ![s] = handed]
     /\ spent' = IF last THEN spent + tokens ELSE spent

(* An ask is answered: with a review, with one more ask, or with no verdict. *)
Answered(s) ==
  /\ At(s, "roles")
  /\ \E stream \in Streams :
       LET call == slot[s].call
           answer == AnswerOver(transport, stream, call.aborted)
           cost == AfterAsk(call, answer).spent
       IN /\ owed' = owed + answer.usage
          /\ CASE answer.kind = "review" ->
                    \E verdict \in {"approve", "request-changes"},
                       proposals \in {{}} \cup {{p} : p \in facts[s].proposals[RoleOf(s)]} :
                      EndRole(s, cost, verdict, proposals)
               [] AsksAgain(call, answer) ->
                    /\ slot' = [slot EXCEPT ![s].call = AfterAsk(call, answer)]
                    /\ UNCHANGED <<drafts, spent>>
               [] OTHER -> EndRole(s, cost, "missing", {})
  /\ UNCHANGED <<facts, transport, issues>>

(* The wall-clock bound of one call, over all its asks *)
DeadlineFires(s) ==
  /\ At(s, "roles") /\ transport = "agent-sdk" /\ ~ slot[s].call.aborted
  /\ slot' = [slot EXCEPT ![s].call.aborted = TRUE]
  /\ UNCHANGED rest

(* Threads and reviews, which module Review has in full *)
Reconcile(s) ==
  /\ At(s, "reconcile")
  /\ GoTo(s, "report")
  /\ UNCHANGED rest

(* The locals are gone; what the review concluded is what it returned. *)
Over(s) ==
  /\ slot' = [slot EXCEPT ![s] = [NewReview("ended") EXCEPT !.cause = slot[s].cause,
                                    !.conclusion = slot[s].conclusion]]
  /\ drafts' = [drafts EXCEPT ![s] = {}]
  /\ UNCHANGED <<facts, transport, spent, owed, issues>>

Report(s) ==
  /\ At(s, "report")
  /\ Over(s)

---------------------------------------------------------------------------
(* Escalation of a stop.  A failed call is swallowed, so it never keeps    *)
(* the next surface from being tried.                                      *)

Issue(s) == [pullRequest |-> facts[s].pullRequest, cause |-> slot[s].cause]

(* Slip: only the newest issue is looked at. *)
FindsNewest(s) == issues # <<>> /\ Head(issues) = Issue(s)
(* By its marker, among the 100 newest open issues with the label *)
Finds(s) == \E i \in DOMAIN issues : i <= 100 /\ issues[i] = Issue(s)

FindIssue(s) ==
  /\ At(s, "find")
  /\ \/ slot' = [slot EXCEPT ![s].pc = "deliver", ![s].found = Finds(s)]
     \/ GoTo(s, "comment")
  /\ UNCHANGED rest

(* Updating an issue leaves it as it is, open or closed by now. *)
DeliverIssue(s) ==
  /\ At(s, "deliver")
  /\ issues' \in {issues} \cup (IF slot[s].found THEN {} ELSE {<<Issue(s)>> \o issues})
  /\ GoTo(s, "comment")
  /\ UNCHANGED <<facts, transport, drafts, spent, owed>>

(* On the pull request, delivered or not: the review is over. *)
Comment(s) ==
  /\ At(s, "comment")
  /\ Over(s)

---------------------------------------------------------------------------
(* A call rejects or the process is killed: what the review had spent and  *)
(* not recorded is gone with it. *)
Dies(s) ==
  /\ s \in Present /\ slot[s].pc \notin {"idle", "ended"}
  /\ owed' = owed - Pending(slot[s])
  /\ slot' = [slot EXCEPT ![s] = NewReview("idle")]
  /\ drafts' = [drafts EXCEPT ![s] = {}]
  /\ UNCHANGED <<facts, transport, spent, issues>>

HumanCloses ==
  /\ \E i \in DOMAIN issues : issues' = RemoveAt(issues, i)
  /\ UNCHANGED <<facts, transport, slot, drafts, spent, owed>>

Next ==
  \/ \E s \in Slots :
       \/ Begin(s) \/ ReadSnapshot(s) \/ CheckPrerequisites(s) \/ ReadHistory(s)
       \/ CheckProgressOf(s) \/ CheckDiff(s) \/ CheckAllowance(s) \/ OpenGate(s)
       \/ Answered(s) \/ DeadlineFires(s) \/ Reconcile(s) \/ Report(s)
       \/ FindIssue(s) \/ DeliverIssue(s) \/ Comment(s) \/ Dies(s)
  \/ HumanCloses

Spec == Init /\ [][Next]_vars
=============================================================================
