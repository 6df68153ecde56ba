------------------------- MODULE ServiceProperties -------------------------
(***************************************************************************)
(* What the composed service must satisfy, stated over module Service.     *)
(***************************************************************************)
EXTENDS Service

CONSTANT MaxUsage   \* bound: tokens one ask may cost

ASSUME MaxUsageAssumption ==
  /\ MaxUsage \in Nat /\ Floor <= MaxUsage
  /\ \A stream \in Streams : stream.usage <= MaxUsage

Calls == [attempt : 1..MaxAttempts, aborted : BOOLEAN, spent : Nat]
Reviews == [pc : Steps, cause : Causes,
            conclusion : {"none", "success", "failure", "unreported"}, found : BOOLEAN,
            call : Calls, tokens : Nat,
            stated : Seq({"approve", "request-changes", "missing"})]

(* Types; an ask never has an attempt beyond the last, and no role answers *)
(* twice.                                                                  *)
TypeOK ==
  /\ facts \in Scenes /\ transport \in Transports
  /\ slot \in [Slots -> Reviews]
  /\ \A s \in Slots : Len(slot[s].stated) <= Len(RoleOrder)
  /\ DOMAIN drafts = Slots
  /\ spent \in Nat /\ owed \in Int

---------------------------------------------------------------------------
(* The statechart *)

(* Where review/machine.ts is when a review is at a step.  A stop is first *)
(* in the state its guard leads to, or, when the check was made ahead of   *)
(* its turn, in the state whose guard it is.                               *)
StoppedIn == [cause \in Causes |->
  CASE cause \in {"prerequisites.missing", "diff.empty", "size.exceeds_reviewable"} ->
         "failingGate"
    [] cause = "identity.self_authored" -> "checkingIdentity"
    [] cause = "budget.exhausted" -> "checkingBudgets"
    [] OTHER -> "escalating"]

StateOf(review) ==
  CASE review.conclusion = "unreported" -> "waitingForReset"
    [] review.conclusion # "unreported" /\ review.pc = "ended" ->
         IF review.cause = "none" THEN "done" ELSE "halted"
    [] review.conclusion # "unreported" /\ review.pc = "find" -> StoppedIn[review.cause]
    [] OTHER ->
         [idle |-> "resolvingSettings", snapshot |-> "resolvingSettings",
          prerequisites |-> "checkingPrerequisites", history |-> "checkingIdentity",
          threads |-> "checkingProgress", diff |-> "checkingSize",
          allowance |-> "checkingBudgets", open |-> "reviewing", roles |-> "reviewing",
          reconcile |-> "reconciling", report |-> "reportingGate",
          deliver |-> "escalating", comment |-> "escalating"][review.pc]

(* What the review has established.  A missing credential has no guard of  *)
(* its own in the statechart; it counts as a missing permission here.      *)
FindingsOf(f, cause) ==
  LET held == f.signals.readable /\ f.signals.remaining <= PlatformReserve
  IN [missingPermissions |-> MissingPermissions(f.granted)
                               \cup IF f.credential THEN {} ELSE {"model credential"},
      gateRequiredByBranchProtection |-> f.response.status = 200
                                           /\ GateName \in f.response.contexts,
      selfAuthored |-> IsSelfAuthored(f.author),
      roundNumber |-> f.round,
      forwardProgress |-> f.round = 1 \/ f.replied,
      diffIsEmpty |-> ~ Readings[f.change].substantive,
      changedLines |-> Readings[f.change].changedLines,
      tokenBudgetSufficient |-> cause # "budget.exhausted",
      platformReserveReached |-> held,
      rateLimitWaitSeconds |-> IF held THEN f.signals.reset ELSE 0]

Machine == INSTANCE ReviewMachine WITH
  Reviews <- Slots,
  state <- [s \in Slots |-> StateOf(slot[s])],
  findings <- [s \in Slots |->
                 IF s \in Present THEN FindingsOf(facts[s], slot[s].cause) ELSE <<>>]

(* A review makes its checks in the order the statechart declares and      *)
(* stops exactly when a guard of the statechart holds: no path reaches the *)
(* roles around a check, and none stops at a limit that was not exceeded   *)
(* (composition.ts, reviewPullRequest: "The order of the checks is not     *)
(* this function's to choose: it is the statechart in review/machine.ts"). *)
ImplementsReviewMachine == Machine!UnfailingSpec

---------------------------------------------------------------------------
(* Tokens *)

(* Every token an ask cost is in the ledger or still owed by the review    *)
(* that asked, through schema retries, deadlines, unmetered answers and    *)
(* missing verdicts, unless the process died with them (agent-sdk.ts,      *)
(* review, and composition.ts, which records once, after the last role).   *)
TokensAreAccountedFor ==
  spent + MapThenSumSet(LAMBDA s : Pending(slot[s]), Slots) = owed

(* What one review can cost at most. *)
MaxCost == Len(RoleOrder) * MaxAttempts * MaxUsage

(* The budget is checked before and recorded after, so reviews in several  *)
(* processes may together overspend it, but only by what one review of     *)
(* each can cost on top of a check that left room for its reservation:     *)
(* retries and later reviews do not add up (ledger/tokens.ts, check).      *)
BudgetHeldUpToReviewsUnderWay ==
  spent > 0 => \E s \in Present :
    spent + Reservation(s) <= TokenBudget + Cardinality(Present) * MaxCost

(* Over the harness, a review that passes has cost something for each of   *)
(* its roles: an answer whose usage was not counted gives no verdict       *)
(* (agent-sdk.ts, #ask).                                                   *)
PassesAreMetered ==
  \A s \in Present :
    transport = "agent-sdk" /\ slot[s].conclusion = "success" /\ slot[s].pc # "ended"
      => slot[s].tokens >= Len(RoleOrder)

---------------------------------------------------------------------------
(* Escalation *)

(* One cause on one pull request has as many open issues as there are      *)
(* processes that may have looked for it at the same time, however often   *)
(* it recurs and whatever people close meanwhile (escalate.ts: "so a       *)
(* recurrence updates rather than duplicates").                            *)
IssuesAreNotRepeated ==
  \A issue \in ToSet(issues) :
    Cardinality({i \in DOMAIN issues : issues[i] = issue}) <= Cardinality(Present)

---------------------------------------------------------------------------
(* Findings *)

TrulyChanged(change, location) ==
  \E k \in DOMAIN change : \E i \in DOMAIN change[k].lines :
    /\ location.path = PathOf(change[k]) /\ location.path \notin Declared
    /\ ~ change[k].binary
    /\ change[k].lines[i].mark = ChangeMark(location.side)
    /\ location.line = LineNumber(change[k], i, location.side)

AnchoredExactly(s, draft) ==
  LET kept == \E f \in Raised(s) : f.role = draft.role /\ f.location = draft.location
  IN kept <=> TrulyChanged(facts[s].change, draft.location)

(* A finding is anchored to a line exactly when the pull request changes   *)
(* that line of that image, and otherwise kept at pull-request level: it   *)
(* is neither demoted although its line was changed, nor sent to a line    *)
(* the platform would refuse (locations.ts: "GitHub accepts a              *)
(* line-anchored review comment only for a line the diff actually          *)
(* touches", and a finding about anything else goes to pull request level).*)
AnchoredExactlyWhereTheDiffHasIt ==
  \A s \in Present : \A draft \in drafts[s] :
    draft.location # PullRequestLevel => AnchoredExactly(s, draft)

(* An image of an edit is legible to the scans if none of its changed      *)
(* lines reads as a file header or comes after git's remark on a missing   *)
(* newline.  An added line that reads as a header moves the rest of the    *)
(* edit to another file, whatever image one looks at.                      *)
Legible(edit, side) ==
  \A i \in DOMAIN edit.lines : edit.lines[i].mark = ChangeMark(side) =>
    /\ edit.lines[i].names = NoPath
    /\ \A j \in 1..(i - 1) : edit.lines[j].mark # "note"

FilesLegible(change) ==
  \A k \in DOMAIN change : \A i \in DOMAIN change[k].lines : ~ NewFile(change[k].lines[i])

(* The anchoring is exact for every image that is legible, whatever the    *)
(* other image of the file and the other files are like: removed lines     *)
(* that pass for headers spoil the pre-image of their file only            *)
(* (locations.ts, indexDiff and resolveLocation).                          *)
AnchoredExactlyWhereLegible ==
  \A s \in Present : FilesLegible(facts[s].change) =>
    \A draft \in drafts[s] :
      /\ draft.location # PullRequestLevel
      /\ \A k \in DOMAIN facts[s].change :
           PathOf(facts[s].change[k]) = draft.location.path
             => Legible(facts[s].change[k], draft.location.side)
      => AnchoredExactly(s, draft)

(* What a review passes obeys the rules that no model can talk it out of:  *)
(* within the size cap unless justified, with tests and documents for a    *)
(* change of behaviour, counted on the change itself and not on the        *)
(* service's reading of its diff, but for the removed lines that read as   *)
(* headers, which the size leaves out (review/rules/size.ts, docs.ts).     *)
PassesObeyTheRules ==
  \A s \in Present : slot[s].conclusion = "success" /\ FilesLegible(facts[s].change) =>
    LET change == facts[s].change
        counted == {k \in DOMAIN change :
                      ~ change[k].binary /\ PathOf(change[k]) \notin Declared}
        paths == {PathOf(change[k]) : k \in counted}
        size == MapThenSumSet(LAMBDA k : Cardinality({i \in DOMAIN change[k].lines :
                                            /\ change[k].lines[i].mark \in {"+", "-"}
                                            /\ ~ OldFile(change[k].lines[i])}), counted)
    IN /\ size <= MaxReviewableDiffSize
       /\ size <= MaxPullRequestSize \/ facts[s].justified
       /\ IsBlocking("high") /\ (\E path \in paths : IsBehaviorPath(path))
            => paths \cap TestPaths # {} /\ paths \cap DocPaths # {}

(* Once the implementation role has spoken, whatever its model said, every *)
(* added line of a counted file that is a comment reading as code has a    *)
(* finding that blocks, at that very line, if the post-image is legible.   *)
(* The rule finds the lines in a scan of its own, whose paths and numbers  *)
(* must be those of the index that places the findings (minimality.ts,     *)
(* detectCommentedOutCode, and locations.ts, indexDiff).                   *)
DeadCodeIsReported ==
  \A s \in Present :
    /\ slot[s].pc \in {"roles", "reconcile", "report"}
    /\ \E i \in DOMAIN slot[s].stated : RoleOrder[i] = "implementation"
    /\ FilesLegible(facts[s].change)
    => LET change == facts[s].change
           blocking == {f \in Raised(s) : f.blocking /\ f.role = "implementation"}
       IN \A k \in DOMAIN change : \A i \in DOMAIN change[k].lines :
            /\ ~ change[k].binary /\ PathOf(change[k]) \notin Declared
            /\ Legible(change[k], "RIGHT")
            /\ change[k].lines[i].mark = "+" /\ change[k].lines[i].words \in CommentedOut
            => [path |-> PathOf(change[k]), line |-> LineNumber(change[k], i, "RIGHT"),
                side |-> "RIGHT"] \in {f.location : f \in blocking}
=============================================================================
