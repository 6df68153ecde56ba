---------------------------- MODULE ReviewRules ----------------------------
(***************************************************************************)
(* The decisions of the review service that are functions of their inputs: *)
(* review/gate.ts, review/reconcile.ts, review/replies.ts,                 *)
(* review/progress.ts, review/round-history.ts and the predicate of        *)
(* daemon.ts that selects a pull request.  The state machines of Review    *)
(* and Daemon are built from them.                                         *)
(*                                                                         *)
(* A finding is its fingerprint, and since a round may raise one more than *)
(* once, what it raises is a function from findings to numbers.  A check   *)
(* run is a record; the round record it carries in its output text is the  *)
(* field "record", whose conclusion time is kept as "seen": how many       *)
(* replies each finding had when the round concluded.  "This reply is      *)
(* newer than that conclusion" is then a comparison of counts.             *)
(***************************************************************************)
EXTENDS Naturals, Sequences

CONSTANTS
  Roles,            \* settings.requiredReviewerRoles
  Findings,         \* the fingerprints the roles can raise
  RoleOf,           \* the role that raises each finding
  Blocking,         \* findings at or above blockingSeverityThreshold
  Anchored,         \* findings whose location the diff carries: they get a thread
  RuleFindings,     \* findings a deterministic rule raises without the model
  MaxReviewRounds   \* settings.maxReviewRounds

ASSUME RulesAssumption ==
  /\ RoleOf \in [Findings -> Roles]
  /\ Blocking \subseteq Findings
  /\ Anchored \subseteq Findings
  /\ RuleFindings \subseteq Findings
  /\ MaxReviewRounds \in Nat \ {0}

Decisions == {"approve", "request-changes", "missing"}
FindingsOf(role) == {f \in Findings : RoleOf[f] = role}

---------------------------------------------------------------------------
(* Round records and check runs *)

RoundRecord == [round : Nat, open : SUBSET Findings, seen : [Findings -> Nat]]

(* No record: the first round's number is one more than this one's. *)
NoRecord == [round |-> 0, open |-> {}, seen |-> [f \in Findings |-> 0]]

CheckRun == [status : {"in_progress", "completed"},
             conclusion : {"none", "success", "failure"},
             record : RoundRecord]

InProgress == [status |-> "in_progress", conclusion |-> "none", record |-> NoRecord]

(* Slip: the oldest run of a revision is taken for the newest. *)
BaselineOldest(runsOfRevision) ==
  IF runsOfRevision = <<>> THEN NoRecord ELSE runsOfRevision[1].record

(* Both readers take the gate run GitHub reports for a revision: the newest *)
(* of that name.  A run without a record is no baseline.                    *)
Baseline(runsOfRevision) ==
  IF runsOfRevision = <<>> THEN NoRecord
  ELSE runsOfRevision[Len(runsOfRevision)].record

NextRoundNumber(base) == base.round + 1

---------------------------------------------------------------------------
(* Selection and progress *)

(* Slip: the reply the last round had already read counts as new. *)
RepliedAtOrSince(record, replies) == \E f \in record.open : replies[f] >= record.seen[f]

(* The comparison both the selection and the progress check make: has a    *)
(* finding the round left open and blocking drawn a reply newer than the   *)
(* round's conclusion?                                                     *)
RepliedSince(record, replies) == \E f \in record.open : replies[f] > record.seen[f]

(* Slip: clause (a) alone. *)
SelectedByRevisionOnly(runsOfRevision, replies) == runsOfRevision = <<>>

(* decideReview: clause (a), no gate run for this revision; clause (b), a  *)
(* concluded failure whose open blocking findings drew a reply since.      *)
Selected(runsOfRevision, replies) ==
  \/ runsOfRevision = <<>>
  \/ LET run == runsOfRevision[Len(runsOfRevision)] IN
       /\ run.status = "completed"
       /\ run.conclusion = "failure"
       /\ run.record # NoRecord
       /\ RepliedSince(run.record, replies)

(* Slip: one round too many. *)
RoundCapReachedLate(base) == NextRoundNumber(base) > MaxReviewRounds + 1
RoundCapExceeded(base) == NextRoundNumber(base) > MaxReviewRounds

(* Slip: a round that left nothing open has nothing to stall on. *)
StalledOnOpenFindings(base, replies) == base.open # {} /\ ~ RepliedSince(base, replies)

(* The baseline is read from the runs of the very revision under review,   *)
(* so "the revision changed" never holds and only a reply is progress.     *)
NoForwardProgress(base, replies) == base # NoRecord /\ ~ RepliedSince(base, replies)

---------------------------------------------------------------------------
(* Findings of one round *)

(* What a role hands back: whatever the model raised, or, when the model   *)
(* call failed, only what the role's rules had raised before it.           *)
RoleMayRaise(decision, fs, role) ==
  decision[role] = "missing" => fs \cap FindingsOf(role) \subseteq RuleFindings

(* judgeReplies: an accepted justification of a raised, blocking finding   *)
(* turns it into a waiver request.                                         *)
WaiversRaised(raised, accepted) == raised \cap Blocking \cap accepted

(* The threads of a finding that nobody has resolved.  Only an anchored     *)
(* finding has threads, one for each time it was posted.                   *)
OpenThreads(prior, f) == IF f \in Anchored THEN (1..prior[f].posted) \ prior[f].resolved ELSE {}

(* Slip: a thread somebody answered is left to the author. *)
ToResolveUnanswered(prior, raised) ==
  [f \in Findings |->
     IF f \in raised \/ prior[f].replies > 0 THEN {} ELSE OpenThreads(prior, f)]

(* Slip: a resolved thread does not count as raised already. *)
ToPostUnlessOpen(prior, copies) ==
  [f \in Findings |-> IF OpenThreads(prior, f) = {} THEN copies[f] ELSE 0]

(* reconcile: the open threads of ours whose finding this round did not    *)
(* raise, and the findings no thread of ours carries, resolved or not.  It *)
(* compares with what was read and never within the round: a finding that  *)
(* was raised more than once is posted as often.                           *)
ToResolve(prior, raised) ==
  [f \in Findings |-> IF f \in raised THEN {} ELSE OpenThreads(prior, f)]

ToPost(prior, copies) ==
  [f \in Findings |-> IF f \in Anchored /\ prior[f].posted > 0 THEN 0 ELSE copies[f]]

---------------------------------------------------------------------------
(* The gate *)

Standing(raised, waived) == (raised \cap Blocking) \ waived

(* Slip: a missing verdict is a neutral gate. *)
AggregateNeutral(outcomes, raised, waived, revision) ==
  IF \E r \in Roles : outcomes[r].decision = "missing" THEN "neutral" ELSE "failure"

(* aggregate: success when every required role approved this revision, no  *)
(* blocking finding stands and no waiver request is outstanding.           *)
Aggregate(outcomes, raised, waived, revision) ==
  IF /\ \A r \in Roles : outcomes[r] = [decision |-> "approve", revision |-> revision]
     /\ Standing(raised, waived) = {}
     /\ waived = {}
  THEN "success" ELSE "failure"
=============================================================================
