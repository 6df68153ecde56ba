---------------------------- MODULE FindingRules ----------------------------
(***************************************************************************)
(* How findings come about: what the model proposes and where it is placed *)
(* (model/anthropic.ts, composition.ts), what the deterministic rules      *)
(* raise (review/rules/*.ts, review/roles/implementation.ts), what makes a *)
(* finding block, and what makes two findings the same                     *)
(* (review/findings.ts).                                                   *)
(***************************************************************************)
EXTENDS Diffs

CONSTANTS
  Usable,               \* the paths isUsablePath accepts
  TestPaths, DocPaths, SpecPaths,
  CommentedOut,         \* line contents that are a comment reading as code
  MaxPullRequestSize,   \* settings.maxPullRequestSize
  Threshold             \* settings.blockingSeverityThreshold

ASSUME FindingRulesAssumption ==
  /\ MaxPullRequestSize \in Nat
  /\ Threshold \in {"critical", "high", "medium", "low"}

---------------------------------------------------------------------------
(* findings.ts *)

SeverityOrder == [low |-> 1, medium |-> 2, high |-> 3, critical |-> 4]
IsBlocking(severity) == SeverityOrder[severity] >= SeverityOrder[Threshold]

(* A draft may state whether it blocks; "derived" is a draft that does not. *)
Draft(role, rule, severity, blocking, location, description) ==
  [role |-> role, rule |-> rule, severity |-> severity, blocking |-> blocking,
   location |-> location, description |-> description]

(* The line is left out, the resolved path is not. *)
Fingerprint(draft) == <<draft.role, draft.rule, draft.location.path, draft.description>>

CreateFinding(draft) ==
  [id |-> Fingerprint(draft), role |-> draft.role, location |-> draft.location,
   blocking |-> CASE draft.blocking = "yes" -> TRUE
                  [] draft.blocking = "no" -> FALSE
                  [] draft.blocking = "derived" -> IsBlocking(draft.severity)]

---------------------------------------------------------------------------
(* anthropic.ts: the location of a proposal as it comes over the wire *)

NormalizeLocation(wire) ==
  IF wire.path \notin Usable \/ wire.line < 1 THEN PullRequestLevel ELSE wire

---------------------------------------------------------------------------
(* The deterministic rules.  None reads the model's answer. *)

RuleDraft(rule, blocking, location, description) ==
  Draft("implementation", rule, "high", blocking, location, description)

IsBehaviorPath(path) == path \notin TestPaths \cup DocPaths \cup SpecPaths

(* Slip: a spec passes for a document. *)
CheckDocumentationOrSpec(changed, excluded) ==
  LET considered == changed \ excluded
  IN IF /\ \E path \in considered : IsBehaviorPath(path)
        /\ considered \cap TestPaths = {} \/ considered \cap (DocPaths \cup SpecPaths) = {}
     THEN {RuleDraft("missing", "derived", PullRequestLevel, "missing")} ELSE {}

CheckDocumentation(changed, excluded) ==
  LET considered == changed \ excluded
      missing == {rule \in {"missing-tests", "missing-or-stale-document"} :
                    considered \cap (IF rule = "missing-tests" THEN TestPaths ELSE DocPaths) = {}}
  IN IF \E path \in considered : IsBehaviorPath(path)
     THEN {RuleDraft(rule, "derived", PullRequestLevel, rule) : rule \in missing}
     ELSE {}

(* A scan of its own: it takes a deletion's post-image for the path, and   *)
(* counts only the lines of the post-image.                                *)
DeadScan == [path |-> NoPath, right |-> 0, seen |-> {}]

DeadLine(scan, line) ==
  CASE NewFile(line) -> [scan EXCEPT !.path = line.names]
    [] line.mark \in {"header", "-"} -> scan
    [] line.mark = "hunk" -> [scan EXCEPT !.right = line.right]
    [] OTHER ->
         [scan EXCEPT !.right = @ + 1,
                      !.seen = IF line.mark = "+" /\ line.words \in CommentedOut
                               THEN @ \cup {[path |-> scan.path, line |-> scan.right,
                                             detail |-> line.words]}
                               ELSE @]

(* Slip: a removed line moves this scan on as well. *)
DetectInStep(diff) ==
  FoldLeft(LAMBDA scan, line : IF line.mark = "-" THEN [scan EXCEPT !.right = @ + 1]
                               ELSE DeadLine(scan, line), DeadScan, diff).seen

DetectCommentedOutCode(diff) == FoldLeft(DeadLine, DeadScan, diff).seen

CheckMinimality(observations, excluded) ==
  {RuleDraft("minimality:dead-code", "yes", [path |-> o.path, line |-> o.line, side |-> "RIGHT"],
             <<o.path, o.detail>>) :
     o \in {p \in observations : p.path \notin excluded}}

CheckPullRequestSize(index, excluded, justified) ==
  IF ChangedLineCount(index, excluded) <= MaxPullRequestSize \/ justified THEN {}
  ELSE {RuleDraft("pull-request-size", "yes", PullRequestLevel, "pull-request-size")}

ApplyRules(diff, excluded, justified) ==
  CheckDocumentation(ChangedPaths(IndexDiff(diff)), excluded)
    \cup CheckMinimality(DetectCommentedOutCode(diff), excluded)
    \cup CheckPullRequestSize(IndexDiff(diff), excluded, justified)

(* Every draft of a round, placed on the diff. *)
Raise(drafts, index, excluded) ==
  {CreateFinding([d EXCEPT !.location = ResolveLocation(index, @, excluded)]) : d \in drafts}

---------------------------------------------------------------------------
(* gate.ts: aggregate, in a round without waivers *)

Verdict(stated, findings) ==
  IF (\A role \in DOMAIN stated : stated[role] = "approve") /\ (\A f \in findings : ~ f.blocking)
  THEN "success" ELSE "failure"
=============================================================================
