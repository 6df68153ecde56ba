------------------------------- MODULE Stops -------------------------------
(***************************************************************************)
(* The conditions a review checks before it spends anything: permissions,  *)
(* branch protection and the credential (review/prerequisites.ts,          *)
(* github/auth.ts, github/branch-protection.ts), the author                *)
(* (review/self-review.ts), progress (review/progress.ts), size            *)
(* (review/rules/reviewable-size.ts), the token budget (ledger/tokens.ts)  *)
(* and the platform's allowance (github/rate-limit.ts).                    *)
(***************************************************************************)
EXTENDS Integers

CONSTANTS
  Required,               \* level needed of each permission: 1 is read, 2 is write
  GateName,               \* MERGE_GATE_CHECK_NAME
  Identity,               \* the slug of the reviewing App
  MaxReviewRounds,        \* settings.maxReviewRounds
  MaxReviewableDiffSize,  \* settings.maxReviewableDiffSize
  TokenBudget,            \* settings.tokenBudget
  PlatformReserve,        \* settings.platformApiReserve
  MaxRateLimitWait,       \* settings.maxRateLimitWaitSeconds
  CharsPerToken,          \* CHARS_PER_TOKEN
  Overhead                \* PROMPT_OVERHEAD_TOKENS and the output ceiling

ASSUME StopsAssumption ==
  /\ {MaxReviewRounds, MaxReviewableDiffSize, TokenBudget, PlatformReserve, MaxRateLimitWait,
      Overhead} \subseteq Nat
  /\ CharsPerToken \in Nat \ {0}

(* Prerequisites *)

MissingPermissions(granted) == {scope \in DOMAIN Required : granted[scope] < Required[scope]}

(* An answer that is neither 200 nor 404 leaves the protection unknown,    *)
(* whatever its message says about the plan or the permission.             *)
ClassifyProtection(response) ==
  CASE response.status = 200 -> [kind |-> "protected", contexts |-> response.contexts]
    [] response.status = 404 -> [kind |-> "unprotected", contexts |-> {}]
    [] response.status = 403 /\ response.message = "upgrade" ->
         [kind |-> "plan-unsupported", contexts |-> {}]
    [] OTHER -> [kind |-> "permission-missing", contexts |-> {}]

IsGateRequired(protection) ==
  protection.kind = "protected" /\ GateName \in protection.contexts

PrerequisitesHold(granted, response, credential) ==
  /\ MissingPermissions(granted) = {}
  /\ credential
  /\ IsGateRequired(ClassifyProtection(response))

(* The author's login with or without the suffix of an App; nobody for an  *)
(* author GitHub does not report.                                          *)
IsSelfAuthored(author) == author.reported /\ author.slug = Identity

(* Progress and size *)

CheckProgress(round, replied) ==
  CASE round > MaxReviewRounds -> "rounds.cap_exceeded"
    [] round <= MaxReviewRounds /\ round > 1 /\ ~ replied -> "progress.no_forward_progress"
    [] OTHER -> "none"

(* Slip: the limit itself is too much. *)
ExceedsFromLimit(changedLines) == changedLines >= MaxReviewableDiffSize
ExceedsReviewable(changedLines) == changedLines > MaxReviewableDiffSize

(* Token budget *)

EstimateReviewTokens(diffLength) ==
  (diffLength + CharsPerToken - 1) \div CharsPerToken + Overhead

(* Slip: what is about to be spent is left out. *)
AllowedBySpent(spent, estimate) == spent <= TokenBudget

(* check, for the actor "review": the reserve is the reviewers' own. *)
Allowed(spent, estimate) == spent + estimate <= TokenBudget

(* Platform allowance *)

Bounded(seconds) == IF seconds > MaxRateLimitWait THEN "escalate" ELSE "wait"

WaitSeconds(signals) ==
  IF signals.retryAfter >= 0 THEN signals.retryAfter
  ELSE IF signals.reset > 0 THEN signals.reset ELSE 0

(* Unreadable signals are no signals, and no signals are no reason to stop. *)
Assess(signals) ==
  CASE ~ signals.readable -> "proceed"
    [] signals.readable /\ signals.retryAfter < 0 /\ signals.remaining > PlatformReserve ->
         "proceed"
    [] OTHER -> Bounded(WaitSeconds(signals))
=============================================================================
