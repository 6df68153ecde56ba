--------------------------- MODULE ReviewMachine ---------------------------
(***************************************************************************)
(* The statechart of a review as review/machine.ts declares it: the order  *)
(* in which a review checks what may stop it, and where each stop leads.   *)
(* Only tests and the diagram run the declaration; what a review does is   *)
(* in module Service, which is shown to follow it.                         *)
(*                                                                         *)
(* findings[r] holds what review r has established; a field that is not in *)
(* its domain has not been checked.  A check establishes its findings and  *)
(* then takes the first branch whose guard they satisfy.                   *)
(***************************************************************************)
EXTENDS Integers

CONSTANTS Reviews, MaxReviewRounds, MaxReviewableDiffSize, MaxRateLimitWait

VARIABLES state, findings

machineVars == <<state, findings>>

ReviewStates ==
  {"resolvingSettings", "checkingPrerequisites", "checkingIdentity", "checkingProgress",
   "checkingSize", "checkingBudgets", "reviewing", "reconciling", "reportingGate", "done",
   "failingGate", "escalating", "waitingForReset", "halted"}

---------------------------------------------------------------------------
(* Guards *)

Reported(found, field) == field \in DOMAIN found /\ found[field] = TRUE
Denied(found, field) == field \in DOMAIN found /\ found[field] = FALSE
Exceeds(found, field, limit) == field \in DOMAIN found /\ found[field] > limit

SettingsInvalid(found) == Reported(found, "settingsInvalid")
PermissionsMissing(found) ==
  "missingPermissions" \in DOMAIN found /\ found.missingPermissions # {}
(* Protection that was not verified is no pass. *)
GateNotRequired(found) == ~ Reported(found, "gateRequiredByBranchProtection")
SelfAuthored(found) == Reported(found, "selfAuthored")
RoundCapExceeded(found) == Exceeds(found, "roundNumber", MaxReviewRounds)
NoForwardProgress(found) == Denied(found, "forwardProgress")
DiffEmpty(found) == Reported(found, "diffIsEmpty")
DiffExceedsReviewableSize(found) == Exceeds(found, "changedLines", MaxReviewableDiffSize)
TokenBudgetExhausted(found) == Denied(found, "tokenBudgetSufficient")
RateLimitWaitExceeded(found) == Exceeds(found, "rateLimitWaitSeconds", MaxRateLimitWait)
PlatformReserveReached(found) == Reported(found, "platformReserveReached")

---------------------------------------------------------------------------
(* Transitions *)

(* A check of review r: the first guard that holds decides. *)
Checked(r, from, stops, stopped, forward) ==
  /\ state[r] = from
  /\ state' = [state EXCEPT ![r] = IF stops THEN stopped ELSE forward]

Check(r) ==
  LET found == findings'[r] IN
  \/ Checked(r, "resolvingSettings", SettingsInvalid(found),
             "failingGate", "checkingPrerequisites")
  \/ Checked(r, "checkingPrerequisites", PermissionsMissing(found) \/ GateNotRequired(found),
             "failingGate", "checkingIdentity")
  \/ Checked(r, "checkingIdentity", SelfAuthored(found),
             "escalating", "checkingProgress")
  \/ Checked(r, "checkingProgress", RoundCapExceeded(found) \/ NoForwardProgress(found),
             "escalating", "checkingSize")
  \/ Checked(r, "checkingSize", DiffEmpty(found) \/ DiffExceedsReviewableSize(found),
             "failingGate", "checkingBudgets")
  \/ Checked(r, "checkingBudgets",
             TokenBudgetExhausted(found) \/ RateLimitWaitExceeded(found), "escalating",
             IF PlatformReserveReached(found) THEN "waitingForReset" ELSE "reviewing")

(* Transitions without a guard: resume, complete, reconcile, report, escalate *)
Forward == [waitingForReset |-> "checkingBudgets", reviewing |-> "reconciling",
            reconciling |-> "reportingGate", reportingGate |-> "done",
            failingGate |-> "escalating", escalating |-> "halted"]

Advance(r) ==
  /\ state[r] \in DOMAIN Forward
  /\ state' = [state EXCEPT ![r] = Forward[state[r]]]

(* ERROR, from every state *)
Error(r) == state' = [state EXCEPT ![r] = "failingGate"]

(* Another run, which starts where every run does *)
NewRun(r) == state' = [state EXCEPT ![r] = "resolvingSettings"]

Others(r) == \A q \in Reviews \ {r} : findings'[q] = findings[q]

Init == state = [r \in Reviews |-> "resolvingSettings"]

Step(r) == Others(r) /\ (Check(r) \/ Advance(r) \/ NewRun(r))

Next == \E r \in Reviews : Step(r) \/ (Others(r) /\ Error(r))

Spec == Init /\ [][Next]_machineVars

(* Without ERROR every stop is one that a guard allows. *)
UnfailingSpec == Init /\ [][\E r \in Reviews : Step(r)]_machineVars
=============================================================================
