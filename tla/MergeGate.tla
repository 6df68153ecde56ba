------------------------------ MODULE MergeGate ------------------------------
(***************************************************************************)
(* What the service promises of its one output, the merge gate: per        *)
(* revision of a pull request the check run named independent-review that  *)
(* branch protection requires (github/check-run.ts).  A verdict is given   *)
(* only on a gate that was opened first, a failed gate may be opened       *)
(* again, and a gate that passed stays passed: no later round, failure or  *)
(* restart takes back what a merge may already have relied on.             *)
(***************************************************************************)
CONSTANTS PullRequests, Revisions

VARIABLE gate       \* gate[pr][rev]: what branch protection sees

GateStatus == {"unreported", "pending", "success", "failure"}

Init == gate = [pr \in PullRequests |-> [rev \in Revisions |-> "unreported"]]

(* openGate: a run in progress hides the failure before it. *)
Open(pr, rev) ==
  /\ gate[pr][rev] \in {"unreported", "failure"}
  /\ gate' = [gate EXCEPT ![pr][rev] = "pending"]

(* reportGate *)
Conclude(pr, rev, verdict) ==
  /\ gate[pr][rev] = "pending"
  /\ gate' = [gate EXCEPT ![pr][rev] = verdict]

Next ==
  \E pr \in PullRequests, rev \in Revisions :
    \/ Open(pr, rev)
    \/ \E verdict \in {"success", "failure"} : Conclude(pr, rev, verdict)

Spec == Init /\ [][Next]_gate
=============================================================================
