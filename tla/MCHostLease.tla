---------------------------- MODULE MCHostLease ----------------------------
(* Instances of HostLease for TLC. *)
EXTENDS HostLease

(* A daemon with two workers beside another agent. *)
DaemonAndOne == [a \in {"v", "w", "x"} |-> IF a = "x" THEN "agent" ELSE "daemon"]

(* Two agents, each a process of its own. *)
TwoProcesses == [a \in {"x", "y"} |-> IF a = "x" THEN "agent1" ELSE "agent2"]
=============================================================================
