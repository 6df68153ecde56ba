------------------------------ MODULE MCDaemon ------------------------------
(* Instances of Daemon for TLC: the values a cfg cannot write. *)
EXTENDS DaemonProperties

OneRole == [f \in {"s"} |-> "security"]
TwoRoles == [f \in {"s", "i"} |-> IF f = "s" THEN "security" ELSE "implementation"]
OrderOne == <<"security">>
OrderTwo == <<"security", "implementation">>

NoFaults == [k \in FaultKinds |-> 0]
OneObstacle == [k \in FaultKinds |-> IF k = "obstacle" THEN 1 ELSE 0]
TwoObstacles == [k \in FaultKinds |-> IF k = "obstacle" THEN 2 ELSE 0]
OneCrash == [k \in FaultKinds |-> IF k = "crash" THEN 1 ELSE 0]
OneFailure == [k \in FaultKinds |-> IF k = "failure" THEN 1 ELSE 0]
OneCrashOneFailure == [k \in FaultKinds |-> IF k = "obstacle" THEN 0 ELSE 1]
=============================================================================
