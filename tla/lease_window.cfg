\* When every process has died the system has stopped.
SPECIFICATION Spec
CONSTANTS
  Agents = {"x", "y"}
  Processes = {"agent1", "agent2"}
  ProcessOf <- TwoProcesses
  Capacity = 1
  Free = "free"
INVARIANT ExclusiveWithoutCrash
CHECK_DEADLOCK FALSE
