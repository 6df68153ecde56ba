\* When every process has died the system has stopped.
SPECIFICATION FairSpec
CONSTANTS
  Agents = {"v", "w", "x"}
  Processes = {"daemon", "agent"}
  ProcessOf <- DaemonAndOne
  Capacity = 2
  Free = "free"
INVARIANTS
  TypeOK
  ExclusiveUnlessStolen
  CapHeldUnlessStolen
PROPERTY NoSlotIsLost
CHECK_DEADLOCK FALSE
