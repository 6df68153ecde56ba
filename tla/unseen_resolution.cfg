SPECIFICATION Spec
CONSTANTS
  PullRequests = {"p"}
  Revisions = {"a", "b"}
  Findings = {"s"}
  RoleOf <- OneRole
  Roles = {"security"}
  RoleOrder <- OrderOne
  Blocking = {"s"}
  Anchored = {"s"}
  RuleFindings = {}
  MaxReviewRounds = 2
  MaxReplies = 1
  Workers = {"w"}
  Obstacles = {}
  Deliveries = {TRUE}
  MaxCopies = 1
  Capacity = 1
  OtherSlots = 0
  FaultBound <- NoFaults
  None = "none"
PROPERTY ResolvesOnlyWhatItSawFixed
