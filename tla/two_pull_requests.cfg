SPECIFICATION Spec
CONSTANTS
  PullRequests = {"p", "q"}
  Revisions = {"a"}
  Findings = {"s", "i"}
  RoleOf <- TwoRoles
  Roles = {"security", "implementation"}
  RoleOrder <- OrderTwo
  Blocking = {"s"}
  Anchored = {"s", "i"}
  RuleFindings = {}
  MaxReviewRounds = 1
  MaxReplies = 1
  Workers = {"v", "w"}
  Obstacles = {}
  Deliveries = {TRUE}
  MaxCopies = 1
  Capacity = 2
  OtherSlots = 1
  FaultBound <- OneFailure
  None = "none"
INVARIANTS
  OneReviewPerPullRequest
