SPECIFICATION FairSpec
CONSTANTS
  PullRequests = {"p"}
  Revisions = {"a", "b"}
  Findings = {"s"}
  RoleOf <- OneRole
  Roles = {"security"}
  RoleOrder <- OrderOne
  Blocking = {"s"}
  Anchored = {"s"}
  RuleFindings = {}
  MaxReviewRounds = 2
  MaxReplies = 2
  Workers = {"w"}
  Obstacles = {"platform.reserve", "diff.empty", "prerequisites.missing"}
  Deliveries = {TRUE}
  MaxCopies = 1
  Capacity = 2
  OtherSlots = 1
  FaultBound <- TwoObstacles
  None = "none"
INVARIANT RoundsAreCountedAndCapped
PROPERTIES
  EveryHeadIsJudged
  LateReplyIsAnswered
