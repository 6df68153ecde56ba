SPECIFICATION Spec
CONSTANTS
  PullRequests = {"p"}
  Revisions = {"a", "b"}
  Findings = {"s"}
  RoleOf <- OneRole
  Roles = {"security", "implementation"}
  RoleOrder <- OrderTwo
  Blocking = {"s"}
  Anchored = {"s"}
  RuleFindings = {}
  MaxReviewRounds = 2
  MaxReplies = 1
  Workers = {"w"}
  Obstacles = {}
  Deliveries = {TRUE}
  MaxCopies = 2
  Capacity = 1
  OtherSlots = 1
  FaultBound <- OneCrashOneFailure
  None = "none"
INVARIANTS
  TypeOK
  RoundsAreCountedAndCapped
  EveryFurtherRoundHasAReply
  InProgressMeansReviewed
PROPERTIES
  PassIsEarned
  RaisedThreadsStayOpen
  NothingIsReposted
  ConcludedRunsAreFinal
  ImplementsMergeGate
