SPECIFICATION Spec
CONSTANTS
  Declared = {"gen/a"}
  Usable = {"src/a", "src/b", "gen/a"}
  TestPaths = {"test/a"}
  DocPaths = {"docs/a"}
  SpecPaths = {"specs/a"}
  CommentedOut = {"//call()"}
  MaxPullRequestSize = 5
  Threshold = "high"
  Required <- Needed
  GateName = "independent-review"
  Identity = "reviewer"
  MaxReviewRounds = 2
  MaxReviewableDiffSize = 6
  TokenBudget = 16
  PlatformReserve = 3
  MaxRateLimitWait = 5
  CharsPerToken = 4
  Overhead = 2
  MaxAttempts = 2
  Floor = 1
  MaxUsage = 2
  Slots = {"daemon", "cli"}
  RoleOrder <- TwoRoles
  Scenes <- SpendingScenes
  Transports = {"agent-sdk", "api"}
  Streams <- AllStreams
INVARIANTS
  TypeOK
  TokensAreAccountedFor
  BudgetHeldUpToReviewsUnderWay
  PassesAreMetered
  IssuesAreNotRepeated
  AnchoredExactlyWhereLegible
  PassesObeyTheRules
  DeadCodeIsReported
PROPERTIES
  ImplementsReviewMachine
