SPECIFICATION RunsSpec
CONSTANTS
  Runs = {r1, r2}
  NoRun = NoRun
  First = r1
  Mortal = {r1}
  Cut = {r1}
  Editing = TRUE
  Patient = TRUE
  Hand = "hand"
  NoTree = NoTree
  Steps = {"s1", "c", "s2"}
  StepList <- Forked
  Needs <- Fork
  AgentSteps <- Agents
  Concurrency = 1
  FailFast = TRUE
  Publishing = TRUE
  Cleanup = "after-publish"
  Indexed = TRUE
  TelemetryFails = TRUE
  r1 = r1
  r2 = r2
  r3 = r3
  Deliveries = {"d", "e"}
  Issues = {1}
  IssueOf <- OneIssue
  IssueFailFast = FALSE
  IssuePublishing = TRUE
  AwaitPipeline = TRUE
  PublishOnConflict = FALSE
  MaxSends = 2
  MaxMishaps = 1
  Names = {"lead", "coder"}
  Entrances = {"lead"}
  Subagents <- Mutual
  MaxDepth = 3
  StrictSpans = TRUE
  Dates = {1}
  Window = {1}
  MaxInvocations = 3
  MaxFailures = 2
  WorkflowFiles <- AllKinds
  Commands = {"test", "lint"}
  ProjectAgents = {"a", "b", "r"}
  ProviderOf <- TwoProviders
  MaxTiers = 3
  MaxVerifiers = 2
  Procs = {"p", "q"}
  MaxTokens = 1
  MaxAsked <- FewAsked
  RotateAt = 1
  MaxTime = 2
INVARIANTS
  WellTyped
  ReceiptsTell
  KnownGrounds
  DeliveriesHold
  PassedIsVerified
  CostsAreCounted
PROPERTIES
  NothingLost
CHECK_DEADLOCK FALSE
