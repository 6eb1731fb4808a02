SPECIFICATION ProgressSpec
CONSTANTS
  Jobs = {"j1"}
  Workers = {"w1", "w2"}
  Mortal = {"w1"}
  Operators = {"o1"}
  NoOwner = "nobody"
  NoJob = "no job"
  MaxAttempts = 2
  None = None
  NoTree = NoTree
  Agents = {"a", "b"}
  Route = {1, 2}
  MaxCalls = 2
  MaxTries = 2
  MaxRounds = 2
  Limit = 3
  MaxIds = 4
  Hosted = {1, 2}
  HostCalls = {"c", "d"}
  MaxPending = 2
INVARIANTS
  WellTyped
  SoleExecution
  CheckpointTruthful
  CallsAreCounted
  AnswersReachTheirCallers
PROPERTIES
  NoSilentReplay
  CancelHonoured
  WorkEnds
CHECK_DEADLOCK FALSE
