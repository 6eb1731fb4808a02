SPECIFICATION ProgressSpec
CONSTANTS
  Jobs = {"j1"}
  Workers = {"w1", "w2"}
  Mortal = {"w1"}
  Operators = {"o1"}
  NoOwner = "nobody"
  NoJob = "no job"
  MaxAttempts = 2
  None = None
  NoTree = NoTree
  Agents = {"a"}
  Route = {1, 2, 3}
  MaxCalls = 3
  MaxTries = 2
  MaxRounds = 2
  Limit = 8
  MaxIds = 4
  Hosted = {1, 2}
  HostCalls = {"c", "d"}
  MaxPending = 2
INVARIANTS
  ToolsNotRepeated
CHECK_DEADLOCK FALSE
