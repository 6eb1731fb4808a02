SPECIFICATION AskingSpec
CONSTANTS
  Anything = Anything
  None = None
  Agents = {"a1", "a2"}
  Policies <- Both
  Files = {"f", "g"}
  Hosts = {"h", "i"}
  Commands = {"test", "fmt"}
  Hook = "fmt"
  MaxRedirects = 1
  MaxWrites = 3
  Trusting = {"mine", "other"}
  Asking = {"c", "d"}
  MaxVersions = 2
  MaxRevokes = 1
  Requests = {1, 2}
  Invocations = {"first"}
  InvocationOf <- OneAsks
  WorkflowOf <- InAWorkflow
  Scopes = {"scope1", "scope2"}
  ScopeOf <- TwoScopes
  Reviewers = {"cli", "page"}
  Door = "inbox"
INVARIANTS
  WellTyped
  AsApproved
  DecisionsHold
PROPERTIES
  DecisionFinal
  OnlyWhatWasAgreed
  NeverQuieter
CHECK_DEADLOCK FALSE
