SPECIFICATION Spec
CONSTANTS
  Steps = {1, 2, 3}
  Order <- ThreeSteps
  Flows <- Once
  Concurrency = 2
INVARIANTS
  ReturnsSummary
