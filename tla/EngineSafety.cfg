SPECIFICATION FairSpec
CONSTANTS
  Steps = {1, 2, 3}
  Order <- ThreeSteps
  Flows <- OnceOrTwice
  Concurrency = 2
INVARIANTS
  TypeOK
  UnwatchedWereTold
  EndsHonestly
PROPERTIES
  StepsInOrder
  RunEnds
