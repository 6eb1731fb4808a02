SPECIFICATION Spec
CONSTANTS
  Jobs = {j1}
  Workers = {w1, w2}
  Mortal = {}
  Operators = {o1}
  NoOwner = NoOwner
  NoJob = NoJob
  MaxAttempts = 1
INVARIANTS
  WorkersNeverShare
