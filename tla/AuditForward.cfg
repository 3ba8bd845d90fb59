CONSTANTS
  Rows = {1, 2, 3, 4}
  BatchSize = 2
  MaxFaults = 2
SPECIFICATION Spec
CHECK_DEADLOCK FALSE
INVARIANTS
  TypeOK
  OnceInOrder
  NoSilentLoss
PROPERTY CatchesUp
