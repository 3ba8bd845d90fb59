CONSTANTS
  r1 = r1
  r2 = r2
  p1 = p1
  p2 = p2
  k1 = k1
  k2 = k2
  Runs = {r1, r2}
  Plans = {p1, p2}
  Packages = {k1, k2}
  PackageOf <- MCPackageOf
  Files = {1, 2}
  CrlFiles = {2}
  Staged <- MCStaged
  Base <- MCBase
  Old = Old
  None = None
  MaxRestages = 1
SPECIFICATION Spec
CHECK_DEADLOCK FALSE
INVARIANTS
  TypeOK
  UndoBeforeChange
  RollbackRestores
PROPERTY SuccessMeansInstalled
