CONSTANTS
  command = command
  other = other
  ann = ann
  ben = ben
  root = root
  leftover = leftover
  alias = alias
  trusted = trusted
  local = local
  Procs <- MCProcs
  Files <- MCFiles
  Kind <- MCKind
  Legacy = {alias, local}
  Compat = {root}
  Rootless = {2}
  Operators = {ann, ben}
  Signed <- MCSigned
  ApprovalRequired = TRUE
  EmergencyMode = TRUE
  DualApproval = TRUE
  AutoApply = TRUE
  MaxRevision = 2
  MaxApprovals = 2
  MaxEvents = 2
SPECIFICATION Spec
SYMMETRY Symmetry
VIEW View
INVARIANTS
  TypeOK
  ApplyIsExact
  RefusalIsHarmless
PROPERTIES
  WritesAreAgreed
