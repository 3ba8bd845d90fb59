CONSTANTS
  p1 = p1
  ca = ca
  crl = crl
  peer = peer
  None = None
  Procs = {p1}
  Commands = {"once", "loop", "enroll", "renew", "apply_trust", "apply_certificate"}
  AutoPull = TRUE
  AutoApply = TRUE
  AutoRenew = TRUE
  WriteEnabled = TRUE
  Refused = {2}
  NoLists = {3}
  Files = {ca, crl, peer}
  Kind <- MCKind
  Named <- MCNamed
  MaxVersion = 4
  MaxCerts = 3
  MaxFaults = 1
VIEW View
SPECIFICATION Spec
CHECK_DEADLOCK FALSE
INVARIANTS
  TypeOK
  RuntimeIsWhole
  RefusedStaysOut
PROPERTIES
  FreshIsApplied
  RenewalIsPaced
