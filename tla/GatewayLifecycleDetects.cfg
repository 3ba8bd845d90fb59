CONSTANTS
  p1 = p1
  ca = ca
  crl = crl
  peer = peer
  None = None
  Procs = {p1}
  Commands = {"loop"}
  AutoPull = TRUE
  AutoApply = TRUE
  AutoRenew = FALSE
  WriteEnabled = TRUE
  Refused = {}
  NoLists = {}
  Files = {ca, crl, peer}
  Kind <- MCKind
  Named <- MCNamed
  MaxVersion = 2
  MaxCerts = 2
  MaxFaults = 0
SPECIFICATION FairSpec
CHECK_DEADLOCK FALSE
PROPERTIES
  DetectsChanges
