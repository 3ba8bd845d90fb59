CONSTANTS
  c1 = c1
  c2 = c2
  c3 = c3
  s1 = s1
  s2 = s2
  l1 = l1
  l2 = l2
  None = None
  Calls = {c1, c2, c3}
  Csrs = {s1, s2}
  Lines = {l1, l2}
  LineOf <- MCLineOf
  Kinds = {"component", "renewal"}
  MaxFaults = 1
SYMMETRY Symmetry
SPECIFICATION Spec
CHECK_DEADLOCK FALSE
INVARIANTS
  TypeOK
  AbandonedHasNoCertificate
  EnrolledCsrIsRefused
PROPERTY ImplementsLineage
