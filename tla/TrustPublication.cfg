SPECIFICATION FairSpec
CONSTANTS
  client = client
  server = server
  gateway = gateway
  Targets <- MCTargets
  Rank <- MCRank
  Apps <- MCApps
  Home <- MCHome
  Consumes <- MCConsumes
  Certs <- MCCerts
  Owner <- MCOwner
  Filed <- MCFiled
  Seeded = {1}
  Published = {client}
  Threads = {r1}
  Scheduler = Scheduler
  None = None
  MaxRequests = 2
  MaxFaults = 1
CHECK_DEADLOCK FALSE
INVARIANTS
  TypeOK
  SignedRevisionIsRowRevision
  RevokedSerialIsPublished
  RevokedNeverListedAtHome
PROPERTIES
  ImplementsPublishedTrust
  Converges
