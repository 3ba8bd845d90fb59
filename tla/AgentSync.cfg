CONSTANTS
  server = server
  client = client
  daemon = daemon
  command = command
  Targets <- MCTargets
  Order <- MCOrder
  Procs <- MCProcs
  Daemon = daemon
  Certs = {1}
  None = None
  Modes = {TRUE}
  Published = {}
  MaxBuilds = 2
  MaxPublications = 2
  MaxFaults = 1
SPECIFICATION FairSpec
INVARIANTS
  TypeOK
  CrlNotBehindItsList
PROPERTIES
  NoReplay
  ChangeIsReported
  CatchesUp
