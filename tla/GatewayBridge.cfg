CONSTANTS
  Last = 3
  MaxValue = 2
  MaxTimeouts = 1
  Faulty <- MCFaulty
  Doubles <- MCDoubles
  Long <- MCLong
SPECIFICATION BridgeSpec
INVARIANTS BridgeTypeOK HistorianAgrees
PROPERTIES KeepsAnswering FollowsOt
