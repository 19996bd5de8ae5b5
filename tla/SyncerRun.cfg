SPECIFICATION FairSpec
CONSTANTS
  Nodes = {n1}
  MaxBeats = 2
  MaxEdits = 1
  MaxFaults = 1
  OtherLoops = 6
  ErrCapacity = 6
  MaxPods = 2
INVARIANTS
  TypeOK
  NobodyBlocksOnErrors
PROPERTIES
  NodeStatusMovesForward
  CancelledEnds
  NodesFollowHost
CHECK_DEADLOCK FALSE
