SPECIFICATION FairSpec
CONSTANTS
  Nodes = {n1}
  NoNode = NoNode
  NoPod = NoPod
  MaxUids = 2
  MaxEdits = 1
  MaxLevel = 1
  MaxEvict = 0
  MaxFaults = 0
PROPERTY RemovedPodsGo
CHECK_DEADLOCK FALSE
