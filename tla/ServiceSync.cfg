SPECIFICATION FairSpec
CONSTANTS
  NoSvc = NoSvc
  MaxUids = 2
  MaxRevs = 3
  MaxNotes = 1
  MaxLevel = 1
  MaxFaults = 1
INVARIANTS
  TypeOK
  LoopsHealEachOther
  RemovalHandled
PROPERTIES
  MovesForward
  EventuallyMirrored
CHECK_DEADLOCK FALSE
