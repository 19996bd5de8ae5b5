SPECIFICATION Spec
CONSTANTS
  Clusters = {a, b}
  ByCli = {a, b}
  ByOperator = {a}
  PoolSize = 2
  None = None
  MaxBirths = 3
  MaxLag = 2
INVARIANTS
  TypeOK
  CollisionOnlyByRace
  ServersUseRecorded
  PoolServesItsSize
PROPERTY RecordedCidrsStay
CHECK_DEADLOCK FALSE
