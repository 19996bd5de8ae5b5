SPECIFICATION Spec
CONSTANTS
  Clusters = {a, b}
  ByCli = {a, b}
  ByOperator = {}
  PoolSize = 2
  None = None
  MaxBirths = 2
  MaxLag = 2
INVARIANT UniqueCidrs
CHECK_DEADLOCK FALSE
