SPECIFICATION FairSpec
CONSTANTS
  h1 = h1
  h2 = h2
  Hosts <- MCHosts
  NoHost = NoHost
  None = None
  CrNamespaces = {1, 2}
  Plans <- MCPlans
  MaxFaults = 1
INVARIANTS
  TypeOK
  InstallLasts
  DeletedIsGone
  AdvertisedHostVerifies
  ModesAgree
  ContextsKept
PROPERTY TerminationCompletes
CHECK_DEADLOCK FALSE
