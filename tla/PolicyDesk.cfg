SPECIFICATION Spec
CONSTANTS
  NoTask = NoTask
  NoCredential = NoCredential
  NoOrg = NoOrg
  Pending = Pending
  NoPolicy = NoPolicy
  Desks <- AllDesks
  Grants <- OneGrant
  Policies <- TwoPolicies
  MaxTime = 3
CHECK_DEADLOCK FALSE
INVARIANTS
  PolicyOnlyTightens
  SuspensionsAreEarned
PROPERTIES
  PermittedCallIsConfined
  ScanReplaysNothing
