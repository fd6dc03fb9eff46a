SPECIFICATION Spec
CONSTANTS
  NoTask = NoTask
  NoCredential = NoCredential
  NoOrg = NoOrg
  Pending = Pending
  NoPolicy = NoPolicy
  Desks <- OneDesk
  Grants <- OneGrant
  Policies <- OnePolicy
  MaxTime = 3
CHECK_DEADLOCK FALSE
INVARIANTS
  LiftHolds
