SPECIFICATION RetriedPromotion
CONSTANTS
  w1 = w1  r1 = r1  r2 = r2  a1 = a1  a2 = a2  a3 = a3
  agent = agent  ben = ben  cleo = cleo  t1 = t1  t2 = t2  e1 = e1  e2 = e2  e3 = e3
  None = None
  Runs = {r1}
  Workspaces = {w1}
  Approvals = {a1}
  Principals = {agent, ben}
  Targets = {t1}
  WorkspaceOf <- SharedWorkspace
  Entries = {e1, e2, e3}
  Usable = {e1, e2, e3}
  SourceOf <- Source
  ProposerOf <- Proposer
  RunOf <- LearnedIn
  Claims = {0}
  MinCorroboration = 1
  MaxTime = 1
  MaxLost = 1
CHECK_DEADLOCK FALSE
PROPERTIES
  ApprovedPromotionIsWritten
