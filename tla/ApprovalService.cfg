SPECIFICATION FocusSpec
CONSTANTS
  w1 = w1  r1 = r1  r2 = r2  a1 = a1  a2 = a2  a3 = a3
  agent = agent  ben = ben  cleo = cleo  t1 = t1  t2 = t2  e1 = e1  e2 = e2  e3 = e3
  t3 = t3  m1 = m1  m2 = m2  k1 = k1  k2 = k2
  None = None
  Runs = {r1, r2}
  Workspaces = {w1}
  Approvals = {a1, a2, a3}
  Principals = {agent, ben, cleo}
  Targets = {t1, t2, t3}
  WorkspaceOf <- SharedWorkspace
  Entries = {e1, e2, e3}
  Usable = {e1, e2, e3}
  SourceOf <- Source
  ProposerOf <- Proposer
  RunOf <- LearnedIn
  Claims = {0, 2}
  MinCorroboration = 2
  MaxTime = 2
  MaxLost = 2
  MemoryEntries = {m1, m2}
  ProposedBy <- ByAgent
  Cleanups <- Pair
  Evidenced = {t1, t2, t3}
  EntriesOf <- Shared
  MaxBlastRadius = 2
  Cases = {k1, k2}
  Widest = 3
  Ceiling = 3
  MinTrackRecord = 1
  MaxSeconds = 1
  Foci = {"queue", "promotion", "autonomy"}
SYMMETRY Symmetry
CHECK_DEADLOCK FALSE
INVARIANTS
  RunsMatchApprovals
  ApprovalsMatchTargets
  GuidanceIsEarned
  MemoryMatchesFile
  CleanupsAreAccounted
  ProposalFollowsApproval
PROPERTIES
  DecisionsBind
  SettledStaysSettled
  WideningIsEarned
