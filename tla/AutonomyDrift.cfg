SPECIFICATION AutonomySpec
CONSTANTS
  a1 = a1  agent = agent  alice = alice
  o1 = o1  e1 = e1  k1 = k1  k2 = k2  k3 = k3
  None = None
  Runs = {}
  Workspaces = {}
  Approvals = {a1}
  Principals = {agent, alice}
  Targets = {o1}
  WorkspaceOf <- NoRuns
  MemoryEntries = {e1}
  ProposedBy <- OneProposer
  Cleanups = {o1}
  Evidenced = {o1}
  EntriesOf <- OneEntry
  MaxBlastRadius = 2
  Cases = {k1, k2, k3}
  Widest = 3
  Ceiling = 3
  MinTrackRecord = 1
  MaxSeconds = 1
CHECK_DEADLOCK FALSE
PROPERTIES
  DriftedCaseNeverWidens
