SPECIFICATION FairSpine
CONSTANTS
  w1 = w1  r1 = r1  a1 = a1  a2 = a2  t1 = t1  t2 = t2
  agent = agent  alice = alice  d1 = d1  d2 = d2
  None = None
  Runs = {r1}
  Workspaces = {w1}
  Approvals = {a1, a2}
  Principals = {agent, alice}
  Targets = {t1, t2}
  WorkspaceOf <- OneRun
  Drivers = {d1, d2}
  Run = r1
  Lookup = t1
  LookupApproval = a1
  Candidate = t2
  PromotionApproval = a2
  Researcher = agent
  Coordinator = agent
  Omitted <- Doubles
  MaxCrashes = 1
CHECK_DEADLOCK FALSE
INVARIANTS
  CompletedMeansDone
  ResumeFloorIsRecorded
  FailedLeavesNoMemory
PROPERTIES
  ServedQueue
  DemoEnds
