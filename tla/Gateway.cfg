SPECIFICATION RetrySpec
CONSTANTS
  NoTask = NoTask  NoCredential = NoCredential  NoOrg = NoOrg  None = None
  c1 = c1  i1 = i1  i2 = i2  p1 = p1  p2 = p2  p3 = p3  r1 = r1  w1 = w1
  agent = agent  alice = alice
  Runs = {r1}
  Workspaces = {w1}
  Principals = {agent, alice}
  WorkspaceOf <- OneRun
  BaseWorld <- World
  Calls = {c1}
  CallOf <- WriteCall
  CapabilityOf <- WriteCaps
  Dials = {"bounded", "supervised"}
  Invocations = {i1, i2}
  Procs = {p1, p2, p3}
  ProvidersOf <- UnequalServers
  MaxCrashes = 1
INVARIANTS
  AtMostOnce
PROPERTIES
  PromisesAreKept
  ImplementsGovernedCall
  IntentIsConcluded
  NoInvocationHangs
