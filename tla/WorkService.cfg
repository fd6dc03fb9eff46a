SPECIFICATION Spec
CONSTANTS
  i1 = i1  wk1 = wk1  e1 = e1  e2 = e2  k1 = k1  k2 = k2  o1 = o1  o2 = o2  t1 = t1
  r1 = r1  ws1 = ws1  a1 = a1  write = write  alice = alice  bob = bob  auto = auto
  target = target  None = None
  Runs = {r1}
  Workspaces = {ws1}
  WorkspaceOf <- OneWorkspace
  Approvals = {a1}
  Principals = {alice, bob}
  Targets = {target}
  Items = {i1}
  Workers = {wk1}
  Envelopes = {e1, e2}
  Tasks = {t1}
  Outcomes = {o1, o2}
  OutcomeKeys = {k1}
  Capabilities = {write}
  GrantsOf <- Grants
  ClientKeys <- CallerKeys
  MaxEvents = 5
  Authors = {auto}
SYMMETRY Symmetry
CHECK_DEADLOCK FALSE
INVARIANTS
  RowsWereTold
  FinalFactsStay
  EnvelopesAreBounded
  OutcomesMatchLog
