SPECIFICATION LogSpec
CONSTANTS
  op = op agent = agent w1 = w1 w2 = w2 c1 = c1 c2 = c2 r1 = r1 i1 = i1 a1 = a1 k1 = k1 o1 = o1
  scan = scan  sweep = sweep  digest = digest  extra = extra  q1 = q1  q2 = q2  q3 = q3  g1 = g1  g2 = g2
  None = None  Never = Never
  Principals = {op, agent}
  Humans = {op}
  Keys = {1, 2, 3}
  OwnerOf <- Owners
  ValidFrom <- From
  ValidUntil <- Until
  Clients = {c1}
  Writers = {w1, w2}
  Inputs <- TwoInputs
  Runs = {r1}
  Approvals = {a1}
  Cases = {k1}
  Applications = {o1}
  MaxTime = 1
  MaxEvents = 4
  Cadences = {scan, sweep, digest, extra}
  Defaults = {scan, sweep, digest}
  KindOf <- Kinds
  Interval <- Seconds
  Requests = {q1, q2, q3}
  Reviews = {q3}
  Sources = {"missing_capability", "repeated_blocker"}
  Incidents = {g1, g2}
  StaleAfter = 1
  MaxShown = 1
  Instants = {0, 1}
  MaxLost = 1
  Foci = {"anchor"}
CHECK_DEADLOCK FALSE
INVARIANT VerifiedMeansSigned
