SPECIFICATION FocusSpec
CONSTANTS
  r1 = r1  r2 = r2  q1 = q1  t1 = t1  t2 = t2  t3 = t3  p1 = p1  p2 = p2  x1 = x1  x2 = x2
  None = None
  Roots = {r1, r2}
  Peers = {q1}
  Tokens = {t1, t2, t3}
  Procs = {p1, p2}
  Requests = {x1, x2}
  MaxEvents = 4
  CustodyEvents = 3
SYMMETRY Symmetry
CHECK_DEADLOCK FALSE
INVARIANTS
  OneRoot
  OperatorIsUsable
  
  RevocationsHold
  AnchorsFormAChain
