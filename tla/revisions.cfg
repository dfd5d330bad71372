\* Two processes and a database with row locks.
SPECIFICATION Spec
CONSTANTS
  s1 = s1
  s2 = s2
  p1 = p1
  p2 = p2
  o1 = o1
  o2 = o2
  o3 = o3
  e1 = e1
  e2 = e2
  e3 = e3
  t1 = t1
  t2 = t2
  t3 = t3
  App = App
  Session = {s1, s2}
  Process = {p1, p2}
  Object = {o1, o2, o3}
  Event = {e1, e2, e3}
  Time = {t1, t2, t3}
  ObjectOf <- TwoProcesses
  SessionOf <- MCSessionOf
  Delta <- MCDelta
  Primary <- MCPrimary
  RowLocks = TRUE
INVARIANTS
  TypeOK
  StateIsLog
  AppStateIsLog
  CurrentAccepted
  StaleRefused
