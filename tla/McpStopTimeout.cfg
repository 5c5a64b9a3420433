SPECIFICATION MCSpec
CONSTANTS
  c1 = c1
  a1 = a1
  a2 = a2
  u1 = u1
  d1 = d1
  s1 = s1
  s2 = s2
  Calls = {c1}
  Admins = {a1, a2}
  Uploads = {u1}
  Downloads = {d1}
  Sessions = {s1, s2}
  None = None
  SessionLimit = 1
  MaxServers = 2
  MaxTokens = 1
  p1 = p1
  p2 = p2
  Pids = {p1, p2}
  Ports = {1, 2}
  DefaultPort = 1
INVARIANTS
  StopIsClean
CHECK_DEADLOCK FALSE
