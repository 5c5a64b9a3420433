SPECIFICATION MCSpec
SYMMETRY Symmetry
CONSTANTS
  d1 = d1
  t1 = t1
  t2 = t2
  p1 = p1
  p2 = p2
  x1 = x1
  q1 = q1
  None = None
  d2 = d2
  x2 = x2
  Calls = {d1, d2}
  Kinds = {"user", "mcp", "quit"}
  Terminals = {t1}
  UiTerminals = {t1}
  Proxies = {p1, p2}
  Targets = {x1, x2}
  Requests = {q1}
  MaxClients = 2
  s1 = s1
  s2 = s2
  k1 = k1
  k2 = k2
  Sites = {s1, s2}
  Prints = {k1, k2}
INVARIANTS
  AllTyped
  ProxiesAttended
  TestIsHonest
PROPERTIES
  DisconnectIsComplete
CHECK_DEADLOCK FALSE
