SPECIFICATION LiveSpec
CONSTANTS
  d1 = d1
  t1 = t1
  t2 = t2
  p1 = p1
  p2 = p2
  x1 = x1
  q1 = q1
  None = None
  Calls = {d1}
  Kinds = {"force"}
  Terminals = {t1}
  UiTerminals = {t1}
  Proxies = {p1}
  Targets = {x1}
  Requests = {q1}
  MaxClients = 1
PROPERTIES
  ForcedDisconnectCuts
CHECK_DEADLOCK FALSE
