SPECIFICATION MCSpec
CONSTANTS
  d1 = d1
  t1 = t1
  p1 = p1
  p2 = p2
  x1 = x1
  q1 = q1
  q2 = q2
  None = None
  Refused = Refused
  FrameRoom = 1
  OutRoom = 1
  Elements <- SmallElements
  MaxElements = 2
  MaxValues = 2
  MaxSize = 3
  NameSize = 3
  MaxCalls = 3
  Calls = {d1}
  CallKinds = {"closeWeb", "quit"}
  Terminals = {t1}
  UiTerminals = {t1}
  Proxies = {p1, p2}
  Targets = {x1}
  Requests = {q1, q2}
  MaxClients = 2
INVARIANTS
  AllTyped
  PackSurvives
PROPERTIES
  
  QuitReturns
CHECK_DEADLOCK FALSE
