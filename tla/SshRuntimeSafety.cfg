SPECIFICATION Spec
CONSTANTS
  c1 = c1
  c2 = c2
  t1 = t1
  t2 = t2
  Callers = {c1, c2}
  Clients = {t1, t2}
  None = None
  Ops = {"connect", "terminal", "exec", "web"}
  MaxGeneration = 1
SYMMETRY Symmetry
INVARIANTS
  TypeOK
  GateDiscipline
  NoStrayTransport
PROPERTIES
  StaleWorkSparesReplacement
  
CHECK_DEADLOCK FALSE
