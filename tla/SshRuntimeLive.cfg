SPECIFICATION LiveSpec
CONSTANTS
  c1 = c1
  t1 = t1
  t2 = t2
  Callers = {c1}
  Clients = {t1, t2}
  None = None
  Ops = {"test", "terminal", "exec", "web"}
  MaxGeneration = 1
PROPERTIES
  UnusableClientReplaced
  TerminalFollowsConnection
  CallReturns
CHECK_DEADLOCK FALSE
