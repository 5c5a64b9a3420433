SPECIFICATION LiveSpec
CONSTANTS
  c1 = c1
  c2 = c2
  l1 = l1
  l2 = l2
  Callers = {c1, c2}
  Links = {l1, l2}
  None = None
  Ops = {"connect", "disconnect", "save"}
  MaxGeneration = 2
INVARIANTS
  TypeOK
  NoStrayLink
PROPERTIES
  
  LossPublished
CHECK_DEADLOCK FALSE
