SPECIFICATION Spec
SYMMETRY Symmetry
CONSTANTS
  c1 = c1
  c2 = c2
  s1 = s1
  s2 = s2
  k1 = k1
  k2 = k2
  n1 = n1
  n2 = n2
  n3 = n3
  None = None
  Callers = {c1, c2}
  TrustIds = 2
  MaxIds = 3
  Sites = {s1, s2}
  Prints = {k1, k2}
  Names = {n1, n2, n3}
  TrustCalls = 3
  MaxCalls = 2
  MaxFaults = 1
INVARIANTS
  TypeOK
  OnlyConfirmedServers
  LiveFollowsSaved
  CredentialsInPlace
  ImportAllOrNothing
CHECK_DEADLOCK FALSE
