SPECIFICATION MCSpec
CONSTANTS
  UploadSize = 3
  UploadRequests = 2
  UploadAttempts = 2
  Size = 3
  MaxVersions = 3
  MaxAttempts = 3
  f1 = f1
  f2 = f2
  f3 = f3
  f4 = f4
  w1 = w1
  w2 = w2
  Files = {f1, f2, f3, f4}
  Workers = {w1, w2}
  None = None
  Length = 4
  Capacity = 2
  ReadSize = 2
  MaxPieces = 2
  u1 = u1
  u2 = u2
  d1 = d1
  Uploads = {u1, u2}
  Downloads = {d1}
  Folders = {"x", "y"}
  Names = {"a", "A"}
  MaxSelected = 2
INVARIANTS
  CutIsHarmless
CHECK_DEADLOCK FALSE
