SPECIFICATION Spec
CONSTANTS
  Names = {n1, n2}
  Ids = {i1, i2}
  Keys = {k1, k2}
  LaterKeys = {}
  Wanted <- MCWanted
  Deleters = {d1}
  DeleteStorage = {TRUE}
  None = None
SYMMETRY Symmetry
INVARIANTS
  PublishedStorageIsOwn
