SPECIFICATION Spec
CONSTANTS
  Names = {n1, n2}
  Ids = {i1, i2, i3}
  Keys = {k1, k2, k3}
  LaterKeys = {k3}
  Wanted <- MCWanted
  Deleters = {d1}
  DeleteStorage = {TRUE, FALSE}
  None = None
SYMMETRY Symmetry
INVARIANTS
  ReceiptsAreTrue
  OnlyLateDeletionsTakeStorage
PROPERTIES
  NoResurrection
  StateRestsUnderBarrier
