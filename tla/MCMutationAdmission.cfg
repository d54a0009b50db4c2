SPECIFICATION AdmissionSpec
CONSTANTS
  Threads = {t1, t2}
  Repos = {1, 2}
  IdLists <- MCIdLists
  None = None
  Names = {a, b}
  Users = {u}
SYMMETRY Symmetry
INVARIANTS
  MutationsExclude
  AdmissionHoldsThroughout
  BarrierDrainsCallbacks
PROPERTIES
  CatalogChangesAlone
