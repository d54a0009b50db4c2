SPECIFICATION Spec
CONSTANTS
  a = a
  b = b
  k1 = k1
  k2 = k2
  main = main
  x = x
  y = y
  Ops = {o1, o2}
  Repos = {a, b}
  Intents <- MCIntents
  Refs = {main}
  Oids = {x, y}
  Absent = Absent
  Receipts = {d1, d2}
  None = None
SYMMETRY OpSymmetry
INVARIANTS
  OneUnresolvedPerRepository
  FateAgreesWithGit
  EffectsExactlyOnce
PROPERTIES
  RecordsAreImmutable
  ImplementsContract
CHECK_DEADLOCK FALSE
