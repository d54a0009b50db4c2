SPECIFICATION Spec
CONSTANTS
  r1 = r1
  r2 = r2
  Author = a
  AuditEnforced = FALSE
  Logins <- MCLogins
  Heads = {h1, h2}
  Owners <- MCOwners
  Counts = {1}
  ActivationMaxAttempts = 2
  Sizes <- MCSizes
INVARIANTS
  LastWordCounts
  DecidedOnWhatWasSeen
  MergeableHasNoRejection
  OwnerIsFirst
PROPERTIES
  HandlesStayDead
SYMMETRY MCSymmetry
CHECK_DEADLOCK FALSE
