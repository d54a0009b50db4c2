SPECIFICATION MCSpec
CONSTANTS
  Operations = {o1, o2}
  Scopes <- MCScopes
  Actors = {"operator", "other"}
  ClockTimes <- MCTimes
  Targets = 1
  None = None
  j1 = j1
  Jobs = {j1}
  Workers = {w1, w2}
  NodeEpochs = {1, 2}
  Retry <- MCRetry
  MaxEpoch = 3
  NoLease = NoLease
INVARIANTS
  JournalFollowsPlan
  ClosedIsVerified
  OneLeasePerAttempt
  OneOutcomePerAttempt
  ReceiptsStand
PROPERTIES
  RecoveryIsFinal
  NoTakeoverOfLiveLease
\* A restore that needs recovery keeps the barrier for good, and a book whose
\* job is done has nothing left to do.
CHECK_DEADLOCK FALSE
