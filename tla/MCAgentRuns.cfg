SPECIFICATION Spec
CONSTANTS
  Agents = {a}
  Trees = {t1, t2}
  Epochs = {1, 2}
  Budgets = {1}
  BranchNames = {s}
  Warm = 0
  Target = 1
  Sizes <- MCSizes
  None = None
  Repos = {r1, r2}
  Callers = {p,q}
  MaxPulls = 2
  Base = base
  Work = work
INVARIANTS
  PublishedOnce
  OnlyTwiceClaimedMixesTrees
  PoolIsWarm
  RunningIsSupervised
SYMMETRY MCSymmetry
CHECK_DEADLOCK FALSE
