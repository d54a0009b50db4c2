SPECIFICATION Spec
CONSTANTS
  Agents = {a}
  Trees = {t1, t2}
  Epochs = {1, 2}
  Budgets = {1}
  BranchNames = {s}
  Warm = 0
  Target = 1
  Sizes <- MCSharedSizes
  None = None
  Repos = {r1, r2}
  Callers = {p,q}
  MaxPulls = 2
  Base = base
  Work = work
INVARIANT
  ClaimsNeverCollide
SYMMETRY MCSymmetry
CHECK_DEADLOCK FALSE
