SPECIFICATION FleetSpec
CONSTANTS
  j1 = j1
  j2 = j2
  Nodes = {1, 2}
  Jobs = {j1, j2}
  CanRun <- MCCanRun
  Capacities = {1, 2}
  Ttl = 0
  MaxEpoch = 4
\* With every epoch of the bound used up, nothing is left to happen.
CHECK_DEADLOCK FALSE
INVARIANTS
  NoOvercommit
  JobsRunOnce
PROPERTIES
  FencedForGood
