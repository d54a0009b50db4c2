SPECIFICATION FairSpec
CONSTANTS
  Threads = {t1, t2, t3}
  Repos = {1, 2}
  IdLists <- MCIdLists
  None = None
INVARIANTS
  NoDeadlock
PROPERTIES
  EveryMutationRuns
