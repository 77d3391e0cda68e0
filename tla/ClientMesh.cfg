CONSTANTS
  n1 = n1
  n2 = n2
  None = None
  Node = {n1, n2}
  Holders = {n2}
  Link = {1, 2, 3}
  Budgets <- MCBudgets
SPECIFICATION FairSpec
INVARIANTS DuplicatesBounded FirstEndsInOrder
PROPERTIES KeysReachable TeardownEnds
CHECK_DEADLOCK FALSE
