SPECIFICATION FairSpec
CONSTANTS
  n1 = n1
  n2 = n2
  Nodes = {n1, n2}
  First = n1
  MaxDeploys = 2
  MaxDrains = 1
CHECK_DEADLOCK FALSE
INVARIANT CleansUp
