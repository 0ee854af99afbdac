CONSTANT ThreadNums = {0, 1, 2, 3}
SPECIFICATION FairSpec
INVARIANTS
  TypeOK
  PoolFirst
PROPERTY StartEnds
CHECK_DEADLOCK FALSE
