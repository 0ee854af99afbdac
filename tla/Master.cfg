CONSTANT ProcessNums = 3
SPECIFICATION FairSpec
INVARIANTS
  TypeOK
  LeftoverShared
PROPERTIES
  SpawnUndisturbed
  FirstReaped
  SpinEnds
