CONSTANTS
  Absent = Absent
  Garbage = Garbage
  Confs <- MCConfs
  MaxFds = 8
SPECIFICATION FairSpec
INVARIANTS
  TypeOK
  StartedWhole
  LogReachesLog
  NothingStray
PROPERTY StartEnds
CHECK_DEADLOCK FALSE
