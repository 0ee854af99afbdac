CONSTANTS
  Threads = {t1, t2}
  Conns = {c1}
  Packets <- MCPackets
  MaxPackets = 2
  MaxSequence = 6
  Nobody = Nobody
SPECIFICATION FairSpec
INVARIANTS
  TypeOK
  AnswersTraceable
  AnswersAreDue
PROPERTIES
  OnlyForPresent
  EveryPacketEnds
CHECK_DEADLOCK FALSE
