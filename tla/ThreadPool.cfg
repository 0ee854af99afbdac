CONSTANTS
  Main = Main
  Nobody = Nobody
  Workers = {w1, w2, w3}
  MaxMsgs = 4
SPECIFICATION FairSpec
INVARIANTS
  TypeOK
  OnePlace
  EnoughAwake
PROPERTIES
  ReportIsTrue
  Handled
  StopEndsAll
  ImplementsJobQueue
