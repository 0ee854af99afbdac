CONSTANTS
  Main = Main
  Nobody = Nobody
  Workers = {w1, w2, w3}
  MaxMsgs = 4
SPECIFICATION Spec
INVARIANT StopAllReturns
