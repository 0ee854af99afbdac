CONSTANTS
  HeaderLen = 3
  DataBufSize = 4
  MaxLegalLen = 5
  Lens <- MCLens
  MaxBytes = 14
  MaxRecy = 2
SPECIFICATION FairSpec
INVARIANTS
  TypeOK
  WindowInBounds
  OneOwner
  StaleIsVisible
PROPERTY GoneIsRecycled
CHECK_DEADLOCK FALSE
