CONSTANTS
  HeaderLen = 3
  DataBufSize = 4
  MaxLegalLen = 5
  Lens <- MCLens
  MaxBytes = 14
  MaxRecy = 2
SPECIFICATION Spec
PROPERTY BodyReturnsToHeader
CHECK_DEADLOCK FALSE
