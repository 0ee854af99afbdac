CONSTANTS
  Char <- MCChar
  NGX_MAX_ERROR_STR = 12
  UintModulus = 256
  ScaleModulus = 128
  Int64Len = 4
  Prefix <- MCPrefix
  Stamp <- MCStamp
  ErrInfo <- MCErrInfo
  Calls <- MCCalls
SPECIFICATION Spec
INVARIANTS
  TypeOK
  RecordWhole
  CopyReachesLog
CHECK_DEADLOCK FALSE
