SPECIFICATION FairSpec
CONSTANTS
  FileLen = 7
  BufferSize = 2
  NoRecord = NoRecord
  MaxFail = 1
  MaxCrash = 0
PROPERTIES FailedPartRestarted
CHECK_DEADLOCK FALSE
