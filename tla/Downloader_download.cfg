SPECIFICATION FairSpec
CONSTANTS
  FileLen = 7
  BufferSize = 2
  NoRecord = NoRecord
  MaxFail = 1
  MaxCrash = 1
INVARIANTS TypeOK RecordBehindFile WholeWhenComplete NoEarlyDelete NoRecordLeft
PROPERTIES DownloadEnds MediaSpec
CHECK_DEADLOCK FALSE
