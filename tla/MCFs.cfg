CONSTANTS
  BSize = 2
  NDirect = 1
  IPB = 2
  NInodes = 4
  FSSize = 12
  LogSize = 0
  NBuf = 5
  Images <- MCImages
  Names = {"a", "b"}
  MaxCount = 3
  MaxRef = 1
SPECIFICATION Spec
INVARIANTS TypeOK BlocksAccounted BuffersReleased ReadsSound
PROPERTIES ContentsKept
CHECK_DEADLOCK FALSE
