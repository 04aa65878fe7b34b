SPECIFICATION FairSpec
CONSTANTS
  Node <- MCNode
  NoName = NoName
  MaxReport = 3
  MaxTypes = 2
  MaxAttempts = 2
  MaxTime = 4
CHECK_DEADLOCK FALSE
INVARIANTS
  TypeOK
  OwnOutput
  LiveLogsOnce
  UploadLeavesNothing
PROPERTY
  EveryReportEnds
