SPECIFICATION Spec
CONSTANTS
  Node <- MCNode
  Sub <- MCSub
  NoSub = NoSub
  DeepSleep = "Sleep"
  DeepSleepPkg = "SleepPkg"
  TooLong = {}
  Issues <- MCIssues
  Static <- MCStatic
  Package <- MCPackage
  Preinstalled = {}
  Corrupt = Corrupt
  NoPkg = NoPkg
  NoEntry = NoEntry
  IarmBus = TRUE
  MaxReq = 3
  MaxList = 2
  QueueCap = 1
  MaxDownloads = 2
  MaxEvents = 0
CHECK_DEADLOCK FALSE
INVARIANTS
  TypeOK
  ExactlyOnePlace
  ReportedAtMostOnce
  ModePreserved
  AnsweredWhenInstalled
  HeldEntryLive
