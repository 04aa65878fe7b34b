SPECIFICATION Spec
CONSTANTS
  Node <- MCNode
  Sub <- MCSub
  NoSub = NoSub
  DeepSleep = "Sleep"
  DeepSleepPkg = "SleepPkg"
  TooLong = {}
  Issues <- MCIssuesDownload
  Static <- MCStatic
  Package <- MCPackage
  Preinstalled = {}
  Corrupt = Corrupt
  NoPkg = NoPkg
  NoEntry = NoEntry
  IarmBus = TRUE
  MaxReq = 1
  MaxList = 1
  QueueCap = 1
  MaxDownloads = 1
  MaxEvents = 0
CHECK_DEADLOCK FALSE
PROPERTY
  NotRequestedIsTrue
