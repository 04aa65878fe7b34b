SPECIFICATION HelpersSpec
CONSTANTS
  PropertiesText <- MCPropertiesText
  DcmText <- MCDcmText
  Root = "root"
  Children <- MCChildren
  RegFile = {"f", "g"}
  NameLens <- MCNameLens
  Block = 2
  NameField = 3
  MaxName = 4
  DirSize = 2
  MaxSize = 3
  MaxChange = 1
  Alnum = {"p"}
  Other = {";"}
  AppendMark <- MCAppendMark
  MaxSuffix = 3
  BaseLen = 4
  MaxText = 5
  ProfileLens = {0, 1, 5}
  NodeLens = {1, 33, 34, 35}
  PartLens = {1, 2}
  TextChar = {"a", "b", ","}
  Documents <- MCDocuments
  NotString = NotString
CHECK_DEADLOCK FALSE
INVARIANTS
  FailureIsReal
  GoodArchiveRestores
  FailedArchiveTorn
  SplitIsExact
  AskedAreSafe
  MarkSurvivesCache
  SlotsStored
  NamesFit
  NamesWhole
  ListRestored
  DecodingDefined
PROPERTY
  ValuesKept
