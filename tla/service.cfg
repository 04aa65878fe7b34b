SPECIFICATION ServiceSpec
CONSTANTS
  Category <- MCCategory
  FirstLine <- MCFirstLine
  KeyOf <- MCKeyOf
  Profile <- MCProfile
  NoKey = NoKey
  Nothing = Nothing
  MaxSet = 2
  MaxGen = 2
  MaxInput = 2
CHECK_DEADLOCK FALSE
INVARIANTS
  ServiceTypeOK
  NoOldCategory
  ListsWhatWasSet
  OpenBeforeUse
  Hears
  LogReadsLive
  LeftoversFirst
  StoppedQuiet
