SPECIFICATION ReadingSpec
CONSTANTS
  Unset = Unset
  v1 = v1
  v2 = v2
  v3 = v3
  MaxLines = 5
  MaxLength = 4
  CharLimit = 2
  Followed <- Chapters
  GroupLimits <- Limits
  Policy <- Coverage
  SampleLimit = 2
  Character <- Folded
  Sayings <- Annotated
  Settings <- Requested
  Catalogue = {v1, v2, v3}
  UnitMax = 4
  Capacity = 1
  MaxRounds = 2
  MaxFailures = 1
  MaxCrashes = 1
INVARIANT ImportKeepsTheText
INVARIANT SegmentsKeepTheText
INVARIANT AcceptedIsComplete
INVARIANT SpokenAsWritten
 
CHECK_DEADLOCK FALSE
