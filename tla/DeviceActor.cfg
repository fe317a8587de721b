SPECIFICATION FairSpec
CONSTANTS
  p = p
  q = q
  dim = dim
  KeyCount = 1
  HasTouch = TRUE
  Picture <- MCPicture
  Level = {}
  Report = {}
  InputLimit = 1
  MaxReports = 1
  MaxRevision = 2
  MaxEpoch = 2
  Nothing = Nothing
  Light = Light
INVARIANTS
  ReadyIsCurrent
  SentIsShown
PROPERTIES
  DesiredTransmitted
CHECK_DEADLOCK FALSE
