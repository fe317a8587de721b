SPECIFICATION SessionFairSpec
CONSTANTS
  p = p
  key = key
  dim = dim
  Kind = {"down", "up", "invalid"}
  KeyCount = 1
  HasTouch = FALSE
  Picture = {p}
  Level = {dim}
  Chosen = {dim}
  Report <- MCReport
  Control = {key}
  InputLimit = 1
  MaxReports = 1
  MaxRevision = 1
  MaxEpoch = 6
  Saved = {TRUE}
  DrainBudget = 2
  MaxEra = 2
  Stamped = FALSE
  Nothing = Nothing
  Light = Light
INVARIANTS
  DownOnOwnPage
PROPERTIES
  EdgesPaired
  DrainEnds
CHECK_DEADLOCK FALSE
