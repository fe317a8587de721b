SPECIFICATION SessionSpec
CONSTANTS
  p = p
  key = key
  dim = dim
  Kind = {"turn"}
  KeyCount = 1
  HasTouch = FALSE
  Picture = {p}
  Level = {dim}
  Chosen = {}
  Report <- MCReport
  Control = {key}
  InputLimit = 1
  MaxReports = 1
  MaxRevision = 0
  MaxEpoch = 6
  Saved = {TRUE}
  DrainBudget = 2
  MaxEra = 3
  Stamped = TRUE
  Nothing = Nothing
  Light = Light
INVARIANTS
  QueuedTurnsDropped
CHECK_DEADLOCK FALSE
