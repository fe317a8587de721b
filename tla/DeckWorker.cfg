SPECIFICATION Spec
CONSTANTS
  only = only
  A = A
  B = B
  k = k
  on = on
  Layouts = {only}
  FirstLayout = only
  Pages = {A, B}
  Home = A
  Slots = {k}
  Assigned <- MCAssigned
  Inputs = {"key", "flick", "turn", "level"}
  Commands <- MCCommands
  Shades = {on}
  None = None
  Saved = on
  LockImage = LockImage
  MaxReports = 1
  MaxRequests = 1
  MaxReplies = 1
  MaxEpoch = 3
  MaxFocus = 1
  MaxTroubles = 1
  FlipsPerTurn = 1
INVARIANTS
  ArmedHere
  HeldWhileDown
  SentIsShown
PROPERTIES
  NothingCrossesLock
CHECK_DEADLOCK FALSE
