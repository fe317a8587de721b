SPECIFICATION Spec
CONSTANTS
  d1 = d1
  d2 = d2
  x = x
  y = y
  service = service
  workspace = workspace
  NoProc = NoProc
  NoLayout = NoLayout
  NoDeck = NoDeck
  Deck = {d1, d2}
  Layout = {x, y}
  Proc = {service, workspace}
  Permanent = {service}
  Generations = 4
  Daily = 3
  Keep = 2
  MaxGen = 3
  MaxPowerLoss = 1
SYMMETRY MCSymmetry
INVARIANTS
  CurrentIsWhole
  NothingLost
PROPERTIES
  ImplementsRegister
CHECK_DEADLOCK FALSE
