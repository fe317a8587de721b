SPECIFICATION Spec
CONSTANTS
  c1 = c1
  c2 = c2
  NoConn = NoConn
  Clients = {"lane", "worker"}
  Conn = {c1, c2}
  Amount <- MCAmount
  MaxTurns = 2
  Onward = FALSE
SYMMETRY MCSymmetry
INVARIANTS
  VerdictsTrue
PROPERTIES
  FreshInputs
  ExplicitRecovery
CHECK_DEADLOCK FALSE
