SPECIFICATION Spec
CONSTANTS
  k1 = k1
  k2 = k2
  s1 = s1
  s2 = s2
  s3 = s3
  d1 = d1
  d2 = d2
  m1 = m1
  m2 = m2
  m3 = m3
  Control <- MCControl
  DeckOf <- MCDeckOf
  Scope <- MCScope
  ControlOf <- MCControlOf
  Mic <- MCMic
  Lease = 2
  MaxTargets = 2
  MaxRevision = 4
  MaxTime = 2
  MaxPress = 2
SYMMETRY MCSymmetry
INVARIANTS
  LiveIffHeld
PROPERTIES
  FreshDownOnly
  ImplementsDesired
