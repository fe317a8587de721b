SPECIFICATION FairSpec
CONSTANTS
  d1 = d1
  r1 = r1
  r2 = r2
  None = None
  Deck = {d1}
  Req = {r1, r2}
  Capacity = 1
  MaxEvents = 2
INVARIANTS
  MirrorCurrent
  HoldsInView
  RepliesHonest
PROPERTIES
  PublishedFinishes
  NoForeignApply
CHECK_DEADLOCK FALSE
