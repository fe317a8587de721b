SPECIFICATION FairSpec
CONSTANTS
  NumOwners = 3
  a = a
  b = b
  mic = mic
  vol = vol
  Scope <- MCScope
  DeviceOf <- MCDeviceOf
  Target <- MCTarget
  Amount <- MCAmount
  Cap = 2
  MaxPending = 3
  PerDevicePending = 2
  MaxInflight = 2
  MaxId = 3
INVARIANTS
  TargetExclusive
  Contiguous
  SubmissionOrder
PROPERTIES
  RoundRobin
  NothingStarves
CHECK_DEADLOCK FALSE
