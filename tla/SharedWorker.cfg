SPECIFICATION ServiceFairSpec
CONSTANTS
  NumOwners = 2
  a = a
  b = b
  mic = mic
  vol = vol
  w1 = w1
  w2 = w2
  NoWorker = NoWorker
  NoJob = NoJob
  Scope <- MCScope
  DeviceOf <- MCDeviceOf
  Target <- MCTarget
  Amount <- MCAmount
  Worker <- MCWorker
  Cap = 2
  MaxPending = 2
  PerDevicePending = 2
  MaxInflight = 2
  MaxReplies = 1
  MaxId = 2
INVARIANTS
  OneWriterPerTarget
  QuietIsIdle
PROPERTIES
  PendingResolved
  StopJoins
CHECK_DEADLOCK FALSE
