SPECIFICATION FairSpec
CONSTANTS
  m1 = m1
  NoMic = NoMic
  Mic = {m1}
  MaxTargets = 1
  MaxAttempts = 2
  Reconnectable = {m1}
INVARIANTS
  OneWriter
  NeverForgotten
  RecoveryNotLive
PROPERTIES
  ImplementsDesired
  MuteResolved
CHECK_DEADLOCK FALSE
