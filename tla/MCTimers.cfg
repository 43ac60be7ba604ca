SPECIFICATION Spec
CONSTANTS
  Timers = {1, 2}
  Threads = {a, b}
  Periods = {1}
  Slack = 2
  Jumps = {1, 3}
  MaxTime = 1
  MaxBack = 1
  MaxFired = 2
SYMMETRY ThreadSymmetry
CHECK_DEADLOCK FALSE
INVARIANTS
  TypeOK
  Registered
  OneShotFiresOnce
  FrontAnnounced
PROPERTIES
  CancelIsFinal
  NeverEarly
