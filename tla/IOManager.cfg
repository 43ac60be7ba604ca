SPECIFICATION FairSpec
CONSTANTS
  Threads = {t1, t2}
  Client = client
  Tasks = {c1, c2}
  NoTask = notask
  Kinds = {"queued", "timer", "event"}
  ClientKinds = {"queued", "timer"}
  Remaining = {5}
  MAX_TIMEOUT = 3
  IntMax = 7
  MayStop = TRUE
CHECK_DEADLOCK FALSE
INVARIANTS
  CountsExact
PROPERTIES
  TimersFire
  ThreadsExit
  QueuedTasksEnd
