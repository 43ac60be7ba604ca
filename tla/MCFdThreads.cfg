SPECIFICATION FairSpec
CONSTANTS
  Fds = {1}
  Threads = {t1, t2, t3}
  Closable <- MCClosable
  MaxWaiters = 2
CHECK_DEADLOCK FALSE
INVARIANTS
  PendingExact
  WaitsInOnePlace
  OneThreadOnlyRefuses
PROPERTIES
  WakesUp
