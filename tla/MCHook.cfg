SPECIFICATION FairSpec
CONSTANTS
  Fibers = {f1, f2}
  MaxThreads = 2
  MaxFiles <- MCMaxFiles
INVARIANTS
  NeverStranded
  AbortsOnlyAfterReuse
PROPERTIES
  CallReturns
CHECK_DEADLOCK FALSE
