SPECIFICATION Spec
CONSTANTS
  Fibers = {f1, f2}
  Forms <- MCForms
  BuffSize = 4
  MaxAliveTime = 1
  MaxRequests <- MCMaxRequests
  Now = 10
  MaxCalls = 3
INVARIANTS
  PoolExact
  AnswersOwn
  ResponseUsedUp
SYMMETRY Symmetry
CHECK_DEADLOCK FALSE
