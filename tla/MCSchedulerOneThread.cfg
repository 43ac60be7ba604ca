SPECIFICATION Spec
CONSTANTS
  Workers = {}
  Caller = main
  UseCaller = TRUE
  Tasks = {c1, c2}
  Fibers = {f1, f2}
  AnyThread = any
  NoFiber = nofiber
  NoCb = nocb
  ClientPins = {any, main}
  BodyPins = {any, main}
  SwitchTargets = {any}
  MaxReady = 1
  MaxHold = 3
  WaitsPerHold = 2
  WakeFrom = "registered"
INVARIANTS
  CountsExact
  NoAssertFailure
