SPECIFICATION Spec
CONSTANTS
  Workers = {w1, w2}
  Caller = main
  UseCaller = FALSE
  Tasks = {c1}
  Fibers = {f1}
  AnyThread = any
  NoFiber = nofiber
  NoCb = nocb
  ClientPins = {any}
  BodyPins = {any}
  SwitchTargets = {}
  MaxReady = 0
  MaxHold = 1
  WaitsPerHold = 1
  WakeFrom = "registered"
INVARIANTS
  SingleRunner
