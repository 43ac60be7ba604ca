SPECIFICATION Spec
CONSTANTS
  Workers = {w1}
  Caller = main
  UseCaller = TRUE
  Tasks = {c1, c2}
  Fibers = {f1, f2}
  AnyThread = any
  NoFiber = nofiber
  NoCb = nocb
  ClientPins = {any, main}
  BodyPins = {any, w1}
  SwitchTargets = {}
  MaxReady = 1
  MaxHold = 2
  WaitsPerHold = 1
  WakeFrom = "settled"
SYMMETRY TaskSymmetry
INVARIANTS
  SingleRunner
