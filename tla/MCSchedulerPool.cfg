SPECIFICATION FairSpec
CONSTANTS
  Workers = {w1, w2}
  Caller = main
  UseCaller = FALSE
  Tasks = {c1, c2}
  Fibers = {f1, f2}
  AnyThread = any
  NoFiber = nofiber
  NoCb = nocb
  ClientPins = {any, w1}
  BodyPins = {any}
  SwitchTargets = {}
  MaxReady = 1
  MaxHold = 0
  WaitsPerHold = 1
  WakeFrom = "settled"
PROPERTIES
  RunsEachTaskOnce
  EveryTaskEnds
  StopReturns
