SPECIFICATION FairSpec
CONSTANTS
  Clients = {c1}
  Bodies <- MCBodies
  BuffSize = 3
  Globs = {g1, g2}
  MaxCalls = 5
CONSTRAINT OneKindOfCalls
INVARIANTS
  LoopsSound
  RequestsExact
  NothingUnanswered
  DispatchExact
PROPERTIES
  LoopsEnd
  SessionsEnd
CHECK_DEADLOCK FALSE
