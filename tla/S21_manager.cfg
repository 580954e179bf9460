CONSTANTS
  Null = Null
  MaxAge = 1
  ExchangeTicks = 1
  kThreshold = 1
  Scenarios <- MCScenarios
  Commands <- MCCommands
  Env <- MCEnv
  Garbage <- MCGarbage
  Noise = {2, 254}
  PastEnd = {0}
SPECIFICATION ManagerSpec
INVARIANTS
  ManagerTypeOK
  FrameErrorsCaught
  SetpointIsOneOfTheUnit
PROPERTIES
  ReadsWithinAge
  SettersKeepTheRest
  SensorsReadTrue
  ReadingsRecover
