SPECIFICATION MCSpec
CONSTANTS
    Null = Null
    AutoBandHalfWidth = 50
    DeviceWinsWindow = 1
    RunningModeHysteresis = 50
    Intents = {}
    OpReadings <- PowerReadings
    EnvReadings <- RoomReadings
    OnOffCommands = {"toggle"}
    RaiseLowerModes = {}
    MaxCommands = 1
    Amounts = {}
    HeatLimits <- Window
    CoolLimits <- Window
    TaskQueueSize = 1
    kMaxListeners = 4
    MaxS21Changes = 3
INVARIANTS
    SensorsReachSubscribers
    HandlersHaveKernel
    ThreadsFindWiring
PROPERTIES
    NoReportForgotten
    OnlySentIsMissed
