SPECIFICATION MCSpec
CONSTANTS
    Null = Null
    AutoBandHalfWidth = 50
    DeviceWinsWindow = 1
    RunningModeHysteresis = 50
    Intents = {}
    OpReadings <- PowerReadings
    EnvReadings <- NoReadings
    OnOffCommands = {"on", "toggle"}
    RaiseLowerModes = {}
    MaxCommands = 2
    Amounts = {}
    HeatLimits <- Window
    CoolLimits <- Window
    TaskQueueSize = 1
    kMaxListeners = 4
    MaxS21Changes = 4
INVARIANT
    ViewsFollowProjection
