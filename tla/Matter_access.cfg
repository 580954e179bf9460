SPECIFICATION AccessSpec
CONSTANTS
    Null = Null
    AutoBandHalfWidth = 50
    DeviceWinsWindow = 1
    RunningModeHysteresis = 50
    Intents = {}
    OpReadings <- NoReadings
    EnvReadings <- NoReadings
    OnOffCommands = {}
    RaiseLowerModes = {"cool", "both"}
    MaxCommands = 2
    Controllers <- Five
    Amounts <- UpAndDown
    HeatLimits <- HeatWindow
    CoolLimits <- CoolWindow
INVARIANTS
    ReconcilerTypeOK
    FanPercentCoherent
    ControllerPercentKept
    RunningModeAgrees
    InFlightWasSent
PROPERTIES
    DeviceWinsInsideWindow
    RaiseNeverLowers
    WriteReadsBack
