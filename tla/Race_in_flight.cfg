SPECIFICATION Spec
CONSTANTS
    Null = Null
    AutoBandHalfWidth = 50
    DeviceWinsWindow = 1
    RunningModeHysteresis = 50
    Intents = {}
    OpReadings <- NoReadings
    EnvReadings <- Mild
    kS21EnvironmentalSensorReadTicks = 1
    kReachableFailureThreshold = 2
    InitialRetryInterval = 1
    MaximumRetryInterval = 2
    ValveReadings <- NoValve
    Scenarios <- PowerOnly
    MaxIntents = 2
    MaxPanelChanges = 0
    MaxLinkChanges = 0
    SlowUnit = FALSE
INVARIANT
    InFlightWasSent
CHECK_DEADLOCK FALSE
