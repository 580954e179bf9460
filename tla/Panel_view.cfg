SPECIFICATION FairSpec
CONSTANTS
    Null = Null
    AutoBandHalfWidth = 50
    DeviceWinsWindow = 1
    RunningModeHysteresis = 50
    Intents = {}
    OpReadings <- NoReadings
    EnvReadings <- Mild
    kS21EnvironmentalSensorReadTicks = 1
    kReachableFailureThreshold = 2
    InitialRetryInterval = 1
    MaximumRetryInterval = 2
    ValveReadings <- NoValve
    Scenarios <- PanelWarmer
    MaxIntents = 1
    MaxPanelChanges = 1
    MaxLinkChanges = 0
    SlowUnit = FALSE
PROPERTY
    MatterViewSettles
CHECK_DEADLOCK FALSE
