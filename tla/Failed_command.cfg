SPECIFICATION FairSpec
CONSTANTS
    Null = Null
    AutoBandHalfWidth = 50
    DeviceWinsWindow = 1
    RunningModeHysteresis = 50
    Intents = {}
    OpReadings <- NoReadings
    EnvReadings <- Mild
    kS21EnvironmentalSensorReadTicks = 1
    kReachableFailureThreshold = 2
    InitialRetryInterval = 1
    MaximumRetryInterval = 2
    ValveReadings <- NoValve
    Scenarios <- PowerOnly
    MaxIntents = 3
    MaxPanelChanges = 0
    MaxLinkChanges = 2
    SlowUnit = FALSE
PROPERTY
    DesiredReachesDevice
CHECK_DEADLOCK FALSE
