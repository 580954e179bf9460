SPECIFICATION FairSpec
CONSTANTS
    Null = Null
    AutoBandHalfWidth = 50
    DeviceWinsWindow = 1
    RunningModeHysteresis = 50
    Intents = {}
    OpReadings <- NoReadings
    EnvReadings <- Mild
    kS21EnvironmentalSensorReadTicks = 2
    kReachableFailureThreshold = 2
    InitialRetryInterval = 1
    MaximumRetryInterval = 2
    ValveReadings <- NoValve
    Scenarios <- AllThree
    MaxIntents = 2
    MaxPanelChanges = 1
    MaxLinkChanges = 2
    SlowUnit = FALSE
INVARIANTS
    TypeOK
    UnreachableAfterThreshold
PROPERTIES
    DesiredReachesDevice
    UndisturbedViewSettles
    PumpRunsDry
    ReachableFollowsLink
    NoDuplicateSend
CHECK_DEADLOCK FALSE
