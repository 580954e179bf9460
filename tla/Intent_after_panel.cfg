SPECIFICATION ReconcilerSpec
CONSTANTS
    Null = Null
    AutoBandHalfWidth = 50
    DeviceWinsWindow = 1
    RunningModeHysteresis = 50
    Intents <- Setpoint24
    OpReadings <- PanelReadings
    EnvReadings <- Warm
PROPERTY
    AcceptedSetpointIsSent
