SPECIFICATION ReconcilerSpec
CONSTANTS
    Null = Null
    AutoBandHalfWidth = 50
    DeviceWinsWindow = 1
    RunningModeHysteresis = 50
    Intents <- PowerAndFan
    OpReadings <- FanReadings
    EnvReadings <- Warm
PROPERTY
    FanWriteTurnsOn
