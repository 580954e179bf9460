------------------------------ MODULE Projector ------------------------------
(***************************************************************************)
(* sync/projector.cpp: what a Matter controller reads of the logical       *)
(* state, and which attributes differ between two projections.             *)
(***************************************************************************)
EXTENDS LogicalACState

CONSTANT AutoBandHalfWidth   \* ProjectorConfig::autoBandHalfWidthCentiC

ASSUME AutoBandAssumption == AutoBandHalfWidth \in Nat

projectedValue(t) == IF hasInFlight(t) THEN t.observed ELSE t.desired

projectedOnOff == projectedValue(onOff)
projectedMode  == projectedValue(mode)

projectedOccupiedHeatingSetpoint ==
    IF projectedMode = "Auto"
    THEN projectedValue(autoSetpoint) - AutoBandHalfWidth
    ELSE projectedValue(heatSetpoint)

projectedOccupiedCoolingSetpoint ==
    IF projectedMode = "Auto"
    THEN projectedValue(autoSetpoint) + AutoBandHalfWidth
    ELSE projectedValue(coolSetpoint)

projectedRunningMode == IF projectedOnOff THEN runningMode ELSE "Off"

\* The attribution of the setpoint the unit is running on.
projectedSetpointSource == activeSetpoint(mode.observed).attribution

projectedSpeedSetting ==
    CASE ~projectedOnOff                                    -> 0
      [] projectedOnOff /\ projectedValue(fan) = FanAuto    -> Null
      [] OTHER                                              -> projectedValue(fan)

projectedFanMode ==
    IF projectedOnOff THEN fanModeOf(projectedValue(fan)) ELSE "Off"

\* A mid-range tachometer reading while the fan is in Auto.
projectedSpeedCurrent ==
    CASE ~projectedOnOff                                    -> 0
      [] projectedOnOff /\ projectedValue(fan) = FanAuto    -> MidLow
      [] OTHER                                              -> projectedValue(fan)

projectedPercentSetting == IF projectedOnOff THEN fanPercentSetting ELSE 0

projectedPercentCurrent == speedLevelToPercent(projectedSpeedCurrent)

projectedHumidityCentiPercent == IF humidity = Null THEN Null ELSE humidity * 100

project ==
    [onOff                   |-> projectedOnOff,
     mode                    |-> projectedMode,
     occupiedHeatingSetpoint |-> projectedOccupiedHeatingSetpoint,
     occupiedCoolingSetpoint |-> projectedOccupiedCoolingSetpoint,
     runningMode             |-> projectedRunningMode,
     localTemperature        |-> indoorTemp,
     outdoorTemperature      |-> outdoorTemp,
     setpointSource          |-> projectedSetpointSource,
     speedSetting            |-> projectedSpeedSetting,
     fanMode                 |-> projectedFanMode,
     speedCurrent            |-> projectedSpeedCurrent,
     percentSetting          |-> projectedPercentSetting,
     percentCurrent          |-> projectedPercentCurrent,
     humidityCentiPercent    |-> projectedHumidityCentiPercent,
     reachable               |-> reachable]

\* Mutant: SystemMode is taken for a function of the mode alone.
diffProjectionsModeOnly(before, after) ==
    LET differs(f) == before[f] # after[f]
    IN  {f \in DOMAIN before \ {"mode"} : differs(f)}
            \cup (IF differs("mode") THEN {"systemMode"} ELSE {})

\* SystemMode is derived from (onOff, mode) and is dirty when either differs.
diffProjections(before, after) ==
    LET differs(f) == before[f] # after[f]
    IN  {f \in DOMAIN before \ {"mode"} : differs(f)}
            \cup (IF differs("onOff") \/ differs("mode") THEN {"systemMode"} ELSE {})
=============================================================================
