--------------------------- MODULE LogicalACState ---------------------------
(***************************************************************************)
(* The bridge's canonical air-conditioner state (sync/logical_ac_state.h): *)
(* six twins, and the observation-only fields Matter never writes.         *)
(* Temperatures are in hundredths of a degree Celsius, as in the code.     *)
(*                                                                         *)
(* refrigerantValveOpen is left out as state: after runningMode has been   *)
(* fused from it, only the debug shell reads it.                           *)
(***************************************************************************)
EXTENDS TwinField, FanMapping

VARIABLES
    onOff, mode, heatSetpoint, coolSetpoint, autoSetpoint, fan, \* TwinFields
    fanPercentSetting,                 \* remembered PercentSetting, or Null
    runningMode,                       \* fused from the last observation
    indoorTemp, outdoorTemp, humidity, \* sensors, Null before the first read
    reachable

twinVars   == <<onOff, mode, heatSetpoint, coolSetpoint, autoSetpoint, fan>>
sensorVars == <<indoorTemp, outdoorTemp, humidity>>
stateVars  == <<onOff, mode, heatSetpoint, coolSetpoint, autoSetpoint, fan,
                fanPercentSetting, runningMode, indoorTemp, outdoorTemp,
                humidity, reachable>>

OperationalModes == {"Auto", "Cool", "Heat", "Dry", "FanOnly"}
RunningModes     == {"Off", "Cooling", "Heating"}

ASSUME NullAssumption ==
    /\ Null \notin BOOLEAN
    /\ Null \notin Int
    /\ Null \notin OperationalModes
    /\ Null \notin RunningModes

StateTypeOK ==
    /\ onOff \in TwinFields(BOOLEAN)
    /\ mode \in TwinFields(OperationalModes)
    /\ heatSetpoint \in TwinFields(Int)
    /\ coolSetpoint \in TwinFields(Int)
    /\ autoSetpoint \in TwinFields(Int)
    /\ fan \in TwinFields(FanSpeeds)
    /\ fanPercentSetting \in (1..100) \cup {Null}
    /\ runningMode \in RunningModes
    /\ indoorTemp \in Int \cup {Null}
    /\ outdoorTemp \in Int \cup {Null}
    /\ humidity \in Nat \cup {Null}
    /\ reachable \in BOOLEAN

\* LogicalACStateDefaults.
StateInit ==
    /\ onOff = NewTwin(FALSE)
    /\ mode = NewTwin("Auto")
    /\ heatSetpoint = NewTwin(2000)
    /\ coolSetpoint = NewTwin(2500)
    /\ autoSetpoint = NewTwin(2200)
    /\ fan = NewTwin(FanAuto)
    /\ fanPercentSetting = Null
    /\ runningMode = "Off"
    /\ indoorTemp = Null
    /\ outdoorTemp = Null
    /\ humidity = Null
    /\ reachable = FALSE

activeSetpoint(m) ==
    CASE m = "Cool" -> coolSetpoint
      [] m = "Heat" -> heatSetpoint
      [] OTHER      -> autoSetpoint
=============================================================================
