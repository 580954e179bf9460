--------------------------- MODULE AttributeAccess ---------------------------
(***************************************************************************)
(* Reads and writes of the externalised Matter attributes (aai_*.cpp and   *)
(* the tables of aai_translation.h), beside the commands of CommandRouter. *)
(* A write decodes the Matter value, refuses it, drops it or turns it into *)
(* an intent; the status says whether it was refused, not whether the      *)
(* guard window let the intent through.  A read is the projection through  *)
(* the same tables.                                                        *)
(*                                                                         *)
(* Enumerators carry their Matter names.  What the bridge leaves to the    *)
(* cluster server (Presets, Schedules, FeatureMap) is not here.            *)
(***************************************************************************)
EXTENDS CommandRouter

CONSTANT Controllers   \* bound: [writes, commands, readings, sensors], what one behaviour
                       \* consists of: the values written per attribute, how many commands,
                       \* what polls and sensors report

VARIABLE controller

accessVars == <<routerVars, controller>>

Int16 == -(2^15)..(2^15 - 1)

\* v is what the attribute's decoder may yield: a bool, an int16, a nullable uint8;
\* an enum may be any value.
decodable(attribute, v) ==
    /\ attribute = "OnOff" => v \in BOOLEAN
    /\ attribute \in {"OccupiedHeatingSetpoint", "OccupiedCoolingSetpoint"} =>
          v \in Int16
    /\ attribute \in {"SpeedSetting", "PercentSetting"} => v \in (0..255) \cup {Null}

ASSUME ControllersAssumption ==
    \A c \in Controllers :
        /\ \A a \in DOMAIN c.writes : \A v \in c.writes[a] : decodable(a, v)
        /\ c.commands \in 0..MaxCommands
        /\ c.readings \subseteq S21OperationalObservations
        /\ c.sensors \subseteq S21EnvironmentalObservations
-----------------------------------------------------------------------------
(* aai_translation.h.                                                      *)

toMatterSystemMode(power, m) ==
    CASE ~power                   -> "kOff"
      [] power /\ m = "Auto"      -> "kAuto"
      [] power /\ m = "Cool"      -> "kCool"
      [] power /\ m = "Heat"      -> "kHeat"
      [] power /\ m = "Dry"       -> "kDry"
      [] power /\ m = "FanOnly"   -> "kFanOnly"

\* Null: kSleep and values Matter reserves.
fromMatterSystemMode(v) ==
    CASE v = "kOff"                      -> "Off"
      [] v = "kAuto"                     -> "Auto"
      [] v \in {"kCool", "kPrecooling"}  -> "Cool"
      [] v \in {"kHeat", "kEmergencyHeat"} -> "Heat"
      [] v = "kDry"                      -> "Dry"
      [] v = "kFanOnly"                  -> "FanOnly"
      [] OTHER                           -> Null

toMatterRunningMode(r) == CASE r = "Cooling" -> "kCool"
                            [] r = "Heating" -> "kHeat"
                            [] OTHER         -> "kOff"

toMatterSetpointSource(s) == IF s = "Matter" THEN "kExternal" ELSE "kManual"

toMatterFanMode(c) == CASE c = "Off"    -> "kOff"
                        [] c = "Low"    -> "kLow"
                        [] c = "Medium" -> "kMedium"
                        [] c = "High"   -> "kHigh"
                        [] c = "Auto"   -> "kAuto"

\* What a FanMode write does, and the speed it asks for if it sets one.
fromMatterFanModeKind(v) ==
    CASE v = "kOff" -> "PowerOff"
      [] v \in {"kLow", "kMedium", "kHigh", "kOn", "kAuto", "kSmart"} -> "SetSpeed"
      [] OTHER -> "Reject"

fromMatterFanMode(v) ==
    CASE v = "kLow"               -> representativeSpeed("Low")
      [] v = "kMedium"            -> representativeSpeed("Medium")
      [] v \in {"kHigh", "kOn"}   -> representativeSpeed("High")
      [] v \in {"kAuto", "kSmart"} -> FanAuto
-----------------------------------------------------------------------------
(* Reads.                                                                  *)

OnOffRead == projectedOnOff

\* SystemMode takes both fields from one projection.
ThermostatRead(attribute) ==
    CASE attribute = "SystemMode"              -> toMatterSystemMode(projectedOnOff, projectedMode)
      [] attribute = "OccupiedHeatingSetpoint" -> projectedOccupiedHeatingSetpoint
      [] attribute = "OccupiedCoolingSetpoint" -> projectedOccupiedCoolingSetpoint
      [] attribute = "ThermostatRunningMode"   -> toMatterRunningMode(projectedRunningMode)
      [] attribute = "SetpointChangeSource"    -> toMatterSetpointSource(projectedSetpointSource)
      [] attribute = "LocalTemperature"        -> indoorTemp
      [] attribute = "OutdoorTemperature"      -> outdoorTemp

FanControlRead(attribute) ==
    CASE attribute = "SpeedSetting"   -> projectedSpeedSetting
      [] attribute = "FanMode"        -> toMatterFanMode(projectedFanMode)
      [] attribute = "SpeedCurrent"   -> projectedSpeedCurrent
      [] attribute = "PercentSetting" -> projectedPercentSetting
      [] attribute = "PercentCurrent" -> projectedPercentCurrent

HumidityRead == projectedHumidityCentiPercent

fanAttributes == {"SpeedSetting", "PercentSetting", "FanMode", "SpeedCurrent", "PercentCurrent"}

Read(attribute) ==
    CASE attribute = "OnOff"          -> OnOffRead
      [] attribute = "MeasuredValue"  -> HumidityRead
      [] attribute \in fanAttributes  -> FanControlRead(attribute)
      [] OTHER                        -> ThermostatRead(attribute)
-----------------------------------------------------------------------------
(* Writes.                                                                 *)

\* A write the thermostat's Write or the fan's Write answers with an error.
refused(attribute, v) ==
    \/ attribute = "SystemMode" /\ fromMatterSystemMode(v) = Null
    \/ attribute = "FanMode" /\ fromMatterFanModeKind(v) = "Reject"
    \/ attribute = "SpeedSetting" /\ v # Null /\ v > kFanSpeedMax
    \/ attribute = "PercentSetting" /\ v # Null /\ v > 100
    \/ attribute \in {"LocalTemperature", "OutdoorTemperature", "ThermostatRunningMode",
                      "SetpointChangeSource"}

\* Answered with success and not applied.
dropped(attribute, v) ==
    \/ attribute \in {"SpeedSetting", "PercentSetting"} /\ v = Null
    \/ attribute \in {"SpeedCurrent", "PercentCurrent"}

powersOff(attribute, v) == \/ attribute \in {"SpeedSetting", "PercentSetting"} /\ v = 0
                           \/ attribute = "FanMode" /\ fromMatterFanModeKind(v) = "PowerOff"

applied(attribute, v) == ~refused(attribute, v) /\ ~dropped(attribute, v)

OnOffWrite(v) == SetOnOff(v)

ThermostatWrite(attribute, v) ==
    \/ attribute = "OccupiedHeatingSetpoint" /\ SetOccupiedHeatingSetpoint(v)
    \/ attribute = "OccupiedCoolingSetpoint" /\ SetOccupiedCoolingSetpoint(v)
    \/ attribute = "SystemMode" /\ SetSystemMode(fromMatterSystemMode(v))

FanControlWrite(attribute, v) ==
    \/ powersOff(attribute, v) /\ SetOnOff(FALSE)
    \/ /\ ~powersOff(attribute, v)
       /\ \/ attribute = "SpeedSetting" /\ SetSpeedSetting(v)
          \/ attribute = "PercentSetting" /\ SetPercentSetting(v)
          \/ attribute = "FanMode" /\ SetSpeedSetting(fromMatterFanMode(v))

Write(attribute, v) ==
    \/ ~applied(attribute, v) /\ UNCHANGED reconcilerVars
    \/ /\ applied(attribute, v)
       /\ CASE attribute = "OnOff"         -> OnOffWrite(v)
            [] attribute \in fanAttributes -> FanControlWrite(attribute, v)
            [] OTHER                       -> ThermostatWrite(attribute, v)

WriteAttribute(attribute, v) ==
    /\ commandDone
    /\ Write(attribute, v)
    /\ UNCHANGED <<commandVars, controller>>
-----------------------------------------------------------------------------
AccessInit ==
    /\ RouterInit
    /\ controller \in Controllers

Command == \/ invoked < controller.commands /\ InvokeCommand
           \/ ReadPart
           \/ ApplyPart

\* A poll, at most one per guard window.
Poll == /\ guardLeft["onOff"] = 0
        /\ \E o \in controller.readings : ApplyOperationalObservation(o)

ReadSensors == \E e \in controller.sensors : ApplyEnvironmentalObservation(e)

AccessNext ==
    \/ \E a \in DOMAIN controller.writes : \E v \in controller.writes[a] : WriteAttribute(a, v)
    \/ Command /\ UNCHANGED controller
    \/ Poll /\ UNCHANGED <<commandVars, controller>>
    \/ ReadSensors /\ UNCHANGED <<commandVars, controller>>
    \/ CommandOutcome /\ UNCHANGED <<commandVars, controller>>
    \/ ClockTick /\ UNCHANGED <<commandVars, controller>>

AccessSpec == AccessInit /\ [][AccessNext]_accessVars
-----------------------------------------------------------------------------
(* What a controller may expect of a write.                                *)

\* Matter's aliases read back as the mode they stand for.
alias == [kEmergencyHeat |-> "kHeat", kPrecooling |-> "kCool",
          kOn |-> "kHigh", kSmart |-> "kAuto"]

expected(attribute, v) ==
    IF attribute \in {"SystemMode", "FanMode"} /\ v \in DOMAIN alias THEN alias[v] ELSE v

free(name, t) == ~hasInFlight(t) /\ guardLeft[name] = 0

\* The twins a write goes through have nothing in flight and no guard window; the
\* mode is not about to change under a setpoint, nor the power under a fan write;
\* in Auto the two setpoints move as one band.
unhindered(attribute, v) ==
    \/ (attribute = "OnOff" \/ powersOff(attribute, v)) /\ free("onOff", onOff)
    \/ attribute = "SystemMode" /\ free("onOff", onOff) /\ free("mode", mode)
    \/ /\ mode.desired = mode.observed /\ ~hasInFlight(mode) /\ mode.observed # "Auto"
       /\ \/ attribute = "OccupiedHeatingSetpoint" /\ free("heatSetpoint", heatSetpoint)
          \/ attribute = "OccupiedCoolingSetpoint" /\ free("coolSetpoint", coolSetpoint)
    \/ /\ attribute \in fanAttributes /\ ~powersOff(attribute, v)
       /\ free("fan", fan) /\ free("onOff", onOff)
       /\ onOff.observed => onOff.desired

writeReadsBackStep ==
    \A a \in DOMAIN controller.writes : \A v \in controller.writes[a] :
        applied(a, v) /\ unhindered(a, v) /\ WriteAttribute(a, v) => Read(a)' = expected(a, v)

\* An unhindered write that is answered with success reads back as written, or as
\* the mode its alias stands for, whatever writes, panel changes and commands came
\* before: through the translation tables both ways, the power-on of a fan write
\* and the remembered percent (Write and Read of the AAIs).
WriteReadsBack == [][writeReadsBackStep]_accessVars
=============================================================================
