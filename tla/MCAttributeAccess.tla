-------------------------- MODULE MCAttributeAccess --------------------------
(* Attribute writes and SetpointRaiseLower in every order with panel changes *)
(* and commands.                                                             *)
EXTENDS AttributeAccess

reading(on, m, sp, f, valve) == [onOff |-> on, operatingMode |-> m, setpoint |-> sp,
                                 fanMode |-> f, valveOpen |-> valve]
op(on, m, sp, f) == reading(on, m, sp, f, Null)

warm == [indoor |-> 2600, outdoor |-> 3000, humidity |-> 50]
cold == [indoor |-> 1900, outdoor |-> 500,  humidity |-> 40]

\* Cooling at 25.0, the fan in Auto, MidLow or High, on or off.
fanReadings      == {op(TRUE, "3", 2500, f) : f \in {"A", "4", "7"}}
                       \cup {op(FALSE, "3", 2500, "A")}
\* Auto around 22.0, or cooling at 22.0 or 24.0.
setpointReadings == {op(TRUE, "1", 2200, "A"), op(TRUE, "3", 2200, "A"), op(TRUE, "3", 2400, "A")}
\* Heating at 20.0 or off.
modeReadings     == {op(TRUE, "4", 2000, "A"), op(FALSE, "4", 2000, "A")}
\* Every way the running direction is derived: the valve unknown, open or closed,
\* a direction hint, a mode without one, off.
valveReadings    == {op(TRUE, "3", 2500, "A"), reading(TRUE, "4", 2000, "A", TRUE),
                     reading(TRUE, "1", 2200, "A", TRUE), reading(TRUE, "7", 2200, "A", FALSE),
                     op(FALSE, "1", 2200, "A"), reading(TRUE, "2", 2200, "A", FALSE)}

FanWriter ==
    [writes   |-> [OnOff          |-> {TRUE, FALSE},
                   SpeedSetting   |-> {Null, 6, 7},
                   PercentSetting |-> {Null, 40, 90, 101},
                   FanMode        |-> {"kOff", "kMedium", "kOn", "kSmart", "kReserved"},
                   SpeedCurrent   |-> {3}],
     commands |-> 0, readings |-> fanReadings, sensors |-> {warm}]

HeatWriter ==
    [writes   |-> [SystemMode |-> {"kOff", "kEmergencyHeat", "kFanOnly", "kSleep"},
                   OccupiedHeatingSetpoint |-> {2150},
                   LocalTemperature |-> {2000}],
     commands |-> 0, readings |-> modeReadings, sensors |-> {warm}]

CoolWriter ==
    [writes   |-> [SystemMode |-> {"kPrecooling"},
                   OccupiedCoolingSetpoint |-> {2400}],
     commands |-> 0, readings |-> modeReadings, sensors |-> {warm}]

ModeWriter ==
    [writes   |-> [SystemMode |-> {"kOff", "kCool"}],
     commands |-> 0, readings |-> valveReadings, sensors |-> {warm, cold}]

RaiseLower ==
    [writes   |-> [SpeedSetting |-> {}],
     commands |-> 2, readings |-> setpointReadings, sensors |-> {}]

Five       == {FanWriter, HeatWriter, CoolWriter, ModeWriter, RaiseLower}
NoReadings == {}
UpAndDown  == {20, -20}
HeatWindow == <<1800, 2200>>
CoolWindow == <<2000, 2400>>
=============================================================================
