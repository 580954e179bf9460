---------------------------- MODULE MCReconciler ----------------------------
(* The reconciler on its own, driven by every order of intents, readings,   *)
(* command outcomes and clock ticks.                                        *)
EXTENDS Reconciler

op(on, sp, f) == [onOff |-> on, operatingMode |-> "3", setpoint |-> sp, fanMode |-> f,
                  valveOpen |-> IF on THEN FALSE ELSE Null]

\* A cooling unit, on or off, its fan in Auto, MidLow or High.
FanReadings == {op(TRUE, 2500, f) : f \in {"A", "4", "7"}} \cup {op(FALSE, 2500, "A")}
PowerAndFan == ({"OnOff"} \X BOOLEAN) \cup ({"SpeedSetting"} \X {FanAuto, 6})

\* The two setpoints of test D14.
PanelReadings == {op(TRUE, sp, "A") : sp \in {2200, 2400}}
Setpoint24    == {<<"OccupiedCoolingSetpoint", 2400>>}

Warm == {[indoor |-> 2600, outdoor |-> 3000, humidity |-> 50]}
=============================================================================
