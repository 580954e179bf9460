----------------------- MODULE MCAirConditionerManager -----------------------
(* Small instances of the bridge: one unit, a few writes, panel changes and *)
(* outages.                                                                 *)
EXTENDS AirConditionerManager

unit(on, m, sp, f) == [onOff |-> on, operatingMode |-> m, setpoint |-> sp, fanMode |-> f]

behaviour(d, writes, panel) == [device |-> d, intents |-> writes, panel |-> panel]

cooling    == unit(TRUE, "3", 2500, "A")
heatingOff == unit(FALSE, "4", 2000, "4")
power      == {<<"OnOff", TRUE>>, <<"OnOff", FALSE>>}

\* Nobody at the panel: modes, a setpoint between two half degrees, the fan.
Retargeted == behaviour(cooling, {<<"SystemMode", "Auto">>, <<"SpeedSetting", 6>>,
                                  <<"OccupiedCoolingSetpoint", 2625>>}, {})
SwitchedOn == behaviour(heatingOff, {<<"SystemMode", "Cool">>, <<"SpeedSetting", 6>>}, {})
\* The panel turns the unit off; the setpoint is more than the unit takes.
Disturbed  == behaviour(cooling, power \cup {<<"OccupiedCoolingSetpoint", 3300>>},
                        {unit(FALSE, "3", 2500, "7")})

AllThree     == {Retargeted, SwitchedOn, Disturbed}
PowerOnly    == {behaviour(cooling, power, {})}
PanelWarmer  == {behaviour(cooling, {<<"OccupiedCoolingSetpoint", 2600>>},
                           {unit(TRUE, "3", 2300, "A")})}

Mild        == {[indoor |-> 2400, outdoor |-> 2000, humidity |-> 50]}
NoValve     == {Null}
NoReadings  == {}
=============================================================================
