----------------------------- MODULE MCS21Manager -----------------------------
(* The S21 manager on a small instance: a unit with two panel states and a    *)
(* room that makes its F9 checksum a reserved byte.                           *)
EXTENDS S21Manager

op(on, m, t, f) == [onOff |-> on, mode |-> m, setPoint |-> t, fanMode |-> f]

quietCool == op(TRUE, 51, 2200, Quiet)
autoCool  == op(TRUE, 51, 2200, AutoFan)
\* Off, Heat (52), a setpoint between two half degrees; and one out of range.
MCCommands    == {op(FALSE, 52, 2225, AutoFan), op(TRUE, 51, 3300, AutoFan)}
MCEnv         == [indoor |-> 2200, outdoor |-> -400, humidity |-> 50]
MCGarbage     == {<<69>>, <<69, 69>>}

oneState(calls, supports) ==
    [calls |-> calls \cup {"Init"}, panel |-> {quietCool}, supports |-> supports]
twoStates(calls, supports) ==
    [calls |-> calls \cup {"Init"}, panel |-> {quietCool, autoCool}, supports |-> supports]

\* A sensor, its second source and a unit with either; RG and a unit without it.
MCScenarios ==
    {oneState({"getRoomTemperature", "getHumidity"}, {"RH", "Re"}),
     oneState({"getRoomTemperature", "getOutdoorTemperature"}, {"Ra", "F9"}),
     oneState({"getUnitState"}, {"RzB2"}),
     twoStates({"setOnOff"}, {}),
     twoStates({"getOperation", "setOperation"}, {"RG"}),
     twoStates({"getOperation", "getFanMode"}, {}),
     oneState({"getOperatingMode", "setFanMode"}, {}),
     oneState({"setSetpoint", "getOnOff", "getSetpoint"}, {})}
===============================================================================
