----------------------------- MODULE Reconciler -----------------------------
(***************************************************************************)
(* sync/reconciler.cpp: the policy that turns controller intents and       *)
(* device observations into changes of the logical state and into S21      *)
(* commands.  Every action is one call made under the coordinator's lock.  *)
(*                                                                         *)
(* Time.  The code stamps each twin with the time of its last device       *)
(* observation (0: never) and lets an intent through once                  *)
(* deviceWinsWindowMs have elapsed.  Only the time left matters:           *)
(* guardLeft[t] is set to DeviceWinsWindow where the code stamps, counts   *)
(* down with Elapse, and 0 stands for "never observed or window over".     *)
(*                                                                         *)
(* S21 modes and fan modes are the characters they have on the wire.       *)
(***************************************************************************)
EXTENDS Projector

CONSTANTS
    DeviceWinsWindow,         \* ReconcilerConfig::deviceWinsWindowMs, in ticks
    RunningModeHysteresis,    \* ReconcilerConfig::runningModeHysteresisCentiC
    Intents,                  \* what controllers write ...
    OpReadings,               \* ... and what polls report
    EnvReadings

VARIABLES
    guardLeft,                \* mLastDeviceObserved, as time left
    mLastSentCommand          \* dedup memory, or Null

reconcilerVars == <<stateVars, guardLeft, mLastSentCommand>>

TwinNames == {"onOff", "mode", "heatSetpoint", "coolSetpoint", "autoSetpoint", "fan"}

OperatingModes == {"0", "1", "2", "3", "4", "6", "7"}
S21FanModes    == {"3", "4", "5", "6", "7", "A", "B"}

S21OperationCommands == [onOff         : BOOLEAN,
                         operatingMode : OperatingModes,
                         setpoint      : Int,
                         fanMode       : S21FanModes]

S21OperationalObservations == [onOff         : BOOLEAN,
                               operatingMode : OperatingModes,
                               setpoint      : Int,
                               fanMode       : S21FanModes,
                               valveOpen     : BOOLEAN \cup {Null}]

S21EnvironmentalObservations == [indoor : Int, outdoor : Int, humidity : Nat]

\* WriteIntent, a variant of six: the attribute and the value written to it.
WriteIntents ==
    ({"OnOff"} \X BOOLEAN)
    \cup ({"SystemMode"} \X (OperationalModes \cup {"Off"}))
    \cup ({"OccupiedHeatingSetpoint", "OccupiedCoolingSetpoint"} \X Int)
    \cup ({"SpeedSetting"} \X FanSpeeds)
    \cup ({"PercentSetting"} \X ((1..100) \cup {Null}))

ASSUME ReconcilerAssumption ==
    /\ DeviceWinsWindow \in Nat \ {0}
    /\ RunningModeHysteresis \in Nat
    /\ Intents \subseteq WriteIntents
    /\ OpReadings \subseteq S21OperationalObservations
    /\ EnvReadings \subseteq S21EnvironmentalObservations
    /\ Null \notin S21OperationCommands
-----------------------------------------------------------------------------
(* Enum routing.                                                           *)

operationalModeToS21OperatingMode(m) ==
    CASE m = "Cool"    -> "3"
      [] m = "Heat"    -> "4"
      [] m = "Dry"     -> "2"
      [] m = "FanOnly" -> "6"
      [] OTHER         -> "1"

s21OperatingModeToOperationalMode(w) ==
    CASE w = "3" -> "Cool"
      [] w = "4" -> "Heat"
      [] w = "2" -> "Dry"
      [] w = "6" -> "FanOnly"
      [] OTHER   -> "Auto"        \* Auto, Auto_Cooling, Auto_Heating

\* Mutant: drying counts as cooling.
s21OperatingModeDirectionHintDry(w) ==
    CASE w \in {"0", "2"} -> "Cooling"
      [] w = "7"          -> "Heating"
      [] OTHER            -> Null

s21OperatingModeDirectionHint(w) ==
    CASE w = "0" -> "Cooling"
      [] w = "7" -> "Heating"
      [] OTHER   -> Null

fanSpeedToS21FanMode(s) ==
    CASE s = FanAuto -> "A"
      [] s = 1       -> "B"
      [] s = 2       -> "3"
      [] s = 3       -> "4"
      [] s = 4       -> "5"
      [] s = 5       -> "6"
      [] OTHER       -> "7"

s21FanModeToSpeedSetting(w) ==
    CASE w = "A" -> FanAuto
      [] w = "B" -> 1
      [] w = "3" -> 2
      [] w = "4" -> 3
      [] w = "5" -> 4
      [] w = "6" -> 5
      [] OTHER   -> 6
-----------------------------------------------------------------------------
(* RunningMode fusion, from the observation o and the setpoints it has     *)
(* just updated (heat, cool, auto: the observed values).                   *)

fuseRunningMode(o, heat, cool, auto) ==
    LET opMode == s21OperatingModeToOperationalMode(o.operatingMode)
        hyst   == RunningModeHysteresis
    IN
    CASE ~o.onOff -> "Off"
      [] o.onOff /\ s21OperatingModeDirectionHint(o.operatingMode) # Null ->
            s21OperatingModeDirectionHint(o.operatingMode)
      [] o.onOff /\ o.operatingMode \notin {"0", "7"} /\ o.valveOpen = FALSE -> "Off"
      [] o.onOff /\ o.operatingMode \notin {"0", "7"} /\ o.valveOpen = TRUE ->
            CASE opMode = "Cool" -> "Cooling"
              [] opMode = "Heat" -> "Heating"
              [] opMode = "Auto" -> IF indoorTemp # Null /\ indoorTemp < auto
                                    THEN "Heating" ELSE "Cooling"
              [] OTHER           -> "Off"
      [] OTHER ->
            CASE indoorTemp = Null -> "Off"
              [] indoorTemp # Null /\ opMode = "Cool" ->
                    IF cool + hyst >= indoorTemp THEN "Off" ELSE "Cooling"
              [] indoorTemp # Null /\ opMode = "Heat" ->
                    IF heat - hyst <= indoorTemp THEN "Off" ELSE "Heating"
              [] indoorTemp # Null /\ opMode = "Auto" ->
                    CASE indoorTemp > auto + hyst -> "Cooling"
                      [] indoorTemp < auto - hyst -> "Heating"
                      [] OTHER                    -> "Off"
              [] OTHER -> "Off"
-----------------------------------------------------------------------------
(* Commands.                                                               *)

anyDirty == \/ dirty(onOff) \/ dirty(mode)
            \/ dirty(heatSetpoint) \/ dirty(coolSetpoint) \/ dirty(autoSetpoint)
            \/ dirty(fan)

desiredCommand == [onOff         |-> onOff.desired,
                   operatingMode |-> operationalModeToS21OperatingMode(mode.desired),
                   setpoint      |-> activeSetpoint(mode.desired).desired,
                   fanMode       |-> fanSpeedToS21FanMode(fan.desired)]

\* Mutant: no memory of the last command.
pendingCommandUndeduplicated == IF anyDirty THEN desiredCommand ELSE Null

pendingCommand ==
    IF anyDirty /\ desiredCommand # mLastSentCommand THEN desiredCommand ELSE Null
-----------------------------------------------------------------------------
(* Intents.                                                                *)

\* Mutant: the window ends a tick early.
intentPassesGuardEarly(t, differsFromObserved) == differsFromObserved => guardLeft[t] <= 1

intentPassesGuard(t, differsFromObserved) == differsFromObserved => guardLeft[t] = 0

\* t after setDesired(v), if the guard of twin `name' lets the intent through.
guardedDesired(name, t, v) ==
    IF intentPassesGuard(name, v # t.observed) THEN setDesired(t, v) ELSE t

notByIntents == <<runningMode, indoorTemp, outdoorTemp, humidity, reachable,
                  guardLeft, mLastSentCommand>>

SetOnOff(v) ==
    /\ onOff' = guardedDesired("onOff", onOff, v)
    /\ UNCHANGED <<mode, heatSetpoint, coolSetpoint, autoSetpoint, fan,
                   fanPercentSetting, notByIntents>>

\* w is a Matter SystemMode: "Off" carries power=false, a mode power=true.
SetSystemMode(w) ==
    LET power == w # "Off"
    IN  /\ onOff' = guardedDesired("onOff", onOff, power)
        /\ mode' = IF power THEN guardedDesired("mode", mode, w) ELSE mode
        /\ UNCHANGED <<heatSetpoint, coolSetpoint, autoSetpoint, fan,
                       fanPercentSetting, notByIntents>>

\* int16 division by two, towards zero.
Half(n) == IF n >= 0 THEN n \div 2 ELSE -((-n) \div 2)

SetOccupiedHeatingSetpoint(v) ==
    /\ CASE mode.observed = "Heat" ->
              /\ heatSetpoint' = guardedDesired("heatSetpoint", heatSetpoint, v)
              /\ UNCHANGED autoSetpoint
         [] mode.observed = "Auto" ->
              LET projectedCool == autoSetpoint.desired + AutoBandHalfWidth
              IN  /\ autoSetpoint' = guardedDesired("autoSetpoint", autoSetpoint,
                                                    Half(projectedCool + v))
                  /\ UNCHANGED heatSetpoint
         [] OTHER ->              \* inactive-mode shadow write, not guarded
              /\ heatSetpoint' = setDesired(heatSetpoint, v)
              /\ UNCHANGED autoSetpoint
    /\ UNCHANGED <<onOff, mode, coolSetpoint, fan, fanPercentSetting, notByIntents>>

SetOccupiedCoolingSetpoint(v) ==
    /\ CASE mode.observed = "Cool" ->
              /\ coolSetpoint' = guardedDesired("coolSetpoint", coolSetpoint, v)
              /\ UNCHANGED autoSetpoint
         [] mode.observed = "Auto" ->
              LET projectedHeat == autoSetpoint.desired - AutoBandHalfWidth
              IN  /\ autoSetpoint' = guardedDesired("autoSetpoint", autoSetpoint,
                                                    Half(v + projectedHeat))
                  /\ UNCHANGED coolSetpoint
         [] OTHER ->
              /\ coolSetpoint' = setDesired(coolSetpoint, v)
              /\ UNCHANGED autoSetpoint
    /\ UNCHANGED <<onOff, mode, heatSetpoint, fan, fanPercentSetting, notByIntents>>

\* Mutant: the implied power-on skips the guard.
powerOnForFanWriteUnguarded ==
    onOff' = IF onOff.observed THEN onOff ELSE setDesired(onOff, TRUE)

\* A running fan setting turns a unit that is off on.
powerOnForFanWrite ==
    onOff' = IF onOff.observed \/ ~intentPassesGuard("onOff", TRUE)
             THEN onOff
             ELSE setDesired(onOff, TRUE)

percentOf(speed) == IF speed = FanAuto THEN Null ELSE speedLevelToPercent(speed)

\* A fan write of the given speed that leaves percent as the remembered one.
fanWrite(speed, percent) ==
    /\ IF intentPassesGuard("fan", speed # fan.observed)
       THEN /\ powerOnForFanWrite
            /\ fan' = setDesired(fan, speed)
            /\ fanPercentSetting' = percent
       ELSE UNCHANGED <<onOff, fan, fanPercentSetting>>
    /\ UNCHANGED <<mode, heatSetpoint, coolSetpoint, autoSetpoint, notByIntents>>

SetSpeedSetting(s) == fanWrite(s, percentOf(s))

\* A null write changes nothing.
SetPercentSetting(p) ==
    \/ p = Null /\ UNCHANGED reconcilerVars
    \/ p # Null /\ fanWrite(percentToSpeedLevel(p), p)
-----------------------------------------------------------------------------
(* Observations and the outcome of a command.                              *)

\* Mutant: the percent survives a genuine change of level.
rederivedPercentStale(before, after) == fanPercentSetting

\* Mutant: the percent follows the device even while the controller owns the fan.
rederivedPercentAlways(before, after) ==
    IF after.observed # before.observed THEN percentOf(after.observed) ELSE fanPercentSetting

\* The remembered percent once an observation has turned the fan twin `before'
\* into `after': re-derived only when the device changed the level.
rederivedPercent(before, after) ==
    IF after.observed # before.observed /\ after.attribution = "Device"
    THEN percentOf(after.observed)
    ELSE fanPercentSetting

ApplyOperationalObservation(o) ==
    LET observedMode == s21OperatingModeToOperationalMode(o.operatingMode)
        seen(t, m)   == IF observedMode = m
                        THEN applyObservation(t, o.setpoint, "Device") ELSE t
        setpointName == CASE observedMode = "Cool" -> {"coolSetpoint"}
                          [] observedMode = "Heat" -> {"heatSetpoint"}
                          [] observedMode = "Auto" -> {"autoSetpoint"}
                          [] OTHER                 -> {}
    IN
    /\ onOff' = applyObservation(onOff, o.onOff, "Device")
    /\ mode'  = applyObservation(mode, observedMode, "Device")
    /\ coolSetpoint' = seen(coolSetpoint, "Cool")
    /\ heatSetpoint' = seen(heatSetpoint, "Heat")
    /\ autoSetpoint' = seen(autoSetpoint, "Auto")
    /\ fan' = applyObservation(fan, s21FanModeToSpeedSetting(o.fanMode), "Device")
    /\ fanPercentSetting' = rederivedPercent(fan, fan')
    /\ runningMode' = fuseRunningMode(o, heatSetpoint'.observed,
                                      coolSetpoint'.observed, autoSetpoint'.observed)
    /\ reachable' = TRUE
    /\ guardLeft' = [t \in TwinNames |->
                        IF t \in {"onOff", "mode", "fan"} \cup setpointName
                        THEN DeviceWinsWindow ELSE guardLeft[t]]
    /\ UNCHANGED <<indoorTemp, outdoorTemp, humidity, mLastSentCommand>>

\* Mutant: a sensor reading counts as a heartbeat.
ApplyEnvironmentalObservationReachable(e) ==
    /\ indoorTemp'  = e.indoor
    /\ outdoorTemp' = e.outdoor
    /\ humidity'    = e.humidity
    /\ reachable'   = TRUE
    /\ UNCHANGED <<twinVars, fanPercentSetting, runningMode, guardLeft, mLastSentCommand>>

ApplyEnvironmentalObservation(e) ==
    /\ indoorTemp'  = e.indoor
    /\ outdoorTemp' = e.outdoor
    /\ humidity'    = e.humidity
    /\ UNCHANGED <<twinVars, fanPercentSetting, runningMode, reachable,
                   guardLeft, mLastSentCommand>>

\* Promotes the twins' current desired values, whatever cmd carried.
OnCommandSent(cmd) ==
    LET sent(t, m) == IF mode.desired = m THEN promoteDesiredToInFlight(t) ELSE t
    IN
    /\ mLastSentCommand' = cmd
    /\ onOff' = promoteDesiredToInFlight(onOff)
    /\ mode'  = promoteDesiredToInFlight(mode)
    /\ coolSetpoint' = sent(coolSetpoint, "Cool")
    /\ heatSetpoint' = sent(heatSetpoint, "Heat")
    /\ autoSetpoint' = sent(autoSetpoint, "Auto")
    /\ fan' = promoteDesiredToInFlight(fan)
    /\ UNCHANGED <<fanPercentSetting, runningMode, indoorTemp, outdoorTemp,
                   humidity, reachable, guardLeft>>

\* In-flight values stay; only the dedup memory is cleared.
OnCommandFailed ==
    /\ mLastSentCommand' = Null
    /\ UNCHANGED <<stateVars, guardLeft>>

NotifyLinkDown ==
    /\ reachable' = FALSE
    /\ UNCHANGED <<twinVars, fanPercentSetting, runningMode, sensorVars,
                   guardLeft, mLastSentCommand>>

\* One tick of the clock the guard window is measured with.
Elapse ==
    /\ guardLeft' = [t \in TwinNames |-> IF guardLeft[t] = 0 THEN 0 ELSE guardLeft[t] - 1]
    /\ UNCHANGED <<stateVars, mLastSentCommand>>
-----------------------------------------------------------------------------
ReconcilerInit ==
    /\ StateInit
    /\ guardLeft = [t \in TwinNames |-> 0]
    /\ mLastSentCommand = Null

ApplyIntent(intent) ==
    LET v == intent[2]
    IN  CASE intent[1] = "OnOff"                   -> SetOnOff(v)
          [] intent[1] = "SystemMode"              -> SetSystemMode(v)
          [] intent[1] = "OccupiedHeatingSetpoint" -> SetOccupiedHeatingSetpoint(v)
          [] intent[1] = "OccupiedCoolingSetpoint" -> SetOccupiedCoolingSetpoint(v)
          [] intent[1] = "SpeedSetting"            -> SetSpeedSetting(v)
          [] intent[1] = "PercentSetting"          -> SetPercentSetting(v)

ReconcilerNext ==
    \/ \E intent \in Intents : ApplyIntent(intent)
    \/ \E o \in OpReadings : ApplyOperationalObservation(o)
    \/ \E e \in EnvReadings : ApplyEnvironmentalObservation(e)
    \/ pendingCommand # Null /\ OnCommandSent(pendingCommand)
    \/ OnCommandFailed
    \/ NotifyLinkDown
    \/ Elapse

ReconcilerSpec == ReconcilerInit /\ [][ReconcilerNext]_reconcilerVars
-----------------------------------------------------------------------------
(* Properties.                                                             *)

\* Types of the reconciler's state.
ReconcilerTypeOK ==
    /\ StateTypeOK
    /\ guardLeft \in [TwinNames -> 0..DeviceWinsWindow]
    /\ mLastSentCommand \in S21OperationCommands \cup {Null}

percentMatches(speed) ==
    IF fanPercentSetting = Null THEN speed = FanAuto
                                ELSE speed = percentToSpeedLevel(fanPercentSetting)

\* The remembered PercentSetting always names the level somebody asked for or
\* the level the device runs at: a mix of percent writes, speed writes,
\* in-flight commands, clamps and panel changes never leaves a percent that
\* belongs to neither (SetPercentSetting, SetSpeedSetting and the re-derivation
\* in applyOperationalObservation).
FanPercentCoherent == percentMatches(fan.desired) \/ percentMatches(fan.observed)

\* Until the device takes the fan over, the remembered percent is the one that
\* belongs to the level the controller wants, however many commands are
\* outstanding, confirmed or superseded (attribution of the fan twin against
\* the re-derivation in applyOperationalObservation).
ControllerPercentKept == fan.attribution # "Device" => percentMatches(fan.desired)

\* The running direction never contradicts the power and mode the device last
\* reported, although twins keep unsent and in-flight values beside them
\* (fuseRunningMode against applyObservation of onOff and mode).
RunningModeAgrees ==
    /\ runningMode # "Off" => onOff.observed
    /\ runningMode = "Cooling" => mode.observed \in {"Cool", "Auto"}
    /\ runningMode = "Heating" => mode.observed \in {"Heat", "Auto"}

\* What is in flight was sent: with a command outstanding, the in-flight power,
\* mode, fan and running setpoint are the values that command carried
\* (onCommandSent promotes desired values, not the fields of cmd).
InFlightWasSent ==
    mLastSentCommand # Null =>
        LET sentMode == s21OperatingModeToOperationalMode(mLastSentCommand.operatingMode)
        IN  /\ onOff.inFlight \in {Null, mLastSentCommand.onOff}
            /\ mode.inFlight \in {Null, sentMode}
            /\ fan.inFlight \in {Null, s21FanModeToSpeedSetting(mLastSentCommand.fanMode)}
            /\ sentMode \in {"Cool", "Heat", "Auto"} =>
                  activeSetpoint(sentMode).inFlight \in {Null, mLastSentCommand.setpoint}

\* t's next value u gets no new desired value other than one the device reports.
keptInWindow(name, t, u) ==
    guardLeft[name] > 0 => u.desired \in {t.desired, t.observed, u.observed}

deviceWinsStep ==
    /\ keptInWindow("onOff", onOff, onOff')
    /\ keptInWindow("mode", mode, mode')
    /\ keptInWindow("fan", fan, fan')
    /\ keptInWindow("autoSetpoint", autoSetpoint, autoSetpoint')
    /\ mode.observed = "Heat" => keptInWindow("heatSetpoint", heatSetpoint, heatSetpoint')
    /\ mode.observed = "Cool" => keptInWindow("coolSetpoint", coolSetpoint, coolSetpoint')

\* Device wins: inside the window opened by a device observation of a twin, no
\* step gives the twin a new desired value other than one the device reports,
\* not even the hidden power-on of a fan write.  An inactive setpoint is a
\* shadow and is exempt (intentPassesGuard and its callers).
DeviceWinsInsideWindow == [][deviceWinsStep]_reconcilerVars

\* A controller write of the cooling setpoint that changes what is wanted of a
\* cooling unit, with nothing of it in flight, produces a command: the write
\* wins once the guard window is over (test "D14: Matter intent outside guard
\* window wins"; pendingCommand and its dedup memory).
AcceptedSetpointIsSent ==
    [][/\ mode.observed = "Cool" /\ mode.desired = "Cool"
       /\ coolSetpoint'.desired # coolSetpoint.desired
       /\ coolSetpoint'.desired # coolSetpoint'.observed
       /\ coolSetpoint'.inFlight = Null
       => pendingCommand' # Null]_reconcilerVars

\* A running fan setting that a controller writes while the fan reads 0 turns the
\* unit on (test "Non-off fan write while powered off turns the AC on and restores
\* SystemMode"; powerOnForFanWrite).
FanWriteTurnsOn ==
    [][/\ projectedSpeedSetting = 0 /\ guardLeft["onOff"] = 0
       /\ fan'.desired # fan.desired /\ fan'.observed = fan.observed
       => onOff'.desired]_reconcilerVars
=============================================================================
