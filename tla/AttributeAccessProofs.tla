------------------------ MODULE AttributeAccessProofs ------------------------
(***************************************************************************)
(* Attribute access, for every controller: whatever it writes, in whatever *)
(* order with commands and reports.                                        *)
(***************************************************************************)
EXTENDS AttributeAccess, CommandRouterProofs

-----------------------------------------------------------------------------
(* The translation tables.                                                 *)

\* An applied SystemMode, FanMode, speed or percent is in the reconciler's range.
LEMMA DecodedFacts ==
    /\ \A v : fromMatterSystemMode(v) # Null =>
                 fromMatterSystemMode(v) \in OperationalModes \cup {"Off"}
    /\ \A v : fromMatterFanModeKind(v) = "SetSpeed" => fromMatterFanMode(v) \in FanSpeeds
    /\ \A v : fromMatterFanModeKind(v) \in {"PowerOff", "SetSpeed", "Reject"}
  <1>1. \A v : fromMatterSystemMode(v) # Null =>
                  fromMatterSystemMode(v) \in OperationalModes \cup {"Off"}
    BY DEF fromMatterSystemMode, OperationalModes
  <1>2. \A v : fromMatterFanModeKind(v) = "SetSpeed" => fromMatterFanMode(v) \in FanSpeeds
    BY DEF fromMatterFanModeKind, fromMatterFanMode, representativeSpeed, FanSpeeds, FanLevels,
           FanAuto, kFanSpeedMax
  <1>3. \A v : fromMatterFanModeKind(v) \in {"PowerOff", "SetSpeed", "Reject"}
    BY DEF fromMatterFanModeKind
  <1> QED
    BY <1>1, <1>2, <1>3

\* Modes and fan modes survive the tables both ways, aliases as what they stand for.
LEMMA TableFacts ==
    /\ \A v : fromMatterSystemMode(v) \notin {Null, "Off"} =>
                 toMatterSystemMode(TRUE, fromMatterSystemMode(v)) = expected("SystemMode", v)
    /\ \A v : fromMatterSystemMode(v) = "Off" => expected("SystemMode", v) = "kOff"
    /\ \A v : fromMatterFanModeKind(v) = "SetSpeed" =>
                 toMatterFanMode(fanModeOf(fromMatterFanMode(v))) = expected("FanMode", v)
    /\ \A v : fromMatterFanModeKind(v) = "PowerOff" => expected("FanMode", v) = "kOff"
  <1>1. DOMAIN alias = {"kEmergencyHeat", "kPrecooling", "kOn", "kSmart"}
    BY DEF alias
  <1>2. /\ alias["kEmergencyHeat"] = "kHeat" /\ alias["kPrecooling"] = "kCool"
        /\ alias["kOn"] = "kHigh" /\ alias["kSmart"] = "kAuto"
    BY DEF alias
  <1>3. \A v : fromMatterSystemMode(v) \notin {Null, "Off"} =>
                  toMatterSystemMode(TRUE, fromMatterSystemMode(v)) = expected("SystemMode", v)
    BY <1>1, <1>2 DEF fromMatterSystemMode, toMatterSystemMode, expected
  <1>4. \A v : fromMatterSystemMode(v) = "Off" => expected("SystemMode", v) = "kOff"
    BY <1>1, NullAssumption DEF fromMatterSystemMode, expected, RunningModes
  <1>5. \A v : fromMatterFanModeKind(v) = "SetSpeed" =>
                  toMatterFanMode(fanModeOf(fromMatterFanMode(v))) = expected("FanMode", v)
    BY <1>1, <1>2 DEF fromMatterFanModeKind, fromMatterFanMode, representativeSpeed, fanModeOf,
                      FanAuto, toMatterFanMode, expected
  <1>6. \A v : fromMatterFanModeKind(v) = "PowerOff" => expected("FanMode", v) = "kOff"
    BY <1>1 DEF fromMatterFanModeKind, expected
  <1> QED
    BY <1>3, <1>4, <1>5, <1>6
-----------------------------------------------------------------------------
(* Writes are intents.                                                     *)

\* A fan attribute that is applied without powering off carries a level or a percent.
LEMMA FanWriteFacts ==
    ASSUME NEW a, NEW v, decodable(a, v), applied(a, v), ~powersOff(a, v)
    PROVE  /\ a = "SpeedSetting" => v \in FanLevels
           /\ a = "PercentSetting" => v \in 1..100
           /\ a = "FanMode" => /\ fromMatterFanModeKind(v) = "SetSpeed"
                               /\ fromMatterFanMode(v) \in FanSpeeds
  <1>1. a = "SpeedSetting" => v \in FanLevels
    BY DEF decodable, applied, refused, dropped, powersOff, FanLevels, kFanSpeedMax
  <1>2. a = "PercentSetting" => v \in 1..100
    BY DEF decodable, applied, refused, dropped, powersOff
  <1>3. a = "FanMode" => fromMatterFanModeKind(v) = "SetSpeed"
    BY DecodedFacts DEF applied, refused, powersOff
  <1> QED
    BY <1>1, <1>2, <1>3, DecodedFacts

\* A setpoint that is written is an integer.
LEMMA SetpointIsInt ==
    ASSUME NEW a \in {"OccupiedHeatingSetpoint", "OccupiedCoolingSetpoint"}, NEW v,
           decodable(a, v)
    PROVE  v \in Int
  <1>1. v \in Int16
    BY DEF decodable
  <1> QED
    BY <1>1 DEF Int16

\* A write is an intent of the right type, or changes nothing.
LEMMA WriteIsIntent ==
    ASSUME NEW a, NEW v, decodable(a, v), Write(a, v)
    PROVE  AnyIntent \/ UNCHANGED reconcilerVars
  <1> SUFFICES ASSUME applied(a, v) PROVE AnyIntent
    BY DEF Write
  <1>1. CASE a = "OnOff"
    <2>1. v \in BOOLEAN
      BY <1>1 DEF decodable
    <2>2. SetOnOff(v)
      BY <1>1 DEF Write, OnOffWrite, fanAttributes
    <2> QED
      BY <2>1, <2>2 DEF AnyIntent
  <1>2. CASE a # "OnOff" /\ a \in fanAttributes
    <2>1. FanControlWrite(a, v)
      BY <1>2 DEF Write
    <2>2. CASE powersOff(a, v)
      BY <2>1, <2>2 DEF FanControlWrite, AnyIntent
    <2>3. CASE ~powersOff(a, v)
      BY <2>1, <2>3, FanWriteFacts DEF FanControlWrite, AnyIntent, FanSpeeds
    <2> QED
      BY <2>2, <2>3
  <1>3. CASE a # "OnOff" /\ a \notin fanAttributes
    <2>1. ThermostatWrite(a, v)
      BY <1>3 DEF Write
    <2>2. a \in {"OccupiedHeatingSetpoint", "OccupiedCoolingSetpoint"} => v \in Int
      BY SetpointIsInt
    <2>3. a = "SystemMode" => fromMatterSystemMode(v) \in OperationalModes \cup {"Off"}
      BY DecodedFacts DEF applied, refused
    <2> QED
      BY <2>1, <2>2, <2>3 DEF ThermostatWrite, AnyIntent
  <1> QED
    BY <1>1, <1>2, <1>3

\* Whatever controllers do, to the router and the reconciler it is one of their
\* calls, with values of the right type.
LEMMA AccessCallsRouter ==
    ASSUME ReconcilerTypeOK, controller \in Controllers, [AccessNext]_accessVars
    PROVE  [RouterCall]_routerVars
  <1>1. ASSUME NEW a \in DOMAIN controller.writes, NEW v \in controller.writes[a],
               WriteAttribute(a, v)
        PROVE  [RouterCall]_routerVars
    <2>1. decodable(a, v)
      BY ControllersAssumption
    <2>2. AnyIntent \/ UNCHANGED reconcilerVars
      BY <1>1, <2>1, WriteIsIntent DEF WriteAttribute
    <2> QED
      BY <1>1, <2>2 DEF WriteAttribute, RouterCall, routerVars
  <1>2. CASE Command
    BY <1>2 DEF Command, RouterCall
  <1>3. CASE Poll /\ UNCHANGED commandVars
    <2>1. controller.readings \subseteq S21OperationalObservations
      BY ControllersAssumption
    <2> QED
      BY <1>3, <2>1 DEF Poll, RouterCall
  <1>4. CASE ReadSensors /\ UNCHANGED commandVars
    <2>1. controller.sensors \subseteq S21EnvironmentalObservations
      BY ControllersAssumption
    <2> QED
      BY <1>4, <2>1 DEF ReadSensors, RouterCall
  <1>5. CASE CommandOutcome /\ UNCHANGED commandVars
    <2>1. pendingCommand # Null => pendingCommand \in S21OperationCommands
      BY CommandType DEF pendingCommand
    <2> QED
      BY <1>5, <2>1 DEF CommandOutcome, RouterCall
  <1>6. CASE ClockTick /\ UNCHANGED commandVars
    BY <1>6 DEF ClockTick, RouterCall
  <1>7. CASE UNCHANGED accessVars
    BY <1>7 DEF accessVars
  <1> QED
    BY <1>1, <1>2, <1>3, <1>4, <1>5, <1>6, <1>7 DEF AccessNext

AccessInv == /\ ReconcilerTypeOK /\ CommandTypeOK /\ FanInv /\ StaleIsGuarded
             /\ controller \in Controllers

\* The types, the remembered percent and the guard of stale setpoints hold together
\* under every controller.
LEMMA AccessInvariant == AccessSpec => []AccessInv
  <1>1. AccessInit => AccessInv
    BY TypeInitially, CommandTypeInitially, FanInitially, StaleInitially
       DEF AccessInit, RouterInit, AccessInv
  <1>2. AccessInv /\ [AccessNext]_accessVars => AccessInv'
    <2> SUFFICES ASSUME AccessInv, [AccessNext]_accessVars PROVE AccessInv'
      OBVIOUS
    <2>1. [RouterCall]_routerVars /\ [AnyCall]_reconcilerVars
      BY AccessCallsRouter, RouterCallsReconciler DEF AccessInv
    <2>2. controller' = controller
      BY DEF AccessNext, WriteAttribute, accessVars
    <2> QED
      BY <2>1, <2>2, TypeStep, CommandTypeStep, FanStep, StaleStep DEF AccessInv
  <1> QED
    BY <1>1, <1>2, PTL DEF AccessSpec

\* Taking, sending and reporting a command are one step here, so the reconciler
\* hears of what the twins want.
LEMMA AccessIsFaithful ==
    ASSUME AccessInv, [AccessNext]_accessVars
    PROVE  [FaithfulCall]_reconcilerVars
  <1> USE DEF AccessInv
  <1>1. ASSUME NEW a \in DOMAIN controller.writes, NEW v \in controller.writes[a],
               WriteAttribute(a, v)
        PROVE  [FaithfulCall]_reconcilerVars
    <2>1. decodable(a, v)
      BY ControllersAssumption
    <2> QED
      BY <1>1, <2>1, WriteIsIntent DEF WriteAttribute, FaithfulCall
  <1>2. CASE Command
    BY <1>2, PartIsIntent DEF Command, InvokeCommand, ReadPart, FaithfulCall
  <1>3. CASE Poll
    <2>1. controller.readings \subseteq S21OperationalObservations
      BY ControllersAssumption
    <2> QED
      BY <1>3, <2>1 DEF Poll, FaithfulCall
  <1>4. CASE ReadSensors
    <2>1. controller.sensors \subseteq S21EnvironmentalObservations
      BY ControllersAssumption
    <2> QED
      BY <1>4, <2>1 DEF ReadSensors, FaithfulCall
  <1>5. CASE CommandOutcome
    BY <1>5 DEF CommandOutcome, pendingCommand, FaithfulCall
  <1>6. CASE ClockTick
    BY <1>6 DEF ClockTick, FaithfulCall
  <1>7. CASE UNCHANGED accessVars
    BY <1>7 DEF accessVars, routerVars
  <1> QED
    BY <1>1, <1>2, <1>3, <1>4, <1>5, <1>6, <1>7 DEF AccessNext

\* Attribute writes, in any mix with commands and reports, keep the remembered
\* percent coherent and the controller's, the running direction in line with the
\* last report and the values in flight those of the last command; they never move
\* a twin inside its guard window, and leave a raise between its read and its write
\* a raise (aai_*.cpp over reconciler.cpp and command_router.cpp).
THEOREM AccessKeepsReconciler ==
    AccessSpec => /\ []FanPercentCoherent /\ []ControllerPercentKept
                  /\ []RunningModeAgrees /\ []InFlightWasSent
                  /\ DeviceWinsInsideWindow /\ RaiseNeverLowers
  <1>1. AccessInv => FanPercentCoherent /\ ControllerPercentKept
    BY DEF AccessInv, FanInv
  <1>2. AccessInv /\ [AccessNext]_accessVars => [RouterCall]_routerVars /\ [AnyCall]_reconcilerVars
    BY AccessCallsRouter, RouterCallsReconciler DEF AccessInv
  <1>3. AccessInv /\ [AccessNext]_accessVars => [deviceWinsStep]_reconcilerVars
    BY <1>2, DeviceWinsStep DEF AccessInv
  <1>4. AccessInv /\ [AccessNext]_accessVars => [raiseNeverLowersStep]_routerVars
    BY <1>2, RaiseStep DEF AccessInv
  <1>5. AccessInit => RunningModeAgrees /\ InFlightWasSent
    BY DEF AccessInit, RouterInit, ReconcilerInit, StateInit, RunningModeAgrees, InFlightWasSent
  <1>6. RunningModeAgrees /\ AccessInv /\ [AccessNext]_accessVars => RunningModeAgrees'
    BY <1>2, RunningModeStep DEF AccessInv
  <1>7. InFlightWasSent /\ AccessInv /\ [AccessNext]_accessVars => InFlightWasSent'
    BY AccessIsFaithful, InFlightStep DEF AccessInv
  <1> QED
    BY <1>1, <1>3, <1>4, <1>5, <1>6, <1>7, AccessInvariant, PTL
       DEF AccessSpec, DeviceWinsInsideWindow, RaiseNeverLowers
-----------------------------------------------------------------------------
(* Writes read back.                                                       *)

\* A guarded intent for a free twin, or an unguarded one for a twin with nothing in
\* flight, shows at once.
LEMMA FreeShows ==
    ASSUME NEW T, NEW t \in TwinFields(T), NEW v \in T, NEW name
    PROVE  /\ ~hasInFlight(t) => projectedValue(setDesired(t, v)) = v
           /\ free(name, t) => projectedValue(guardedDesired(name, t, v)) = v
  <1>1. ~hasInFlight(t) => projectedValue(setDesired(t, v)) = v
    BY SetDesiredFacts DEF projectedValue, hasInFlight
  <1>2. free(name, t) => guardedDesired(name, t, v) = setDesired(t, v)
    BY DEF free, guardedDesired, intentPassesGuard
  <1> QED
    BY <1>1, <1>2 DEF free

\* A power write reads back, and a fan that is turned off reads 0 and Off.
LEMMA PowerShows ==
    ASSUME ReconcilerTypeOK, NEW v \in BOOLEAN, SetOnOff(v), free("onOff", onOff)
    PROVE  /\ projectedOnOff' = v
           /\ ~v => /\ projectedSpeedSetting' = 0
                    /\ projectedPercentSetting' = 0
                    /\ projectedFanMode' = "Off"
  <1>1. onOff' = guardedDesired("onOff", onOff, v)
    BY DEF SetOnOff
  <1>2. projectedValue(onOff') = v
    BY <1>1, FreeShows DEF ReconcilerTypeOK, StateTypeOK
  <1>3. projectedOnOff' = v
    BY <1>2 DEF projectedOnOff, projectedValue, hasInFlight
  <1> QED
    BY <1>3 DEF projectedSpeedSetting, projectedPercentSetting, projectedFanMode

\* A mode write reads back as power and mode together.
LEMMA SystemModeShows ==
    ASSUME ReconcilerTypeOK, NEW w \in OperationalModes \cup {"Off"}, SetSystemMode(w),
           free("onOff", onOff), free("mode", mode)
    PROVE  /\ projectedOnOff' = (w # "Off")
           /\ w # "Off" => projectedMode' = w
  <1>1. projectedValue(onOff') = (w # "Off")
    <2>1. onOff \in TwinFields(BOOLEAN)
      BY DEF ReconcilerTypeOK, StateTypeOK
    <2>2. onOff' = guardedDesired("onOff", onOff, w # "Off")
      BY DEF SetSystemMode
    <2>3. (w # "Off") \in BOOLEAN
      OBVIOUS
    <2> QED
      BY <2>1, <2>2, <2>3, FreeShows, Zenon
  <1>2. w # "Off" => projectedValue(mode') = w
    BY FreeShows DEF SetSystemMode, ReconcilerTypeOK, StateTypeOK
  <1> QED
    BY <1>1, <1>2 DEF projectedOnOff, projectedMode, projectedValue, hasInFlight

\* Outside Auto a setpoint write reads back, be it of the running mode or a shadow.
LEMMA SetpointShows ==
    ASSUME ReconcilerTypeOK, NEW v \in Int,
           mode.desired = mode.observed, mode.observed # "Auto"
    PROVE  /\ SetOccupiedHeatingSetpoint(v) /\ free("heatSetpoint", heatSetpoint) =>
                 projectedOccupiedHeatingSetpoint' = v
           /\ SetOccupiedCoolingSetpoint(v) /\ free("coolSetpoint", coolSetpoint) =>
                 projectedOccupiedCoolingSetpoint' = v
  <1>1. mode' = mode => projectedMode' # "Auto"
    BY DEF projectedMode, projectedValue, hasInFlight
  <1>2. ASSUME SetOccupiedHeatingSetpoint(v), free("heatSetpoint", heatSetpoint)
        PROVE  projectedOccupiedHeatingSetpoint' = v
    <2>1. /\ mode' = mode
          /\ heatSetpoint' \in {guardedDesired("heatSetpoint", heatSetpoint, v),
                                setDesired(heatSetpoint, v)}
      BY <1>2 DEF SetOccupiedHeatingSetpoint
    <2>2. projectedValue(heatSetpoint') = v
      BY <1>2, <2>1, FreeShows DEF ReconcilerTypeOK, StateTypeOK, free
    <2> QED
      BY <1>1, <2>1, <2>2 DEF projectedOccupiedHeatingSetpoint, projectedValue, hasInFlight
  <1>3. ASSUME SetOccupiedCoolingSetpoint(v), free("coolSetpoint", coolSetpoint)
        PROVE  projectedOccupiedCoolingSetpoint' = v
    <2>1. /\ mode' = mode
          /\ coolSetpoint' \in {guardedDesired("coolSetpoint", coolSetpoint, v),
                                setDesired(coolSetpoint, v)}
      BY <1>3 DEF SetOccupiedCoolingSetpoint
    <2>2. projectedValue(coolSetpoint') = v
      BY <1>3, <2>1, FreeShows DEF ReconcilerTypeOK, StateTypeOK, free
    <2> QED
      BY <1>1, <2>1, <2>2 DEF projectedOccupiedCoolingSetpoint, projectedValue, hasInFlight
  <1> QED
    BY <1>2, <1>3

\* A fan write turns the unit on and shows its speed and its percent.
LEMMA FanShows ==
    ASSUME ReconcilerTypeOK, NEW s \in FanSpeeds, NEW p, fanWrite(s, p),
           free("fan", fan), free("onOff", onOff), onOff.observed => onOff.desired
    PROVE  /\ projectedOnOff'
           /\ projectedValue(fan)' = s
           /\ fanPercentSetting' = p
  <1>1. intentPassesGuard("fan", s # fan.observed) /\ intentPassesGuard("onOff", TRUE)
    BY DEF free, intentPassesGuard
  <1>2. /\ fan' = setDesired(fan, s) /\ fanPercentSetting' = p
        /\ onOff' = IF onOff.observed THEN onOff ELSE setDesired(onOff, TRUE)
    BY <1>1 DEF fanWrite, powerOnForFanWrite
  <1>3. projectedValue(fan') = s
    BY <1>2, FreeShows DEF free, ReconcilerTypeOK, StateTypeOK
  <1>4. projectedValue(onOff')
    <2>1. CASE onOff.observed
      BY <1>2, <2>1 DEF free, projectedValue
    <2>2. CASE ~onOff.observed
      <3>1. projectedValue(setDesired(onOff, TRUE)) = TRUE
        BY FreeShows DEF free, ReconcilerTypeOK, StateTypeOK
      <3> QED
        BY <1>2, <2>2, <3>1
    <2> QED
      BY <2>1, <2>2
  <1>5. projectedValue(fan)' = s
    BY <1>3 DEF projectedValue, hasInFlight
  <1>6. projectedOnOff'
    BY <1>4 DEF projectedOnOff, projectedValue, hasInFlight
  <1> QED
    BY <1>2, <1>5, <1>6

\* Every unhindered write that is applied reads back.
LEMMA WriteStep ==
    ASSUME ReconcilerTypeOK, NEW a, NEW v, decodable(a, v), applied(a, v), unhindered(a, v),
           Write(a, v)
    PROVE  Read(a)' = expected(a, v)
  <1>1. CASE a = "OnOff"
    <2>1. v \in BOOLEAN
      BY <1>1 DEF decodable
    <2>2. SetOnOff(v)
      BY <1>1 DEF Write, OnOffWrite, fanAttributes
    <2>3. free("onOff", onOff)
      BY <1>1 DEF unhindered, fanAttributes
    <2>4. projectedOnOff' = v
      BY <2>1, <2>2, <2>3, PowerShows
    <2> QED
      BY <1>1, <2>4 DEF Read, OnOffRead, fanAttributes, expected
  <1>2. CASE a \in fanAttributes /\ powersOff(a, v)
    <2>1. SetOnOff(FALSE)
      BY <1>2 DEF Write, FanControlWrite, fanAttributes
    <2>2. free("onOff", onOff)
      BY <1>2 DEF unhindered, fanAttributes
    <2>3. projectedSpeedSetting' = 0 /\ projectedPercentSetting' = 0 /\ projectedFanMode' = "Off"
      BY <2>1, <2>2, PowerShows
    <2>4. Read(a)' = FanControlRead(a)'
      BY <1>2 DEF Read, fanAttributes
    <2>5. CASE a \in {"SpeedSetting", "PercentSetting"}
      BY <1>2, <2>3, <2>4, <2>5 DEF FanControlRead, powersOff, expected
    <2>6. CASE a = "FanMode"
      BY <1>2, <2>3, <2>4, <2>6, TableFacts DEF FanControlRead, powersOff, toMatterFanMode
    <2> QED
      BY <1>2, <2>5, <2>6 DEF powersOff
  <1>3. CASE a \in fanAttributes /\ ~powersOff(a, v)
    <2>1. free("fan", fan) /\ free("onOff", onOff) /\ (onOff.observed => onOff.desired)
      BY <1>3 DEF unhindered, fanAttributes
    <2>2. /\ a = "SpeedSetting" => v \in FanLevels
          /\ a = "PercentSetting" => v \in 1..100
          /\ a = "FanMode" => /\ fromMatterFanModeKind(v) = "SetSpeed"
                              /\ fromMatterFanMode(v) \in FanSpeeds
      BY <1>3, FanWriteFacts
    <2>3. FanControlWrite(a, v) /\ a \notin {"SpeedCurrent", "PercentCurrent"}
      BY <1>3 DEF Write, applied, dropped, fanAttributes
    <2>4. Read(a)' = FanControlRead(a)'
      BY <1>3 DEF Read, fanAttributes
    <2>5. CASE a = "SpeedSetting"
      <3>1. fanWrite(v, percentOf(v))
        BY <1>3, <2>3, <2>5 DEF FanControlWrite, SetSpeedSetting
      <3>2. projectedOnOff' /\ projectedValue(fan)' = v
        BY <2>1, <2>2, <2>5, <3>1, FanShows DEF FanSpeeds
      <3>3. v # FanAuto
        BY <2>2, <2>5 DEF FanLevels, FanAuto
      <3> QED
        BY <2>4, <2>5, <3>2, <3>3 DEF FanControlRead, projectedSpeedSetting, expected
    <2>6. CASE a = "PercentSetting"
      <3>1. v \in 1..100 /\ v # Null
        BY <2>2, <2>6, NullAssumption
      <3>2. fanWrite(percentToSpeedLevel(v), v)
        BY <1>3, <2>3, <2>6, <3>1 DEF FanControlWrite, SetPercentSetting
      <3>3. percentToSpeedLevel(v) \in FanSpeeds
        BY <3>1, FanMappingFacts DEF FanSpeeds
      <3>4. projectedOnOff' /\ fanPercentSetting' = v
        BY <2>1, <3>2, <3>3, FanShows
      <3> QED
        BY <2>4, <2>6, <3>4 DEF FanControlRead, projectedPercentSetting, expected
    <2>7. CASE a = "FanMode"
      <3> DEFINE s == fromMatterFanMode(v)
      <3>1. fanWrite(s, percentOf(s))
        BY <1>3, <2>3, <2>7 DEF FanControlWrite, SetSpeedSetting
      <3>2. projectedOnOff' /\ projectedValue(fan)' = s
        BY <2>1, <2>2, <2>7, <3>1, FanShows
      <3>3. projectedFanMode' = fanModeOf(s)
        BY <3>2 DEF projectedFanMode
      <3> HIDE DEF s
      <3>4. FanControlRead(a)' = toMatterFanMode(fanModeOf(s))
        BY <2>7, <3>3 DEF FanControlRead
      <3> QED
        BY <2>2, <2>4, <2>7, <3>4, TableFacts DEF s
    <2> QED
      BY <1>3, <2>3, <2>5, <2>6, <2>7 DEF fanAttributes
  <1>4. CASE a # "OnOff" /\ a \notin fanAttributes
    <2>1. ThermostatWrite(a, v)
      BY <1>4 DEF Write
    <2>2. Read(a)' = ThermostatRead(a)' \/ a = "MeasuredValue"
      BY <1>4 DEF Read
    <2>3. CASE a = "SystemMode"
      <3> DEFINE w == fromMatterSystemMode(v)
      <3>1. w # Null /\ w \in OperationalModes \cup {"Off"}
        BY <2>3, DecodedFacts DEF applied, refused
      <3>2. SetSystemMode(w) /\ free("onOff", onOff) /\ free("mode", mode)
        BY <1>4, <2>1, <2>3 DEF ThermostatWrite, unhindered, powersOff
      <3>3. projectedOnOff' = (w # "Off") /\ (w # "Off" => projectedMode' = w)
        BY <3>1, <3>2, SystemModeShows
      <3>4. Read(a)' = toMatterSystemMode(projectedOnOff, projectedMode)'
        BY <2>2, <2>3 DEF ThermostatRead
      <3>5. CASE w = "Off"
        <4>1. toMatterSystemMode(projectedOnOff, projectedMode)' = "kOff"
          BY <3>3, <3>5 DEF toMatterSystemMode
        <4> QED
          BY <2>3, <3>4, <3>5, <4>1, TableFacts
      <3>6. CASE w # "Off"
        <4>1. toMatterSystemMode(projectedOnOff, projectedMode)' = toMatterSystemMode(TRUE, w)
          BY <3>3, <3>6 DEF toMatterSystemMode
        <4> QED
          BY <2>3, <3>1, <3>4, <3>6, <4>1, TableFacts
      <3> QED
        BY <3>5, <3>6
    <2>4. CASE a \in {"OccupiedHeatingSetpoint", "OccupiedCoolingSetpoint"}
      <3>1. v \in Int
        BY <2>4, SetpointIsInt
      <3>2. /\ mode.desired = mode.observed /\ mode.observed # "Auto"
            /\ a = "OccupiedHeatingSetpoint" => free("heatSetpoint", heatSetpoint)
            /\ a = "OccupiedCoolingSetpoint" => free("coolSetpoint", coolSetpoint)
        BY <1>4, <2>4 DEF unhindered, powersOff
      <3>3. /\ a = "OccupiedHeatingSetpoint" => SetOccupiedHeatingSetpoint(v)
            /\ a = "OccupiedCoolingSetpoint" => SetOccupiedCoolingSetpoint(v)
        BY <2>1, <2>4 DEF ThermostatWrite
      <3>4. /\ a = "OccupiedHeatingSetpoint" => projectedOccupiedHeatingSetpoint' = v
            /\ a = "OccupiedCoolingSetpoint" => projectedOccupiedCoolingSetpoint' = v
        BY <3>1, <3>2, <3>3, SetpointShows
      <3> QED
        BY <2>2, <2>4, <3>4 DEF ThermostatRead, expected
    <2> QED
      BY <2>1, <2>3, <2>4 DEF ThermostatWrite
  <1> QED
    BY <1>1, <1>2, <1>3, <1>4

\* An unhindered write reads back as written, or as what its alias stands for: every
\* attribute, value and history, through both translation tables, the power-on of a
\* fan write and the remembered percent (Write and Read of aai_*.cpp).
THEOREM WriteReadsBackCorrect == AccessSpec => WriteReadsBack
  <1>1. AccessInv /\ [AccessNext]_accessVars => [writeReadsBackStep]_accessVars
    <2> SUFFICES ASSUME AccessInv PROVE writeReadsBackStep
      OBVIOUS
    <2> SUFFICES ASSUME NEW a \in DOMAIN controller.writes, NEW v \in controller.writes[a],
                        applied(a, v), unhindered(a, v), WriteAttribute(a, v)
                 PROVE  Read(a)' = expected(a, v)
      BY DEF writeReadsBackStep
    <2>1. decodable(a, v)
      BY ControllersAssumption DEF AccessInv
    <2>2. Write(a, v)
      BY DEF WriteAttribute
    <2> QED
      BY <2>1, <2>2, WriteStep DEF AccessInv
  <1> QED
    BY <1>1, AccessInvariant, PTL DEF AccessSpec, WriteReadsBack
=============================================================================
