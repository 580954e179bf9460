-------------------------- MODULE ReconcilerProofs --------------------------
(***************************************************************************)
(* Proofs about the reconciler for every choice of windows, hysteresis,    *)
(* readings and controller writes.                                         *)
(***************************************************************************)
EXTENDS Reconciler, TLAPS

-----------------------------------------------------------------------------
(* The twin algebra.                                                       *)

\* Every operation of a twin over T yields a twin over T.
LEMMA TwinTypes ==
    ASSUME NEW T, NEW t \in TwinFields(T), NEW v \in T
    PROVE  /\ NewTwin(v) \in TwinFields(T)
           /\ setDesired(t, v) \in TwinFields(T)
           /\ promoteDesiredToInFlight(t) \in TwinFields(T)
           /\ applyObservation(t, v, "Device") \in TwinFields(T)
  BY DEF TwinFields, NewTwin, setDesired, promoteDesiredToInFlight,
         applyObservation, hasInFlight, ObservationSources

\* setDesired leaves everything but the desired value and its owner alone, and
\* an unchanged owner means an unchanged desired value.
LEMMA SetDesiredFacts ==
    ASSUME NEW T, NEW t \in TwinFields(T), NEW v \in T
    PROVE  LET u == setDesired(t, v) IN
           /\ u.desired = v
           /\ u.observed = t.observed
           /\ u.inFlight = t.inFlight
           /\ u.attribution \in {t.attribution, "Matter"}
  BY DEF TwinFields, setDesired, ObservationSources

\* An observation always ends with the observed value, replaces the desired
\* value only by the observed one and only with the device as the owner, and
\* never creates an in-flight value.
LEMMA ObservationFacts ==
    ASSUME NEW T, NEW t \in TwinFields(T), NEW v \in T
    PROVE  LET u == applyObservation(t, v, "Device") IN
           /\ u.observed = v
           /\ u.desired \in {t.desired, v}
           /\ u.attribution \in {t.attribution, "Device"}
           /\ u.attribution # "Device" => u.desired = t.desired
           /\ t.observed = v => u.desired = t.desired
           /\ u.inFlight \in {Null, t.inFlight}
  BY DEF TwinFields, applyObservation, hasInFlight, ObservationSources

\* promoteDesiredToInFlight only sets the in-flight value.
LEMMA PromoteFacts ==
    ASSUME NEW T, NEW t \in TwinFields(T)
    PROVE  LET u == promoteDesiredToInFlight(t) IN
           /\ u.inFlight = t.desired
           /\ u.desired = t.desired
           /\ u.observed = t.observed
           /\ u.attribution = t.attribution
  BY DEF TwinFields, promoteDesiredToInFlight, ObservationSources

\* A guarded intent yields a twin, leaves the observed and in-flight values
\* alone and, inside the window, can only restate the observed value.
LEMMA GuardedFacts ==
    ASSUME NEW T, NEW t \in TwinFields(T), NEW v \in T, NEW name \in TwinNames,
           guardLeft \in [TwinNames -> 0..DeviceWinsWindow]
    PROVE  LET u == guardedDesired(name, t, v) IN
           /\ u \in TwinFields(T)
           /\ u.observed = t.observed
           /\ u.inFlight = t.inFlight
           /\ guardLeft[name] > 0 => u.desired \in {t.desired, t.observed}
  <1>1. CASE intentPassesGuard(name, v # t.observed)
    <2>1. guardedDesired(name, t, v) = setDesired(t, v)
      BY <1>1 DEF guardedDesired
    <2>2. guardLeft[name] > 0 => v = t.observed
      BY <1>1, ReconcilerAssumption DEF intentPassesGuard
    <2>3. setDesired(t, v) \in TwinFields(T)
      BY TwinTypes
    <2>4. /\ setDesired(t, v).desired = v
          /\ setDesired(t, v).observed = t.observed
          /\ setDesired(t, v).inFlight = t.inFlight
      BY SetDesiredFacts
    <2> QED
      BY <2>1, <2>2, <2>3, <2>4
  <1>2. CASE ~intentPassesGuard(name, v # t.observed)
    BY <1>2 DEF guardedDesired
  <1> QED
    BY <1>1, <1>2
-----------------------------------------------------------------------------
(* The conversions.                                                        *)

\* The percent and level conversions stay in their ranges and a level survives
\* the trip through its percent.
LEMMA FanMappingFacts ==
    /\ \A p \in 1..100 : percentToSpeedLevel(p) \in FanLevels
    /\ \A s \in FanLevels : /\ speedLevelToPercent(s) \in 1..100
                            /\ percentToSpeedLevel(speedLevelToPercent(s)) = s
  BY SMTT(30) DEF percentToSpeedLevel, speedLevelToPercent, FanLevels, kFanSpeedMax

\* Modes and fan speeds survive the trip over the wire, and what a poll reports
\* decodes to a mode and a fan speed.
LEMMA WireFacts ==
    /\ \A m \in OperationalModes :
          /\ operationalModeToS21OperatingMode(m) \in OperatingModes
          /\ s21OperatingModeToOperationalMode(operationalModeToS21OperatingMode(m)) = m
    /\ \A s \in FanSpeeds :
          /\ fanSpeedToS21FanMode(s) \in S21FanModes
          /\ s21FanModeToSpeedSetting(fanSpeedToS21FanMode(s)) = s
    /\ \A w : s21OperatingModeToOperationalMode(w) \in OperationalModes
    /\ \A w : s21FanModeToSpeedSetting(w) \in FanSpeeds
  <1>1. \A m \in OperationalModes :
          /\ operationalModeToS21OperatingMode(m) \in OperatingModes
          /\ s21OperatingModeToOperationalMode(operationalModeToS21OperatingMode(m)) = m
    BY DEF OperationalModes, OperatingModes, operationalModeToS21OperatingMode,
           s21OperatingModeToOperationalMode
  <1>2. \A s \in FanSpeeds :
          /\ fanSpeedToS21FanMode(s) \in S21FanModes
          /\ s21FanModeToSpeedSetting(fanSpeedToS21FanMode(s)) = s
    BY DEF FanSpeeds, FanLevels, FanAuto, kFanSpeedMax, S21FanModes,
           fanSpeedToS21FanMode, s21FanModeToSpeedSetting
  <1>3. \A w : s21OperatingModeToOperationalMode(w) \in OperationalModes
    BY DEF OperationalModes, s21OperatingModeToOperationalMode
  <1>4. \A w : s21FanModeToSpeedSetting(w) \in FanSpeeds
    BY DEF FanSpeeds, FanLevels, FanAuto, kFanSpeedMax, s21FanModeToSpeedSetting
  <1> QED
    BY <1>1, <1>2, <1>3, <1>4
-----------------------------------------------------------------------------
(* The reconciler called with any value of the right type: every component *)
(* that drives it takes such steps, whatever its own inputs are, so the    *)
(* step lemmas below are about AnyCall and serve all of them.              *)

AnyIntent ==
    \/ \E v \in BOOLEAN : SetOnOff(v)
    \/ \E w \in OperationalModes \cup {"Off"} : SetSystemMode(w)
    \/ \E v \in Int : SetOccupiedHeatingSetpoint(v)
    \/ \E v \in Int : SetOccupiedCoolingSetpoint(v)
    \/ \E s \in FanSpeeds : SetSpeedSetting(s)
    \/ \E p \in (1..100) \cup {Null} : SetPercentSetting(p)

AnyCall ==
    \/ AnyIntent
    \/ \E o \in S21OperationalObservations : ApplyOperationalObservation(o)
    \/ \E e \in S21EnvironmentalObservations : ApplyEnvironmentalObservation(e)
    \/ \E cmd \in S21OperationCommands : OnCommandSent(cmd)
    \/ OnCommandFailed
    \/ NotifyLinkDown
    \/ Elapse

\* Applying a write intent is a call of one of its six handlers.
LEMMA IntentIsAnyIntent ==
    ASSUME NEW intent \in WriteIntents, ApplyIntent(intent)
    PROVE  AnyIntent
  BY DEF WriteIntents, ApplyIntent, AnyIntent
-----------------------------------------------------------------------------
(* Type correctness.                                                       *)

\* The percent that a level stands for is a PercentSetting.
LEMMA PercentType ==
    ASSUME NEW s \in FanSpeeds
    PROVE  percentOf(s) \in (1..100) \cup {Null}
  BY FanMappingFacts DEF percentOf, FanSpeeds

\* The command built from well-typed twins is a command.
LEMMA CommandType ==
    ASSUME ReconcilerTypeOK
    PROVE  desiredCommand \in S21OperationCommands
  <1> USE DEF ReconcilerTypeOK, StateTypeOK
  <1>1. activeSetpoint(mode.desired) \in TwinFields(Int)
    BY DEF activeSetpoint
  <1>2. /\ onOff.desired \in BOOLEAN
        /\ mode.desired \in OperationalModes
        /\ activeSetpoint(mode.desired).desired \in Int
        /\ fan.desired \in FanSpeeds
    BY <1>1 DEF TwinFields
  <1> QED
    BY <1>2, WireFacts DEF desiredCommand, S21OperationCommands

\* A fan write keeps the types.
LEMMA FanWriteType ==
    ASSUME ReconcilerTypeOK, NEW s \in FanSpeeds, NEW p \in (1..100) \cup {Null},
           fanWrite(s, p)
    PROVE  ReconcilerTypeOK'
  <1> USE DEF ReconcilerTypeOK, StateTypeOK
  <1>1. /\ setDesired(onOff, TRUE) \in TwinFields(BOOLEAN)
        /\ setDesired(fan, s) \in TwinFields(FanSpeeds)
    BY TwinTypes
  <1>2. /\ onOff' \in TwinFields(BOOLEAN)
        /\ fan' \in TwinFields(FanSpeeds)
        /\ fanPercentSetting' \in (1..100) \cup {Null}
    BY <1>1 DEF fanWrite, powerOnForFanWrite
  <1> QED
    BY <1>2 DEF fanWrite, notByIntents

\* Fusing the running direction yields one.
LEMMA FuseType ==
    ASSUME NEW o, NEW heat, NEW cool, NEW auto
    PROVE  fuseRunningMode(o, heat, cool, auto) \in RunningModes
  BY DEF fuseRunningMode, RunningModes, s21OperatingModeDirectionHint,
         s21OperatingModeToOperationalMode

\* Every step of the reconciler keeps the types.
LEMMA TypeStep ==
    ASSUME ReconcilerTypeOK, [AnyCall]_reconcilerVars
    PROVE  ReconcilerTypeOK'
  <1> USE DEF ReconcilerTypeOK, StateTypeOK
  <1>1. ASSUME NEW v \in BOOLEAN, SetOnOff(v)
        PROVE  ReconcilerTypeOK'
    <2>1. guardedDesired("onOff", onOff, v) \in TwinFields(BOOLEAN)
      BY GuardedFacts DEF TwinNames
    <2> QED
      BY <1>1, <2>1 DEF SetOnOff, notByIntents
  <1>2. ASSUME NEW w \in OperationalModes \cup {"Off"}, SetSystemMode(w)
        PROVE  ReconcilerTypeOK'
    <2>1. w # "Off" => w \in OperationalModes
      OBVIOUS
    <2>2. guardedDesired("onOff", onOff, w # "Off") \in TwinFields(BOOLEAN)
      BY GuardedFacts DEF TwinNames
    <2>3. w # "Off" => guardedDesired("mode", mode, w) \in TwinFields(OperationalModes)
      BY <2>1, GuardedFacts DEF TwinNames
    <2> QED
      BY <1>2, <2>2, <2>3 DEF SetSystemMode, notByIntents
  <1>3. ASSUME NEW v \in Int, SetOccupiedHeatingSetpoint(v)
        PROVE  ReconcilerTypeOK'
    <2> DEFINE c == Half(autoSetpoint.desired + AutoBandHalfWidth + v)
    <2>1. c \in Int
      BY AutoBandAssumption DEF Half, TwinFields
    <2> HIDE DEF c
    <2>2. /\ guardedDesired("heatSetpoint", heatSetpoint, v) \in TwinFields(Int)
          /\ guardedDesired("autoSetpoint", autoSetpoint, c) \in TwinFields(Int)
          /\ setDesired(heatSetpoint, v) \in TwinFields(Int)
      BY <2>1, GuardedFacts, TwinTypes DEF TwinNames
    <2>3. heatSetpoint' \in TwinFields(Int) /\ autoSetpoint' \in TwinFields(Int)
      BY <1>3, <2>2 DEF SetOccupiedHeatingSetpoint, c
    <2> QED
      BY <1>3, <2>3 DEF SetOccupiedHeatingSetpoint, notByIntents
  <1>4. ASSUME NEW v \in Int, SetOccupiedCoolingSetpoint(v)
        PROVE  ReconcilerTypeOK'
    <2> DEFINE c == Half(v + (autoSetpoint.desired - AutoBandHalfWidth))
    <2>1. c \in Int
      BY AutoBandAssumption DEF Half, TwinFields
    <2> HIDE DEF c
    <2>2. /\ guardedDesired("coolSetpoint", coolSetpoint, v) \in TwinFields(Int)
          /\ guardedDesired("autoSetpoint", autoSetpoint, c) \in TwinFields(Int)
          /\ setDesired(coolSetpoint, v) \in TwinFields(Int)
      BY <2>1, GuardedFacts, TwinTypes DEF TwinNames
    <2>3. coolSetpoint' \in TwinFields(Int) /\ autoSetpoint' \in TwinFields(Int)
      BY <1>4, <2>2 DEF SetOccupiedCoolingSetpoint, c
    <2> QED
      BY <1>4, <2>3 DEF SetOccupiedCoolingSetpoint, notByIntents
  <1>5. ASSUME NEW s \in FanSpeeds, SetSpeedSetting(s)
        PROVE  ReconcilerTypeOK'
    BY <1>5, PercentType, FanWriteType DEF SetSpeedSetting
  <1>6. ASSUME NEW p \in (1..100) \cup {Null}, SetPercentSetting(p)
        PROVE  ReconcilerTypeOK'
    <2>1. CASE p = Null
      <3>1. UNCHANGED reconcilerVars
        BY <1>6, <2>1 DEF SetPercentSetting
      <3> QED
        BY <3>1 DEF ReconcilerTypeOK, StateTypeOK, reconcilerVars, stateVars
    <2>2. CASE p # Null
      <3>1. p \in 1..100
        BY <2>2
      <3>2. percentToSpeedLevel(p) \in FanSpeeds
        BY <3>1, FanMappingFacts DEF FanSpeeds
      <3> QED
        BY <1>6, <2>2, <3>1, <3>2, FanWriteType DEF SetPercentSetting
    <2> QED
      BY <2>1, <2>2
  <1>7. ASSUME NEW o \in S21OperationalObservations, ApplyOperationalObservation(o)
        PROVE  ReconcilerTypeOK'
    <2>1. /\ o.onOff \in BOOLEAN
          /\ o.setpoint \in Int
          /\ s21OperatingModeToOperationalMode(o.operatingMode) \in OperationalModes
          /\ s21FanModeToSpeedSetting(o.fanMode) \in FanSpeeds
      BY WireFacts DEF S21OperationalObservations
    <2>2. /\ onOff' \in TwinFields(BOOLEAN)
          /\ mode' \in TwinFields(OperationalModes)
          /\ fan' \in TwinFields(FanSpeeds)
      BY <1>7, <2>1, TwinTypes DEF ApplyOperationalObservation
    <2>3. /\ coolSetpoint' \in TwinFields(Int)
          /\ heatSetpoint' \in TwinFields(Int)
          /\ autoSetpoint' \in TwinFields(Int)
      BY <1>7, <2>1, TwinTypes DEF ApplyOperationalObservation
    <2>4. fan'.observed \in FanSpeeds
      BY <2>2 DEF TwinFields
    <2>5. fanPercentSetting' \in (1..100) \cup {Null}
      BY <1>7, <2>4, PercentType DEF ApplyOperationalObservation, rederivedPercent
    <2>6. runningMode' \in RunningModes
      BY <1>7, FuseType DEF ApplyOperationalObservation
    <2>7. guardLeft' \in [TwinNames -> 0..DeviceWinsWindow]
      BY <1>7, ReconcilerAssumption DEF ApplyOperationalObservation
    <2> QED
      BY <1>7, <2>2, <2>3, <2>5, <2>6, <2>7 DEF ApplyOperationalObservation
  <1>8. ASSUME NEW e \in S21EnvironmentalObservations, ApplyEnvironmentalObservation(e)
        PROVE  ReconcilerTypeOK'
    <2>1. e.indoor \in Int /\ e.outdoor \in Int /\ e.humidity \in Nat
      BY DEF S21EnvironmentalObservations
    <2> QED
      BY <1>8, <2>1 DEF ApplyEnvironmentalObservation, twinVars
  <1>9. ASSUME NEW cmd \in S21OperationCommands, OnCommandSent(cmd)
        PROVE  ReconcilerTypeOK'
    <2>1. /\ promoteDesiredToInFlight(onOff) \in TwinFields(BOOLEAN)
          /\ promoteDesiredToInFlight(mode) \in TwinFields(OperationalModes)
          /\ promoteDesiredToInFlight(coolSetpoint) \in TwinFields(Int)
          /\ promoteDesiredToInFlight(heatSetpoint) \in TwinFields(Int)
          /\ promoteDesiredToInFlight(autoSetpoint) \in TwinFields(Int)
          /\ promoteDesiredToInFlight(fan) \in TwinFields(FanSpeeds)
      BY DEF promoteDesiredToInFlight, TwinFields
    <2> QED
      BY <1>9, <2>1 DEF OnCommandSent
  <1>10. CASE OnCommandFailed
    BY <1>10 DEF OnCommandFailed, stateVars
  <1>11. CASE NotifyLinkDown
    BY <1>11 DEF NotifyLinkDown, twinVars, sensorVars
  <1>12. CASE Elapse
    <2>1. guardLeft' \in [TwinNames -> 0..DeviceWinsWindow]
      BY <1>12, ReconcilerAssumption DEF Elapse
    <2> QED
      BY <1>12, <2>1 DEF Elapse, stateVars
  <1>13. CASE UNCHANGED reconcilerVars
    BY <1>13 DEF reconcilerVars, stateVars
  <1> QED
    BY <1>1, <1>2, <1>3, <1>4, <1>5, <1>6, <1>7, <1>8, <1>9, <1>10, <1>11, <1>12,
       <1>13 DEF AnyCall, AnyIntent

\* Every step of the reconciler's specification is such a call.
LEMMA NextIsAnyCall ==
    ASSUME ReconcilerTypeOK, [ReconcilerNext]_reconcilerVars
    PROVE  [AnyCall]_reconcilerVars
  <1>1. pendingCommand # Null => pendingCommand \in S21OperationCommands
    BY CommandType DEF pendingCommand
  <1> QED
    BY <1>1, IntentIsAnyIntent, ReconcilerAssumption DEF ReconcilerNext, AnyCall

\* The state the bridge boots with has its types.
LEMMA TypeInitially == ReconcilerInit => ReconcilerTypeOK
  <1> SUFFICES ASSUME ReconcilerInit PROVE ReconcilerTypeOK
    OBVIOUS
  <1>1. /\ onOff \in TwinFields(BOOLEAN)
        /\ mode \in TwinFields(OperationalModes)
        /\ heatSetpoint \in TwinFields(Int)
        /\ coolSetpoint \in TwinFields(Int)
        /\ autoSetpoint \in TwinFields(Int)
        /\ fan \in TwinFields(FanSpeeds)
    BY DEF ReconcilerInit, StateInit, NewTwin, TwinFields, ObservationSources,
           OperationalModes, FanSpeeds
  <1>2. guardLeft \in [TwinNames -> 0..DeviceWinsWindow]
    BY ReconcilerAssumption DEF ReconcilerInit
  <1> QED
    BY <1>1, <1>2 DEF ReconcilerInit, StateInit, ReconcilerTypeOK, StateTypeOK,
                      RunningModes

\* The reconciler's state keeps its types, whatever controllers write, the unit
\* reports and commands come to (reconciler.cpp).
THEOREM ReconcilerTypeCorrect == ReconcilerSpec => []ReconcilerTypeOK
  BY TypeInitially, TypeStep, NextIsAnyCall, PTL DEF ReconcilerSpec
-----------------------------------------------------------------------------
(* What intents leave alone.                                               *)

\* An intent changes what is wanted and by whom, never what was observed or what
\* is in flight, and nothing outside the twins and the remembered percent.
LEMMA IntentKeeps ==
    ASSUME ReconcilerTypeOK, AnyIntent
    PROVE  /\ onOff'.observed = onOff.observed /\ onOff'.inFlight = onOff.inFlight
           /\ mode'.observed = mode.observed /\ mode'.inFlight = mode.inFlight
           /\ heatSetpoint'.inFlight = heatSetpoint.inFlight
           /\ coolSetpoint'.inFlight = coolSetpoint.inFlight
           /\ autoSetpoint'.inFlight = autoSetpoint.inFlight
           /\ fan'.inFlight = fan.inFlight
           /\ UNCHANGED notByIntents
  <1> DEFINE Kept(t, u) == u.observed = t.observed /\ u.inFlight = t.inFlight
  <1>1. ASSUME NEW T, NEW t \in TwinFields(T), NEW v
        PROVE  Kept(t, setDesired(t, v))
    BY DEF TwinFields, setDesired
  <1>2. ASSUME NEW T, NEW t \in TwinFields(T), NEW v, NEW name
        PROVE  Kept(t, guardedDesired(name, t, v))
    BY <1>1 DEF guardedDesired
  <1>3. /\ \A name, v : /\ Kept(onOff, guardedDesired(name, onOff, v))
                        /\ Kept(mode, guardedDesired(name, mode, v))
                        /\ Kept(heatSetpoint, guardedDesired(name, heatSetpoint, v))
                        /\ Kept(coolSetpoint, guardedDesired(name, coolSetpoint, v))
                        /\ Kept(autoSetpoint, guardedDesired(name, autoSetpoint, v))
        /\ \A v : /\ Kept(onOff, setDesired(onOff, v))
                  /\ Kept(heatSetpoint, setDesired(heatSetpoint, v))
                  /\ Kept(coolSetpoint, setDesired(coolSetpoint, v))
                  /\ Kept(fan, setDesired(fan, v))
    <2> HIDE DEF Kept
    <2> QED BY <1>1, <1>2 DEF ReconcilerTypeOK, StateTypeOK
  <1>4. ASSUME NEW v, SetOnOff(v)
        PROVE  Kept(onOff, onOff') /\ UNCHANGED <<mode, heatSetpoint, coolSetpoint,
                  autoSetpoint, fan, notByIntents>>
    BY <1>3, <1>4 DEF SetOnOff
  <1>5. ASSUME NEW w, SetSystemMode(w)
        PROVE  Kept(onOff, onOff') /\ Kept(mode, mode') /\ UNCHANGED <<heatSetpoint,
                  coolSetpoint, autoSetpoint, fan, notByIntents>>
    BY <1>3, <1>5 DEF SetSystemMode
  <1>6. ASSUME NEW v, SetOccupiedHeatingSetpoint(v)
        PROVE  Kept(heatSetpoint, heatSetpoint') /\ Kept(autoSetpoint, autoSetpoint')
                  /\ UNCHANGED <<onOff, mode, coolSetpoint, fan, notByIntents>>
    BY <1>3, <1>6 DEF SetOccupiedHeatingSetpoint
  <1>7. ASSUME NEW v, SetOccupiedCoolingSetpoint(v)
        PROVE  Kept(coolSetpoint, coolSetpoint') /\ Kept(autoSetpoint, autoSetpoint')
                  /\ UNCHANGED <<onOff, mode, heatSetpoint, fan, notByIntents>>
    BY <1>3, <1>7 DEF SetOccupiedCoolingSetpoint
  <1>8. ASSUME NEW s, NEW p, fanWrite(s, p)
        PROVE  Kept(onOff, onOff') /\ Kept(fan, fan') /\ UNCHANGED <<mode, heatSetpoint,
                  coolSetpoint, autoSetpoint, notByIntents>>
    BY <1>3, <1>8 DEF fanWrite, powerOnForFanWrite
  <1> QED
    BY <1>4, <1>5, <1>6, <1>7, <1>8
       DEF AnyIntent, SetSpeedSetting, SetPercentSetting, reconcilerVars, stateVars, notByIntents
-----------------------------------------------------------------------------
(* The remembered PercentSetting.                                          *)

FanInv == FanPercentCoherent /\ ControllerPercentKept

\* percentOf(s) is a percent that names s.
LEMMA PercentOfMatches ==
    ASSUME NEW s \in FanSpeeds, fanPercentSetting' = percentOf(s)
    PROVE  percentMatches(s)'
  <1>1. CASE s = FanAuto
    BY <1>1 DEF percentOf, percentMatches
  <1>2. CASE s \in FanLevels
    BY <1>2, FanMappingFacts, NullAssumption
       DEF percentOf, percentMatches, FanLevels, FanAuto
  <1> QED
    BY <1>1, <1>2 DEF FanSpeeds

\* A fan write that leaves a percent naming the written speed keeps FanInv.
LEMMA FanWriteInv ==
    ASSUME ReconcilerTypeOK, FanInv, NEW s \in FanSpeeds, NEW p, fanWrite(s, p),
           fanPercentSetting' = p => percentMatches(s)'
    PROVE  FanInv'
  <1>1. CASE intentPassesGuard("fan", s # fan.observed)
    <2>1. fan' = setDesired(fan, s) /\ fanPercentSetting' = p
      BY <1>1 DEF fanWrite
    <2>2. setDesired(fan, s).desired = s
      BY SetDesiredFacts DEF ReconcilerTypeOK, StateTypeOK
    <2> QED
      BY <2>1, <2>2 DEF FanInv, FanPercentCoherent, ControllerPercentKept, percentMatches
  <1>2. CASE ~intentPassesGuard("fan", s # fan.observed)
    BY <1>2 DEF fanWrite, FanInv, FanPercentCoherent, ControllerPercentKept, percentMatches
  <1> QED
    BY <1>1, <1>2

\* Every step keeps FanInv: the only steps that touch the fan are its writes,
\* its observation and the promotion of its desired value.
LEMMA FanStep ==
    ASSUME ReconcilerTypeOK, FanInv, [AnyCall]_reconcilerVars
    PROVE  FanInv'
  <1> USE DEF FanInv, FanPercentCoherent, ControllerPercentKept, percentMatches
  <1>1. ASSUME NEW s \in FanSpeeds, SetSpeedSetting(s)
        PROVE  FanInv'
    <2> HIDE DEF FanInv, percentMatches
    <2> QED
      BY <1>1, FanWriteInv, PercentOfMatches DEF SetSpeedSetting
  <1>2. ASSUME NEW p \in (1..100) \cup {Null}, SetPercentSetting(p)
        PROVE  FanInv'
    <2>1. CASE p = Null
      <3>1. UNCHANGED reconcilerVars
        BY <1>2, <2>1 DEF SetPercentSetting
      <3> QED
        BY <3>1 DEF reconcilerVars, stateVars
    <2>2. CASE p # Null
      <3>1. p \in 1..100
        BY <2>2
      <3>2. percentToSpeedLevel(p) \in FanSpeeds
        BY <3>1, FanMappingFacts DEF FanSpeeds
      <3>3. fanPercentSetting' = p => percentMatches(percentToSpeedLevel(p))'
        BY <2>2
      <3> HIDE DEF FanInv, percentMatches
      <3> QED
        BY <1>2, <2>2, <3>2, <3>3, FanWriteInv DEF SetPercentSetting
    <2> QED
      BY <2>1, <2>2
  <1>3. ASSUME NEW o \in S21OperationalObservations, ApplyOperationalObservation(o)
        PROVE  FanInv'
    <2> DEFINE v == s21FanModeToSpeedSetting(o.fanMode)
    <2>1. v \in FanSpeeds /\ fan' = applyObservation(fan, v, "Device")
      BY <1>3, WireFacts DEF ApplyOperationalObservation
    <2> HIDE DEF v
    <2>2. /\ fan'.observed = v
          /\ fan'.desired \in {fan.desired, v}
          /\ fan'.attribution \in {fan.attribution, "Device"}
          /\ fan'.attribution # "Device" => fan'.desired = fan.desired
          /\ fan.observed = v => fan'.desired = fan.desired
      BY <2>1, ObservationFacts DEF ReconcilerTypeOK, StateTypeOK
    <2>3. CASE v # fan.observed /\ fan'.attribution = "Device"
      <3>1. fanPercentSetting' = percentOf(v)
        BY <1>3, <2>2, <2>3 DEF ApplyOperationalObservation, rederivedPercent
      <3>2. percentMatches(v)'
        BY <3>1, <2>1, PercentOfMatches
      <3> QED
        BY <2>2, <2>3, <3>2
    <2>4. CASE ~(v # fan.observed /\ fan'.attribution = "Device")
      <3>1. fanPercentSetting' = fanPercentSetting
        BY <1>3, <2>2, <2>4 DEF ApplyOperationalObservation, rederivedPercent
      <3> QED
        BY <2>2, <2>4, <3>1
    <2> QED
      BY <2>3, <2>4
  <1>4. ASSUME NEW cmd, OnCommandSent(cmd)
        PROVE  FanInv'
    <2>1. /\ fan'.desired = fan.desired
          /\ fan'.observed = fan.observed
          /\ fan'.attribution = fan.attribution
      BY <1>4, PromoteFacts DEF OnCommandSent, ReconcilerTypeOK, StateTypeOK
    <2> QED
      BY <1>4, <2>1 DEF OnCommandSent
  <1>5. CASE UNCHANGED <<fan, fanPercentSetting>>
    BY <1>5
  <1> QED
    BY <1>1, <1>2, <1>3, <1>4, <1>5
       DEF AnyCall, AnyIntent, SetOnOff, SetSystemMode,
           SetOccupiedHeatingSetpoint, SetOccupiedCoolingSetpoint,
           ApplyEnvironmentalObservation, OnCommandFailed, NotifyLinkDown, Elapse,
           reconcilerVars, stateVars, twinVars, sensorVars

\* The fan twin and the remembered percent agree at boot.
LEMMA FanInitially == ReconcilerInit => FanInv
  BY DEF ReconcilerInit, StateInit, NewTwin, FanInv, FanPercentCoherent,
         ControllerPercentKept, percentMatches

\* FanInv holds in every reachable state.
LEMMA FanInvariant == ReconcilerSpec => []FanInv
  BY FanInitially, FanStep, NextIsAnyCall, ReconcilerTypeCorrect, PTL DEF ReconcilerSpec

\* The remembered PercentSetting always names the level somebody asked for or
\* the unit runs at (SetSpeedSettingIntent, SetPercentSettingIntent and
\* applyOperationalObservation in reconciler.cpp).
THEOREM FanPercentCorrect == ReconcilerSpec => []FanPercentCoherent
  <1>1. FanInv => FanPercentCoherent
    BY DEF FanInv
  <1> QED BY <1>1, FanInvariant, PTL

\* Until the device takes the fan over, it is the percent of the level the
\* controller wants, through confirmations, stale polls and failed commands
\* (the attribution test of applyOperationalObservation).
THEOREM ControllerPercentCorrect == ReconcilerSpec => []ControllerPercentKept
  <1>1. FanInv => ControllerPercentKept
    BY DEF FanInv
  <1> QED BY <1>1, FanInvariant, PTL
-----------------------------------------------------------------------------
(* The running direction.                                                  *)

\* What fuseRunningMode infers fits the power and the mode of the observation.
LEMMA FuseAgrees ==
    ASSUME NEW o \in S21OperationalObservations, NEW heat, NEW cool, NEW auto
    PROVE  LET r == fuseRunningMode(o, heat, cool, auto)
               m == s21OperatingModeToOperationalMode(o.operatingMode)
           IN  /\ r # "Off" => o.onOff
               /\ r = "Cooling" => m \in {"Cool", "Auto"}
               /\ r = "Heating" => m \in {"Heat", "Auto"}
  <1>1. CASE ~o.onOff
    BY <1>1 DEF fuseRunningMode
  <1>2. CASE o.onOff /\ o.operatingMode \in {"0", "7"}
    <2>1. fuseRunningMode(o, heat, cool, auto)
             = s21OperatingModeDirectionHint(o.operatingMode)
      BY <1>2, NullAssumption DEF fuseRunningMode, s21OperatingModeDirectionHint, RunningModes
    <2> QED
      BY <1>2, <2>1 DEF s21OperatingModeDirectionHint, s21OperatingModeToOperationalMode
  <1>3. CASE o.onOff /\ o.operatingMode \notin {"0", "7"}
    BY <1>3 DEF fuseRunningMode, s21OperatingModeDirectionHint
  <1> QED
    BY <1>1, <1>2, <1>3

\* Every step keeps the inferred direction and the last report together.
LEMMA RunningModeStep ==
    ASSUME ReconcilerTypeOK, RunningModeAgrees, [AnyCall]_reconcilerVars
    PROVE  RunningModeAgrees'
  <1> USE DEF RunningModeAgrees
  <1>1. ASSUME NEW o \in S21OperationalObservations, ApplyOperationalObservation(o)
        PROVE  RunningModeAgrees'
    <2> DEFINE m == s21OperatingModeToOperationalMode(o.operatingMode)
    <2>1. o.onOff \in BOOLEAN /\ m \in OperationalModes
      BY WireFacts DEF S21OperationalObservations
    <2>2. onOff'.observed = o.onOff
      BY <1>1, <2>1, ObservationFacts
         DEF ApplyOperationalObservation, ReconcilerTypeOK, StateTypeOK
    <2>3. mode'.observed = m
      BY <1>1, <2>1, ObservationFacts
         DEF ApplyOperationalObservation, ReconcilerTypeOK, StateTypeOK
    <2>4. /\ runningMode' # "Off" => o.onOff
          /\ runningMode' = "Cooling" => m \in {"Cool", "Auto"}
          /\ runningMode' = "Heating" => m \in {"Heat", "Auto"}
      BY <1>1, <2>1, FuseAgrees DEF ApplyOperationalObservation
    <2> QED
      BY <2>2, <2>3, <2>4
  <1>2. CASE UNCHANGED <<runningMode, onOff, mode>>
    BY <1>2
  <1>3. ASSUME UNCHANGED runningMode,
               onOff'.observed = onOff.observed, mode'.observed = mode.observed
        PROVE  RunningModeAgrees'
    BY <1>3
  <1>4. ASSUME AnyIntent
        PROVE  RunningModeAgrees'
    BY <1>4, <1>3, IntentKeeps DEF notByIntents
  <1>5. ASSUME NEW cmd, OnCommandSent(cmd)
        PROVE  RunningModeAgrees'
    <2>1. /\ promoteDesiredToInFlight(onOff).observed = onOff.observed
          /\ promoteDesiredToInFlight(mode).observed = mode.observed
      BY PromoteFacts DEF ReconcilerTypeOK, StateTypeOK
    <2> QED
      BY <1>5, <2>1, <1>3 DEF OnCommandSent
  <1> QED
    BY <1>1, <1>2, <1>4, <1>5
       DEF AnyCall, ApplyEnvironmentalObservation, OnCommandFailed,
           NotifyLinkDown, Elapse, reconcilerVars, stateVars, twinVars, sensorVars

\* The inferred direction never contradicts the power and mode the device last
\* reported (fuseRunningMode and applyOperationalObservation in reconciler.cpp).
THEOREM RunningModeCorrect == ReconcilerSpec => []RunningModeAgrees
  <1>1. ReconcilerInit => RunningModeAgrees
    BY DEF ReconcilerInit, StateInit, RunningModeAgrees
  <1> QED
    BY <1>1, RunningModeStep, NextIsAnyCall, ReconcilerTypeCorrect, PTL DEF ReconcilerSpec
-----------------------------------------------------------------------------
(* What is in flight.                                                      *)

\* A call of the reconciler that reports as sent what the twins want.
FaithfulCall ==
    \/ AnyIntent
    \/ \E o \in S21OperationalObservations : ApplyOperationalObservation(o)
    \/ \E e \in S21EnvironmentalObservations : ApplyEnvironmentalObservation(e)
    \/ OnCommandSent(desiredCommand)
    \/ OnCommandFailed
    \/ NotifyLinkDown
    \/ Elapse

\* Such calls keep what is in flight and the command last sent together.
LEMMA InFlightStep ==
    ASSUME ReconcilerTypeOK, InFlightWasSent, [FaithfulCall]_reconcilerVars
    PROVE  InFlightWasSent'
  <1>1. ASSUME UNCHANGED mLastSentCommand,
               onOff'.inFlight \in {Null, onOff.inFlight},
               mode'.inFlight \in {Null, mode.inFlight},
               heatSetpoint'.inFlight \in {Null, heatSetpoint.inFlight},
               coolSetpoint'.inFlight \in {Null, coolSetpoint.inFlight},
               autoSetpoint'.inFlight \in {Null, autoSetpoint.inFlight},
               fan'.inFlight \in {Null, fan.inFlight}
        PROVE  InFlightWasSent'
    <2> SUFFICES ASSUME mLastSentCommand # Null PROVE InFlightWasSent'
      BY <1>1 DEF InFlightWasSent
    <2> DEFINE m == s21OperatingModeToOperationalMode(mLastSentCommand.operatingMode)
    <2>1. activeSetpoint(m)'.inFlight \in {Null, activeSetpoint(m).inFlight}
      BY <1>1 DEF activeSetpoint
    <2> QED
      BY <1>1, <2>1 DEF InFlightWasSent
  <1>2. ASSUME AnyIntent
        PROVE  InFlightWasSent'
    BY <1>2, <1>1, IntentKeeps DEF notByIntents
  <1>3. ASSUME NEW o \in S21OperationalObservations, ApplyOperationalObservation(o)
        PROVE  InFlightWasSent'
    <2>1. \A T : \A t \in TwinFields(T), v \in T :
             applyObservation(t, v, "Device").inFlight \in {Null, t.inFlight}
      BY ObservationFacts
    <2>2. /\ o.onOff \in BOOLEAN
          /\ o.setpoint \in Int
          /\ s21OperatingModeToOperationalMode(o.operatingMode) \in OperationalModes
          /\ s21FanModeToSpeedSetting(o.fanMode) \in FanSpeeds
      BY <1>3, WireFacts DEF S21OperationalObservations
    <2>3. /\ onOff'.inFlight \in {Null, onOff.inFlight}
          /\ mode'.inFlight \in {Null, mode.inFlight}
          /\ fan'.inFlight \in {Null, fan.inFlight}
      BY <1>3, <2>1, <2>2
         DEF ApplyOperationalObservation, ReconcilerTypeOK, StateTypeOK
    <2>4. /\ heatSetpoint'.inFlight \in {Null, heatSetpoint.inFlight}
          /\ coolSetpoint'.inFlight \in {Null, coolSetpoint.inFlight}
          /\ autoSetpoint'.inFlight \in {Null, autoSetpoint.inFlight}
      BY <1>3, <2>1, <2>2
         DEF ApplyOperationalObservation, ReconcilerTypeOK, StateTypeOK
    <2> QED
      BY <1>3, <1>1, <2>3, <2>4 DEF ApplyOperationalObservation
  <1>4. ASSUME OnCommandSent(desiredCommand)
        PROVE  InFlightWasSent'
    <2>1. mLastSentCommand' = desiredCommand
      BY <1>4 DEF OnCommandSent
    <2>2. mode.desired \in OperationalModes /\ fan.desired \in FanSpeeds
      BY DEF ReconcilerTypeOK, StateTypeOK, TwinFields
    <2>3. /\ mLastSentCommand'.onOff = onOff.desired
          /\ s21OperatingModeToOperationalMode(mLastSentCommand'.operatingMode) = mode.desired
          /\ s21FanModeToSpeedSetting(mLastSentCommand'.fanMode) = fan.desired
          /\ mLastSentCommand'.setpoint = activeSetpoint(mode.desired).desired
      BY <2>1, <2>2, WireFacts DEF desiredCommand
    <2>4. /\ onOff'.inFlight = onOff.desired
          /\ mode'.inFlight = mode.desired
          /\ fan'.inFlight = fan.desired
          /\ mode.desired = "Cool" => coolSetpoint'.inFlight = coolSetpoint.desired
          /\ mode.desired = "Heat" => heatSetpoint'.inFlight = heatSetpoint.desired
          /\ mode.desired = "Auto" => autoSetpoint'.inFlight = autoSetpoint.desired
      BY <1>4 DEF OnCommandSent, promoteDesiredToInFlight, ReconcilerTypeOK,
                  StateTypeOK, TwinFields
    <2> QED
      BY <2>3, <2>4 DEF InFlightWasSent, activeSetpoint
  <1>5. CASE OnCommandFailed
    BY <1>5 DEF OnCommandFailed, InFlightWasSent
  <1>6. CASE UNCHANGED <<twinVars, mLastSentCommand>>
    BY <1>6, <1>1 DEF twinVars
  <1> QED
    BY <1>2, <1>3, <1>4, <1>5, <1>6
       DEF FaithfulCall, ApplyEnvironmentalObservation, NotifyLinkDown, Elapse,
           reconcilerVars, stateVars, twinVars

\* As long as intents do not race a send, the in-flight values are those of the
\* command last sent, through observations, failures and superseding commands
\* (onCommandSent and applyObservation).
THEOREM InFlightCorrect == ReconcilerSpec => []InFlightWasSent
  <1>1. ReconcilerInit => InFlightWasSent
    BY DEF ReconcilerInit, InFlightWasSent
  <1>2. [ReconcilerNext]_reconcilerVars => [FaithfulCall]_reconcilerVars
    BY IntentIsAnyIntent, ReconcilerAssumption
       DEF ReconcilerNext, FaithfulCall, pendingCommand
  <1> QED
    BY <1>1, <1>2, InFlightStep, ReconcilerTypeCorrect, PTL DEF ReconcilerSpec
-----------------------------------------------------------------------------
(* The guard window.                                                       *)

\* Every step keeps to the guard window.
LEMMA DeviceWinsStep ==
    ASSUME ReconcilerTypeOK, [AnyCall]_reconcilerVars
    PROVE  [deviceWinsStep]_reconcilerVars
  <1> USE DEF ReconcilerTypeOK, StateTypeOK
  <1>1. ASSUME NEW T, NEW t \in TwinFields(T), NEW v \in T, NEW name \in TwinNames
        PROVE  keptInWindow(name, t, guardedDesired(name, t, v))
    <2>1. guardLeft[name] > 0 => guardedDesired(name, t, v).desired \in {t.desired, t.observed}
      BY <1>1, GuardedFacts
    <2> QED
      BY <2>1 DEF keptInWindow
  <1>2. ASSUME NEW T, NEW t \in TwinFields(T), NEW v \in T, NEW name
        PROVE  keptInWindow(name, t, applyObservation(t, v, "Device"))
    <2>1. /\ applyObservation(t, v, "Device").observed = v
          /\ applyObservation(t, v, "Device").desired \in {t.desired, v}
      BY <1>2, ObservationFacts
    <2> QED
      BY <2>1 DEF keptInWindow
  <1>3. ASSUME NEW T, NEW t \in TwinFields(T), NEW u, NEW name, u.desired = t.desired
        PROVE  keptInWindow(name, t, u)
    BY <1>3 DEF keptInWindow
  <1>4. ASSUME NEW v \in BOOLEAN, SetOnOff(v)
        PROVE  deviceWinsStep
    <2>1. keptInWindow("onOff", onOff, onOff')
      BY <1>4, <1>1 DEF SetOnOff, TwinNames
    <2> QED
      BY <1>4, <2>1, <1>3 DEF SetOnOff, deviceWinsStep
  <1>5. ASSUME NEW w \in OperationalModes \cup {"Off"}, SetSystemMode(w)
        PROVE  deviceWinsStep
    <2> DEFINE power == w # "Off"
    <2>1. power \in BOOLEAN /\ (power => w \in OperationalModes)
      BY <1>5
    <2>2. onOff' = guardedDesired("onOff", onOff, power)
      BY <1>5 DEF SetSystemMode
    <2>3. mode' = mode \/ (power /\ mode' = guardedDesired("mode", mode, w))
      BY <1>5 DEF SetSystemMode
    <2> HIDE DEF power
    <2>4. keptInWindow("onOff", onOff, onOff')
      BY <2>1, <2>2, <1>1 DEF TwinNames
    <2>5. keptInWindow("mode", mode, mode')
      BY <2>1, <2>3, <1>1, <1>3 DEF TwinNames
    <2> QED
      BY <1>5, <2>4, <2>5, <1>3 DEF SetSystemMode, deviceWinsStep
  <1>6. ASSUME NEW v \in Int, SetOccupiedHeatingSetpoint(v)
        PROVE  deviceWinsStep
    <2> DEFINE c == Half(autoSetpoint.desired + AutoBandHalfWidth + v)
    <2>1. v \in Int /\ c \in Int
      BY <1>6, AutoBandAssumption DEF Half, TwinFields
    <2>2. /\ mode.observed = "Heat" =>
                heatSetpoint' = guardedDesired("heatSetpoint", heatSetpoint, v)
          /\ autoSetpoint' \in {autoSetpoint, guardedDesired("autoSetpoint", autoSetpoint, c)}
      BY <1>6 DEF SetOccupiedHeatingSetpoint
    <2> HIDE DEF c
    <2>3. mode.observed = "Heat" => keptInWindow("heatSetpoint", heatSetpoint, heatSetpoint')
      BY <2>1, <2>2, <1>1 DEF TwinNames
    <2>4. keptInWindow("autoSetpoint", autoSetpoint, autoSetpoint')
      BY <2>1, <2>2, <1>1, <1>3 DEF TwinNames
    <2> QED
      BY <1>6, <2>3, <2>4, <1>3 DEF SetOccupiedHeatingSetpoint, deviceWinsStep
  <1>7. ASSUME NEW v \in Int, SetOccupiedCoolingSetpoint(v)
        PROVE  deviceWinsStep
    <2> DEFINE c == Half(v + (autoSetpoint.desired - AutoBandHalfWidth))
    <2>1. v \in Int /\ c \in Int
      BY <1>7, AutoBandAssumption DEF Half, TwinFields
    <2>2. /\ mode.observed = "Cool" =>
                coolSetpoint' = guardedDesired("coolSetpoint", coolSetpoint, v)
          /\ autoSetpoint' \in {autoSetpoint, guardedDesired("autoSetpoint", autoSetpoint, c)}
      BY <1>7 DEF SetOccupiedCoolingSetpoint
    <2> HIDE DEF c
    <2>3. mode.observed = "Cool" => keptInWindow("coolSetpoint", coolSetpoint, coolSetpoint')
      BY <2>1, <2>2, <1>1 DEF TwinNames
    <2>4. keptInWindow("autoSetpoint", autoSetpoint, autoSetpoint')
      BY <2>1, <2>2, <1>1, <1>3 DEF TwinNames
    <2> QED
      BY <1>7, <2>3, <2>4, <1>3 DEF SetOccupiedCoolingSetpoint, deviceWinsStep
  <1>8. ASSUME NEW s \in FanSpeeds, NEW p, fanWrite(s, p)
        PROVE  deviceWinsStep
    <2>1. keptInWindow("fan", fan, fan')
      <3>1. fan' \in {fan, guardedDesired("fan", fan, s)}
        BY <1>8 DEF fanWrite, guardedDesired
      <3> QED
        BY <3>1, <1>1, <1>3 DEF TwinNames
    <2>2. onOff' = onOff \/ guardLeft["onOff"] = 0
      BY <1>8 DEF fanWrite, powerOnForFanWrite, intentPassesGuard
    <2>3. keptInWindow("onOff", onOff, onOff')
      BY <2>2 DEF keptInWindow
    <2> QED
      BY <1>8, <2>1, <2>3, <1>3 DEF fanWrite, deviceWinsStep
  <1>9. ASSUME NEW o \in S21OperationalObservations, ApplyOperationalObservation(o)
        PROVE  deviceWinsStep
    <2>1. /\ o.onOff \in BOOLEAN
          /\ o.setpoint \in Int
          /\ s21OperatingModeToOperationalMode(o.operatingMode) \in OperationalModes
          /\ s21FanModeToSpeedSetting(o.fanMode) \in FanSpeeds
      BY <1>9, WireFacts DEF S21OperationalObservations
    <2>2. /\ keptInWindow("onOff", onOff, onOff')
          /\ keptInWindow("mode", mode, mode')
          /\ keptInWindow("fan", fan, fan')
      BY <1>9, <2>1, <1>2 DEF ApplyOperationalObservation
    <2>3. /\ keptInWindow("autoSetpoint", autoSetpoint, autoSetpoint')
          /\ keptInWindow("heatSetpoint", heatSetpoint, heatSetpoint')
          /\ keptInWindow("coolSetpoint", coolSetpoint, coolSetpoint')
      BY <1>9, <2>1, <1>2, <1>3 DEF ApplyOperationalObservation
    <2> QED
      BY <2>2, <2>3 DEF deviceWinsStep
  <1>10. ASSUME NEW cmd, OnCommandSent(cmd)
        PROVE  deviceWinsStep
    <2>1. \A T : \A t \in TwinFields(T) : promoteDesiredToInFlight(t).desired = t.desired
      BY DEF promoteDesiredToInFlight, TwinFields
    <2> QED
      BY <1>10, <2>1, <1>3 DEF OnCommandSent, deviceWinsStep
  <1>11. ASSUME UNCHANGED twinVars
        PROVE  deviceWinsStep
    BY <1>11, <1>3 DEF twinVars, deviceWinsStep
  <1>12. ASSUME NEW s \in FanSpeeds, SetSpeedSetting(s)
        PROVE  deviceWinsStep
    BY <1>12, <1>8 DEF SetSpeedSetting
  <1>13. ASSUME NEW p \in (1..100) \cup {Null}, SetPercentSetting(p)
        PROVE  deviceWinsStep
    <2>1. p # Null => percentToSpeedLevel(p) \in FanSpeeds
      BY FanMappingFacts DEF FanSpeeds
    <2>2. UNCHANGED reconcilerVars => UNCHANGED twinVars
      BY DEF reconcilerVars, stateVars, twinVars
    <2> QED
      BY <1>13, <2>1, <2>2, <1>8, <1>11 DEF SetPercentSetting
  <1> HIDE DEF ReconcilerTypeOK, StateTypeOK
  <1> QED
    BY <1>4, <1>5, <1>6, <1>7, <1>9, <1>10, <1>11, <1>12, <1>13
       DEF AnyCall, AnyIntent, ApplyEnvironmentalObservation, OnCommandFailed,
           NotifyLinkDown, Elapse, reconcilerVars, stateVars, twinVars

\* Inside the window of a twin no controller write, direct or implied by a fan
\* write, moves its desired value away from what the device reports
\* (intentPassesGuard, powerOnForFanWrite).
THEOREM DeviceWinsCorrect == ReconcilerSpec => DeviceWinsInsideWindow
  BY DeviceWinsStep, NextIsAnyCall, ReconcilerTypeCorrect, PTL
     DEF ReconcilerSpec, DeviceWinsInsideWindow
=============================================================================
