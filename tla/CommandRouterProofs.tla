------------------------- MODULE CommandRouterProofs -------------------------
(***************************************************************************)
(* The command router beside whatever else calls the reconciler, for every *)
(* amount and every setpoint limit.                                        *)
(***************************************************************************)
EXTENDS CommandRouter, ReconcilerProofs

PartNames == {"on", "off", "toggle", "heat", "cool"}

\* A part of a command and the intent it has been turned into.
CommandTypeOK ==
    /\ parts \in Seq(PartNames \X Int)
    /\ target # Null => /\ target.amount \in Int
                        /\ IF target.part \in {"heat", "cool"} THEN target.value \in Int
                                                               ELSE target.value \in BOOLEAN

\* The twin that holds the setpoint of each mode that has one.
setpointTwin == [Cool |-> "coolSetpoint", Heat |-> "heatSetpoint", Auto |-> "autoSetpoint"]

\* A setpoint computed from a read is still what the read would give, or a command
\* sent since has the mode in flight, or a report since has opened the guard window
\* of the setpoint the unit runs on.
StaleIsGuarded ==
    target # Null /\ target.part \in {"heat", "cool"} =>
        \/ target.value = intentOf(target.part, target.amount)
        \/ hasInFlight(mode)
        \/ mode.observed \in DOMAIN setpointTwin => guardLeft[setpointTwin[mode.observed]] > 0

\* Everything that may happen beside a command: reports, the outcome of a command to
\* the unit and, between commands, controller writes and the passing of time.
RouterCall ==
    \/ InvokeCommand \/ ReadPart \/ ApplyPart
    \/ /\ commandDone
       /\ AnyIntent \/ Elapse
       /\ UNCHANGED commandVars
    \/ /\ \/ \E o \in S21OperationalObservations : ApplyOperationalObservation(o)
          \/ \E e \in S21EnvironmentalObservations : ApplyEnvironmentalObservation(e)
          \/ \E cmd \in S21OperationCommands : OnCommandSent(cmd)
          \/ OnCommandFailed
          \/ NotifyLinkDown
       /\ UNCHANGED commandVars
-----------------------------------------------------------------------------
(* Types.                                                                  *)

\* What the command router reads has its type.
LEMMA ProjectionTypes ==
    ASSUME ReconcilerTypeOK
    PROVE  /\ projectedOnOff \in BOOLEAN
           /\ projectedOccupiedHeatingSetpoint \in Int
           /\ projectedOccupiedCoolingSetpoint \in Int
  <1>1. \A T : \A t \in TwinFields(T) : projectedValue(t) \in T
    BY DEF TwinFields, projectedValue
  <1>2. /\ projectedValue(onOff) \in BOOLEAN
        /\ projectedValue(heatSetpoint) \in Int
        /\ projectedValue(coolSetpoint) \in Int
        /\ projectedValue(autoSetpoint) \in Int
    BY <1>1 DEF ReconcilerTypeOK, StateTypeOK
  <1> QED
    BY <1>2, AutoBandAssumption
       DEF projectedOnOff, projectedOccupiedHeatingSetpoint, projectedOccupiedCoolingSetpoint

\* The intent made of a part of a command has its type.
LEMMA IntentTypes ==
    ASSUME ReconcilerTypeOK, NEW part \in PartNames,
           NEW amount \in Int
    PROVE  IF part \in {"heat", "cool"} THEN intentOf(part, amount) \in Int
                                        ELSE intentOf(part, amount) \in BOOLEAN
  <1>1. ASSUME NEW current \in Int, NEW limits \in Int \X Int
        PROVE  applySetpointDelta(current, amount, limits) \in Int
    BY <1>1 DEF applySetpointDelta
  <1>2. CASE part \in {"heat", "cool"}
    BY <1>1, <1>2, ProjectionTypes, RouterAssumption DEF intentOf
  <1>3. CASE part \in {"on", "off", "toggle"}
    BY <1>3, ProjectionTypes DEF intentOf
  <1> QED
    BY <1>2, <1>3 DEF PartNames

\* A part is applied as an intent of the right type.
LEMMA PartIsIntent ==
    ASSUME CommandTypeOK, ApplyPart
    PROVE  AnyIntent
  <1>1. /\ target.part \in {"heat", "cool"} => target.value \in Int
        /\ target.part \notin {"heat", "cool"} => target.value \in BOOLEAN
    BY DEF CommandTypeOK, ApplyPart
  <1> QED
    BY <1>1 DEF ApplyPart, AnyIntent

\* The command router calls the reconciler with values of the right type.
LEMMA RouterCallsReconciler ==
    ASSUME CommandTypeOK, [RouterCall]_routerVars
    PROVE  [AnyCall]_reconcilerVars
  <1>1. CASE InvokeCommand \/ ReadPart
    BY <1>1 DEF InvokeCommand, ReadPart
  <1> QED
    BY <1>1, PartIsIntent DEF RouterCall, AnyCall, routerVars

\* A command begins without parts and without a target.
LEMMA CommandTypeInitially == RouterInit => CommandTypeOK
  BY DEF RouterInit, CommandTypeOK

\* Every step keeps the command's types.
LEMMA CommandTypeStep ==
    ASSUME ReconcilerTypeOK, CommandTypeOK, [RouterCall]_routerVars
    PROVE  CommandTypeOK'
  <1>1. CASE UNCHANGED commandVars
    BY <1>1 DEF commandVars, CommandTypeOK
  <1>2. CASE InvokeCommand
    <2>1. parts' \in Seq(PartNames \X Int)
      <3>1. CASE \E c \in OnOffCommands : parts' = <<<<c, 0>>>>
        BY <3>1, RouterAssumption DEF PartNames
      <3>2. CASE \E m \in RaiseLowerModes, n \in Amounts :
                    parts' = IF m = "both" THEN <<<<"heat", n>>, <<"cool", n>>>>
                                           ELSE <<<<m, n>>>>
        <4>1. PICK m \in RaiseLowerModes, n \in Amounts :
                 parts' = IF m = "both" THEN <<<<"heat", n>>, <<"cool", n>>>>
                                        ELSE <<<<m, n>>>>
          BY <3>2
        <4>2. m \in {"heat", "cool", "both"} /\ n \in Int
          BY RouterAssumption
        <4>3. /\ <<"heat", n>> \in PartNames \X Int
              /\ <<"cool", n>> \in PartNames \X Int
              /\ m # "both" => <<m, n>> \in PartNames \X Int
          BY <4>2 DEF PartNames
        <4>4. CASE m = "both"
          BY <4>1, <4>3, <4>4
        <4>5. CASE m # "both"
          BY <4>1, <4>3, <4>5
        <4> QED
          BY <4>4, <4>5
      <3> QED
        BY <1>2, <3>1, <3>2 DEF InvokeCommand
    <2> QED
      BY <1>2, <2>1 DEF InvokeCommand, CommandTypeOK
  <1>3. CASE ReadPart
    <2>1. parts # <<>> /\ parts \in Seq(PartNames \X Int)
      BY <1>3 DEF ReadPart, CommandTypeOK
    <2>2. Head(parts) \in PartNames \X Int /\ Tail(parts) \in Seq(PartNames \X Int)
      BY <2>1
    <2>3. /\ target'.part = Head(parts)[1] /\ target'.amount = Head(parts)[2]
          /\ target'.value = intentOf(Head(parts)[1], Head(parts)[2])
      BY <1>3 DEF ReadPart
    <2>4. IF target'.part \in {"heat", "cool"} THEN target'.value \in Int
                                               ELSE target'.value \in BOOLEAN
      BY <2>2, <2>3, IntentTypes
    <2> QED
      BY <1>3, <2>2, <2>3, <2>4 DEF ReadPart, CommandTypeOK
  <1>4. CASE ApplyPart
    BY <1>4 DEF ApplyPart, CommandTypeOK
  <1> QED
    BY <1>1, <1>2, <1>3, <1>4 DEF RouterCall, routerVars
-----------------------------------------------------------------------------
(* Raising and lowering a setpoint.                                        *)

\* Before the first command there is nothing stale.
LEMMA StaleInitially == RouterInit => StaleIsGuarded
  BY DEF RouterInit, StaleIsGuarded

\* Every step keeps stale setpoints guarded.
LEMMA StaleStep ==
    ASSUME ReconcilerTypeOK, CommandTypeOK, StaleIsGuarded, [RouterCall]_routerVars
    PROVE  StaleIsGuarded'
  <1>1. CASE target' = Null
    BY <1>1 DEF StaleIsGuarded
  <1>2. ASSUME UNCHANGED <<twinVars, guardLeft>>
        PROVE  /\ hasInFlight(mode)' = hasInFlight(mode)
               /\ \A p, n : intentOf(p, n)' = intentOf(p, n)
    BY <1>2 DEF twinVars, hasInFlight, intentOf, projectedOnOff, projectedMode, projectedValue,
                projectedOccupiedHeatingSetpoint, projectedOccupiedCoolingSetpoint
  <1>3. CASE UNCHANGED <<twinVars, guardLeft, target>>
    <2>1. mode' = mode
      BY <1>3 DEF twinVars
    <2> QED
      BY <1>2, <1>3, <2>1 DEF StaleIsGuarded
  <1>4. CASE ReadPart
    <2>1. /\ target'.part = Head(parts)[1] /\ target'.amount = Head(parts)[2]
          /\ target'.value = intentOf(Head(parts)[1], Head(parts)[2])
          /\ UNCHANGED <<twinVars, guardLeft>>
      BY <1>4 DEF ReadPart, reconcilerVars, stateVars, twinVars
    <2> QED
      BY <1>2, <2>1 DEF StaleIsGuarded
  <1>5. ASSUME NEW o \in S21OperationalObservations, ApplyOperationalObservation(o)
        PROVE  StaleIsGuarded'
    <2> DEFINE m == s21OperatingModeToOperationalMode(o.operatingMode)
    <2>1. m \in OperationalModes
      BY WireFacts
    <2>2. mode'.observed = m
      BY <1>5, <2>1, ObservationFacts
         DEF ApplyOperationalObservation, ReconcilerTypeOK, StateTypeOK
    <2>3. /\ m = "Cool" => guardLeft'["coolSetpoint"] = DeviceWinsWindow
          /\ m = "Heat" => guardLeft'["heatSetpoint"] = DeviceWinsWindow
          /\ m = "Auto" => guardLeft'["autoSetpoint"] = DeviceWinsWindow
      BY <1>5 DEF ApplyOperationalObservation, TwinNames
    <2>4. m \in DOMAIN setpointTwin => guardLeft'[setpointTwin[m]] > 0
      BY <2>3, ReconcilerAssumption DEF setpointTwin
    <2> QED
      BY <2>2, <2>4 DEF StaleIsGuarded
  <1>6. ASSUME NEW cmd, OnCommandSent(cmd)
        PROVE  StaleIsGuarded'
    <2>1. mode'.inFlight = mode.desired /\ mode.desired # Null
      BY <1>6, NullAssumption DEF OnCommandSent, promoteDesiredToInFlight, ReconcilerTypeOK,
                                  StateTypeOK, TwinFields
    <2> QED
      BY <2>1 DEF StaleIsGuarded, hasInFlight
  <1>7. CASE InvokeCommand \/ ApplyPart \/ (commandDone /\ UNCHANGED commandVars)
    BY <1>1, <1>7 DEF InvokeCommand, ApplyPart, commandDone, commandVars
  <1>8. ASSUME NEW e, ApplyEnvironmentalObservation(e), UNCHANGED commandVars
        PROVE  StaleIsGuarded'
    BY <1>3, <1>8 DEF ApplyEnvironmentalObservation, commandVars
  <1>9. ASSUME OnCommandFailed \/ NotifyLinkDown, UNCHANGED commandVars
        PROVE  StaleIsGuarded'
    BY <1>3, <1>9 DEF OnCommandFailed, NotifyLinkDown, stateVars, twinVars, commandVars
  <1>10. CASE UNCHANGED routerVars
    BY <1>3, <1>10 DEF routerVars, reconcilerVars, stateVars, twinVars, commandVars
  <1> QED
    BY <1>4, <1>5, <1>6, <1>7, <1>8, <1>9, <1>10 DEF RouterCall

\* A setpoint within its limits moves the way of the amount, or not at all.
LEMMA DeltaFacts ==
    ASSUME NEW current \in Int, NEW amount \in Int, NEW limits \in Int \X Int,
           current = applySetpointDelta(current, 0, limits)
    PROVE  LET v == applySetpointDelta(current, amount, limits) IN
           /\ v \in Int
           /\ amount >= 0 => v >= current
           /\ amount <= 0 => v <= current
  BY DEF applySetpointDelta

\* Half of a sum that is at least, or at most, twice n.
LEMMA HalfFacts ==
    ASSUME NEW n \in Int, NEW sum \in Int
    PROVE  /\ Half(sum) \in Int
           /\ sum >= 2 * n => Half(sum) >= n
           /\ sum <= 2 * n => Half(sum) <= n
  BY DEF Half

\* A guarded intent moves a twin as wanted if its value does, or its guard window
\* is open.
LEMMA GuardedMoves ==
    ASSUME ReconcilerTypeOK, NEW name \in TwinNames, NEW t \in TwinFields(Int), NEW v \in Int,
           NEW amount \in Int,
           \/ guardLeft[name] > 0
           \/ /\ amount >= 0 => v >= t.desired
              /\ amount <= 0 => v <= t.desired
    PROVE  moved(amount, t, guardedDesired(name, t, v))
  <1>1. t.desired \in Int /\ guardLeft \in [TwinNames -> 0..DeviceWinsWindow]
    BY DEF TwinFields, ReconcilerTypeOK
  <1>2. CASE guardLeft[name] > 0
    <2>1. guardedDesired(name, t, v).desired \in {t.desired, t.observed}
      BY <1>1, <1>2, GuardedFacts
    <2> QED
      BY <1>1, <2>1 DEF moved
  <1>3. CASE /\ amount >= 0 => v >= t.desired
             /\ amount <= 0 => v <= t.desired
    <2>1. guardedDesired(name, t, v).desired \in {t.desired, v}
      BY SetDesiredFacts DEF guardedDesired
    <2> QED
      BY <1>1, <1>3, <2>1 DEF moved
  <1> QED
    BY <1>2, <1>3

\* Every step raises and lowers as asked.
LEMMA RaiseStep ==
    ASSUME ReconcilerTypeOK, CommandTypeOK, StaleIsGuarded, [RouterCall]_routerVars
    PROVE  [raiseNeverLowersStep]_routerVars
  <1> SUFFICES ASSUME target # Null, target' = Null, target.part \in {"heat", "cool"},
                      ~clamped(target.part), nothingOutstanding
               PROVE  /\ mode.observed = "Heat" => moved(target.amount, heatSetpoint, heatSetpoint')
                      /\ mode.observed = "Cool" => moved(target.amount, coolSetpoint, coolSetpoint')
                      /\ mode.observed = "Auto" => moved(target.amount, autoSetpoint, autoSetpoint')
    BY DEF raiseNeverLowersStep
  <1>1. ApplyPart
    BY DEF RouterCall, InvokeCommand, ReadPart, commandDone, commandVars, routerVars
  <1> DEFINE v == target.value
             n == target.amount
  <1>2. v \in Int /\ n \in Int
    BY DEF CommandTypeOK
  <1>3. /\ heatSetpoint \in TwinFields(Int) /\ heatSetpoint.desired \in Int
        /\ coolSetpoint \in TwinFields(Int) /\ coolSetpoint.desired \in Int
        /\ autoSetpoint \in TwinFields(Int) /\ autoSetpoint.desired \in Int
        /\ AutoBandHalfWidth \in Int
    BY AutoBandAssumption DEF ReconcilerTypeOK, StateTypeOK, TwinFields
  <1>4. projectedMode = mode.observed
    BY DEF nothingOutstanding, projectedMode, projectedValue
  <1>5. \/ v = intentOf(target.part, n)
        \/ mode.observed \in DOMAIN setpointTwin => guardLeft[setpointTwin[mode.observed]] > 0
    BY DEF StaleIsGuarded, nothingOutstanding
  <1>6. \A t \in TwinFields(Int) : moved(n, t, t)
    BY <1>2 DEF moved, TwinFields
  <1>7. ASSUME target.part = "heat", v = intentOf("heat", n)
        PROVE  /\ n >= 0 => v >= projectedOccupiedHeatingSetpoint
               /\ n <= 0 => v <= projectedOccupiedHeatingSetpoint
    <2>1. projectedOccupiedHeatingSetpoint
             = applySetpointDelta(projectedOccupiedHeatingSetpoint, 0, HeatLimits)
      BY <1>7 DEF clamped
    <2> QED
      BY <1>2, <1>7, <2>1, DeltaFacts, ProjectionTypes, RouterAssumption DEF intentOf
  <1>8. ASSUME target.part = "cool", v = intentOf("cool", n)
        PROVE  /\ n >= 0 => v >= projectedOccupiedCoolingSetpoint
               /\ n <= 0 => v <= projectedOccupiedCoolingSetpoint
    <2>1. projectedOccupiedCoolingSetpoint
             = applySetpointDelta(projectedOccupiedCoolingSetpoint, 0, CoolLimits)
      BY <1>8 DEF clamped
    <2> QED
      BY <1>2, <1>8, <2>1, DeltaFacts, ProjectionTypes, RouterAssumption DEF intentOf
  <1>9. ASSUME mode.observed = "Heat"
        PROVE  moved(n, heatSetpoint, heatSetpoint')
    <2>1. projectedOccupiedHeatingSetpoint = heatSetpoint.desired
      BY <1>4, <1>9 DEF nothingOutstanding, activeSetpoint, projectedOccupiedHeatingSetpoint,
                        projectedValue
    <2>2. CASE target.part = "heat"
      <3>1. heatSetpoint' = guardedDesired("heatSetpoint", heatSetpoint, v)
        BY <1>1, <1>9, <2>2 DEF ApplyPart, SetOccupiedHeatingSetpoint
      <3>2. \/ guardLeft["heatSetpoint"] > 0
            \/ /\ n >= 0 => v >= heatSetpoint.desired
               /\ n <= 0 => v <= heatSetpoint.desired
        BY <1>5, <1>7, <1>9, <2>1, <2>2 DEF setpointTwin
      <3> QED
        BY <1>2, <1>3, <3>1, <3>2, GuardedMoves DEF TwinNames
    <2>3. CASE target.part = "cool"
      <3>1. heatSetpoint' = heatSetpoint
        BY <1>1, <2>3 DEF ApplyPart, SetOccupiedCoolingSetpoint
      <3> QED
        BY <1>3, <1>6, <3>1
    <2> QED
      BY <2>2, <2>3
  <1>10. ASSUME mode.observed = "Cool"
        PROVE  moved(n, coolSetpoint, coolSetpoint')
    <2>1. projectedOccupiedCoolingSetpoint = coolSetpoint.desired
      BY <1>4, <1>10 DEF nothingOutstanding, activeSetpoint, projectedOccupiedCoolingSetpoint,
                         projectedValue
    <2>2. CASE target.part = "cool"
      <3>1. coolSetpoint' = guardedDesired("coolSetpoint", coolSetpoint, v)
        BY <1>1, <1>10, <2>2 DEF ApplyPart, SetOccupiedCoolingSetpoint
      <3>2. \/ guardLeft["coolSetpoint"] > 0
            \/ /\ n >= 0 => v >= coolSetpoint.desired
               /\ n <= 0 => v <= coolSetpoint.desired
        BY <1>5, <1>8, <1>10, <2>1, <2>2 DEF setpointTwin
      <3> QED
        BY <1>2, <1>3, <3>1, <3>2, GuardedMoves DEF TwinNames
    <2>3. CASE target.part = "heat"
      <3>1. coolSetpoint' = coolSetpoint
        BY <1>1, <2>3 DEF ApplyPart, SetOccupiedHeatingSetpoint
      <3> QED
        BY <1>3, <1>6, <3>1
    <2> QED
      BY <2>2, <2>3
  <1>11. ASSUME mode.observed = "Auto"
        PROVE  moved(n, autoSetpoint, autoSetpoint')
    <2> DEFINE d == autoSetpoint.desired
               B == AutoBandHalfWidth
    <2>1. /\ projectedOccupiedHeatingSetpoint = d - B
          /\ projectedOccupiedCoolingSetpoint = d + B
      BY <1>4, <1>11 DEF nothingOutstanding, activeSetpoint, projectedOccupiedHeatingSetpoint,
                         projectedOccupiedCoolingSetpoint, projectedValue
    <2>2. ASSUME NEW c \in Int, autoSetpoint' = guardedDesired("autoSetpoint", autoSetpoint, Half(c)),
                 v = intentOf(target.part, n) => /\ n >= 0 => c >= 2 * d
                                                 /\ n <= 0 => c <= 2 * d
          PROVE  moved(n, autoSetpoint, autoSetpoint')
      <3>1. Half(c) \in Int
        BY HalfFacts
      <3>2. \/ guardLeft["autoSetpoint"] > 0
            \/ /\ n >= 0 => Half(c) >= d
               /\ n <= 0 => Half(c) <= d
        BY <1>3, <1>5, <1>11, <2>2, HalfFacts DEF setpointTwin
      <3> QED
        BY <1>2, <1>3, <2>2, <3>1, <3>2, GuardedMoves DEF TwinNames
    <2>3. CASE target.part = "heat"
      <3>1. autoSetpoint' = guardedDesired("autoSetpoint", autoSetpoint, Half((d + B) + v))
        BY <1>1, <1>11, <2>3 DEF ApplyPart, SetOccupiedHeatingSetpoint
      <3>2. v = intentOf(target.part, n) => /\ n >= 0 => (d + B) + v >= 2 * d
                                            /\ n <= 0 => (d + B) + v <= 2 * d
        BY <1>2, <1>3, <1>7, <2>1, <2>3
      <3> QED
        BY <1>2, <1>3, <2>2, <3>1, <3>2
    <2>4. CASE target.part = "cool"
      <3>1. autoSetpoint' = guardedDesired("autoSetpoint", autoSetpoint, Half(v + (d - B)))
        BY <1>1, <1>11, <2>4 DEF ApplyPart, SetOccupiedCoolingSetpoint
      <3>2. v = intentOf(target.part, n) => /\ n >= 0 => v + (d - B) >= 2 * d
                                            /\ n <= 0 => v + (d - B) <= 2 * d
        BY <1>2, <1>3, <1>8, <2>1, <2>4
      <3> QED
        BY <1>2, <1>3, <2>2, <3>1, <3>2
    <2> QED
      BY <2>3, <2>4
  <1> QED
    BY <1>9, <1>10, <1>11
=============================================================================
