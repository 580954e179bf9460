--------------------- MODULE AirConditionerManagerProofs ---------------------
(***************************************************************************)
(* Safety of the bridge at work, for every unit, panel, line and           *)
(* controller, every threshold and retry interval.                         *)
(***************************************************************************)
EXTENDS AirConditionerManager, ReconcilerProofs

\* A reading that is on its way to the reconciler has reset the failure count.
ReadingResetsFailures == s21Pc = "observed" => mConsecutivePollFailures = 0

\* The command on the wire is not the one last acknowledged.
SendingSomethingNew == s21Pc = "sending" => held # mLastSentCommand

BridgeInv == /\ TypeOK
             /\ UnreachableAfterThreshold /\ ReadingResetsFailures
             /\ SendingSomethingNew
-----------------------------------------------------------------------------
(* The bridge calls the reconciler.                                        *)

\* What the twins want, or nothing, is pending.
LEMMA PendingFacts ==
    ASSUME ReconcilerTypeOK
    PROVE  /\ pendingCommand \in S21OperationCommands \cup {Null}
           /\ pendingCommand # Null => /\ pendingCommand = desiredCommand
                                       /\ pendingCommand # mLastSentCommand
  BY CommandType DEF pendingCommand

\* A read of the unit's operation, cached, fetched or cross-checked, is one.
LEMMA OperationType ==
    ASSUME TypeOK
    PROVE  getOperation \subseteq S21OperationCommands
  <1>1. device.fanMode \in S21FanModes
    BY DEF TypeOK, S21OperationCommands
  <1>2. \A op \in S21OperationCommands :
           [op EXCEPT !.fanMode = device.fanMode] \in S21OperationCommands
    BY <1>1 DEF S21OperationCommands
  <1>3. F1Responses \subseteq S21OperationCommands
    BY DEF TypeOK, F1Responses, S21OperationCommands, S21FanModes
  <1>4. (IF opCache # Null THEN {opCache} ELSE F1Responses) \subseteq S21OperationCommands
    BY <1>3 DEF TypeOK
  <1> QED
    BY <1>2, <1>4 DEF getOperation

\* A controller's write is a well-typed intent.
LEMMA WrittenIsIntent ==
    ASSUME TypeOK, ControllerWrite
    PROVE  AnyIntent
  <1>1. PICK intent \in scenario.intents : ApplyIntent(intent)
    BY DEF ControllerWrite
  <1>2. intent \in WriteIntents
    BY ManagerAssumption DEF TypeOK
  <1> QED
    BY <1>1, <1>2, IntentIsAnyIntent

\* Whatever the bridge does, the reconciler is called with values of the right
\* type.
LEMMA BridgeCallsReconciler ==
    ASSUME TypeOK, [Next]_vars
    PROVE  [AnyCall]_reconcilerVars
  <1>1. CASE ControllerWrite
    BY <1>1, WrittenIsIntent DEF AnyCall
  <1>2. CASE PollEnvironmentalPhase
    BY <1>2, ReconcilerAssumption DEF PollEnvironmentalPhase, AnyCall
  <1>3. CASE PollOperationalFailure
    BY <1>3 DEF PollOperationalFailure, AnyCall
  <1>4. CASE PollOperationalApply
    BY <1>4 DEF PollOperationalApply, TypeOK, AnyCall
  <1>5. CASE CommandSent \/ CommandFailed
    BY <1>5 DEF CommandSent, CommandFailed, CommandEnds, TypeOK, AnyCall
  <1>6. CASE Tick
    BY <1>6 DEF Tick, Time, AnyCall
  <1>7. CASE InitRetryWorkHandler \/ PollOperationalRead \/ CommandTake
                \/ DeviceApplies \/ PanelChange \/ LinkChange
    BY <1>7 DEF InitRetryWorkHandler, PollOperationalRead, CommandTake, DeviceApplies,
                PanelChange, LinkChange
  <1>8. CASE UNCHANGED vars
    BY <1>8 DEF vars
  <1> QED
    BY <1>1, <1>2, <1>3, <1>4, <1>5, <1>6, <1>7, <1>8 DEF Next, S21WorkQueue

\* Intents leave the heartbeat and the memory of the last command alone.
LEMMA WriteKeeps ==
    ASSUME TypeOK, ControllerWrite
    PROVE  UNCHANGED <<reachable, mLastSentCommand>>
  BY WrittenIsIntent, IntentKeeps DEF TypeOK, notByIntents
-----------------------------------------------------------------------------
(* The inductive invariant.                                                *)

\* The bridge boots in it.
LEMMA BridgeInitially == Init => BridgeInv
  <1> SUFFICES ASSUME Init PROVE BridgeInv
    OBVIOUS
  <1>1. TypeOK
    <2>1. ReconcilerTypeOK
      BY TypeInitially DEF Init
    <2>2. /\ mInitRetryIntervalMs \in InitialRetryInterval..MaximumRetryInterval
          /\ mEnvironmentalReadCountdown \in 0..(kS21EnvironmentalSensorReadTicks - 1)
          /\ mConsecutivePollFailures \in 0..kReachableFailureThreshold
          /\ scenario \in Scenarios
          /\ intentsLeft \in 0..MaxIntents
          /\ panelLeft \in 0..MaxPanelChanges
          /\ linkLeft \in 0..MaxLinkChanges
      BY ManagerAssumption DEF Init
    <2>3. device \in S21OperationCommands
      BY ManagerAssumption DEF Init
    <2> QED
      BY <2>1, <2>2, <2>3 DEF Init, TypeOK
  <1>2. UnreachableAfterThreshold
    BY DEF Init, ReconcilerInit, StateInit, UnreachableAfterThreshold
  <1> QED
    BY <1>1, <1>2 DEF Init, BridgeInv, ReadingResetsFailures, SendingSomethingNew

\* Every step keeps the types.
LEMMA BridgeTypeStep ==
    ASSUME TypeOK, [Next]_vars
    PROVE  TypeOK'
  <1>0. ReconcilerTypeOK'
    BY BridgeCallsReconciler, TypeStep DEF TypeOK
  <1>1. CASE ControllerWrite
    <2>1. intentsLeft' \in 0..MaxIntents
      BY <1>1, ManagerAssumption DEF ControllerWrite, TypeOK
    <2>2. commandDue' \in BOOLEAN
      BY <1>1 DEF ControllerWrite, firePump, TypeOK
    <2> QED
      BY <1>0, <1>1, <2>1, <2>2 DEF ControllerWrite, s21Vars, deviceVars, TypeOK
  <1>2. CASE InitRetryWorkHandler
    <2>1. nextRetryInterval \in InitialRetryInterval..MaximumRetryInterval
      BY ManagerAssumption DEF TypeOK, nextRetryInterval, MinOf
    <2> QED
      BY <1>0, <1>2, <2>1 DEF InitRetryWorkHandler, deviceVars, boundVars, TypeOK
  <1>3. CASE PollEnvironmentalPhase
    <2>1. mEnvironmentalReadCountdown' \in 0..(kS21EnvironmentalSensorReadTicks - 1)
      BY <1>3, ManagerAssumption DEF PollEnvironmentalPhase, TypeOK
    <2> QED
      BY <1>0, <1>3, <2>1 DEF PollEnvironmentalPhase, deviceVars, boundVars, TypeOK
  <1>4. CASE PollOperationalFailure
    <2>1. mConsecutivePollFailures' \in 0..kReachableFailureThreshold
      BY <1>4, ManagerAssumption DEF PollOperationalFailure, MinOf, TypeOK
    <2> QED
      BY <1>0, <1>4, <2>1 DEF PollOperationalFailure, deviceVars, boundVars, TypeOK
  <1>5. CASE PollOperationalRead
    <2>1. PICK op \in getOperation, valve \in ValveReadings :
             held' = [onOff |-> op.onOff, operatingMode |-> op.operatingMode,
                      setpoint |-> op.setpoint, fanMode |-> op.fanMode,
                      valveOpen |-> valve]
      BY <1>5 DEF PollOperationalRead
    <2>2. op \in S21OperationCommands /\ valve \in BOOLEAN \cup {Null}
      BY OperationType, ManagerAssumption
    <2>3. held' \in S21OperationalObservations
      BY <2>1, <2>2 DEF S21OperationCommands, S21OperationalObservations
    <2>4. mConsecutivePollFailures' \in 0..kReachableFailureThreshold
      BY <1>5, ManagerAssumption DEF PollOperationalRead
    <2> QED
      BY <1>0, <1>5, <2>3, <2>4 DEF PollOperationalRead, deviceVars, boundVars, TypeOK
  <1>6. CASE PollOperationalApply
    BY <1>0, <1>6 DEF PollOperationalApply, firePump, deviceVars, boundVars, TypeOK
  <1>7. CASE CommandTake
    <2>1. /\ pendingCommand \in S21OperationCommands \cup {Null}
          /\ s21Pc' \in {"idle", "sending"} /\ held' = pendingCommand
          /\ s21Pc' = "sending" <=> pendingCommand # Null
      BY <1>7, PendingFacts DEF CommandTake, TypeOK
    <2> QED
      BY <1>0, <1>7, <2>1 DEF CommandTake, deviceVars, boundVars, TypeOK
  <1>8. CASE CommandSent
    BY <1>0, <1>8 DEF CommandSent, CommandEnds, boundVars, TypeOK
  <1>9. CASE CommandFailed
    BY <1>0, <1>9 DEF CommandFailed, CommandEnds, boundVars, TypeOK
  <1>10. CASE DeviceApplies
    <2>1. \A v \in Int : quantised(v) \in Int
      BY DEF quantised, tempByteToSetPoint, setPointToTempByte, TempByteBase, CDiv
    <2>2. inbox \in S21OperationCommands
      BY <1>10 DEF DeviceApplies, TypeOK
    <2> HIDE DEF quantised
    <2>3. device' \in S21OperationCommands
      BY <1>10, <2>1, <2>2 DEF DeviceApplies, S21OperationCommands
    <2> QED
      BY <1>0, <1>10, <2>3 DEF DeviceApplies, s21Vars, boundVars, TypeOK
  <1>11. CASE PanelChange
    <2>1. device' \in S21OperationCommands /\ panelLeft' \in 0..MaxPanelChanges
      BY <1>11, ManagerAssumption DEF PanelChange, TypeOK
    <2> QED
      BY <1>0, <1>11, <2>1 DEF PanelChange, s21Vars, TypeOK
  <1>12. CASE LinkChange
    BY <1>0, <1>12, ManagerAssumption DEF LinkChange, s21Vars, TypeOK
  <1>13. CASE Tick
    BY <1>0, <1>13 DEF Tick, Time, deviceVars, boundVars, TypeOK
  <1>14. CASE UNCHANGED vars
    BY <1>0, <1>14 DEF vars, s21Vars, deviceVars, boundVars, TypeOK
  <1> QED
    BY <1>1, <1>2, <1>3, <1>4, <1>5, <1>6, <1>7, <1>8, <1>9, <1>10, <1>11, <1>12, <1>13,
       <1>14 DEF Next, S21WorkQueue

\* Every step keeps the rest of the invariant.
LEMMA BridgeStep ==
    ASSUME BridgeInv, [Next]_vars
    PROVE  UnreachableAfterThreshold' /\ ReadingResetsFailures' /\ SendingSomethingNew'
  <1>0. TypeOK /\ ReconcilerTypeOK
    BY DEF BridgeInv, TypeOK
  <1> USE DEF BridgeInv, UnreachableAfterThreshold, ReadingResetsFailures, SendingSomethingNew
  <1>1. CASE UNCHANGED <<mConsecutivePollFailures, reachable, mLastSentCommand, s21Pc, held>>
    BY <1>1
  <1>2. CASE ControllerWrite
    BY <1>0, <1>1, <1>2, WriteKeeps DEF ControllerWrite, s21Vars
  <1>3. CASE PollEnvironmentalPhase
    <2>1. UNCHANGED <<reachable, mConsecutivePollFailures>> /\ s21Pc' = "polling"
      BY <1>3 DEF PollEnvironmentalPhase, ApplyEnvironmentalObservation, reconcilerVars, stateVars
    <2> QED
      BY <2>1
  <1>4. CASE PollOperationalFailure
    <2>1. /\ mConsecutivePollFailures' >= kReachableFailureThreshold => ~reachable'
          /\ s21Pc' = "idle"
      BY <1>0, <1>4, ManagerAssumption DEF PollOperationalFailure, MinOf, NotifyLinkDown, TypeOK
    <2> QED
      BY <2>1
  <1>5. CASE PollOperationalRead
    BY <1>5, ManagerAssumption DEF PollOperationalRead
  <1>6. CASE PollOperationalApply
    BY <1>6, ManagerAssumption DEF PollOperationalApply
  <1>7. CASE CommandTake
    <2>1. UNCHANGED <<reachable, mConsecutivePollFailures, mLastSentCommand>>
      BY <1>7 DEF CommandTake, reconcilerVars, stateVars
    <2> QED
      BY <1>0, <1>7, <2>1, PendingFacts DEF CommandTake
  <1>8. CASE CommandSent \/ CommandFailed
    BY <1>8 DEF CommandSent, CommandFailed, CommandEnds, OnCommandSent, OnCommandFailed, stateVars
  <1>9. CASE InitRetryWorkHandler \/ DeviceApplies \/ PanelChange \/ LinkChange
    BY <1>1, <1>9 DEF InitRetryWorkHandler, DeviceApplies, PanelChange, LinkChange, s21Vars,
                      reconcilerVars, stateVars
  <1>10. CASE Tick
    BY <1>1, <1>10 DEF Tick, Time, Elapse, reconcilerVars, stateVars
  <1>11. CASE UNCHANGED vars
    BY <1>1, <1>11 DEF vars, s21Vars, reconcilerVars, stateVars
  <1> QED
    BY <1>2, <1>3, <1>4, <1>5, <1>6, <1>7, <1>8, <1>9, <1>10, <1>11 DEF Next, S21WorkQueue

\* The invariant holds.
LEMMA BridgeInvariant == Spec => []BridgeInv
  <1>1. BridgeInv /\ [Next]_vars => BridgeInv'
    BY BridgeTypeStep, BridgeStep DEF BridgeInv
  <1> QED
    BY <1>1, BridgeInitially, PTL DEF Spec
-----------------------------------------------------------------------------
(* Theorems.                                                               *)

\* The manager's state keeps its types: the back-off stays within its limits, the
\* thread's local variables are what its position says (airconditioner_manager.cpp).
THEOREM BridgeTypeCorrect == Spec => []TypeOK
  <1>1. BridgeInv => TypeOK
    BY DEF BridgeInv
  <1> QED
    BY <1>1, BridgeInvariant, PTL

\* A unit that has missed the threshold of polls in a row is never shown as
\* reachable, whatever intents, acknowledgements and sensor reads come in between
\* (PollOperationalPhase).
THEOREM ReachableCorrect == Spec => []UnreachableAfterThreshold
  <1>1. BridgeInv => UnreachableAfterThreshold
    BY DEF BridgeInv
  <1> QED
    BY <1>1, BridgeInvariant, PTL

\* The same command is never acknowledged twice running, although intents and
\* clock ticks land between taking and reporting it (CommandWorkHandler).
THEOREM DedupCorrect == Spec => NoDuplicateSend
  <1>1. BridgeInv /\ [Next]_vars => [CommandSent => mLastSentCommand' # mLastSentCommand]_vars
    BY DEF BridgeInv, SendingSomethingNew, CommandSent, CommandEnds, OnCommandSent
  <1> QED
    BY <1>1, BridgeInvariant, PTL DEF Spec, NoDuplicateSend

\* Polls, commands and writes of the bridge keep the remembered percent, the
\* running direction and the guard window as the reconciler promises
\* (airconditioner_manager.cpp as a caller of reconciler.cpp).
THEOREM BridgeKeepsReconciler ==
    Spec => [](FanPercentCoherent /\ ControllerPercentKept /\ RunningModeAgrees)
              /\ DeviceWinsInsideWindow
  <1>1. Init => FanInv /\ RunningModeAgrees
    BY FanInitially DEF Init, ReconcilerInit, StateInit, RunningModeAgrees
  <1>2. BridgeInv /\ [Next]_vars => ReconcilerTypeOK /\ [AnyCall]_reconcilerVars
    BY BridgeCallsReconciler DEF BridgeInv, TypeOK
  <1>3. FanInv /\ RunningModeAgrees /\ BridgeInv /\ [Next]_vars =>
           FanInv' /\ RunningModeAgrees'
    BY <1>2, FanStep, RunningModeStep
  <1>4. BridgeInv /\ [Next]_vars => [deviceWinsStep]_reconcilerVars
    BY <1>2, DeviceWinsStep
  <1>5. FanInv => FanPercentCoherent /\ ControllerPercentKept
    BY DEF FanInv
  <1> QED
    BY <1>1, <1>3, <1>4, <1>5, BridgeInvariant, PTL DEF Spec, DeviceWinsInsideWindow
-----------------------------------------------------------------------------
(* What is in flight.                                                      *)

\* The command on the wire was superseded before it was acknowledged.
overtaken == CommandSent /\ held # desiredCommand

\* Unless that happens, the reconciler hears of what the twins want.
LEMMA BridgeIsFaithful ==
    ASSUME TypeOK, ~overtaken, [Next]_vars
    PROVE  [FaithfulCall]_reconcilerVars
  <1>1. CASE CommandSent
    BY <1>1 DEF CommandSent, CommandEnds, overtaken, FaithfulCall
  <1>2. CASE ControllerWrite
    BY <1>2, WrittenIsIntent DEF FaithfulCall
  <1>3. CASE PollEnvironmentalPhase
    BY <1>3, ReconcilerAssumption DEF PollEnvironmentalPhase, FaithfulCall
  <1>4. CASE PollOperationalFailure
    BY <1>4 DEF PollOperationalFailure, FaithfulCall
  <1>5. CASE PollOperationalApply
    BY <1>5 DEF PollOperationalApply, TypeOK, FaithfulCall
  <1>6. CASE CommandFailed
    BY <1>6 DEF CommandFailed, FaithfulCall
  <1>7. CASE Tick
    BY <1>7 DEF Tick, Time, FaithfulCall
  <1>8. CASE InitRetryWorkHandler \/ PollOperationalRead \/ CommandTake
                \/ DeviceApplies \/ PanelChange \/ LinkChange
    BY <1>8 DEF InitRetryWorkHandler, PollOperationalRead, CommandTake, DeviceApplies,
                PanelChange, LinkChange
  <1> QED
    BY <1>1, <1>2, <1>3, <1>4, <1>5, <1>6, <1>7, <1>8 DEF Next, S21WorkQueue, vars

\* Nothing but the acknowledgement of a command that a write has overtaken puts a
\* value in flight that was not sent: the race of the run Race_in_flight is the
\* only one (CommandWorkHandler, onCommandSent).
THEOREM InFlightLostOnlyToRace ==
    Spec => [][InFlightWasSent => InFlightWasSent' \/ overtaken]_vars
  <1>1. TypeOK /\ [Next]_vars => [InFlightWasSent => InFlightWasSent' \/ overtaken]_vars
    BY BridgeIsFaithful, InFlightStep DEF TypeOK
  <1> QED
    BY <1>1, BridgeTypeCorrect, PTL DEF Spec
=============================================================================
