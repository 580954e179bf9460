------------------------ MODULE AirConditionerManager ------------------------
(***************************************************************************)
(* The bridge at work (airconditioner_manager.cpp): the reconciler shared, *)
(* under the coordinator's lock, by                                        *)
(*                                                                         *)
(*   - the CHIP thread, on which Matter controllers write (ControllerWrite)*)
(*   - the S21 work queue, one thread that runs the init retry, the poll   *)
(*     and the command pump one at a time.  s21Pc and held are its program *)
(*     counter and what it carries from one lock acquisition to the next.  *)
(*                                                                         *)
(* and, outside the program, the unit with its remote panel and the S21    *)
(* line.  A call that blocks on the line (setOperation, getOperation) ends *)
(* in an action of its own, so intents interleave with it.                 *)
(*                                                                         *)
(* Timers are asynchronous: a delayable work item may run at any time once *)
(* scheduled.  Two facts about the periods are kept: the poll period (10 s)*)
(* exceeds the age limit of the operation cache (5 s), so only a command   *)
(* sent since the last poll can leave a fresh entry.                       *)
(***************************************************************************)
EXTENDS Reconciler, S21Codec

CONSTANTS
    kS21EnvironmentalSensorReadTicks,
    kReachableFailureThreshold,
    InitialRetryInterval, MaximumRetryInterval,
    ValveReadings,    \* what RzB2 may report; Null: the read fails
    SlowUnit,         \* FALSE: the unit acts on a command before the cache expires
    Scenarios,        \* bound: [device, intents, panel], what a behaviour consists of: the
                      \* unit at boot, what controllers write, what the panel sets
    MaxIntents,       \* bound: controller writes in a behaviour
    MaxPanelChanges,  \* bound: panel changes in a behaviour
    MaxLinkChanges    \* bound: times the S21 line goes down or up

VARIABLES
    s21Ready,                     \* S21Manager::isReady()
    mInitRetryIntervalMs,
    mEnvironmentalReadCountdown,
    mConsecutivePollFailures,     \* capped at kReachableFailureThreshold
    commandDue,                   \* mCommandWork is scheduled
    s21Pc, held,                  \* the S21 thread: where it is, what it holds
    opCache,                      \* fresh entry of mOperationCache, or Null
    device, inbox, linkUp,        \* unit, command it has accepted, S21 line
    scenario, intentsLeft, panelLeft, linkLeft

s21Vars    == <<s21Ready, mInitRetryIntervalMs, mEnvironmentalReadCountdown,
                mConsecutivePollFailures, s21Pc, held, opCache>>
deviceVars == <<device, inbox, linkUp>>
boundVars  == <<scenario, intentsLeft, panelLeft, linkLeft>>

vars == <<reconcilerVars, s21Vars, commandDue, deviceVars, boundVars>>

ASSUME ManagerAssumption ==
    /\ kS21EnvironmentalSensorReadTicks \in Nat \ {0}
    /\ kReachableFailureThreshold \in Nat \ {0}
    /\ InitialRetryInterval \in Nat \ {0}
    /\ MaximumRetryInterval \in Nat /\ InitialRetryInterval <= MaximumRetryInterval
    /\ ValveReadings \subseteq BOOLEAN \cup {Null} /\ Null \in ValveReadings
    /\ Scenarios \subseteq [device  : S21OperationCommands,
                            intents : SUBSET WriteIntents,
                            panel   : SUBSET S21OperationCommands]
    /\ MaxIntents \in Nat /\ MaxPanelChanges \in Nat /\ MaxLinkChanges \in Nat
    /\ SlowUnit \in BOOLEAN

MinOf(a, b) == IF a < b THEN a ELSE b

Init ==
    /\ ReconcilerInit
    /\ s21Ready \in BOOLEAN       \* did the first S21Manager::Init() succeed?
    /\ mInitRetryIntervalMs = InitialRetryInterval
    /\ mEnvironmentalReadCountdown = 0
    /\ mConsecutivePollFailures = 0
    /\ commandDue = FALSE
    /\ s21Pc = "idle" /\ held = Null
    /\ opCache = Null
    /\ scenario \in Scenarios
    /\ device = scenario.device /\ inbox = Null
    /\ linkUp = TRUE
    /\ intentsLeft = MaxIntents
    /\ panelLeft = MaxPanelChanges
    /\ linkLeft = MaxLinkChanges
-----------------------------------------------------------------------------
(* The pump, fired by an intent or a reading that leaves a command to send. *)

\* Mutant: the pump is not fired for a command that supersedes another.
firePumpFirst == commandDue' = (commandDue \/ (pendingCommand' # Null
                                               /\ mLastSentCommand = Null))

firePump == commandDue' = (commandDue \/ pendingCommand' # Null)
-----------------------------------------------------------------------------
(* CHIP thread.                                                            *)

\* SyncCoordinator::ApplyIntent: the change under the lock; firing the pump
\* afterwards only schedules work that starts later in any case.
ControllerWrite ==
    /\ intentsLeft > 0
    /\ \E intent \in scenario.intents : ApplyIntent(intent)
    /\ firePump
    /\ intentsLeft' = intentsLeft - 1
    /\ UNCHANGED <<s21Vars, deviceVars, scenario, panelLeft, linkLeft>>
-----------------------------------------------------------------------------
(* S21 work queue.                                                         *)

\* Mutant: the back-off is not capped.
nextRetryIntervalUncapped == mInitRetryIntervalMs * 2

nextRetryInterval == MinOf(mInitRetryIntervalMs * 2, MaximumRetryInterval)

\* Mutant: the retry is not scheduled again at the longest interval.
InitRetryWorkHandlerGivesUp ==
    /\ ~s21Ready /\ s21Pc = "idle"
    /\ mInitRetryIntervalMs < MaximumRetryInterval
    /\ s21Ready' = linkUp
    /\ mInitRetryIntervalMs' =
          IF linkUp THEN mInitRetryIntervalMs ELSE nextRetryInterval
    /\ UNCHANGED <<reconcilerVars, mEnvironmentalReadCountdown,
                   mConsecutivePollFailures, s21Pc, held, opCache, commandDue,
                   deviceVars, boundVars>>

InitRetryWorkHandler ==
    /\ ~s21Ready /\ s21Pc = "idle"
    /\ s21Ready' = linkUp
    /\ mInitRetryIntervalMs' =
          IF linkUp THEN mInitRetryIntervalMs ELSE nextRetryInterval
    /\ UNCHANGED <<reconcilerVars, mEnvironmentalReadCountdown,
                   mConsecutivePollFailures, s21Pc, held, opCache, commandDue,
                   deviceVars, boundVars>>

\* The poll starts with the sensors: on their tick, all of the three reads or
\* nothing.
PollEnvironmentalPhase ==
    /\ s21Ready /\ s21Pc = "idle"
    /\ s21Pc' = "polling"
    /\ \/ /\ mEnvironmentalReadCountdown = 0
          /\ mEnvironmentalReadCountdown' = kS21EnvironmentalSensorReadTicks - 1
          /\ \/ linkUp /\ \E e \in EnvReadings : ApplyEnvironmentalObservation(e)
             \/ UNCHANGED reconcilerVars           \* one of the reads failed
       \/ /\ mEnvironmentalReadCountdown > 0
          /\ mEnvironmentalReadCountdown' = mEnvironmentalReadCountdown - 1
          /\ UNCHANGED reconcilerVars
    /\ UNCHANGED <<s21Ready, mInitRetryIntervalMs, mConsecutivePollFailures, held,
                   opCache, commandDue, deviceVars, boundVars>>

\* F1 may report Auto for a unit that runs Quiet.
F1Responses == {device, [device EXCEPT !.fanMode = IF @ = "B" THEN "A" ELSE @]}

\* S21Manager::getOperation(): the cached or fetched operation; a running unit
\* in fan Auto is cross-checked with RG, whose failure is ignored.
getOperation ==
    LET ops == IF opCache # Null THEN {opCache} ELSE F1Responses
        crossChecked(op) ==
            IF op.onOff /\ op.fanMode = "A"
            THEN {op} \cup (IF linkUp THEN {[op EXCEPT !.fanMode = device.fanMode]} ELSE {})
            ELSE {op}
    IN  IF opCache = Null /\ ~linkUp THEN {} ELSE UNION {crossChecked(op) : op \in ops}

\* The operational read fails: count it, and give the link up at the threshold.
PollOperationalFailure ==
    LET failures == mConsecutivePollFailures + 1
    IN  /\ s21Pc = "polling" /\ getOperation = {}
        /\ mConsecutivePollFailures' = MinOf(failures, kReachableFailureThreshold)
        /\ IF failures >= kReachableFailureThreshold THEN NotifyLinkDown
                                                     ELSE UNCHANGED reconcilerVars
        /\ s21Pc' = "idle"
        /\ UNCHANGED <<s21Ready, mInitRetryIntervalMs, mEnvironmentalReadCountdown,
                       held, opCache, commandDue, deviceVars, boundVars>>

\* The operational read succeeds, with the valve state of a running unit.
PollOperationalRead ==
    /\ s21Pc = "polling"
    /\ opCache = Null /\ inbox # Null => SlowUnit
    /\ \E op \in getOperation, valve \in ValveReadings :
          /\ op.onOff \/ valve = Null
          /\ ~linkUp => valve = Null
          /\ held' = [onOff |-> op.onOff, operatingMode |-> op.operatingMode,
                      setpoint |-> op.setpoint, fanMode |-> op.fanMode,
                      valveOpen |-> valve]
    /\ mConsecutivePollFailures' = 0
    /\ opCache' = Null                \* too old by the next poll
    /\ s21Pc' = "observed"
    /\ UNCHANGED <<reconcilerVars, s21Ready, mInitRetryIntervalMs,
                   mEnvironmentalReadCountdown, commandDue, deviceVars, boundVars>>

\* The reading reaches the reconciler, under the lock.
PollOperationalApply ==
    /\ s21Pc = "observed"
    /\ ApplyOperationalObservation(held)
    /\ firePump
    /\ s21Pc' = "idle" /\ held' = Null
    /\ UNCHANGED <<s21Ready, mInitRetryIntervalMs, mEnvironmentalReadCountdown,
                   mConsecutivePollFailures, opCache, deviceVars, boundVars>>

\* CommandWorkHandler up to the call of setOperation.
CommandTake ==
    /\ commandDue /\ s21Pc = "idle"
    /\ commandDue' = FALSE
    /\ held' = pendingCommand
    /\ s21Pc' = IF pendingCommand = Null THEN "idle" ELSE "sending"
    /\ UNCHANGED <<reconcilerVars, s21Ready, mInitRetryIntervalMs,
                   mEnvironmentalReadCountdown, mConsecutivePollFailures, opCache,
                   deviceVars, boundVars>>

CommandEnds == /\ s21Pc = "sending"
               /\ s21Pc' = "idle" /\ held' = Null
               /\ UNCHANGED <<s21Ready, mInitRetryIntervalMs,
                              mEnvironmentalReadCountdown, mConsecutivePollFailures,
                              commandDue, device, linkUp, boundVars>>

\* setOperation is acknowledged: the cache takes the values as commanded.
CommandSent ==
    /\ CommandEnds
    /\ s21Ready /\ linkUp /\ SetPointInRange(held.setpoint)
    /\ inbox' = held
    /\ opCache' = held
    /\ OnCommandSent(held)

\* setOperation fails: not ready, refused, or no answer on the line; a request
\* whose answer is lost may still have reached the unit.
CommandFailed ==
    /\ CommandEnds
    /\ ~(s21Ready /\ linkUp /\ SetPointInRange(held.setpoint))
    /\ inbox' \in {inbox} \cup (IF s21Ready /\ SetPointInRange(held.setpoint)
                               THEN {held} ELSE {})
    /\ opCache' = opCache
    /\ OnCommandFailed
-----------------------------------------------------------------------------
(* The unit, its panel and the line (external), and the clock.             *)

DeviceApplies ==
    /\ inbox # Null
    /\ device' = [inbox EXCEPT !.setpoint = quantised(@)]
    /\ inbox' = Null
    /\ UNCHANGED <<reconcilerVars, s21Vars, commandDue, linkUp, boundVars>>

PanelChange ==
    /\ panelLeft > 0
    /\ panelLeft' = panelLeft - 1
    /\ device' \in scenario.panel
    /\ UNCHANGED <<reconcilerVars, s21Vars, commandDue, inbox, linkUp,
                   scenario, intentsLeft, linkLeft>>

LinkChange ==
    /\ linkLeft > 0
    /\ linkLeft' = linkLeft - 1
    /\ linkUp' = ~linkUp
    /\ UNCHANGED <<reconcilerVars, s21Vars, commandDue, device, inbox,
                   scenario, intentsLeft, panelLeft>>

Time == \/ Elapse /\ opCache' = opCache
        \/ opCache' = Null /\ UNCHANGED reconcilerVars

Tick ==
    /\ Time
    /\ UNCHANGED <<s21Ready, mInitRetryIntervalMs, mEnvironmentalReadCountdown,
                   mConsecutivePollFailures, s21Pc, held, commandDue, deviceVars,
                   boundVars>>
-----------------------------------------------------------------------------
S21WorkQueue == \/ InitRetryWorkHandler
                \/ PollEnvironmentalPhase
                \/ PollOperationalFailure
                \/ PollOperationalRead
                \/ PollOperationalApply
                \/ CommandTake
                \/ CommandSent
                \/ CommandFailed

Next == ControllerWrite \/ S21WorkQueue \/ DeviceApplies
            \/ PanelChange \/ LinkChange \/ Tick

Spec == Init /\ [][Next]_vars

\* The work queue never stops and serves its items in the order they fall due,
\* so the pump is not starved by polls; the unit acts on what it accepted.
Fairness == /\ WF_vars(S21WorkQueue)
            /\ SF_vars(CommandTake)
            /\ WF_vars(DeviceApplies)

FairSpec == Spec /\ Fairness
-----------------------------------------------------------------------------
(* Properties.                                                             *)

\* Types of the manager's own state.
TypeOK ==
    /\ ReconcilerTypeOK
    /\ s21Ready \in BOOLEAN
    /\ mInitRetryIntervalMs \in InitialRetryInterval..MaximumRetryInterval
    /\ mEnvironmentalReadCountdown \in 0..(kS21EnvironmentalSensorReadTicks - 1)
    /\ mConsecutivePollFailures \in 0..kReachableFailureThreshold
    /\ commandDue \in BOOLEAN
    /\ s21Pc \in {"idle", "polling", "observed", "sending"}
    /\ s21Pc = "sending" => held \in S21OperationCommands
    /\ s21Pc = "observed" => held \in S21OperationalObservations
    /\ s21Pc \in {"idle", "polling"} => held = Null
    /\ opCache \in S21OperationCommands \cup {Null}
    /\ device \in S21OperationCommands
    /\ inbox \in S21OperationCommands \cup {Null}
    /\ linkUp \in BOOLEAN
    /\ scenario \in Scenarios
    /\ intentsLeft \in 0..MaxIntents
    /\ panelLeft \in 0..MaxPanelChanges
    /\ linkLeft \in 0..MaxLinkChanges

\* A unit that has missed the threshold of polls in a row is never shown as
\* reachable, whatever arrives in between (PollOperationalPhase).
UnreachableAfterThreshold ==
    mConsecutivePollFailures >= kReachableFailureThreshold => ~reachable

\* The same command is never acknowledged twice running: dedup holds although
\* intents and observations land between taking a command and reporting it.
NoDuplicateSend ==
    [][CommandSent => mLastSentCommand' # mLastSentCommand]_vars

unitModeIs(m)     == s21OperatingModeToOperationalMode(device.operatingMode) = m
unitSetpointIs(v) == device.setpoint = quantised(v)

\* The unit does what the twins want of it.
UnitIsAsDesired ==
    /\ inbox = Null
    /\ device.onOff = onOff.desired
    /\ unitModeIs(mode.desired)
    /\ device.fanMode = fanSpeedToS21FanMode(fan.desired)
    /\ mode.desired \in {"Cool", "Heat", "Auto"} =>
          unitSetpointIs(activeSetpoint(mode.desired).desired)

\* What Matter shows is what the unit does.
MatterShowsTheUnit ==
    /\ device.onOff = projectedOnOff
    /\ unitModeIs(projectedMode)
    /\ projectedOnOff => projectedSpeedSetting =
          (IF device.fanMode = "A" THEN Null ELSE s21FanModeToSpeedSetting(device.fanMode))
    /\ unitModeIs("Cool") => unitSetpointIs(projectedOccupiedCoolingSetpoint)
    /\ unitModeIs("Heat") => unitSetpointIs(projectedOccupiedHeatingSetpoint)

\* Nobody used the panel, and no write overtook a command on the wire: what
\* these do to the values in flight and to the view is shown by the runs
\* Race_in_flight and Panel_view.
undisturbed == [](panelLeft = MaxPanelChanges /\ InFlightWasSent)

\* A command that the presentation refuses at every attempt: its setpoint is out
\* of range, and no limit keeps a controller from writing it.
unsendable == pendingCommand # Null /\ ~SetPointInRange(pendingCommand.setpoint)

\* Controller writes land: once writes and outages stop, the unit ends up doing
\* what the twins ask of it, through failed commands, lost answers, stale polls
\* and superseded commands, unless they ask for what cannot be sent (the pump,
\* retry on poll, applyObservation).
DesiredReachesDevice ==
    undisturbed /\ <>[]linkUp => <>[](UnitIsAsDesired \/ unsendable)

\* And what controllers read settles on what the unit does (Projector).
UndisturbedViewSettles ==
    undisturbed /\ <>[]linkUp => <>[](MatterShowsTheUnit \/ unsendable)

\* The same, whoever used the panel.
MatterViewSettles == <>[]linkUp => <>[]MatterShowsTheUnit

\* No retry storm: with a working line the pump runs dry, whatever the panel,
\* the controllers and lost answers left behind, except for a command that is
\* refused at every attempt: each refusal clears the dedup memory, so every poll
\* fires the pump again (dedup in pendingCommand, onCommandFailed).
PumpRunsDry ==
    <>[]linkUp => <>[](unsendable \/ (pendingCommand = Null /\ ~commandDue))

\* Reachable follows the line: down for good is noticed, up for good too
\* (reachability heartbeat of PollOperationalPhase, init retry).
ReachableFollowsLink == /\ <>[]linkUp => <>[]reachable
                        /\ <>[]~linkUp => <>[]~reachable
=============================================================================
