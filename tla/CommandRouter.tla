---------------------------- MODULE CommandRouter ----------------------------
(***************************************************************************)
(* The Matter commands the bridge answers itself (command_router.cpp):     *)
(* On, Off, Toggle and SetpointRaiseLower.  Toggle and SetpointRaiseLower  *)
(* read a projected value and write the result back as an intent: two      *)
(* acquisitions of the coordinator's lock, with the S21 thread free to run *)
(* in between.  A command is a sequence of parts, each read, then applied; *)
(* the CHIP stack lock keeps other commands out until the last one is.     *)
(***************************************************************************)
EXTENDS Reconciler, Sequences

CONSTANTS
    OnOffCommands,           \* which of "on", "off", "toggle" arrive
    RaiseLowerModes,         \* which of "heat", "cool", "both" arrive
    Amounts,                 \* amounts of SetpointRaiseLower, in 0.1 degrees
    HeatLimits, CoolLimits,  \* configured setpoint limits, <<lo, hi>>
    MaxCommands              \* bound on the commands of a behaviour

ASSUME RouterAssumption ==
    /\ OnOffCommands \subseteq {"on", "off", "toggle"}
    /\ RaiseLowerModes \subseteq {"heat", "cool", "both"}
    /\ Amounts \subseteq -128..127
    /\ HeatLimits \in Int \X Int /\ HeatLimits[1] <= HeatLimits[2]
    /\ CoolLimits \in Int \X Int /\ CoolLimits[1] <= CoolLimits[2]
    /\ MaxCommands \in Nat

VARIABLES
    parts,     \* parts of the command still to be done: <<part, amount>>
    target,    \* the part just read and the intent made of it, or Null
    invoked    \* commands so far

commandVars == <<parts, target, invoked>>
routerVars  == <<reconcilerVars, commandVars>>

RouterInit == ReconcilerInit /\ parts = <<>> /\ target = Null /\ invoked = 0

commandDone == parts = <<>> /\ target = Null

InvokeCommand ==
    /\ commandDone
    /\ invoked < MaxCommands /\ invoked' = invoked + 1
    /\ \/ \E c \in OnOffCommands : parts' = <<<<c, 0>>>>
       \/ \E m \in RaiseLowerModes, n \in Amounts :
             parts' = IF m = "both" THEN <<<<"heat", n>>, <<"cool", n>>>> ELSE <<<<m, n>>>>
    /\ UNCHANGED <<reconcilerVars, target>>

applySetpointDelta(current, amount, limits) ==
    LET desired == current + amount * 10
    IN  CASE desired < limits[1] -> limits[1]
          [] desired > limits[2] -> limits[2]
          [] OTHER               -> desired

intentOf(part, amount) ==
    CASE part = "on"     -> TRUE
      [] part = "off"    -> FALSE
      [] part = "toggle" -> ~projectedOnOff
      [] part = "heat"   ->
            applySetpointDelta(projectedOccupiedHeatingSetpoint, amount, HeatLimits)
      [] part = "cool"   ->
            applySetpointDelta(projectedOccupiedCoolingSetpoint, amount, CoolLimits)

ReadPart ==
    /\ target = Null /\ parts # <<>>
    /\ LET part == Head(parts)
       IN  target' = [part |-> part[1], amount |-> part[2],
                      value |-> intentOf(part[1], part[2])]
    /\ parts' = Tail(parts)
    /\ UNCHANGED <<reconcilerVars, invoked>>

ApplyPart ==
    /\ target # Null
    /\ CASE target.part = "heat" -> SetOccupiedHeatingSetpoint(target.value)
         [] target.part = "cool" -> SetOccupiedCoolingSetpoint(target.value)
         [] OTHER                -> SetOnOff(target.value)
    /\ target' = Null
    /\ UNCHANGED <<parts, invoked>>

\* What the S21 thread calls, at any time, except that polls are further apart
\* (kS21PollIntervalSec) than the guard window is long.
Observe ==
    \/ \E o \in OpReadings : guardLeft["onOff"] = 0 /\ ApplyOperationalObservation(o)
    \/ \E e \in EnvReadings : ApplyEnvironmentalObservation(e)

CommandOutcome ==
    \/ pendingCommand # Null /\ OnCommandSent(pendingCommand)
    \/ pendingCommand # Null /\ OnCommandFailed
    \/ NotifyLinkDown

\* A command is answered well within the guard window.
ClockTick == commandDone /\ Elapse
-----------------------------------------------------------------------------
(* Properties.                                                             *)

moved(amount, t, u) == \/ u.desired = t.observed
                       \/ amount >= 0 /\ u.desired >= t.desired
                       \/ amount <= 0 /\ u.desired <= t.desired

clamped(part) ==
    LET current == IF part = "heat" THEN projectedOccupiedHeatingSetpoint
                                    ELSE projectedOccupiedCoolingSetpoint
    IN  current # applySetpointDelta(current, 0, IF part = "heat" THEN HeatLimits
                                                                  ELSE CoolLimits)

\* The mode and the running setpoint are not waiting for the unit.
nothingOutstanding == /\ mode.desired = mode.observed
                      /\ ~hasInFlight(mode)
                      /\ ~hasInFlight(activeSetpoint(mode.observed))

raiseNeverLowersStep ==
    /\ target # Null /\ target' = Null
    /\ target.part \in {"heat", "cool"} /\ ~clamped(target.part)
    /\ nothingOutstanding
    => /\ mode.observed = "Heat" => moved(target.amount, heatSetpoint, heatSetpoint')
       /\ mode.observed = "Cool" => moved(target.amount, coolSetpoint, coolSetpoint')
       /\ mode.observed = "Auto" => moved(target.amount, autoSetpoint, autoSetpoint')

\* A raise never lowers the setpoint the unit runs on, and a lowering never
\* raises it, except to the value the unit itself reports, although the
\* setpoint, or the mode that says which one it is, may have changed between
\* the read and the write: the guard window that the observation opens refuses
\* the stale result.  Exempt are a setpoint already
\* outside the configured limits, which the clamp brings back, the shadow of an
\* inactive mode, and a value still waiting for the unit, since the read then
\* returns the old one (HandleSetpointRaiseLower, intentPassesGuard).
RaiseNeverLowers == [][raiseNeverLowersStep]_routerVars
=============================================================================
