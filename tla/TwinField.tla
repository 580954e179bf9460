------------------------------ MODULE TwinField ------------------------------
(***************************************************************************)
(* The single-value algebra of sync/twin_field.h.  A twin holds what the   *)
(* device last reported (observed), what the controller wants (desired),   *)
(* the value handed to the device and not yet echoed back (inFlight, Null  *)
(* when there is none) and who owns the current value (attribution).       *)
(*                                                                         *)
(* lastObservedSource() is left out: only the debug shell prints it.       *)
(***************************************************************************)
EXTENDS Integers

CONSTANT Null   \* std::nullopt

ObservationSources == {"Boot", "Device", "Matter"}

TwinFields(T) == [observed    : T,
                  desired     : T,
                  inFlight    : T \cup {Null},
                  attribution : ObservationSources]

NewTwin(initial) == [observed    |-> initial,
                     desired     |-> initial,
                     inFlight    |-> Null,
                     attribution |-> "Boot"]

hasInFlight(t) == t.inFlight # Null

\* Unsent controller intent: desired differs from what the device should
\* currently believe.
dirty(t) == IF hasInFlight(t) THEN t.desired # t.inFlight
                              ELSE t.desired # t.observed

setDesired(t, v) ==
    IF t.desired = v THEN t
                     ELSE [t EXCEPT !.desired = v, !.attribution = "Matter"]

\* Mutant: a value already in flight is not replaced.
promoteFirstToInFlight(t) == IF hasInFlight(t) THEN t ELSE [t EXCEPT !.inFlight = t.desired]

promoteDesiredToInFlight(t) == [t EXCEPT !.inFlight = t.desired]

\* Mutant: an answer other than the in-flight value is taken for a stale poll.
applyObservationDeaf(t, v, source) ==
    CASE hasInFlight(t) /\ v = t.inFlight -> [t EXCEPT !.inFlight = Null, !.observed = v]
      [] hasInFlight(t) /\ v # t.inFlight -> t
      [] OTHER -> [t EXCEPT !.observed = v, !.attribution = source,
                            !.desired = IF v = t.observed THEN @ ELSE v]

applyObservation(t, v, source) ==
    CASE hasInFlight(t) /\ v = t.inFlight ->                  \* 1: confirmation
            [t EXCEPT !.inFlight = Null, !.observed = v]
      [] hasInFlight(t) /\ v # t.inFlight /\ v = t.observed -> \* 2: stale poll
            t
      [] hasInFlight(t) /\ v # t.inFlight /\ v # t.observed -> \* 3: disconfirmation
            [t EXCEPT !.inFlight = Null, !.observed = v,
                      !.attribution = source]
      [] ~hasInFlight(t) /\ v = t.observed ->                  \* 4: idempotent
            [t EXCEPT !.attribution = source]
      [] ~hasInFlight(t) /\ v # t.observed ->                  \* 5: external change
            [t EXCEPT !.observed = v, !.desired = v, !.attribution = source]
=============================================================================
