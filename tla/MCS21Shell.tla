----------------------------- MODULE MCS21Shell -----------------------------
(* The S21 stack on a small instance.  Two bounds: what the unit may send, and *)
(* how often in a behaviour a transaction may start while the hardware is      *)
(* still busy with an earlier one.                                             *)
EXTENDS S21Shell, SequencesExt

CONSTANTS UnitSends, MaxLateStarts

VARIABLE lateLeft    \* starts over busy hardware that may still happen

MCInit == StackInit /\ lateLeft = MaxLateStarts

\* startTransaction finds a receiver that has not stopped yet, or the request
\* of a transaction that a stale ENDRX ended.
lateStart ==
    /\ startPc = "called" /\ startPc' = "irqOff"
    /\ rx # "off" \/ tx # "idle"

bounds ==
    /\ rxBuf' \in UNION {Prefixes(message): message \in UnitSends}
    /\ \/ ~lateStart /\ UNCHANGED lateLeft
       \/ lateStart /\ lateLeft > 0 /\ lateLeft' = lateLeft - 1

MCNext == StackNext /\ bounds

MCSpec == MCInit /\ [][MCNext]_<<stackVars, lateLeft>> /\ StackFairness

\* A frame, one behind an ACK, which overruns a buffer of two bytes, and a NAK.
MCUnitSends == {<<"ACK", "body", "ETX">>, <<"body", "ETX">>, <<"NAK">>}
=============================================================================
