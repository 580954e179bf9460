------------------------------ MODULE MCStartup ------------------------------
(* Start-up, then power commands, readings and their notification.  Two bounds: *)
(* how often the S21 thread changes the reconciler's state, and when the button *)
(* or the RSSI timer post: only while a thread is about to post a drain, since  *)
(* at other times it makes no difference.                                       *)
EXTENDS Startup

CONSTANT MaxS21Changes

VARIABLE s21Changes    \* so far

MCInit == StartupInit /\ s21Changes = 0

s21Changed == /\ UNCHANGED commandVars
              /\ <<stateVars, mLastSentCommand>>' # <<stateVars, mLastSentCommand>>

otherPosted == Len(tasks') > Len(tasks) /\ tasks'[Len(tasks')] = "other"

bounds ==
    /\ \/ ~s21Changed /\ UNCHANGED s21Changes
       \/ s21Changed /\ s21Changes < MaxS21Changes /\ s21Changes' = s21Changes + 1
    /\ otherPosted => \E t \in Threads : notifyPc[t] = "post"

MCNext == StartupNext /\ bounds

MCSpec == MCInit /\ [][MCNext]_<<startupVars, s21Changes>>

op(on, f) == [onOff |-> on, operatingMode |-> "1", setpoint |-> 2200,
              fanMode |-> f, valveOpen |-> Null]

\* Running with its fan on Auto; turned off at the panel and at another fan speed.
PowerReadings == {op(TRUE, "A"), op(FALSE, "3")}
\* The room at two temperatures.
RoomReadings  == {[indoor |-> 2100, outdoor |-> 500, humidity |-> 40],
                  [indoor |-> 2150, outdoor |-> 500, humidity |-> 40]}
NoReadings    == {}
Window        == <<1000, 3200>>
=============================================================================
