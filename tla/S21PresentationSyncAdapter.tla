--------------------- MODULE S21PresentationSyncAdapter ---------------------
(***************************************************************************)
(* Blocking S21 calls over the asynchronous data link                      *)
(* (s21_presentation_sync_adapter.cpp): a mutex serialises the callers, a  *)
(* semaphore carries the completion back.  The callback writes to a local  *)
(* of the calling function, captured by reference; under the mutex at most *)
(* one such local exists, so one variable, result, stands for it.  Others  *)
(* may use the link without the adapter (S21Shell), so the link remembers  *)
(* whose callback it holds.                                                *)
(***************************************************************************)
EXTENDS S21DataLinkUart

CONSTANT Callers   \* threads that use the adapter: at start-up the CHIP thread,
                   \* then the S21 work queue

ASSUME CallersAssumption == Null \notin Callers
ASSUME ResultAssumption  == Null \notin {"busy", "out of range"}

VARIABLES mMutex,    \* the caller that holds the mutex, or Null
          mSem,      \* count of the semaphore, at most 1
          result,    \* the local the callback fills; Null: empty
          m_cb,      \* whose callback the link holds, or Null
          callerPc   \* where each caller is in syncCall

adapterVars == <<mMutex, mSem, result, m_cb, callerPc>>
allVars     == <<vars, adapterVars>>

AdapterInit ==
    /\ Init
    /\ mMutex = Null /\ mSem = 0 /\ result = Null /\ m_cb = Null
    /\ callerPc = [c \in Callers |-> "out"]

\* The callback: the answer is stored, the semaphore given.
give(r) == result' = r /\ mSem' = 1

\* Mutant: the mutex is not waited for.
LockUnserialised(c) ==
    /\ threadsRun
    /\ callerPc[c] = "out"
    /\ mMutex' = c /\ result' = Null
    /\ callerPc' = [callerPc EXCEPT ![c] = "locked"]
    /\ UNCHANGED <<vars, mSem, m_cb>>

Lock(c) ==
    /\ threadsRun
    /\ callerPc[c] = "out" /\ mMutex = Null
    /\ mMutex' = c /\ result' = Null
    /\ callerPc' = [callerPc EXCEPT ![c] = "locked"]
    /\ UNCHANGED <<vars, mSem, m_cb>>

\* fn(callback): the call of the presentation reaches the link, is refused by
\* it as busy, or fails its range check before it (setOperation).
Invoke(c) ==
    /\ callerPc[c] = "locked"
    /\ callerPc' = [callerPc EXCEPT ![c] = "waiting"]
    /\ UNCHANGED mMutex
    /\ \/ IF m_opType = None
          THEN /\ \E o \in {"Send", "Transact"}: Call(o)
               /\ m_cb' = "syncCall"
               /\ UNCHANGED <<mSem, result>>
          ELSE CallBusy /\ give("busy") /\ UNCHANGED m_cb
       \/ threadsRun /\ give("out of range") /\ UNCHANGED <<vars, m_cb>>

\* Mutant: whatever ends wakes the caller.
callbackAnyOwner == IF m_opType # None THEN give(answer') ELSE UNCHANGED <<mSem, result>>

\* The callback of a blocked call.
callback == IF m_opType # None /\ m_cb = "syncCall" THEN give(answer')
            ELSE UNCHANGED <<mSem, result>>

\* The completion handler calls the callback of the operation it ends.
Complete ==
    /\ completionWorkHandler
    /\ callback /\ m_cb' = Null
    /\ UNCHANGED <<mMutex, callerPc>>

\* Mutant: the wait for the semaphore gives up after a while.
semTakenOrTimeout == mSem' = 0

semTaken == mSem = 1 /\ mSem' = 0

\* k_sem_take, unlock, return.
Return(c) ==
    /\ threadsRun /\ startPc = "out"
    /\ callerPc[c] = "waiting"
    /\ semTaken
    /\ mMutex' = Null /\ result' = Null
    /\ callerPc' = [callerPc EXCEPT ![c] = "out"]
    /\ UNCHANGED <<vars, m_cb>>

Starting == (StartClear \/ StartFire) /\ UNCHANGED adapterVars

Interrupt == Isr /\ UNCHANGED adapterVars

HardwareStep == Hardware /\ UNCHANGED adapterVars

-----------------------------------------------------------------------------
\* The semaphore is given only for a call that is in progress and has its
\* answer: no permit is left over for the next caller, no answer to somebody
\* else's operation ends the wait, and the assertion that the result has a
\* value holds (syncCall).
PermitHasAnswer ==
    mSem = 1 => /\ result # Null
                /\ mMutex # Null /\ callerPc[mMutex] = "waiting"
                /\ ~(m_opType # None /\ m_cb = "syncCall")

\* Every call returns, although the semaphore is waited for without a timeout.
EveryCallReturns ==
    \A c \in Callers: callerPc[c] = "locked" ~> callerPc[c] = "out"
=============================================================================
