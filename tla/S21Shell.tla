------------------------------ MODULE S21Shell ------------------------------
(***************************************************************************)
(* The debug shell (s21_shell.cpp) beside the bridge's own S21 traffic.    *)
(* Its handlers call the asynchronous presentation directly, not through   *)
(* the adapter's mutex; the answer is printed by a callback that reads one *)
(* module-level pointer, s_shell.  A command whose arguments do not parse  *)
(* is refused before it changes anything, and what is printed is no state  *)
(* of the program, so neither is modelled.                                 *)
(***************************************************************************)
EXTENDS S21PresentationSyncAdapter

CONSTANT Shells     \* shell instances (serial, RTT, ...)

ASSUME ShellsAssumption == Null \notin Shells

VARIABLE s_shell    \* the instance that started a command last, or Null

stackVars == <<allVars, s_shell>>

StackInit == AdapterInit /\ s_shell = Null

\* Every handler: store the instance, then start the operation.  A busy link
\* calls the callback at once, on the shell's own thread.
dispatch(sh, o) ==
    /\ threadsRun
    /\ s_shell' = sh
    /\ IF m_opType = None
       THEN Call(o) /\ m_cb' = "shell"
       ELSE CallBusy /\ UNCHANGED m_cb
    /\ UNCHANGED <<mMutex, mSem, result, callerPc>>

\* The setpoint is parsed as 10..32 degrees, so the range check passes.
CmdS21SetOperation(sh) == dispatch(sh, "Send")

CmdS21Get(sh) == dispatch(sh, "Transact")

BlockingCall(c) == Lock(c) \/ Invoke(c) \/ Return(c)

StackNext ==
    \/ \E c \in Callers: BlockingCall(c) /\ UNCHANGED s_shell
    \/ \E sh \in Shells: CmdS21SetOperation(sh) \/ CmdS21Get(sh)
    \/ Complete /\ UNCHANGED s_shell
    \/ Starting /\ UNCHANGED s_shell
    \/ Interrupt /\ UNCHANGED s_shell
    \/ HardwareStep /\ UNCHANGED s_shell

\* The link's fairness and that of the calling threads; nothing is assumed of
\* whoever types at the shell.  The shell's thread has the lowest priority, so
\* its commands cannot keep a caller that is ready to run from running.
StackFairness ==
    /\ \A c \in Callers: SF_stackVars(Invoke(c) /\ UNCHANGED s_shell)
    /\ \A c \in Callers: SF_stackVars(Return(c) /\ UNCHANGED s_shell)
    /\ WF_stackVars(Starting /\ UNCHANGED s_shell)
    /\ WF_stackVars(Complete /\ UNCHANGED s_shell)
    /\ WF_stackVars(Interrupt /\ UNCHANGED s_shell)
    /\ WF_stackVars(TxDone /\ UNCHANGED <<adapterVars, s_shell>>)
    /\ WF_stackVars(Watchdog /\ UNCHANGED <<adapterVars, s_shell>>)
    /\ WF_stackVars(RxStopped /\ UNCHANGED <<adapterVars, s_shell>>)

StackSpec == StackInit /\ [][StackNext]_stackVars /\ StackFairness
-----------------------------------------------------------------------------
(* Properties.                                                             *)

\* A callback fires only while what it writes to is there: the local of a
\* caller that is still in its call (syncCall), or a shell instance
\* (s21_shell.cpp).
CallbackFindsCaller ==
    m_opType # None =>
        IF m_cb = "syncCall"
        THEN mMutex # Null /\ callerPc[mMutex] = "waiting"
        ELSE s_shell \in Shells

\* A call through the adapter meets a busy link only while a shell command is
\* on the wire: the adapter's own calls never collide (syncCall).
BusyOnlyBesideShell ==
    [][result' = "busy" /\ result # "busy" => m_cb = "shell"]_stackVars
=============================================================================
