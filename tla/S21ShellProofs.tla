--------------------------- MODULE S21ShellProofs ---------------------------
(***************************************************************************)
(* Safety of the whole S21 stack, blocking adapter and debug shell over    *)
(* the UART link, for every set of callers and shells and every buffer     *)
(* size.  Every step of the stack is a step of the link or leaves the link *)
(* alone, so what is proved of the link carries over; CallInv adds who     *)
(* holds the mutex, the permit and the callback.                           *)
(***************************************************************************)
EXTENDS S21Shell, S21DataLinkUartProofs

AdapterTypeOK ==
    /\ mMutex \in Callers \cup {Null}
    /\ mSem \in {0, 1}
    /\ callerPc \in [Callers -> {"out", "locked", "waiting"}]
    /\ s_shell \in Shells \cup {Null}

\* Only the holder of the mutex is inside syncCall.
HolderInside == \A c \in Callers: callerPc[c] # "out" <=> mMutex = c

\* An outstanding operation has a callback whose target is there, and the
\* caller it belongs to has not been woken yet.
CallbackOwner ==
    m_opType # None =>
        \/ /\ m_cb = "syncCall" /\ mSem = 0
           /\ mMutex # Null /\ callerPc[mMutex] = "waiting"
        \/ m_cb = "shell" /\ s_shell \in Shells

\* A permit belongs to the caller that waits for it, and its answer is stored.
PermitOwner ==
    mSem = 1 => result # Null /\ mMutex # Null /\ callerPc[mMutex] = "waiting"

CallInv == AdapterTypeOK /\ HolderInside /\ CallbackOwner /\ PermitOwner
StackInv == LinkInv /\ CallInv
-----------------------------------------------------------------------------
\* Whatever the callers and the shells do, the link takes one of its own
\* steps or none.
LEMMA StackStepIsLinkStep == [StackNext]_stackVars => [Next]_vars
<1> SUFFICES ASSUME [StackNext]_stackVars PROVE [Next]_vars
  OBVIOUS
<1>1. ASSUME NEW c \in Callers, BlockingCall(c) PROVE [Next]_vars
  BY <1>1 DEF BlockingCall, Lock, Invoke, Return, Next, CallBusy
<1>2. ASSUME NEW sh \in Shells, NEW o \in {"Send", "Transact"}, dispatch(sh, o)
      PROVE  [Next]_vars
  BY <1>2 DEF dispatch, Next
<1>3. CASE Complete
  BY <1>3 DEF Complete, Next
<1>4. CASE Starting \/ Interrupt \/ HardwareStep
  BY <1>4 DEF Starting, Interrupt, HardwareStep, Next
<1>5. CASE UNCHANGED stackVars
  BY <1>5 DEF stackVars, allVars
<1> QED
  BY <1>1, <1>2, <1>3, <1>4, <1>5 DEF StackNext, CmdS21SetOperation, CmdS21Get

\* The completion of an operation always has an answer.
LEMMA CompletionAnswers ==
    ASSUME LinkInv, completionWorkHandler
    PROVE  m_opType # None /\ m_opType' = None /\ answer' \in Answers
<1>1. dequeued \in RxResult
  BY DEF LinkInv, LinkTypeOK, dequeued, RxResult
<1>2. m_opType # None /\ m_opType \in OpType
  BY DEF LinkInv, LinkTypeOK, TransactionPlace, completionWorkHandler
<1>3. answer' = callbackArgument(m_opType, dequeued)
  BY <1>2 DEF completionWorkHandler
<1> QED BY <1>1, <1>2, <1>3, CallbackArgumentType DEF completionWorkHandler

\* Only Call and the completion handler change the outstanding operation.
LEMMA OperationKept ==
    ASSUME Starting \/ Interrupt \/ HardwareStep
    PROVE  UNCHANGED <<m_opType, adapterVars>>
BY DEF Starting, Interrupt, HardwareStep, StartClear, StartFire, Isr, IsrFrameTimeout,
       IsrEndRx, IsrError, IsrEndTx, Hardware, TxDone, RxByte, RxFrameTimeout,
       Watchdog, RxStopped, softVars

\* The adapter's invariant is inductive, given the link's.
LEMMA CallInvStep ==
    ASSUME LinkInv, CallInv, [StackNext]_stackVars
    PROVE  CallInv'
<1> USE DEF CallInv
<1>1. ASSUME NEW c \in Callers, Lock(c), UNCHANGED s_shell PROVE CallInv'
  BY <1>1, CallersAssumption DEF AdapterTypeOK, HolderInside, CallbackOwner,
        PermitOwner, Lock, vars, softVars
<1>2. ASSUME NEW c \in Callers, Invoke(c), UNCHANGED s_shell PROVE CallInv'
  <2>1. mMutex = c /\ mSem = 0
    BY <1>2 DEF AdapterTypeOK, HolderInside, PermitOwner, Invoke
  <2>2. ASSUME NEW o \in {"Send", "Transact"}, Call(o), m_cb' = "syncCall",
               UNCHANGED <<mSem, result>>
        PROVE  CallInv'
    BY <1>2, <2>1, <2>2, ResultAssumption, CallersAssumption
       DEF AdapterTypeOK, HolderInside, CallbackOwner, PermitOwner, Invoke
  <2>3. ASSUME m_opType # None, UNCHANGED m_opType, UNCHANGED m_cb, give("busy")
        PROVE  CallInv'
    BY <1>2, <2>1, <2>3, ResultAssumption, CallersAssumption
       DEF AdapterTypeOK, HolderInside, CallbackOwner, PermitOwner, Invoke, give
  <2>4. ASSUME UNCHANGED m_opType, UNCHANGED m_cb, give("out of range")
        PROVE  CallInv'
    BY <1>2, <2>1, <2>4, ResultAssumption, CallersAssumption
       DEF AdapterTypeOK, HolderInside, CallbackOwner, PermitOwner, Invoke, give
  <2> QED BY <1>2, <2>2, <2>3, <2>4 DEF Invoke, CallBusy, vars, softVars
<1>3. ASSUME NEW c \in Callers, Return(c), UNCHANGED s_shell PROVE CallInv'
  <2>1. mMutex = c /\ mSem = 1 /\ m_opType' = m_opType /\ m_cb' = m_cb
    BY <1>3 DEF HolderInside, AdapterTypeOK, Return, semTaken, vars, softVars
  <2>2. m_opType # None => m_cb = "shell" /\ s_shell \in Shells
    BY <2>1 DEF CallbackOwner
  <2>3. AdapterTypeOK'
    BY <1>3 DEF AdapterTypeOK, Return, semTaken
  <2>4. HolderInside'
    BY <1>3, <2>1, CallersAssumption DEF AdapterTypeOK, HolderInside, Return
  <2>5. CallbackOwner'
    BY <1>3, <2>1, <2>2 DEF CallbackOwner
  <2>6. PermitOwner'
    BY <1>3 DEF PermitOwner, Return, semTaken
  <2> QED BY <2>3, <2>4, <2>5, <2>6
<1>4. ASSUME NEW sh \in Shells, NEW o \in {"Send", "Transact"}, dispatch(sh, o)
      PROVE  CallInv'
  BY <1>4 DEF AdapterTypeOK, HolderInside, CallbackOwner, PermitOwner, dispatch,
        CallBusy, Call, vars, softVars
<1>5. CASE Complete /\ UNCHANGED s_shell
  <2>1. m_opType' = None /\ answer' # Null
    BY <1>5, CompletionAnswers, LinkNullAssumption DEF Complete, Answers
  <2> QED BY <1>5, <2>1, CompletionAnswers DEF AdapterTypeOK, HolderInside,
        CallbackOwner, PermitOwner, Complete, callback, give
<1>6. CASE (Starting \/ Interrupt \/ HardwareStep) /\ UNCHANGED s_shell
  BY <1>6, OperationKept DEF AdapterTypeOK, HolderInside, CallbackOwner, PermitOwner,
        adapterVars
<1>7. CASE UNCHANGED stackVars
  BY <1>7 DEF AdapterTypeOK, HolderInside, CallbackOwner, PermitOwner, stackVars,
        allVars, adapterVars, vars, softVars
<1> QED
  BY <1>1, <1>2, <1>3, <1>4, <1>5, <1>6, <1>7
     DEF StackNext, BlockingCall, CmdS21SetOperation, CmdS21Get

\* The invariants of the link and of the adapter hold together in every
\* reachable state of the stack.
LEMMA StackInvariant == StackSpec => []StackInv
<1>1. StackInit => StackInv
  <2> SUFFICES ASSUME StackInit PROVE StackInv
    OBVIOUS
  <2>1. LinkInv
    BY LinkInitially DEF StackInit, AdapterInit
  <2>2. CallInv
    BY CallersAssumption DEF StackInit, AdapterInit, Init, CallInv, AdapterTypeOK,
       HolderInside, CallbackOwner, PermitOwner
  <2> QED BY <2>1, <2>2 DEF StackInv
<1>2. StackInv /\ [StackNext]_stackVars => StackInv'
  BY StackStepIsLinkStep, LinkInvStep, CallInvStep DEF StackInv
<1> QED BY <1>1, <1>2, PTL DEF StackSpec
-----------------------------------------------------------------------------
\* The link's guarantees do not depend on who calls it: with any number of
\* threads behind the adapter's mutex and shells beside it, types hold, the
\* completion handler finds its result, the queue of one suffices and channel
\* A turns only requests around.
THEOREM StackKeepsLink ==
    StackSpec => [](/\ LinkTypeOK /\ CompletionFindsResult
                    /\ OneResultPerTransaction /\ TurnaroundOnlyForRequests)
<1>1. StackInv => /\ LinkTypeOK /\ CompletionFindsResult
                  /\ OneResultPerTransaction /\ TurnaroundOnlyForRequests
  BY DEF StackInv, LinkInv, TransactionPlace, ChannelA, CompletionFindsResult,
         OneResultPerTransaction, TurnaroundOnlyForRequests
<1> QED BY StackInvariant, <1>1, PTL

\* The completion never calls back into a caller that has left syncCall, nor
\* into a shell that is not there: the captured local is alive (syncCall).
THEOREM CallbackCorrect == StackSpec => []CallbackFindsCaller
<1>1. StackInv => CallbackFindsCaller
  BY DEF StackInv, CallInv, CallbackOwner, CallbackFindsCaller
<1> QED BY StackInvariant, <1>1, PTL

\* A permit of the semaphore is never left over for the next caller, and the
\* optional it announces holds an answer (syncCall's assertion).
THEOREM PermitCorrect == StackSpec => []PermitHasAnswer
<1>1. StackInv => PermitHasAnswer
  BY DEF StackInv, CallInv, CallbackOwner, PermitOwner, PermitHasAnswer
<1> QED BY StackInvariant, <1>1, PTL

\* The mutex keeps the adapter's calls from colliding: "busy" reaches a
\* blocking call only while a shell command is on the wire.
THEOREM BusyCorrect == StackSpec => BusyOnlyBesideShell
<1>1. ASSUME StackInv, [StackNext]_stackVars, result' = "busy", result # "busy"
      PROVE  m_cb = "shell"
  <2> USE <1>1, ResultAssumption
  <2>1. ASSUME NEW c \in Callers, Invoke(c) PROVE m_cb = "shell"
    <3>1. m_opType # None
      BY <2>1 DEF Invoke, give
    <3>2. mMutex = c
      BY <2>1 DEF StackInv, CallInv, AdapterTypeOK, HolderInside, Invoke
    <3> QED BY <2>1, <3>1, <3>2 DEF StackInv, CallInv, CallbackOwner, Invoke
  <2>2. ASSUME NEW c \in Callers PROVE ~Lock(c) /\ ~Return(c)
    BY DEF Lock, Return
  <2>3. ASSUME NEW sh \in Shells, NEW o \in {"Send", "Transact"} PROVE ~dispatch(sh, o)
    BY DEF dispatch
  <2>4. ~Complete
    <3> SUFFICES ASSUME Complete PROVE FALSE
      OBVIOUS
    <3>1. answer' \in Answers
      BY CompletionAnswers DEF Complete, StackInv
    <3> QED BY <3>1 DEF Complete, callback, give, Answers
  <2>5. ~(Starting \/ Interrupt \/ HardwareStep) /\ ~UNCHANGED stackVars
    BY OperationKept DEF adapterVars, stackVars, allVars
  <2> QED
    BY <2>1, <2>2, <2>3, <2>4, <2>5
       DEF StackNext, BlockingCall, CmdS21SetOperation, CmdS21Get
<1>2. StackInv /\ [StackNext]_stackVars
        => [result' = "busy" /\ result # "busy" => m_cb = "shell"]_stackVars
  BY <1>1
<1> QED BY StackInvariant, <1>2, PTL DEF StackSpec, BusyOnlyBesideShell

\* The stack's traffic on the wire is that of the abstract data link: neither a
\* blocking call nor a shell command is answered twice, or with a success that
\* no reception bears out.
THEOREM StackImplementsDataLink == StackSpec => ImplementsDataLink
<1>1. StackInit => Init /\ Link!LinkInit
  BY DEF StackInit, AdapterInit, Init, Link!LinkInit
<1>2. LinkInv /\ [StackNext]_stackVars => LinkInv' /\ [Link!LinkNext]_(Link!linkVars)
  BY StackStepIsLinkStep, LinkInvStep, LinkStepSimulated
<1> QED
  BY <1>1, <1>2, LinkInitially, PTL DEF StackSpec, ImplementsDataLink, Link!LinkSafety
=============================================================================
