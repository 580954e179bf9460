----------------------- MODULE S21DataLinkUartProofs -----------------------
(***************************************************************************)
(* Safety of the UART data link for every buffer size, whenever a STOPRX   *)
(* takes effect: types, one result and one completion per transaction, the *)
(* turnaround channel, and the promises of the abstract data link.         *)
(***************************************************************************)
EXTENDS S21DataLinkUart, TLAPS

\* A transaction is in exactly one place: being started, waited for by the
\* interrupt handler, or waiting for the completion handler.
TransactionPlace ==
    /\ workPending => /\ m_isrState = "Idle" /\ m_rxMsgq # Null
                      /\ m_opType # None /\ startPc = "out"
    /\ m_rxMsgq # Null => workPending \/ m_isrState = "SendingAck"
    /\ m_isrState = "SendingAck" => m_rxMsgq # Null
    /\ m_isrState # "Idle" => m_opType # None /\ startPc # "called" /\ ~workPending
    /\ startPc # "out" => m_opType # None
    /\ startPc = "irqOff" => m_isrState = "WaitingRx" /\ isrPc = "out"

\* Channel A is off exactly while the handler waits for the end of an ACK.
ChannelA ==
    /\ chA <=> m_isrState # "SendingAck"
    /\ tx = "ack" => m_isrState = "SendingAck" /\ "ENDTX" \notin events

\* A running receiver has room for the next byte.
BufferRoom == rx = "on" => Len(rxBuf) < BufSize

LinkInv == LinkTypeOK /\ BufferRoom /\ TransactionPlace /\ ChannelA
-----------------------------------------------------------------------------
\* The callback argument is always one of the answers.
LEMMA CallbackArgumentType ==
    ASSUME NEW o \in OpType, NEW r \in RxResult
    PROVE  callbackArgument(o, r) \in Answers
BY DEF callbackArgument, rxResultError, RxResult, Answers, OpType

\* The types are inductive.
LEMMA LinkTypeStep == LinkTypeOK /\ BufferRoom /\ [Next]_vars => LinkTypeOK'
<1> SUFFICES ASSUME LinkTypeOK, BufferRoom, [Next]_vars PROVE LinkTypeOK'
  OBVIOUS
<1> USE BufSizeAssumption
<1>1. ASSUME NEW o \in {"Send", "Transact"}, Call(o) PROVE LinkTypeOK'
  BY <1>1 DEF LinkTypeOK, Call, accept, matchFor, OpType, Bytes
<1>2. CASE CallBusy
  BY <1>2 DEF LinkTypeOK, CallBusy, vars, softVars, hwVars
<1>3. CASE StartClear
  <2>1. /\ events' \subseteq Events /\ m_isrState' \in IsrState
        /\ m_rxMsgq' \in RxResult \cup {Null}
        /\ nakMatch' \in BOOLEAN /\ compare0' \in BOOLEAN
        /\ startPc' \in {"out", "called", "irqOff"}
    BY <1>3 DEF StartClear, IsrState
  <2>2. UNCHANGED <<m_opType, workPending, answer, isrPc, endtxInt, chA, match,
                    tx, rx, rxBuf, timer>>
    BY <1>3 DEF StartClear
  <2> QED BY <2>1, <2>2 DEF LinkTypeOK
<1>4. CASE StartFire
  BY <1>4 DEF LinkTypeOK, StartFire
<1>5. CASE completionWorkHandler
  <2>1. dequeued \in RxResult
    BY DEF LinkTypeOK, dequeued, RxResult
  <2>2. answer' \in Answers \cup {Null}
    BY <1>5, <2>1, CallbackArgumentType DEF completionWorkHandler, LinkTypeOK
  <2>3. /\ m_opType' \in OpType /\ match' \subseteq Bytes
        /\ workPending' \in BOOLEAN /\ m_rxMsgq' \in RxResult \cup {Null}
    BY <1>5 DEF completionWorkHandler, OpType
  <2>4. UNCHANGED <<m_isrState, startPc, isrPc, events, nakMatch, endtxInt, chA,
                    tx, rx, rxBuf, timer, compare0>>
    BY <1>5 DEF completionWorkHandler
  <2> QED BY <2>2, <2>3, <2>4 DEF LinkTypeOK
<1>6. CASE IsrFrameTimeout
  BY <1>6 DEF LinkTypeOK, IsrFrameTimeout, IsrState
<1>7. CASE IsrEndRx
  <2>1. /\ [status |-> "Timeout", data |-> rxBuf] \in RxResult
        /\ [status |-> IF compare0 THEN "Timeout" ELSE "Ok", data |-> rxBuf] \in RxResult
    BY DEF LinkTypeOK, RxResult
  <2>2. m_rxMsgq' \in RxResult \cup {Null}
    BY <1>7, <2>1 DEF IsrEndRx, EndRxTimedOut, EndRxWaiting, EndRxIgnored, put, LinkTypeOK
  <2>3. workPending' \in BOOLEAN /\ chA' \in BOOLEAN /\ endtxInt' \in BOOLEAN
        /\ compare0' \in BOOLEAN
    BY <1>7 DEF IsrEndRx, EndRxTimedOut, EndRxWaiting, EndRxIgnored, finish, sendAck,
                LinkTypeOK
  <2>4. m_isrState' \in IsrState /\ events' \subseteq Events /\ isrPc' = "error"
        /\ tx' \in {"idle", "request", "ack"}
    BY <1>7 DEF IsrEndRx, EndRxTimedOut, EndRxWaiting, EndRxIgnored, finish, sendAck,
                LinkTypeOK, IsrState
  <2> QED BY <1>7, <2>2, <2>3, <2>4 DEF LinkTypeOK, IsrEndRx
<1>8. CASE IsrError
  <2>1. [status |-> "UartError", data |-> <<>>] \in RxResult
    BY DEF RxResult
  <2>2. m_rxMsgq' \in RxResult \cup {Null}
    BY <1>8, <2>1 DEF IsrError, put, LinkTypeOK
  <2>3. workPending' \in BOOLEAN
    BY <1>8 DEF IsrError, finish, LinkTypeOK
  <2>4. m_isrState' \in IsrState /\ events' \subseteq Events /\ isrPc' = "endtx"
        /\ rx' \in {"off", "on", "stopping"}
    BY <1>8 DEF IsrError, finish, stopRx, LinkTypeOK, IsrState
  <2> QED BY <1>8, <2>2, <2>3, <2>4 DEF LinkTypeOK, IsrError
<1>9. CASE IsrEndTx
  <2>1. endtxInt' \in BOOLEAN /\ chA' \in BOOLEAN /\ workPending' \in BOOLEAN
    BY <1>9 DEF LinkTypeOK, IsrEndTx, finish
  <2>2. m_isrState' \in IsrState /\ events' \subseteq Events /\ isrPc' = "out"
    BY <1>9 DEF IsrEndTx, finish, LinkTypeOK, IsrState
  <2> QED BY <1>9, <2>1, <2>2 DEF LinkTypeOK, IsrEndTx
<1>10. CASE TxDone
  <2>1. <<>> \in Seq(Bytes) /\ Len(<<>>) <= BufSize
    OBVIOUS
  <2>2. rxBuf' \in Seq(Bytes) /\ Len(rxBuf') <= BufSize
    BY <1>10, <2>1 DEF LinkTypeOK, TxDone
  <2> QED BY <1>10, <2>2 DEF LinkTypeOK, TxDone, softVars, Events
<1>11. ASSUME NEW b \in Bytes, NEW bad \in BOOLEAN, RxByte(b, bad) PROVE LinkTypeOK'
  <2>1. Len(rxBuf) < BufSize
    BY <1>11 DEF RxByte, BufferRoom
  <2> QED BY <1>11, <2>1 DEF LinkTypeOK, RxByte, bufferFull, softVars, Events
<1>12. CASE RxFrameTimeout
  BY <1>12 DEF LinkTypeOK, RxFrameTimeout, softVars, Events
<1>13. CASE Watchdog
  BY <1>13 DEF LinkTypeOK, Watchdog, stopRx, softVars
<1>14. CASE RxStopped
  BY <1>14 DEF LinkTypeOK, RxStopped, softVars, Events
<1>15. CASE UNCHANGED vars
  BY <1>15 DEF LinkTypeOK, vars, softVars, hwVars
<1> QED
  BY <1>1, <1>2, <1>3, <1>4, <1>5, <1>6, <1>7, <1>8, <1>9, <1>10, <1>11, <1>12,
     <1>13, <1>14, <1>15 DEF Next, Isr, Hardware

\* A receiver that stays on has room for another byte.
LEMMA BufferRoomStep ==
    ASSUME LinkTypeOK, BufferRoom, [Next]_vars
    PROVE  BufferRoom'
<1> USE BufSizeAssumption
<1>1. ASSUME NEW o \in {"Send", "Transact"}, Call(o) PROVE BufferRoom'
  BY <1>1 DEF BufferRoom, LinkTypeOK, Call, accept, matchFor
<1>2. CASE CallBusy
  BY <1>2 DEF BufferRoom, LinkTypeOK, CallBusy, vars, softVars, hwVars
<1>3. CASE StartClear
  BY <1>3 DEF BufferRoom, LinkTypeOK, StartClear,
              threadsRun
<1>4. CASE StartFire
  BY <1>4 DEF BufferRoom, LinkTypeOK, StartFire
<1>5. CASE completionWorkHandler
  BY <1>5 DEF BufferRoom, LinkTypeOK, completionWorkHandler
<1>6. CASE IsrFrameTimeout
  BY <1>6 DEF BufferRoom, LinkTypeOK, IsrFrameTimeout,
              interruptPending
<1>7. CASE IsrEndRx
  BY <1>7 DEF BufferRoom, LinkTypeOK, IsrEndRx,
              EndRxTimedOut, EndRxWaiting, EndRxIgnored, finish, put, sendAck
<1>8. CASE IsrError
  BY <1>8 DEF BufferRoom, LinkTypeOK, IsrError, finish, put, stopRx,
              errorEnds
<1>9. CASE IsrEndTx
  BY <1>9 DEF BufferRoom, LinkTypeOK, IsrEndTx, ackSent, finish
<1>10. CASE TxDone
  BY <1>10 DEF BufferRoom, LinkTypeOK, TxDone, softVars
<1>11. ASSUME NEW b \in Bytes, NEW bad \in BOOLEAN, RxByte(b, bad) PROVE BufferRoom'
  BY <1>11 DEF BufferRoom, LinkTypeOK, RxByte, bufferFull, softVars
<1>12. CASE RxFrameTimeout
  BY <1>12 DEF BufferRoom, LinkTypeOK, RxFrameTimeout, softVars
<1>13. CASE Watchdog
  BY <1>13 DEF BufferRoom, LinkTypeOK, Watchdog, stopRx, softVars
<1>14. CASE RxStopped
  BY <1>14 DEF BufferRoom, LinkTypeOK, RxStopped, softVars
<1>15. CASE UNCHANGED vars
  BY <1>15 DEF BufferRoom, LinkTypeOK, vars, softVars, hwVars
<1> QED
  BY <1>1, <1>2, <1>3, <1>4, <1>5, <1>6, <1>7, <1>8, <1>9, <1>10, <1>11, <1>12,
     <1>13, <1>14, <1>15 DEF Next, Isr, Hardware

\* No step loses a transaction or completes it twice.
LEMMA TransactionPlaceStep ==
    ASSUME LinkTypeOK, TransactionPlace, [Next]_vars
    PROVE  TransactionPlace'
<1>0. /\ None \notin {"Send", "Transact"}
      /\ [status |-> "Timeout", data |-> rxBuf] # Null
      /\ [status |-> IF compare0 THEN "Timeout" ELSE "Ok", data |-> rxBuf] # Null
      /\ [status |-> "UartError", data |-> <<>>] # Null
  <2>1. Null \notin RxResult
    BY LinkNullAssumption DEF RxResult, Bytes
  <2>2. rxBuf \in Seq(Bytes) /\ <<>> \in Seq(Bytes)
    BY DEF LinkTypeOK
  <2>3. /\ [status |-> "Timeout", data |-> rxBuf] \in RxResult
        /\ [status |-> IF compare0 THEN "Timeout" ELSE "Ok", data |-> rxBuf] \in RxResult
        /\ [status |-> "UartError", data |-> <<>>] \in RxResult
    BY <2>2 DEF RxResult
  <2> QED BY <2>1, <2>3, LinkNullAssumption
<1>1. ASSUME NEW o \in {"Send", "Transact"}, Call(o) PROVE TransactionPlace'
  BY <1>0, <1>1 DEF TransactionPlace, LinkTypeOK, OpType, IsrState, Call, accept,
      matchFor
<1>2. CASE CallBusy
  BY <1>2 DEF TransactionPlace, LinkTypeOK, OpType, IsrState, CallBusy, vars,
      softVars, hwVars
<1>3. CASE StartClear
  BY <1>3 DEF TransactionPlace, LinkTypeOK, OpType, IsrState, StartClear,
              threadsRun
<1>4. CASE StartFire
  BY <1>4 DEF TransactionPlace, LinkTypeOK, OpType, IsrState, StartFire
<1>5. CASE completionWorkHandler
  BY <1>5 DEF TransactionPlace, LinkTypeOK, OpType, IsrState, completionWorkHandler
<1>6. CASE IsrFrameTimeout
  BY <1>6 DEF TransactionPlace, LinkTypeOK, OpType, IsrState, IsrFrameTimeout,
              interruptPending
<1>7. CASE IsrEndRx
  BY <1>0, <1>7 DEF TransactionPlace, LinkTypeOK, OpType, IsrState, IsrEndRx,
              EndRxTimedOut, EndRxWaiting, EndRxIgnored, finish, put, sendAck
<1>8. CASE IsrError
  BY <1>0, <1>8 DEF TransactionPlace, LinkTypeOK, OpType, IsrState, IsrError, finish,
      put, stopRx,
      errorEnds
<1>9. CASE IsrEndTx
  BY <1>9 DEF TransactionPlace, LinkTypeOK, OpType, IsrState, IsrEndTx, ackSent, finish
<1>10. CASE TxDone
  BY <1>10 DEF TransactionPlace, LinkTypeOK, OpType, IsrState, TxDone, softVars
<1>11. ASSUME NEW b \in Bytes, NEW bad \in BOOLEAN, RxByte(b, bad) PROVE TransactionPlace'
  BY <1>11 DEF TransactionPlace, LinkTypeOK, OpType, IsrState, RxByte, bufferFull,
      softVars
<1>12. CASE RxFrameTimeout
  BY <1>12 DEF TransactionPlace, LinkTypeOK, OpType, IsrState, RxFrameTimeout, softVars
<1>13. CASE Watchdog
  BY <1>13 DEF TransactionPlace, LinkTypeOK, OpType, IsrState, Watchdog, stopRx,
      softVars
<1>14. CASE RxStopped
  BY <1>14 DEF TransactionPlace, LinkTypeOK, OpType, IsrState, RxStopped, softVars
<1>15. CASE UNCHANGED vars
  BY <1>15 DEF TransactionPlace, LinkTypeOK, OpType, IsrState, vars, softVars, hwVars
<1> QED
  BY <1>1, <1>2, <1>3, <1>4, <1>5, <1>6, <1>7, <1>8, <1>9, <1>10, <1>11, <1>12,
     <1>13, <1>14, <1>15 DEF Next, Isr, Hardware

\* Channel A follows the ACK.
LEMMA ChannelAStep ==
    ASSUME LinkTypeOK, TransactionPlace, ChannelA, [Next]_vars
    PROVE  ChannelA'
<1>1. ASSUME NEW o \in {"Send", "Transact"}, Call(o) PROVE ChannelA'
  BY <1>1 DEF ChannelA, TransactionPlace, LinkTypeOK, IsrState, Call, accept, matchFor
<1>2. CASE CallBusy
  BY <1>2 DEF ChannelA, TransactionPlace, LinkTypeOK, IsrState, CallBusy, vars,
      softVars, hwVars
<1>3. CASE StartClear
  BY <1>3 DEF ChannelA, TransactionPlace, LinkTypeOK, IsrState, StartClear,
              threadsRun
<1>4. CASE StartFire
  BY <1>4 DEF ChannelA, TransactionPlace, LinkTypeOK, IsrState, StartFire
<1>5. CASE completionWorkHandler
  BY <1>5 DEF ChannelA, TransactionPlace, LinkTypeOK, IsrState, completionWorkHandler
<1>6. CASE IsrFrameTimeout
  BY <1>6 DEF ChannelA, TransactionPlace, LinkTypeOK, IsrState, IsrFrameTimeout,
              interruptPending
<1>7. CASE IsrEndRx
  BY <1>7 DEF ChannelA, TransactionPlace, LinkTypeOK, IsrState, IsrEndRx,
              EndRxTimedOut, EndRxWaiting, EndRxIgnored, finish, put, sendAck
<1>8. CASE IsrError
  BY <1>8 DEF ChannelA, TransactionPlace, LinkTypeOK, IsrState, IsrError, finish,
      put, stopRx,
      errorEnds
<1>9. CASE IsrEndTx
  BY <1>9 DEF ChannelA, TransactionPlace, LinkTypeOK, IsrState, IsrEndTx, ackSent,
      finish
<1>10. CASE TxDone
  BY <1>10 DEF ChannelA, TransactionPlace, LinkTypeOK, IsrState, TxDone, softVars
<1>11. ASSUME NEW b \in Bytes, NEW bad \in BOOLEAN, RxByte(b, bad) PROVE ChannelA'
  BY <1>11 DEF ChannelA, TransactionPlace, LinkTypeOK, IsrState, RxByte, bufferFull,
      softVars
<1>12. CASE RxFrameTimeout
  BY <1>12 DEF ChannelA, TransactionPlace, LinkTypeOK, IsrState, RxFrameTimeout,
      softVars
<1>13. CASE Watchdog
  BY <1>13 DEF ChannelA, TransactionPlace, LinkTypeOK, IsrState, Watchdog, stopRx,
      softVars
<1>14. CASE RxStopped
  BY <1>14 DEF ChannelA, TransactionPlace, LinkTypeOK, IsrState, RxStopped, softVars
<1>15. CASE UNCHANGED vars
  BY <1>15 DEF ChannelA, TransactionPlace, LinkTypeOK, IsrState, vars, softVars, hwVars
<1> QED
  BY <1>1, <1>2, <1>3, <1>4, <1>5, <1>6, <1>7, <1>8, <1>9, <1>10, <1>11, <1>12,
     <1>13, <1>14, <1>15 DEF Next, Isr, Hardware
-----------------------------------------------------------------------------
\* The link starts in the invariant.
LEMMA LinkInitially == Init => LinkInv
<1> SUFFICES ASSUME Init PROVE LinkInv
  OBVIOUS
<1>1. LinkTypeOK
  <2>1. <<>> \in Seq(Bytes) /\ Len(<<>>) <= BufSize
    BY BufSizeAssumption
  <2> QED BY <2>1 DEF Init, LinkTypeOK, OpType, IsrState
<1>2. BufferRoom /\ TransactionPlace /\ ChannelA
  BY DEF Init, BufferRoom, TransactionPlace, ChannelA
<1> QED BY <1>1, <1>2 DEF LinkInv

\* Every step of the link keeps the invariant.
LEMMA LinkInvStep == LinkInv /\ [Next]_vars => LinkInv'
BY LinkTypeStep, BufferRoomStep, TransactionPlaceStep, ChannelAStep DEF LinkInv

\* The inductive invariant holds in every reachable state.
LEMMA LinkInvariant == Spec => []LinkInv
BY LinkInitially, LinkInvStep, PTL DEF Spec

\* Types: the receive buffer never overflows, whatever the unit sends
\* (RxByte), and every variable keeps its type.
THEOREM LinkTypeCorrect == Spec => []LinkTypeOK
<1>1. LinkInv => LinkTypeOK
  BY DEF LinkInv
<1> QED BY LinkInvariant, <1>1, PTL

\* completionWorkHandler never meets an empty queue or a finished operation.
THEOREM CompletionCorrect == Spec => []CompletionFindsResult
<1>1. LinkInv => CompletionFindsResult
  BY DEF LinkInv, TransactionPlace, CompletionFindsResult
<1> QED BY LinkInvariant, <1>1, PTL

\* The handler puts one result per transaction, never on a full queue.
THEOREM OneResultCorrect == Spec => []OneResultPerTransaction
<1>1. LinkInv => OneResultPerTransaction
  BY DEF LinkInv, TransactionPlace, OneResultPerTransaction
<1> QED BY LinkInvariant, <1>1, PTL

\* Channel A turns requests into receptions and ACKs into nothing.
THEOREM TurnaroundCorrect == Spec => []TurnaroundOnlyForRequests
<1>1. LinkInv => TurnaroundOnlyForRequests
  BY DEF LinkInv, ChannelA, TurnaroundOnlyForRequests
<1> QED BY LinkInvariant, <1>1, PTL
-----------------------------------------------------------------------------
(* The refinement of the abstract data link, step by step: starting a      *)
(* transaction accepts, a result the interrupt handler queues is heard,    *)
(* the completion handler completes, everything else stutters.             *)

\* A call that is accepted is an Accept.
LEMMA CallAccepts ==
    ASSUME NEW o \in {"Send", "Transact"}, Call(o)
    PROVE  Link!Accept(o)
BY DEF Call, accept, Link!Accept

\* A success is reported on the strength of the queued reception.
LEMMA SuccessIsBornOut ==
    ASSUME LinkInv, workPending, callbackArgument(m_opType, dequeued) = "ok"
    PROVE  Link!bearsOut(m_opType, m_rxMsgq)
<1>1. m_rxMsgq # Null /\ dequeued = m_rxMsgq /\ dequeued \in RxResult
  BY DEF LinkInv, LinkTypeOK, TransactionPlace, dequeued
<1>2. rxResultError(dequeued) = Null
  BY <1>1 DEF callbackArgument, rxResultError
<1>3. dequeued.status = "Ok" /\ dequeued.data # <<>>
  BY <1>2, LinkNullAssumption DEF rxResultError
<1>4. CASE m_opType = "Send"
  <2>1. Link!acknowledged(m_rxMsgq.data)
    BY <1>1, <1>2, <1>3, <1>4 DEF callbackArgument, Link!acknowledged
  <2> QED BY <1>1, <1>3, <1>4, <2>1 DEF Link!bearsOut
<1>5. CASE m_opType # "Send"
  <2>1. Link!responseFrame(m_rxMsgq.data)
    BY <1>1, <1>2, <1>5 DEF callbackArgument, decodes, Link!responseFrame
  <2> QED BY <1>1, <1>3, <1>5, <2>1 DEF Link!bearsOut
<1> QED BY <1>4, <1>5

\* The completion handler is a Complete.
LEMMA CompletionCompletes ==
    ASSUME LinkInv, completionWorkHandler
    PROVE  Link!Complete(answer') /\ answer' \in Link!Answers
<1>1. /\ m_opType # None /\ m_opType \in OpType /\ workPending /\ m_rxMsgq # Null
      /\ dequeued \in RxResult
  BY DEF LinkInv, LinkTypeOK, TransactionPlace, completionWorkHandler, dequeued
<1>2. answer' = callbackArgument(m_opType, dequeued)
  BY <1>1 DEF completionWorkHandler
<1>3. answer' \in Link!Answers
  BY <1>1, <1>2, CallbackArgumentType DEF Answers, Link!Answers, Link!Errors
<1> QED
  BY <1>1, <1>2, <1>3, SuccessIsBornOut DEF Link!Complete, completionWorkHandler

\* A result that is queued for an outstanding operation is heard.
LEMMA PutIsHeard ==
    ASSUME LinkInv, m_isrState \in {"WaitingRx", "TimedOut"},
           NEW r \in RxResult, put(r), UNCHANGED <<m_opType, answer>>
    PROVE  Link!Hear
<1>1. m_opType # None /\ m_rxMsgq = Null
  BY DEF LinkInv, TransactionPlace
<1>2. m_rxMsgq' \in Link!Receptions
  BY <1>1 DEF put, RxResult, Bytes, Link!Receptions, Link!Bytes
<1> QED BY <1>1, <1>2 DEF Link!Hear

\* The ENDRX section of the interrupt handler hears, or leaves the queue alone.
LEMMA EndRxHears ==
    ASSUME LinkInv, IsrEndRx
    PROVE  Link!Hear \/ UNCHANGED <<m_opType, m_rxMsgq, answer>>
<1>1. CASE EndRxTimedOut
  <2>1. [status |-> "Timeout", data |-> rxBuf] \in RxResult
    BY DEF LinkInv, LinkTypeOK, RxResult
  <2> QED BY <1>1, <2>1, PutIsHeard DEF EndRxTimedOut, IsrEndRx
<1>2. CASE EndRxWaiting
  <2>1. [status |-> IF compare0 THEN "Timeout" ELSE "Ok", data |-> rxBuf] \in RxResult
    BY DEF LinkInv, LinkTypeOK, RxResult
  <2> QED BY <1>2, <2>1, PutIsHeard DEF EndRxWaiting, IsrEndRx
<1>3. CASE EndRxIgnored
  BY <1>3 DEF EndRxIgnored, IsrEndRx
<1> QED BY <1>1, <1>2, <1>3 DEF IsrEndRx

\* So does the ERROR section.
LEMMA ErrorHears ==
    ASSUME LinkInv, IsrError
    PROVE  Link!Hear \/ UNCHANGED <<m_opType, m_rxMsgq, answer>>
<1>1. CASE errorEnds
  <2>1. [status |-> "UartError", data |-> <<>>] \in RxResult
    BY DEF RxResult
  <2> QED BY <1>1, <2>1, PutIsHeard DEF errorEnds, IsrError
<1>2. CASE ~errorEnds
  BY <1>2 DEF IsrError
<1> QED BY <1>1, <1>2

\* Every other step of the link is invisible to its callers; the queue that
\* startTransaction purges is empty already.
LEMMA OtherStepsStutter ==
    ASSUME LinkInv,
           \/ StartClear \/ StartFire \/ IsrFrameTimeout \/ IsrEndTx \/ Hardware
    PROVE  UNCHANGED <<m_opType, m_rxMsgq, answer>>
<1>1. CASE StartClear
  BY <1>1 DEF StartClear, LinkInv, TransactionPlace
<1>2. CASE StartFire \/ IsrFrameTimeout \/ IsrEndTx
  BY <1>2 DEF StartFire, IsrFrameTimeout, IsrEndTx
<1>3. CASE Hardware
  BY <1>3 DEF Hardware, TxDone, RxByte, RxFrameTimeout, Watchdog, RxStopped, softVars
<1> QED BY <1>1, <1>2, <1>3

\* Every step of the link is a step of the abstract one, or a stutter.
LEMMA LinkStepSimulated ==
    ASSUME LinkInv, [Next]_vars
    PROVE  [Link!LinkNext]_(Link!linkVars)
<1>1. ASSUME NEW o \in {"Send", "Transact"}, Call(o) PROVE Link!LinkNext
  BY <1>1, CallAccepts DEF Link!LinkNext, Link!Operations
<1>2. CASE completionWorkHandler
  BY <1>2, CompletionCompletes DEF Link!LinkNext
<1>3. CASE IsrEndRx \/ IsrError
  BY <1>3, EndRxHears, ErrorHears DEF Link!LinkNext, Link!linkVars
<1>4. CASE CallBusy \/ UNCHANGED vars
  BY <1>4 DEF CallBusy, vars, softVars, hwVars, Link!linkVars
<1>5. CASE \/ StartClear \/ StartFire \/ IsrFrameTimeout \/ IsrEndTx \/ Hardware
  BY <1>5, OtherStepsStutter DEF Link!linkVars
<1> QED BY <1>1, <1>2, <1>3, <1>4, <1>5 DEF Next, Isr

\* The UART link keeps every safety promise of the abstract class: one
\* operation at a time, one reception and one callback each, and success only
\* on the strength of that reception (completionWorkHandler).
THEOREM LinkImplementsDataLink == Spec => ImplementsDataLink
<1>1. Init => Link!LinkInit
  BY DEF Init, Link!LinkInit
<1>2. LinkInv /\ [Next]_vars => [Link!LinkNext]_(Link!linkVars)
  BY LinkStepSimulated
<1> QED BY <1>1, <1>2, LinkInvariant, PTL DEF Spec, ImplementsDataLink, Link!LinkSafety
=============================================================================
