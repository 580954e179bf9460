-------------------------- MODULE S21DataLinkUart --------------------------
(***************************************************************************)
(* The S21 data link over the nRF54L UARTE (s21_datalink_uart.cpp).  Three *)
(* things run: threads (send, transact and, on the system work queue, the  *)
(* completion handler), the interrupt handler, and the hardware.  The      *)
(* handler tests the events one after the other while the hardware keeps   *)
(* raising them, so each of its four sections is an action; threads do not *)
(* run while it does (isrPc # "out").  startTransaction is three actions,  *)
(* because the interrupt and the hardware reach into it.                   *)
(*                                                                         *)
(* The completion handler is one action: the system work queue's thread is *)
(* cooperative, so no other thread runs between its release of m_opType    *)
(* and its move of the callback.                                           *)
(*                                                                         *)
(* The UARTE, the watchdog timer and the DPPI channels that wire them are  *)
(* modelled from how init() configures them.                               *)
(***************************************************************************)
EXTENDS Naturals, Sequences

CONSTANTS
    None, Null,
    BufSize          \* bytes the receive buffer holds (kBufSize)

ASSUME BufSizeAssumption == BufSize \in Nat \ {0}
ASSUME LinkNullAssumption ==
    /\ None \notin {"Send", "Transact"}
    /\ Null \notin {"timeout", "uart error", "no response", "NAK",
                    "unexpected response", "bad frame", "ok"}
    /\ Null \notin [status: {"Ok", "Timeout", "UartError"},
                    data: Seq({"ACK", "NAK", "ETX", "body", "junk"})]

VARIABLES
    m_opType, m_isrState,
    m_rxMsgq,        \* the one result queued, or Null
    workPending,     \* m_completionWork is submitted
    answer,          \* argument of the last callback, Null since the last call
    startPc,         \* where startTransaction is: "out", "called", "irqOff"
    isrPc,           \* next section of the running interrupt handler, or "out"
    events,          \* UARTE events raised and not cleared
    nakMatch,        \* EVENTS_DMA.RX.MATCH[NAK]
    endtxInt,        \* the ENDTX interrupt is enabled
    chA,             \* DPPI channel A (ENDTX -> STARTRX, timer start) is enabled
    match,           \* bytes that end reception
    tx, rx, rxBuf,   \* transmitter, receiver, receive buffer
    timer, compare0  \* watchdog timer, its COMPARE0 event

softVars == <<m_opType, m_isrState, m_rxMsgq, workPending, answer, startPc, isrPc>>
hwVars   == <<events, nakMatch, endtxInt, chA, match, tx, rx, rxBuf, timer, compare0>>
vars     == <<softVars, hwVars>>

OpType   == {None, "Send", "Transact"}
IsrState == {"Idle", "WaitingRx", "TimedOut", "SendingAck"}
Bytes    == {"ACK", "NAK", "ETX", "body", "junk"}
RxResult == [status: {"Ok", "Timeout", "UartError"}, data: Seq(Bytes)]
Events   == {"FRAME_TIMEOUT", "ENDRX", "ERROR", "ENDTX"}
Answers  == {"timeout", "uart error", "no response", "NAK",
             "unexpected response", "bad frame", "ok"}

Init ==
    /\ m_opType = None /\ m_isrState = "Idle" /\ m_rxMsgq = Null
    /\ workPending = FALSE /\ answer = Null
    /\ startPc = "out" /\ isrPc = "out"
    /\ events = {} /\ nakMatch = FALSE /\ endtxInt = FALSE /\ chA = TRUE
    /\ match = {} /\ tx = "idle" /\ rx = "off" /\ rxBuf = <<>>
    /\ timer = "stopped" /\ compare0 = FALSE
-----------------------------------------------------------------------------
(* Threads: send, transact and the common start of a transaction.          *)

threadsRun == isrPc = "out"

\* The compare-exchange of m_opType.
accept(o) == m_opType = None /\ m_opType' = o

\* configureMatch for the operation: NAK always, ETX or ACK.
matchFor(o) == {"NAK"} \cup (IF o = "Transact" THEN {"ETX"} ELSE {"ACK"})

Call(o) ==
    /\ threadsRun /\ startPc = "out"
    /\ accept(o)
    /\ answer' = Null
    /\ match' = matchFor(o)
    /\ startPc' = "called"
    /\ UNCHANGED <<m_isrState, m_rxMsgq, workPending, isrPc, events, nakMatch,
                   endtxInt, chA, tx, rx, rxBuf, timer, compare0>>

\* A call while an operation is outstanding: its own callback gets "busy"
\* and nothing of the link changes.
CallBusy ==
    /\ threadsRun
    /\ m_opType # None
    /\ UNCHANGED vars

\* irq_disable; events, queue and watchdog are reset.  A receiver that was told
\* to stop need not have stopped yet.
StartClear ==
    /\ threadsRun /\ startPc = "called"
    /\ events' = {}
    /\ nakMatch' = FALSE /\ compare0' = FALSE
    /\ m_rxMsgq' = Null
    /\ m_isrState' = "WaitingRx"
    /\ startPc' = "irqOff"
    /\ UNCHANGED <<m_opType, workPending, answer, isrPc, endtxInt, chA, match,
                   tx, rx, rxBuf, timer>>

\* STARTTX; irq_enable.
StartFire ==
    /\ threadsRun /\ startPc = "irqOff"
    /\ tx' = "request"
    /\ startPc' = "out"
    /\ UNCHANGED <<m_opType, m_isrState, m_rxMsgq, workPending, answer, isrPc,
                   events, nakMatch, endtxInt, chA, match, rx, rxBuf, timer, compare0>>
-----------------------------------------------------------------------------
(* The completion handler, on the system work queue.                       *)

rxResultError(result) ==
    IF result.status = "Timeout" THEN "timeout"
    ELSE IF result.status # "Ok" THEN "uart error"
    ELSE IF result.data = <<>> THEN "no response"
    ELSE IF Head(result.data) = "NAK" THEN "NAK"
    ELSE Null

\* S21Frame::decode accepts what follows an optional ACK.
decodes(data) == data \in {<<"body", "ETX">>, <<"ACK", "body", "ETX">>}

\* Mutant: any byte is taken for the ACK of a send.
callbackArgumentAnyByte(o, result) ==
    IF rxResultError(result) # Null THEN rxResultError(result)
    ELSE IF o = "Send" THEN "ok"
    ELSE IF decodes(result.data) THEN "ok" ELSE "bad frame"

callbackArgument(o, result) ==
    IF rxResultError(result) # Null THEN rxResultError(result)
    ELSE IF o = "Send"
         THEN IF Head(result.data) = "ACK" THEN "ok" ELSE "unexpected response"
    ELSE IF decodes(result.data) THEN "ok" ELSE "bad frame"

\* An empty queue is an assertion failure (checked as CompletionFindsResult);
\* a release build goes on with a UART error.
dequeued == IF m_rxMsgq = Null THEN [status |-> "UartError", data |-> <<>>]
            ELSE m_rxMsgq

completionWorkHandler ==
    /\ threadsRun /\ workPending
    /\ workPending' = FALSE
    /\ m_rxMsgq' = Null
    /\ match' = {}
    /\ m_opType' = None
    /\ answer' = IF m_opType = None THEN answer ELSE callbackArgument(m_opType, dequeued)
    /\ UNCHANGED <<m_isrState, startPc, isrPc, events, nakMatch, endtxInt, chA,
                   tx, rx, rxBuf, timer, compare0>>
-----------------------------------------------------------------------------
(* The interrupt handler, section by section.                              *)

interruptPending ==
    /\ startPc # "irqOff"
    /\ events \cap ({"ENDRX", "ERROR", "FRAME_TIMEOUT"}
                    \cup (IF endtxInt THEN {"ENDTX"} ELSE {})) # {}

\* k_msgq_put without waiting: a full queue keeps what it has.
put(result) == m_rxMsgq' = IF m_rxMsgq = Null THEN result ELSE m_rxMsgq

\* Mutant: the state is not set back.
finishKeepsState == workPending' = TRUE /\ UNCHANGED m_isrState

\* The transaction is over: Idle, and the completion work submitted.
finish == m_isrState' = "Idle" /\ workPending' = TRUE

IsrFrameTimeout ==
    /\ isrPc = "out" /\ interruptPending
    /\ isrPc' = "endrx"
    /\ events' = events \ {"FRAME_TIMEOUT"}
    /\ m_isrState' = IF "FRAME_TIMEOUT" \in events /\ m_isrState = "WaitingRx"
                     THEN "TimedOut" ELSE m_isrState
    /\ UNCHANGED <<m_opType, m_rxMsgq, workPending, answer, startPc, nakMatch,
                   endtxInt, chA, match, tx, rx, rxBuf, timer, compare0>>

\* Mutant: the ACK is sent with channel A still enabled.
sendAckChained ==
    /\ endtxInt' = TRUE
    /\ tx' = "ack"
    /\ events' = events \ {"ENDRX", "ENDTX"}
    /\ m_isrState' = "SendingAck"
    /\ UNCHANGED <<chA, workPending>>

\* Mutant: the interrupt at the end of the ACK is not enabled.
sendAckSilent ==
    /\ chA' = FALSE
    /\ tx' = "ack"
    /\ events' = events \ {"ENDRX", "ENDTX"}
    /\ m_isrState' = "SendingAck"
    /\ UNCHANGED <<endtxInt, workPending>>

\* The ACK of a response; channel A must not turn it into a reception.
sendAck ==
    /\ chA' = FALSE /\ endtxInt' = TRUE
    /\ tx' = "ack"
    /\ events' = events \ {"ENDRX", "ENDTX"}
    /\ m_isrState' = "SendingAck"
    /\ UNCHANGED workPending

needsAck == ~compare0 /\ ~nakMatch /\ m_opType = "Transact"

\* ENDRX after a frame timeout: the result is a timeout.
EndRxTimedOut ==
    /\ "ENDRX" \in events /\ m_isrState = "TimedOut"
    /\ put([status |-> "Timeout", data |-> rxBuf])
    /\ events' = events \ {"ENDRX"}
    /\ finish
    /\ UNCHANGED <<compare0, chA, endtxInt, tx>>

\* ENDRX while waiting: the answer, or the end the watchdog put to the wait.
EndRxWaiting ==
    /\ "ENDRX" \in events /\ m_isrState = "WaitingRx"
    /\ put([status |-> IF compare0 THEN "Timeout" ELSE "Ok", data |-> rxBuf])
    /\ compare0' = FALSE
    /\ \/ /\ needsAck
          /\ sendAck
       \/ /\ ~needsAck
          /\ events' = events \ {"ENDRX"}
          /\ finish
          /\ UNCHANGED <<chA, endtxInt, tx>>

\* No ENDRX, or a stale one.
EndRxIgnored ==
    /\ "ENDRX" \in events => m_isrState \in {"Idle", "SendingAck"}
    /\ events' = events \ {"ENDRX"}
    /\ UNCHANGED <<m_isrState, m_rxMsgq, workPending, compare0, chA, endtxInt, tx>>

IsrEndRx ==
    /\ isrPc = "endrx"
    /\ isrPc' = "error"
    /\ EndRxTimedOut \/ EndRxWaiting \/ EndRxIgnored
    /\ UNCHANGED <<m_opType, answer, startPc, nakMatch, match, rx, rxBuf, timer>>

stopRx == rx' = IF rx = "on" THEN "stopping" ELSE rx

errorEnds == "ERROR" \in events /\ m_isrState = "WaitingRx"

IsrError ==
    /\ isrPc = "error"
    /\ isrPc' = "endtx"
    /\ events' = events \ {"ERROR"}
    /\ \/ /\ errorEnds
          /\ stopRx
          /\ put([status |-> "UartError", data |-> <<>>])
          /\ finish
       \/ /\ ~errorEnds
          /\ UNCHANGED <<rx, m_rxMsgq, m_isrState, workPending>>
    /\ UNCHANGED <<m_opType, answer, startPc, nakMatch, endtxInt, chA, match, tx,
                   rxBuf, timer, compare0>>

\* Mutant: the end of the request is taken for the end of an ACK.
ackSentAnyState == "ENDTX" \in events

ackSent == "ENDTX" \in events /\ m_isrState = "SendingAck"

IsrEndTx ==
    /\ isrPc = "endtx"
    /\ isrPc' = "out"
    /\ events' = events \ {"ENDTX"}
    /\ endtxInt' = (endtxInt /\ "ENDTX" \notin events)
    /\ \/ /\ ackSent
          /\ chA' = TRUE
          /\ finish
       \/ /\ ~ackSent
          /\ UNCHANGED <<chA, m_isrState, workPending>>
    /\ UNCHANGED <<m_opType, m_rxMsgq, answer, startPc, nakMatch, match, tx, rx,
                   rxBuf, timer, compare0>>
-----------------------------------------------------------------------------
(* The hardware.                                                           *)

\* The last byte has left.  Channel A starts reception and the watchdog.  A
\* request takes several byte times, longer than a receiver needs to stop.
TxDone ==
    /\ tx # "idle" /\ rx # "stopping"
    /\ tx' = "idle"
    /\ events' = events \cup {"ENDTX"}
    /\ \/ /\ chA
          /\ rx' = "on" /\ rxBuf' = <<>> /\ timer' = "running"
       \/ /\ ~chA
          /\ UNCHANGED <<rx, rxBuf, timer>>
    /\ UNCHANGED <<softVars, nakMatch, endtxInt, chA, match, compare0>>

\* Mutant: one byte more than the buffer holds.
bufferFullLate == Len(rxBuf) = BufSize

bufferFull == Len(rxBuf) + 1 = BufSize

\* A byte arrives, with a parity or framing error (bad) or without.  A match
\* stops the receiver (channel B); a full buffer ends the reception at once.
RxByte(b, bad) ==
    /\ rx = "on"
    /\ rxBuf' = Append(rxBuf, b)
    /\ nakMatch' = (nakMatch \/ (b = "NAK" /\ b \in match))
    /\ events' = events \cup (IF bad THEN {"ERROR"} ELSE {})
                        \cup (IF bufferFull THEN {"ENDRX"} ELSE {})
    /\ rx' = IF bufferFull THEN "off" ELSE IF b \in match THEN "stopping" ELSE "on"
    /\ timer' = IF bufferFull THEN "stopped" ELSE timer
    /\ UNCHANGED <<softVars, endtxInt, chA, match, tx, compare0>>

\* The line has been quiet for kFrameTimeoutBits after a byte.
RxFrameTimeout ==
    /\ rx = "on" /\ rxBuf # <<>>
    /\ events' = events \cup {"FRAME_TIMEOUT"}
    /\ rx' = "stopping"
    /\ UNCHANGED <<softVars, nakMatch, endtxInt, chA, match, tx, rxBuf, timer, compare0>>

\* 200 ms after the request: COMPARE0 stops the timer and, by channel B, the
\* receiver.
Watchdog ==
    /\ timer = "running"
    /\ timer' = "stopped" /\ compare0' = TRUE
    /\ stopRx
    /\ UNCHANGED <<softVars, events, nakMatch, endtxInt, chA, match, tx, rxBuf>>

\* A STOPRX has taken effect: ENDRX, which stops the watchdog (channel C).
RxStopped ==
    /\ rx = "stopping"
    /\ rx' = "off"
    /\ events' = events \cup {"ENDRX"}
    /\ timer' = "stopped"
    /\ UNCHANGED <<softVars, nakMatch, endtxInt, chA, match, tx, rxBuf, compare0>>
-----------------------------------------------------------------------------
Isr == IsrFrameTimeout \/ IsrEndRx \/ IsrError \/ IsrEndTx

Hardware ==
    \/ TxDone
    \/ \E b \in Bytes, bad \in BOOLEAN: RxByte(b, bad)
    \/ RxFrameTimeout
    \/ Watchdog
    \/ RxStopped

Next ==
    \/ \E o \in {"Send", "Transact"}: Call(o)
    \/ CallBusy
    \/ StartClear \/ StartFire
    \/ completionWorkHandler
    \/ Isr
    \/ Hardware

\* A thread that has begun to start a transaction goes on, submitted work and
\* raised interrupts are served, a transmission ends, the watchdog expires and
\* a receiver told to stop stops.  Nothing makes the unit send a byte.
LinkFairness ==
    /\ WF_vars(StartClear) /\ WF_vars(StartFire)
    /\ WF_vars(completionWorkHandler)
    /\ WF_vars(Isr)
    /\ WF_vars(TxDone) /\ WF_vars(Watchdog) /\ WF_vars(RxStopped)

Spec == Init /\ [][Next]_vars /\ LinkFairness
-----------------------------------------------------------------------------
(* Properties.                                                             *)

\* Every variable of the link and of the hardware it drives has its type.
LinkTypeOK ==
    /\ m_opType \in OpType
    /\ m_isrState \in IsrState
    /\ m_rxMsgq \in RxResult \cup {Null}
    /\ workPending \in BOOLEAN
    /\ answer \in Answers \cup {Null}
    /\ startPc \in {"out", "called", "irqOff"}
    /\ isrPc \in {"out", "endrx", "error", "endtx"}
    /\ events \subseteq Events
    /\ nakMatch \in BOOLEAN /\ endtxInt \in BOOLEAN /\ chA \in BOOLEAN
    /\ match \subseteq Bytes
    /\ tx \in {"idle", "request", "ack"}
    /\ rx \in {"off", "on", "stopping"}
    /\ rxBuf \in Seq(Bytes) /\ Len(rxBuf) <= BufSize
    /\ timer \in {"stopped", "running"} /\ compare0 \in BOOLEAN

\* The completion handler always finds the result it was submitted for, and
\* its operation still outstanding: neither the assertion on an empty queue
\* nor the warning about a stale work submit is ever reached.
CompletionFindsResult ==
    workPending => m_rxMsgq # Null /\ m_opType # None

\* A result is queued only while its transaction still has to complete, so
\* the queue of depth one is empty whenever the handler puts a result.
OneResultPerTransaction ==
    m_rxMsgq # Null => \/ workPending /\ m_isrState = "Idle"
                       \/ ~workPending /\ m_isrState = "SendingAck"

\* The ACK of a response never starts a reception, and every request does:
\* channel A is off exactly while an ACK is being sent.
TurnaroundOnlyForRequests ==
    /\ tx = "ack" => ~chA
    /\ tx = "request" /\ m_isrState = "WaitingRx" => chA

\* A reception that ends before the current request is out is never taken for
\* its answer: "prevent a stale ENDRX (from a previous ERROR handler's STOPRX)
\* from [...] being misprocessed as belonging to this new transaction"
\* (startTransaction).
AnswerAfterRequest ==
    /\ m_isrState = "WaitingRx"
    /\ startPc # "out" \/ tx # "idle"
    => "ENDRX" \notin events

\* Every operation is answered: no caller waits for ever.
EveryOperationCompletes == m_opType # None ~> m_opType = None

Link == INSTANCE S21DataLink WITH op <- m_opType, heard <- m_rxMsgq

\* The UART link keeps the promises of the abstract class: one reception and one
\* callback for each operation, and no success without an ACK or an intact
\* frame.  That every operation is answered is EveryOperationCompletes.
ImplementsDataLink == Link!LinkSafety
=============================================================================
