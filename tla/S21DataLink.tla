---------------------------- MODULE S21DataLink ----------------------------
(***************************************************************************)
(* What the abstract class S21DataLink promises its callers                *)
(* (s21_datalink.h): at most one operation is outstanding; for every       *)
(* accepted one the link takes exactly one reception from the line and     *)
(* calls back exactly once; and a callback reports success only on the     *)
(* strength of that reception: one that ended without a timeout or a line  *)
(* error and holds an ACK for a send, an intact response frame for a       *)
(* transact.  It does not promise that the reception began after the       *)
(* request: see AnswerAfterRequest of S21DataLinkUart.                     *)
(*                                                                         *)
(* Bytes are told apart as far as the link does: "body" stands for STX,    *)
(* payload and the right checksum, "junk" for anything else that is not a  *)
(* control byte.                                                           *)
(***************************************************************************)
EXTENDS Naturals, Sequences

CONSTANTS None, Null

Bytes == {"ACK", "NAK", "ETX", "body", "junk"}

\* How a reception ended, and the bytes it left in the buffer.
Receptions == [status: {"Ok", "Timeout", "UartError"}, data: Seq(Bytes)]

VARIABLES op,      \* the operation outstanding, or None
          heard,   \* the reception taken for its answer; Null: none yet
          answer   \* argument of the last callback; Null: none since the last accept

linkVars == <<op, heard, answer>>

Operations == {"Send", "Transact"}
Errors     == {"timeout", "uart error", "no response", "NAK",
               "unexpected response", "bad frame"}
Answers    == Errors \cup {"ok"}

acknowledged(bytes) == bytes # <<>> /\ Head(bytes) = "ACK"

\* S21Frame::decode of the bytes after an optional ACK.
responseFrame(bytes) == bytes \in {<<"body", "ETX">>, <<"ACK", "body", "ETX">>}

LinkInit == op = None /\ heard = Null /\ answer = Null

Accept(o) ==
    /\ op = None
    /\ op' = o /\ answer' = Null
    /\ UNCHANGED heard

Hear ==
    /\ op # None /\ heard = Null
    /\ heard' \in Receptions
    /\ UNCHANGED <<op, answer>>

\* What a success of operation o must rest on.
bearsOut(o, reception) ==
    /\ reception.status = "Ok"
    /\ IF o = "Send" THEN acknowledged(reception.data) ELSE responseFrame(reception.data)

Complete(r) ==
    /\ op # None /\ heard # Null
    /\ r = "ok" => bearsOut(op, heard)
    /\ op' = None /\ heard' = Null /\ answer' = r

LinkNext ==
    \/ \E o \in Operations: Accept(o)
    \/ Hear
    \/ \E r \in Answers: Complete(r)

LinkSafety == LinkInit /\ [][LinkNext]_linkVars
=============================================================================
