------------------------------ MODULE S21Frame ------------------------------
(***************************************************************************)
(* The S21 frame (s21_frame.cpp): STX, payload, checksum, ETX.  The        *)
(* checksum is the sum of the payload modulo 256, moved away from the      *)
(* control bytes of the protocol by two.                                   *)
(***************************************************************************)
EXTENDS Integers, Sequences

CONSTANT Null      \* an absent value

Byte == 0..255
STX  == 2
ETX  == 3

kReserved == {2, 3, 6, 10, 21}      \* STX, ETX, ACK, LF, NAK

byteSum(payload) ==
    LET sum[i \in 0..Len(payload)] == IF i = 0 THEN 0 ELSE (sum[i - 1] + payload[i]) % 256
    IN  sum[Len(payload)]

computeChecksum(payload) ==
    LET sum == byteSum(payload)
    IN  IF sum \in kReserved THEN (sum + 2) % 256 ELSE sum

encode(payload) == <<STX>> \o payload \o <<computeChecksum(payload), ETX>>

\* Mutant: the checksum is not compared.
decodeUnchecked(frame) ==
    IF Len(frame) < 4 \/ frame[1] # STX \/ frame[Len(frame)] # ETX THEN Null
    ELSE SubSeq(frame, 2, Len(frame) - 2)

\* The payload, or Null for a frame that is refused.
decode(frame) ==
    IF Len(frame) < 4 \/ frame[1] # STX \/ frame[Len(frame)] # ETX THEN Null
    ELSE LET payload == SubSeq(frame, 2, Len(frame) - 2)
         IN  IF computeChecksum(payload) = frame[Len(frame) - 1] THEN payload ELSE Null

\* Two payloads the checksum cannot tell apart although their sums differ: one
\* sum is a control byte, the other what it is moved to.
blindSpot(p, q) ==
    \E s \in kReserved : {byteSum(p), byteSum(q)} = {s, s + 2}
=============================================================================
