------------------------------ MODULE S21Codec ------------------------------
(***************************************************************************)
(* The setpoint byte of the S21 D1 command and F1 response                 *)
(* (s21/s21_presentation.cpp): half-degree steps around '@' = 18.0 C.      *)
(***************************************************************************)
EXTENDS Integers

TempByteBase == 64                   \* '@'

\* C integer division, towards zero.
CDiv(a, b) == IF a >= 0 THEN a \div b ELSE -((-a) \div b)

setPointToTempByte(setPoint) == (TempByteBase + CDiv(setPoint - 1800, 50)) % 256

tempByteToSetPoint(tempByte) == (tempByte - TempByteBase) * 50 + 1800

\* Mutant: a setpoint above the range passes.
SetPointInRangeBelow(setPoint) == setPoint >= 1000

\* setOperation refuses anything else before touching the wire.
SetPointInRange(setPoint) == setPoint \in 1000..3200

\* What the unit understands of a setpoint the bridge writes.
quantised(setPoint) == tempByteToSetPoint(setPointToTempByte(setPoint))
=============================================================================
