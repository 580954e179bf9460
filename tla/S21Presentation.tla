--------------------------- MODULE S21Presentation ---------------------------
(***************************************************************************)
(* What the bridge makes of the payloads a unit answers with               *)
(* (s21_presentation.cpp).  Bytes are numbers; an operation is the power   *)
(* flag, the mode byte, the setpoint in 0.01 degrees and the fan byte, as  *)
(* the enums are only casts of the bytes.  A decoder that reads past a     *)
(* short payload finds an arbitrary byte (pastEnd).                        *)
(***************************************************************************)
EXTENDS S21Codec, S21Frame

\* The first two characters of the response to each request.
responseCode ==
    [F1 |-> <<71, 49>>,  RH |-> <<83, 72>>,  Ra |-> <<83, 97>>,
     Re |-> <<83, 101>>, F9 |-> <<71, 57>>,  RG |-> <<83, 71>>,
     F8 |-> <<71, 56>>,  FY |-> <<71, 89>>,  RzB2 |-> <<83, 122>>]

Requests == DOMAIN responseCode

zero   == 48      \* '0'
AutoFan == 65     \* FanMode::Auto
Quiet   == 66     \* FanMode::Quiet

\* Byte i of a response, counted from zero.
at(r, i, pastEnd) == IF i < Len(r) THEN r[i + 1] ELSE pastEnd

validateResponseCode(r, request, pastEnd) ==
    <<at(r, 0, pastEnd), at(r, 1, pastEnd)>> = responseCode[request]

int8(n)  == ((n + 128) % 256) - 128
int16(n) == ((n + 32768) % 65536) - 32768

decodeReversedDigits(r, offset, pastEnd) ==
    LET d(i) == at(r, offset + i, pastEnd) - zero
    IN  d(0) + d(1) * 10 + d(2) * 100

decodeSensorTemp(r, pastEnd) ==
    LET val == decodeReversedDigits(r, 2, pastEnd)
    IN  int16((IF at(r, 5, pastEnd) = 43 THEN val ELSE -val) * 10)

decodeHumidity(r, pastEnd) == decodeReversedDigits(r, 2, pastEnd) % 256

decodeVersionDigit(b) == IF b \in 48..57 THEN b - zero ELSE 0

hexNibble(b) == CASE b \in 48..57  -> b - 48
                  [] b \in 65..70  -> b - 55
                  [] b \in 97..102 -> b - 87
                  [] OTHER         -> 0

\* Bit 2 of the state byte; its low nibble comes first.
refrigerantValveOpen(r, pastEnd) == (hexNibble(at(r, 4, pastEnd)) \div 4) % 2 = 1

\* Mutant: the difference is not taken as a signed byte.
coarseTempUnsigned(b) == int16(((b - 128) % 256) * 50)

coarseTemp(b) == int16(int8(b - 128) * 50)

operationOf(r, pastEnd) ==
    [onOff    |-> at(r, 2, pastEnd) # zero,
     mode     |-> at(r, 3, pastEnd),
     setPoint |-> int16(tempByteToSetPoint(at(r, 4, pastEnd))),
     fanMode  |-> at(r, 5, pastEnd)]

\* The value each getter hands to its callback; Null: an error.
decoded(request, r, pastEnd) ==
    LET b(i)     == at(r, i, pastEnd)
        digit(i) == decodeVersionDigit(b(i))
    IN  IF r = Null THEN Null
        ELSE IF ~validateResponseCode(r, request, pastEnd) THEN Null
        ELSE CASE request = "F1" -> operationOf(r, pastEnd)
               [] request \in {"RH", "Ra"} -> decodeSensorTemp(r, pastEnd)
               [] request = "Re" -> decodeHumidity(r, pastEnd)
               [] request = "F9" -> [indoor   |-> coarseTemp(b(2)),
                                     outdoor  |-> coarseTemp(b(3)),
                                     humidity |-> (b(4) - zero) % 256]
               [] request = "RG" -> b(2)
               [] request = "F8" -> digit(3)                       \* major
               [] request = "FY" -> digit(6) + digit(7) * 10
               [] request = "RzB2" -> IF b(2) = 66 /\ b(3) = 50
                                      THEN refrigerantValveOpen(r, pastEnd) ELSE Null
-----------------------------------------------------------------------------
(* The unit's side (external), as the decoders expect it.                  *)

reversedDigits(n) == <<zero + (n % 10), zero + ((n \div 10) % 10), zero + ((n \div 100) % 10)>>

sensorTemp(t) == IF t >= 0 THEN reversedDigits(t \div 10) \o <<43>>
                 ELSE reversedDigits((-t) \div 10) \o <<45>>

\* What a unit answers: u.op is its operation, u.env its sensors.  F1 may say
\* Auto for a unit that runs Quiet.
responses(request, u) ==
    LET code == responseCode[request]
        f1(fan) == code \o <<IF u.op.onOff THEN 49 ELSE zero, u.op.mode,
                             setPointToTempByte(u.op.setPoint), fan>>
    IN  CASE request = "F1" -> {f1(u.op.fanMode),
                                f1(IF u.op.fanMode = Quiet THEN AutoFan ELSE u.op.fanMode)}
          [] request = "RG" -> {code \o <<u.op.fanMode>>}
          [] request = "RH" -> {code \o sensorTemp(u.env.indoor)}
          [] request = "Ra" -> {code \o sensorTemp(u.env.outdoor)}
          [] request = "Re" -> {code \o reversedDigits(u.env.humidity)}
          [] request = "F9" -> {code \o <<128 + CDiv(u.env.indoor, 50),
                                          128 + CDiv(u.env.outdoor, 50),
                                          zero + u.env.humidity>>}
          [] request = "F8" -> {code \o <<zero, zero + 2>>, code \o <<zero, zero + 1>>}
          [] request = "FY" -> {code \o <<zero, zero, zero, zero, zero + 3, zero>>}
          [] request = "RzB2" -> {code \o <<66, 50, IF u.op.onOff THEN 67 ELSE 56, zero>>}
=============================================================================
