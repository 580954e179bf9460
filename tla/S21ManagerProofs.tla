-------------------------- MODULE S21ManagerProofs --------------------------
(***************************************************************************)
(* The frame checksum for payloads of every length, and the S21 manager    *)
(* for every unit, every line and every sequence of calls.                 *)
(***************************************************************************)
EXTENDS S21Manager, TLAPS, WellFoundedInduction

-----------------------------------------------------------------------------
(* The checksum.                                                           *)

\* Induction over the natural numbers, for a set rather than a predicate: by the
\* least number outside it.
LEMMA Induction ==
    ASSUME NEW S, 0 \in S, \A n \in Nat : n \in S => n + 1 \in S
    PROVE  Nat \subseteq S
  <1> SUFFICES ASSUME Nat \ S # {} PROVE FALSE
    OBVIOUS
  <1> DEFINE R == {ss \in Nat \X Nat : ss[1] < ss[2]}
             T == Nat \ S
  <1>1. IsWellFoundedOn(R, Nat)
    BY NatLessThanWellFounded, Zenon DEF OpToRel
  <1>2. PICK x \in T : \A y \in T : ~ (<<y, x>> \in R)
    <2>1. T \subseteq Nat /\ T # {}
      OBVIOUS
    <2> HIDE DEF R, T
    <2> QED
      BY <1>1, <2>1, WFMin
  <1>3. x \in Nat /\ x # 0
    OBVIOUS
  <1>4. x - 1 \in Nat /\ (x - 1) + 1 = x
    BY <1>3
  <1>5. x - 1 \in T
    BY <1>4
  <1>6. <<x - 1, x>> \in R
    BY <1>3, <1>4
  <1> QED
    BY <1>2, <1>5, <1>6

\* f is the running sum of the first n bytes of p.
runningSum(f, p, n) == f = [i \in 0..n |-> IF i = 0 THEN 0 ELSE (f[i - 1] + p[i]) % 256]

\* Adding a byte modulo 256 gives a byte.
LEMMA ByteAdds ==
    ASSUME NEW a \in Byte, NEW b \in Byte
    PROVE  /\ (a + b) % 256 \in Byte
           /\ (a + b) % 256 = IF a + b < 256 THEN a + b ELSE a + b - 256
  <1>1. a \in 0..255 /\ b \in 0..255
    BY DEF Byte
  <1>2. ASSUME NEW n \in 0..510
        PROVE  n % 256 = IF n < 256 THEN n ELSE n - 256
    OBVIOUS
  <1>3. a \in Int /\ b \in Int /\ 0 <= a + b /\ a + b <= 510
    BY <1>1
  <1>4. (a + b) % 256 = IF a + b < 256 THEN a + b ELSE a + b - 256
    BY <1>2, <1>3
  <1> QED
    BY <1>3, <1>4 DEF Byte

\* It tells any two sums, and any two bytes, apart.
LEMMA ByteShows ==
    ASSUME NEW a \in Byte, NEW b \in Byte, NEW c \in Byte, a # b
    PROVE  /\ (a + c) % 256 # (b + c) % 256
           /\ (c + a) % 256 # (c + b) % 256
  <1>1. a \in Int /\ b \in Int /\ c \in Int /\ a < 256 /\ b < 256 /\ 0 <= a /\ 0 <= b
    BY DEF Byte
  <1>2. /\ (a + c) % 256 = IF a + c < 256 THEN a + c ELSE a + c - 256
        /\ (b + c) % 256 = IF b + c < 256 THEN b + c ELSE b + c - 256
        /\ (c + a) % 256 = IF c + a < 256 THEN c + a ELSE c + a - 256
        /\ (c + b) % 256 = IF c + b < 256 THEN c + b ELSE c + b - 256
    BY ByteAdds
  <1> QED
    BY <1>1, <1>2

\* Every payload has its running sums.
LEMMA SumExists ==
    ASSUME NEW p \in Seq(Byte)
    PROVE  \E f : runningSum(f, p, Len(p))
  <1> DEFINE S == {n \in Nat : \E f : runningSum(f, p, n)}
  <1>1. 0 \in S
    <2>1. runningSum([i \in 0..0 |-> 0], p, 0)
      BY DEF runningSum
    <2> QED
      BY <2>1
  <1>2. ASSUME NEW n \in Nat, n \in S
        PROVE  n + 1 \in S
    <2>1. PICK f : runningSum(f, p, n)
      BY <1>2
    <2> DEFINE g == [i \in 0..(n + 1) |-> IF i = n + 1 THEN (f[n] + p[n + 1]) % 256 ELSE f[i]]
    <2>2. ASSUME NEW i \in 0..(n + 1)
          PROVE  g[i] = IF i = 0 THEN 0 ELSE (g[i - 1] + p[i]) % 256
      <3>1. CASE i = n + 1
        BY <3>1
      <3>2. CASE i # n + 1
        <4>1. i \in 0..n /\ (i # 0 => i - 1 \in 0..n)
          BY <3>2
        <4>2. g[i] = f[i] /\ (i # 0 => g[i - 1] = f[i - 1])
          BY <4>1
        <4>3. f[i] = IF i = 0 THEN 0 ELSE (f[i - 1] + p[i]) % 256
          BY <2>1, <4>1 DEF runningSum
        <4> QED
          BY <4>2, <4>3
      <3> QED
        BY <3>1, <3>2
    <2>3. runningSum(g, p, n + 1)
      BY <2>2 DEF runningSum
    <2> QED
      BY <2>3
  <1>3. Nat \subseteq S
    <2> HIDE DEF S
    <2> QED
      BY <1>1, <1>2, Induction
  <1> QED
    BY <1>3

\* The running sums of a payload, the last of which is its sum.
sums(p) == CHOOSE f : runningSum(f, p, Len(p))

\* They are bytes, and obey the recursion of the checksum.
LEMMA SumFacts ==
    ASSUME NEW p \in Seq(Byte)
    PROVE  /\ byteSum(p) = sums(p)[Len(p)]
           /\ sums(p)[0] = 0
           /\ \A i \in 1..Len(p) : sums(p)[i] = (sums(p)[i - 1] + p[i]) % 256
           /\ \A i \in 0..Len(p) : sums(p)[i] \in Byte
  <1>1. byteSum(p) = sums(p)[Len(p)]
    BY DEF byteSum, sums, runningSum
  <1>2. runningSum(sums(p), p, Len(p))
    BY SumExists DEF sums
  <1> DEFINE s == sums(p)
  <1>3. /\ s[0] = 0
        /\ \A i \in 1..Len(p) : s[i] = (s[i - 1] + p[i]) % 256
    BY <1>2 DEF runningSum
  <1> DEFINE S == {n \in Nat : n <= Len(p) => s[n] \in Byte}
  <1>4. 0 \in S
    BY <1>3 DEF Byte
  <1>5. ASSUME NEW n \in Nat, n \in S
        PROVE  n + 1 \in S
    <2> SUFFICES ASSUME n + 1 <= Len(p) PROVE s[n + 1] \in Byte
      OBVIOUS
    <2>1. n + 1 \in 1..Len(p) /\ (n + 1) - 1 = n
      OBVIOUS
    <2>2. s[n] \in Byte /\ p[n + 1] \in Byte
      BY <1>5, <2>1
    <2>3. s[n + 1] = (s[n] + p[n + 1]) % 256
      BY <1>3, <2>1
    <2> QED
      BY <2>2, <2>3, ByteAdds
  <1>6. Nat \subseteq S
    <2> HIDE DEF S
    <2> QED
      BY <1>4, <1>5, Induction
  <1>7. \A i \in 0..Len(p) : s[i] \in Byte
    BY <1>6
  <1> QED
    BY <1>1, <1>3, <1>7


\* Two payloads that differ in one byte have different sums.
LEMMA OneByteShows ==
    ASSUME NEW p \in Seq(Byte), NEW q \in Seq(Byte), Len(q) = Len(p), NEW k \in 1..Len(p),
           \A i \in 1..Len(p) : i # k => q[i] = p[i],
           q[k] # p[k]
    PROVE  byteSum(q) # byteSum(p)
  <1> DEFINE s == sums(p)
             t == sums(q)
             S == {n \in Nat : n <= Len(p) => IF n < k THEN t[n] = s[n] ELSE t[n] # s[n]}
  <1>1. 0 \in S
    BY SumFacts
  <1>2. ASSUME NEW n \in Nat, n \in S
        PROVE  n + 1 \in S
    <2> SUFFICES ASSUME n + 1 <= Len(p)
                 PROVE  IF n + 1 < k THEN t[n + 1] = s[n + 1] ELSE t[n + 1] # s[n + 1]
      OBVIOUS
    <2>1. n + 1 \in 1..Len(p) /\ (n + 1) - 1 = n
      OBVIOUS
    <2>2. /\ s[n + 1] = (s[n] + p[n + 1]) % 256
          /\ t[n + 1] = (t[n] + q[n + 1]) % 256
      BY <2>1, SumFacts
    <2>3. s[n] \in Byte /\ t[n] \in Byte /\ p[n + 1] \in Byte /\ q[n + 1] \in Byte
      BY <2>1, SumFacts
    <2>4. IF n < k THEN t[n] = s[n] ELSE t[n] # s[n]
      BY <1>2
    <2> HIDE DEF s, t
    <2>5. CASE n + 1 < k
      BY <2>1, <2>2, <2>4, <2>5
    <2>6. CASE n + 1 = k
      <3>1. q[n + 1] # p[n + 1] /\ t[n] = s[n]
        BY <2>4, <2>6
      <3> QED
        BY <2>2, <2>3, <2>6, <3>1, ByteShows
    <2>7. CASE n + 1 > k
      <3>1. q[n + 1] = p[n + 1] /\ t[n] # s[n]
        BY <2>1, <2>4, <2>7
      <3> QED
        BY <2>2, <2>3, <2>7, <3>1, ByteShows
    <2> QED
      BY <2>5, <2>6, <2>7
  <1>3. Nat \subseteq S
    <2> HIDE DEF S
    <2> QED
      BY <1>1, <1>2, Induction
  <1>4. Len(p) \in Nat /\ ~(Len(p) < k)
    OBVIOUS
  <1>5. t[Len(p)] # s[Len(p)]
    BY <1>3, <1>4
  <1> QED
    BY <1>5, SumFacts
-----------------------------------------------------------------------------
(* Frames.                                                                 *)

\* The sum and the checksum of a payload are bytes.
LEMMA ChecksumType ==
    ASSUME NEW p \in Seq(Byte)
    PROVE  byteSum(p) \in Byte /\ computeChecksum(p) \in Byte
  <1>1. byteSum(p) \in Byte
    BY SumFacts
  <1>2. \A n \in kReserved : (n + 2) % 256 \in Byte
    BY DEF kReserved, Byte
  <1> QED
    BY <1>1, <1>2 DEF computeChecksum

\* Two different sums have the same checksum
\* only where a control byte is moved onto the other.
LEMMA ChecksumShows ==
    ASSUME NEW p \in Seq(Byte), NEW q \in Seq(Byte), computeChecksum(p) = computeChecksum(q),
           byteSum(p) # byteSum(q)
    PROVE  blindSpot(p, q)
  <1> DEFINE a == byteSum(p)
             b == byteSum(q)
  <1>1. a \in 0..255 /\ b \in 0..255
    BY ChecksumType DEF Byte
  <1>2. \A n \in kReserved : n \in Nat /\ (n + 2) % 256 = n + 2
    BY DEF kReserved
  <1>3. /\ computeChecksum(p) = IF a \in kReserved THEN (a + 2) % 256 ELSE a
        /\ computeChecksum(q) = IF b \in kReserved THEN (b + 2) % 256 ELSE b
    BY DEF computeChecksum
  <1> HIDE DEF a, b
  <1>4. a # b /\ (IF a \in kReserved THEN a + 2 ELSE a) = (IF b \in kReserved THEN b + 2 ELSE b)
    BY <1>2, <1>3 DEF a, b
  <1>5. \/ a \in kReserved /\ b = a + 2
        \/ b \in kReserved /\ a = b + 2
    BY <1>1, <1>4
  <1>6. CASE a \in kReserved /\ b = a + 2
    <2>1. {a, b} = {a, a + 2}
      BY <1>6
    <2> QED
      BY <1>6, <2>1 DEF blindSpot, a, b
  <1>7. CASE b \in kReserved /\ a = b + 2
    <2>1. {a, b} = {b, b + 2}
      BY <1>7
    <2> QED
      BY <1>7, <2>1 DEF blindSpot, a, b
  <1> QED
    BY <1>5, <1>6, <1>7

\* Where the bytes of a payload are in its frame.
LEMMA FrameFacts ==
    ASSUME NEW p \in Seq(Byte)
    PROVE  LET f == encode(p) IN
           /\ f \in Seq(Byte) /\ Len(f) = Len(p) + 3
           /\ f[1] = STX /\ f[Len(p) + 3] = ETX
           /\ f[Len(p) + 2] = computeChecksum(p)
           /\ \A i \in 1..Len(p) : f[i + 1] = p[i]
  <1>1. computeChecksum(p) \in Byte
    BY ChecksumType
  <1>2. STX \in Byte /\ ETX \in Byte
    BY DEF STX, ETX, Byte
  <1>3. <<STX>> \o p \in Seq(Byte) /\ <<computeChecksum(p), ETX>> \in Seq(Byte)
    BY <1>1, <1>2
  <1> QED
    BY <1>1, <1>2, <1>3 DEF encode

\* What decode lets through has the checksum it carries.
LEMMA DecodeFacts ==
    ASSUME NEW f \in Seq(Byte), decode(f) # Null
    PROVE  LET q == decode(f) IN
           /\ q \in Seq(Byte) /\ Len(q) = Len(f) - 3
           /\ \A i \in 1..Len(q) : q[i] = f[i + 1]
           /\ f[1] = STX /\ computeChecksum(q) = f[Len(f) - 1]
  <1> DEFINE q == SubSeq(f, 2, Len(f) - 2)
  <1>1. ~(Len(f) < 4) /\ f[1] = STX /\ decode(f) = q /\ computeChecksum(q) = f[Len(f) - 1]
    BY DEF decode
  <1>2. Len(f) \in Nat /\ Len(f) >= 4
    BY <1>1
  <1>3. q \in Seq(Byte) /\ Len(q) = Len(f) - 3
    BY <1>2
  <1>4. \A i \in 1..Len(q) : q[i] = f[i + 1]
    BY <1>2, <1>3
  <1> HIDE DEF q
  <1> QED
    BY <1>1, <1>3, <1>4

\* Payloads with the same bytes are the same.
LEMMA SameBytes ==
    ASSUME NEW p \in Seq(Byte), NEW q \in Seq(Byte), Len(q) = Len(p),
           \A i \in 1..Len(p) : q[i] = p[i]
    PROVE  q = p
  BY SMT

\* A frame that arrives unaltered yields its payload.
LEMMA DecodeInvertsEncode ==
    ASSUME NEW p \in Seq(Byte), decode(encode(p)) # Null
    PROVE  decode(encode(p)) = p
  <1> DEFINE q == decode(encode(p))
  <1>1. q \in Seq(Byte) /\ Len(q) = Len(p) /\ \A i \in 1..Len(p) : q[i] = p[i]
    <2> DEFINE e == encode(p)
    <2>1. /\ e \in Seq(Byte) /\ Len(e) = Len(p) + 3
          /\ \A i \in 1..Len(p) : e[i + 1] = p[i]
      BY FrameFacts, Zenon
    <2>2. /\ q \in Seq(Byte) /\ Len(q) = Len(e) - 3
          /\ \A i \in 1..Len(q) : q[i] = e[i + 1]
      BY <2>1, DecodeFacts, Zenon
    <2> HIDE DEF e, q
    <2> QED
      BY <2>1, <2>2
  <1> HIDE DEF q
  <1> QED
    BY <1>1, SameBytes DEF q

\* Whatever single byte of a frame the line alters, start, payload, checksum or end,
\* decode refuses the frame, or returns what was sent, or one of the two sums is a
\* control byte that the checksum moves onto the other: for payloads of every length
\* (S21Frame::decode and computeChecksum).
THEOREM ChecksumCatches ==
    ASSUME NEW p \in Seq(Byte), NEW i \in 1..(Len(p) + 3), NEW b \in Byte
    PROVE  LET q == decode([encode(p) EXCEPT ![i] = b]) IN
           q = Null \/ q = p \/ blindSpot(q, p)
  <1> DEFINE e == encode(p)
             f == [e EXCEPT ![i] = b]
             q == decode(f)
  <1> SUFFICES ASSUME q # Null, q # p PROVE blindSpot(q, p)
    OBVIOUS
  <1>1. /\ e \in Seq(Byte) /\ Len(e) = Len(p) + 3
        /\ e[1] = STX /\ e[Len(p) + 2] = computeChecksum(p)
        /\ \A j \in 1..Len(p) : e[j + 1] = p[j]
    BY FrameFacts
  <1> HIDE DEF e
  <1>2. f \in Seq(Byte) /\ Len(f) = Len(p) + 3 /\ \A j \in 1..(Len(p) + 3) : j # i => f[j] = e[j]
    BY <1>1
  <1> HIDE DEF f
  <1>3. /\ q \in Seq(Byte) /\ Len(q) = Len(p)
        /\ \A j \in 1..Len(p) : q[j] = f[j + 1]
        /\ computeChecksum(q) = f[Len(p) + 2]
    BY <1>2, DecodeFacts
  <1> HIDE DEF q
  <1>4. ASSUME NEW j \in 1..Len(p), j + 1 # i
        PROVE  q[j] = p[j]
    <2>1. j + 1 \in 1..(Len(p) + 3)
      OBVIOUS
    <2>2. q[j] = f[j + 1] /\ f[j + 1] = e[j + 1] /\ e[j + 1] = p[j]
      BY <1>1, <1>2, <1>3, <1>4, <2>1
    <2> QED
      BY <2>2
  <1>5. i - 1 \in 1..Len(p) /\ q[i - 1] # p[i - 1]
    <2>1. PICK j \in 1..Len(p) : q[j] # p[j]
      BY <1>3, SameBytes, Zenon
    <2>2. j + 1 = i
      BY <1>4, <2>1, Zenon
    <2> QED
      BY <2>1, <2>2
  <1>6. computeChecksum(q) = computeChecksum(p)
    <2>1. Len(p) + 2 # i /\ Len(p) + 2 \in 1..(Len(p) + 3)
      BY <1>5
    <2> QED
      BY <1>1, <1>2, <1>3, <2>1
  <1>7. byteSum(q) # byteSum(p)
    <2>1. \A j \in 1..Len(p) : j # i - 1 => q[j] = p[j]
      BY <1>4
    <2> QED
      BY <1>3, <1>5, <2>1, OneByteShows
  <1> QED
    BY <1>3, <1>6, <1>7, ChecksumShows
-----------------------------------------------------------------------------
(* The inductive invariant of the manager.                                 *)

\* A command that has not been answered yet has failed at most kThreshold times.
CapabilityOK ==
    /\ capability \in [Tracked -> [status : {"Unknown", "Supported", "Unsupported"},
                                   failureCount : 0..(kThreshold + 1)]]
    /\ \A s \in Tracked : capability[s].status = "Unknown" =>
                             capability[s].failureCount <= kThreshold

CacheOK ==
    /\ DOMAIN cache = Cached
    /\ \A s \in Cached : cache[s] # Null => /\ DOMAIN cache[s] = {"value", "left"}
                                            /\ cache[s].left \in 0..MaxAge
    /\ cache["F1"] # Null => cache["F1"].value \in Operations

\* A call asks what its function has a use for, sends whole operations only, and has
\* no exchange under way for a command that has been given up.
CallOK ==
    call # Null =>
        /\ DOMAIN call = {"fn", "arg", "want", "held", "elapsed"}
        /\ call.fn \in DOMAIN firstSource
        /\ call.want \in Requests \cup {"D1"}
        /\ call.fn \in DOMAIN argument => call.arg \in argument[call.fn]
        /\ call.fn = "setOperation" => call.want = "D1"
        /\ call.want = "D1" => call.held \in Operations
        /\ call.elapsed # Null => call.elapsed \in Nat /\ ~isUnsupported(call.want)

ManagerInv ==
    /\ mIsReady \in BOOLEAN /\ clean \in BOOLEAN /\ scenario \in Scenarios
    /\ unit \in [op : Operations, env : {Env}]
    /\ CapabilityOK /\ CacheOK /\ CallOK /\ FrameErrorsCaught
-----------------------------------------------------------------------------
(* Bytes and operations.                                                   *)

\* The source a call asks first.
LEMMA SourceFacts ==
    \A fn \in DOMAIN firstSource :
        /\ firstSource[fn] \in Requests \cup {"D1"}
        /\ firstSource[fn] = "D1" <=> fn = "setOperation"
  BY DEF firstSource, Requests, responseCode

\* The setpoint conversions stay with integers and bytes.
LEMMA SetPointTypes ==
    ASSUME NEW t \in Int
    PROVE  setPointToTempByte(t) \in Byte /\ quantised(t) \in Int
  <1>1. CDiv(t - 1800, 50) \in Int
    BY DEF CDiv
  <1>2. \A n \in Int : n % 256 \in Byte
    BY DEF Byte
  <1>3. setPointToTempByte(t) \in Byte
    BY <1>1, <1>2 DEF setPointToTempByte, TempByteBase
  <1>4. setPointToTempByte(t) \in Int
    BY <1>3 DEF Byte
  <1> QED
    BY <1>3, <1>4 DEF quantised, tempByteToSetPoint, TempByteBase

\* What the unit makes of an operation is one.
LEMMA AsUnitType ==
    ASSUME NEW op \in Operations
    PROVE  asUnit(op) \in Operations
  BY SetPointTypes DEF asUnit, Operations

\* What F1 decodes to is an operation, whatever is read past the end of the answer.
LEMMA OperationDecoded ==
    ASSUME NEW r \in Seq(Byte) \cup {Null}, NEW past \in Byte, decoded("F1", r, past) # Null
    PROVE  decoded("F1", r, past) \in Operations
  <1>1. r # Null /\ decoded("F1", r, past) = operationOf(r, past)
    BY DEF decoded
  <1>2. \A i \in Nat : at(r, i, past) \in Byte
    BY <1>1 DEF at
  <1>3. \A b \in Byte : int16(tempByteToSetPoint(b)) \in Int
    BY DEF int16, tempByteToSetPoint, TempByteBase, Byte
  <1>4. /\ at(r, 3, past) \in Byte /\ at(r, 5, past) \in Byte
        /\ int16(tempByteToSetPoint(at(r, 4, past))) \in Int
    BY <1>2, <1>3
  <1>5. \A on \in BOOLEAN, m \in Byte, t \in Int, f \in Byte :
           [onOff |-> on, mode |-> m, setPoint |-> t, fanMode |-> f] \in Operations
    BY DEF Operations
  <1>6. operationOf(r, past) \in Operations
    BY <1>4, <1>5, Zenon DEF operationOf
  <1> QED
    BY <1>1, <1>6

\* A response begins with two bytes.
LEMMA CodeBytes ==
    ASSUME NEW s \in Requests
    PROVE  responseCode[s] \in Seq(Byte)
  <1>1. \A a, b \in Byte : <<a, b>> \in Seq(Byte)
    OBVIOUS
  <1>2. {71, 83, 49, 72, 97, 101, 57, 56, 89, 122} \subseteq Byte
    BY DEF Byte
  <1>3. /\ <<71, 49>> \in Seq(Byte) /\ <<83, 72>> \in Seq(Byte) /\ <<83, 97>> \in Seq(Byte)
        /\ <<83, 101>> \in Seq(Byte) /\ <<71, 57>> \in Seq(Byte) /\ <<83, 71>> \in Seq(Byte)
        /\ <<71, 56>> \in Seq(Byte) /\ <<71, 89>> \in Seq(Byte) /\ <<83, 122>> \in Seq(Byte)
    BY <1>1, <1>2
  <1>4. /\ responseCode["F1"] \in Seq(Byte) /\ responseCode["RH"] \in Seq(Byte)
        /\ responseCode["Ra"] \in Seq(Byte) /\ responseCode["Re"] \in Seq(Byte)
        /\ responseCode["F9"] \in Seq(Byte) /\ responseCode["RG"] \in Seq(Byte)
        /\ responseCode["F8"] \in Seq(Byte) /\ responseCode["FY"] \in Seq(Byte)
        /\ responseCode["RzB2"] \in Seq(Byte)
    BY <1>3 DEF responseCode
  <1>5. s \in {"F1", "RH", "Ra", "Re", "F9", "RG", "F8", "FY", "RzB2"}
    BY DEF Requests, responseCode
  <1> QED
    BY <1>4, <1>5

\* The digits of a reading and its sign are bytes.
LEMMA ReadingBytes ==
    /\ \A n \in Int : reversedDigits(n) \in Seq(Byte)
    /\ \A t \in Int : sensorTemp(t) \in Seq(Byte)
  <1>1. \A n \in Int : zero + (n % 10) \in Byte
    BY DEF zero, Byte
  <1>2. \A n \in Int : reversedDigits(n) \in Seq(Byte)
    <2> SUFFICES ASSUME NEW n \in Int PROVE reversedDigits(n) \in Seq(Byte)
      OBVIOUS
    <2>1. n \div 10 \in Int /\ n \div 100 \in Int
      OBVIOUS
    <2>2. /\ zero + (n % 10) \in Byte /\ zero + ((n \div 10) % 10) \in Byte
          /\ zero + ((n \div 100) % 10) \in Byte
      BY <1>1, <2>1
    <2> QED
      BY <2>2 DEF reversedDigits
  <1>3. \A t \in Int : sensorTemp(t) \in Seq(Byte)
    <2>1. <<43>> \in Seq(Byte) /\ <<45>> \in Seq(Byte)
      BY DEF Byte
    <2>2. \A t \in Int : t \div 10 \in Int /\ (-t) \div 10 \in Int
      OBVIOUS
    <2> QED
      BY <1>2, <2>1, <2>2 DEF sensorTemp
  <1> QED
    BY <1>2, <1>3

\* A unit answers with bytes.
LEMMA ResponseBytes ==
    ASSUME NEW u \in [op : Operations, env : {Env}], NEW s \in Requests
    PROVE  responses(s, u) \subseteq Seq(Byte)
  <1> DEFINE code == responseCode[s]
  <1>1. code \in Seq(Byte)
    BY CodeBytes
  <1>2. /\ \A x \in Seq(Byte) : code \o x \in Seq(Byte)
        /\ \A a \in Byte : <<a>> \in Seq(Byte)
        /\ \A a, b, c \in Byte : <<a, b, c>> \in Seq(Byte)
        /\ \A a, b \in Byte : <<a, b>> \in Seq(Byte)
        /\ \A a, b, c, d \in Byte : <<a, b, c, d>> \in Seq(Byte)
        /\ \A a, b, c, d, e, f \in Byte : <<a, b, c, d, e, f>> \in Seq(Byte)
    BY <1>1
  <1>3. /\ u.op.mode \in Byte /\ u.op.fanMode \in Byte
        /\ setPointToTempByte(u.op.setPoint) \in Byte
        /\ u.env = Env
    BY SetPointTypes DEF Operations
  <1>4. /\ {48, 49, 50, 51, 56, 66, 67} \subseteq Byte /\ AutoFan \in Byte
        /\ zero = 48
    BY DEF Byte, AutoFan, zero
  <1>5. /\ Env.indoor \in Int /\ Env.outdoor \in Int /\ Env.humidity \in Int
        /\ 128 + CDiv(Env.indoor, 50) \in Byte /\ 128 + CDiv(Env.outdoor, 50) \in Byte
        /\ zero + Env.humidity \in Byte
    BY UnitAssumption
  <1> HIDE DEF code
  <1>6. CASE s = "F1"
    <2>1. \A fan \in Byte : code \o <<IF u.op.onOff THEN 49 ELSE zero, u.op.mode,
                                      setPointToTempByte(u.op.setPoint), fan>> \in Seq(Byte)
      BY <1>2, <1>3, <1>4
    <2> QED
      BY <1>3, <1>4, <1>6, <2>1 DEF responses, code
  <1>7. CASE s = "RG"
    BY <1>2, <1>3, <1>7 DEF responses, code
  <1>8. CASE s \in {"RH", "Ra", "Re"}
    <2>1. /\ sensorTemp(Env.indoor) \in Seq(Byte) /\ sensorTemp(Env.outdoor) \in Seq(Byte)
          /\ reversedDigits(Env.humidity) \in Seq(Byte)
      BY <1>5, ReadingBytes
    <2> QED
      BY <1>2, <1>3, <1>8, <2>1 DEF responses, code
  <1>9. CASE s = "F9"
    <2> DEFINE x == <<128 + CDiv(Env.indoor, 50), 128 + CDiv(Env.outdoor, 50), zero + Env.humidity>>
    <2>1. x \in Seq(Byte)
      BY <1>2, <1>5, Zenon
    <2>2. responses(s, u) = {code \o x}
      BY <1>3, <1>9 DEF responses, code
    <2> HIDE DEF x
    <2> QED
      BY <1>2, <2>1, <2>2
  <1>10. CASE s = "F8"
    <2>1. zero + 2 \in Byte /\ zero + 1 \in Byte /\ zero \in Byte
      BY DEF zero, Byte
    <2> QED
      BY <1>2, <1>10, <2>1 DEF responses, code
  <1>11. CASE s = "FY"
    <2>1. zero + 3 \in Byte /\ zero \in Byte
      BY DEF zero, Byte
    <2> QED
      BY <1>2, <1>11, <2>1 DEF responses, code
  <1>12. CASE s = "RzB2"
    <2> DEFINE x == <<66, 50, IF u.op.onOff THEN 67 ELSE 56, zero>>
    <2>1. x \in Seq(Byte)
      BY <1>2, <1>4
    <2>2. responses(s, u) = {code \o x}
      BY <1>12 DEF responses, code
    <2> HIDE DEF x
    <2> QED
      BY <1>2, <2>1, <2>2
  <1>13. Requests = {"F1", "RH", "Ra", "Re", "F9", "RG", "F8", "FY", "RzB2"}
    BY DEF Requests, responseCode
  <1> QED
    BY <1>6, <1>7, <1>8, <1>9, <1>10, <1>11, <1>12, <1>13
-----------------------------------------------------------------------------
(* Exchanges.                                                              *)

\* A frame with one byte altered is a frame of bytes.
LEMMA AlteredFacts ==
    ASSUME NEW p \in Seq(Byte), NEW f \in altered(encode(p))
    PROVE  /\ f \in Seq(Byte)
           /\ \E i \in 1..(Len(p) + 3), b \in Byte : f = [encode(p) EXCEPT ![i] = b]
  <1> DEFINE e == encode(p)
  <1>1. e \in Seq(Byte) /\ Len(e) = Len(p) + 3
    BY FrameFacts
  <1> HIDE DEF e
  <1>2. PICK i \in DOMAIN e, n \in Noise : f = [e EXCEPT ![i] = (e[i] + n) % 256]
    BY DEF altered, e
  <1>3. i \in 1..(Len(p) + 3) /\ e[i] \in Byte
    BY <1>1
  <1>4. /\ \A b \in Byte : b \in Int
        /\ \A a, m \in Int : (a + m) % 256 \in Byte
    BY DEF Byte
  <1>5. (e[i] + n) % 256 \in Byte
    BY <1>3, <1>4, UnitAssumption
  <1>6. f \in Seq(Byte)
    BY <1>1, <1>2, <1>3, <1>5
  <1> QED
    BY <1>2, <1>3, <1>5, <1>6 DEF e

\* Whatever is received for a request is bytes, and what was sent unless the checksum
\* is blind to the difference.
LEMMA ExchangeFacts ==
    ASSUME unit \in [op : Operations, env : {Env}], NEW s \in Requests, NEW x \in exchanges(s)
    PROVE  x.received # Null => /\ x.received \in Seq(Byte)
                                /\ x.received = x.sent \/ blindSpot(x.received, x.sent)
  <1> DEFINE known == s \in scenario.supports \/ s \notin Tracked
             sent  == IF known THEN responses(s, unit) ELSE Garbage
  <1>1. sent \subseteq Seq(Byte)
    BY ResponseBytes, UnitAssumption
  <1> HIDE DEF known
  <1>2. \/ \E p \in sent : x = [sent |-> p, received |-> decode(encode(p))]
        \/ x = Silence
        \/ \E p \in sent : \E f \in altered(encode(p)) : x = [sent |-> p, received |-> decode(f)]
    BY DEF exchanges, known
  <1> HIDE DEF sent
  <1>3. ASSUME NEW p \in sent, x = [sent |-> p, received |-> decode(encode(p))],
               x.received # Null
        PROVE  x.received \in Seq(Byte) /\ x.received = x.sent
    BY <1>1, <1>3, DecodeInvertsEncode
  <1>4. ASSUME NEW p \in sent, NEW f \in altered(encode(p)), x.received # Null,
               x = [sent |-> p, received |-> decode(f)]
        PROVE  /\ x.received \in Seq(Byte)
               /\ x.received = x.sent \/ blindSpot(x.received, x.sent)
    <2>1. p \in Seq(Byte) /\ x.received = decode(f) /\ x.sent = p
      BY <1>1, <1>4
    <2>2. decode(f) \in Seq(Byte)
      BY <1>4, <2>1, AlteredFacts, DecodeFacts
    <2>3. PICK i \in 1..(Len(p) + 3), b \in Byte : f = [encode(p) EXCEPT ![i] = b]
      BY <2>1, AlteredFacts
    <2>4. decode(f) = Null \/ decode(f) = p \/ blindSpot(decode(f), p)
      BY <2>1, <2>3, ChecksumCatches
    <2> QED
      BY <1>4, <2>1, <2>2, <2>4
  <1> QED
    BY <1>2, <1>3, <1>4 DEF Silence
-----------------------------------------------------------------------------
(* How a call goes on.                                                     *)

\* Asking the next source keeps the call in order.
LEMMA AskFacts ==
    ASSUME CallOK, call # Null, NEW source \in Requests \cup {"D1"}, NEW held,
           source = "D1" => held \in Operations,
           call.fn = "setOperation" => source = "D1",
           Ask(source, held)
    PROVE  CallOK' /\ mIsReady' = mIsReady
  <1>1. /\ DOMAIN call' = DOMAIN call
        /\ call'.fn = call.fn /\ call'.arg = call.arg
        /\ call'.want = source /\ call'.held = held /\ call'.elapsed = Null
    BY DEF Ask, CallOK
  <1> QED
    BY <1>1 DEF Ask, CallOK

\* A setter turns the operation it read into a whole one.
LEMMA SetterFacts ==
    ASSUME CallOK, call # Null, call.fn \in DOMAIN argument, call.want = "F1",
           NEW v \in Operations
    PROVE  [v EXCEPT ![settable[call.fn]] = call.arg] \in Operations
  <1>1. call.fn \in {"setOnOff", "setSetpoint", "setFanMode"} /\ call.arg \in argument[call.fn]
    BY DEF CallOK, argument
  <1>2. \A c \in Commands : c.onOff \in BOOLEAN /\ c.setPoint \in Int /\ c.fanMode \in Byte
    BY UnitAssumption DEF Operations
  <1>3. CASE call.fn = "setOnOff"
    <2>1. call.arg \in BOOLEAN /\ settable[call.fn] = "onOff"
      BY <1>1, <1>2, <1>3 DEF argument, settable
    <2> QED
      BY <2>1 DEF Operations
  <1>4. CASE call.fn = "setSetpoint"
    <2>1. call.arg \in Int /\ settable[call.fn] = "setPoint"
      BY <1>1, <1>2, <1>4 DEF argument, settable
    <2> QED
      BY <2>1 DEF Operations
  <1>5. CASE call.fn = "setFanMode"
    <2>1. call.arg \in Byte /\ settable[call.fn] = "fanMode"
      BY <1>1, <1>2, <1>5 DEF argument, settable
    <2> QED
      BY <2>1 DEF Operations
  <1> QED
    BY <1>1, <1>3, <1>4, <1>5

\* However a call goes on, it stays in order.
LEMMA GoesOnFacts ==
    ASSUME CallOK, call # Null, mIsReady \in BOOLEAN, NEW v,
           call.want = "F1" /\ v # Null => v \in Operations,
           GoesOn(v)
    PROVE  CallOK' /\ mIsReady' \in BOOLEAN
  <1>1. ASSUME NEW value, Return(value)
        PROVE  CallOK'
    BY <1>1 DEF Return, CallOK
  <1>2. {"FY", "RG", "F1", "F9"} \subseteq Requests
    BY DEF Requests, responseCode
  <1>3. CASE InitGoesOn(v)
    <2>1. CASE Ask("FY", Null)
      BY <1>2, <1>3, <2>1, AskFacts DEF InitGoesOn
    <2>2. CASE mIsReady' = (v # Null \/ call.want = "FY") /\ Return(mIsReady')
      BY <1>1, <2>2
    <2> QED
      BY <1>3, <2>1, <2>2 DEF InitGoesOn
  <1>4. CASE getOperationGoesOn(v)
    BY <1>1, <1>2, <1>4, AskFacts DEF getOperationGoesOn
  <1>5. CASE accessorGoesOn(v)
    <2>1. call.fn # "setOperation"
      BY <1>5 DEF accessorGoesOn, accessors
    <2> QED
      BY <1>1, <1>2, <1>5, <2>1, AskFacts DEF accessorGoesOn
  <1>6. CASE sensorGoesOn(v)
    <2>1. call.fn # "setOperation"
      BY <1>6 DEF sensorGoesOn, coarse
    <2> QED
      BY <1>1, <1>2, <1>6, <2>1, AskFacts DEF sensorGoesOn
  <1>7. CASE setterGoesOn(v)
    <2>1. CASE call.want = "F1" /\ v # Null
      <3> DEFINE op == [v EXCEPT ![settable[call.fn]] = call.arg]
      <3>1. op \in Operations /\ Ask("D1", op)
        BY <1>7, <2>1, SetterFacts DEF setterGoesOn
      <3> HIDE DEF op
      <3> QED
        BY <3>1, AskFacts
    <2>2. CASE ~(call.want = "F1" /\ v # Null)
      BY <1>1, <1>7, <2>2 DEF setterGoesOn
    <2> QED
      BY <2>1, <2>2
  <1> QED
    BY <1>3, <1>4, <1>5, <1>6, <1>7 DEF GoesOn
-----------------------------------------------------------------------------
(* The manager keeps its invariant.                                        *)

\* Every state the manager starts in satisfies the invariant.
LEMMA ManagerInitially == ManagerInit => ManagerInv
  <1> SUFFICES ASSUME ManagerInit PROVE ManagerInv
    OBVIOUS
  <1>1. CapabilityOK
    BY CacheAssumption DEF ManagerInit, CapabilityOK
  <1>2. CacheOK
    BY DEF ManagerInit, CacheOK, Cached
  <1>3. unit \in [op : Operations, env : {Env}]
    BY UnitAssumption DEF ManagerInit
  <1> QED
    BY <1>1, <1>2, <1>3 DEF ManagerInit, ManagerInv, CallOK, FrameErrorsCaught

\* An answer, or its absence, is recorded for a command that is not given up.
LEMMA RecordFacts ==
    ASSUME CapabilityOK, NEW s, NEW value, ~isUnsupported(s), record(s, value)
    PROVE  /\ CapabilityOK'
           /\ \A r \in Tracked : capability[r].status # "Unknown" =>
                                    capability'[r].status = capability[r].status
  <1>1. CASE s \notin Tracked
    BY <1>1 DEF record, CapabilityOK
  <1>2. CASE s \in Tracked
    <2> DEFINE c == IF value # Null THEN recordSuccess(s) ELSE recordFailure(s)
    <2>1. capability' = [capability EXCEPT ![s] = c]
      BY <1>2 DEF record
    <2>2. /\ capability[s].status \in {"Unknown", "Supported"}
          /\ capability[s].failureCount \in 0..(kThreshold + 1)
          /\ capability[s].status = "Unknown" => capability[s].failureCount <= kThreshold
      BY <1>2 DEF CapabilityOK, isUnsupported
    <2>3. /\ c \in [status : {"Unknown", "Supported", "Unsupported"},
                    failureCount : 0..(kThreshold + 1)]
          /\ c.status = "Unknown" => c.failureCount <= kThreshold
          /\ capability[s].status = "Supported" => c.status = "Supported"
      <3>1. CASE value # Null
        BY <3>1, CacheAssumption DEF recordSuccess
      <3>2. CASE value = Null /\ capability[s].status = "Supported"
        BY <1>2, <3>2 DEF recordFailure, CapabilityOK
      <3>3. CASE value = Null /\ capability[s].status = "Unknown"
        BY <2>2, <3>3, CacheAssumption DEF recordFailure
      <3> QED
        BY <2>2, <3>1, <3>2, <3>3
    <2> HIDE DEF c
    <2> QED
      BY <1>2, <2>1, <2>2, <2>3 DEF CapabilityOK
  <1> QED
    BY <1>1, <1>2

\* What is stored serves for at most MaxAge, and F1 holds an operation.
LEMMA StoreFacts ==
    ASSUME CacheOK, NEW s, NEW value, NEW age \in Nat, store(s, value, age),
           s = "F1" /\ value # Null => value \in Operations
    PROVE  CacheOK'
  <1>1. CASE s \in Cached /\ value # Null
    <2>1. cache' = [cache EXCEPT ![s] = entry(value, age)]
      BY <1>1 DEF store
    <2>2. entry(value, age) # Null => /\ entry(value, age) = [value |-> value, left |-> MaxAge - age]
                                      /\ MaxAge - age \in 0..MaxAge
      BY CacheAssumption DEF entry
    <2> QED
      BY <1>1, <2>1, <2>2 DEF CacheOK, Cached
  <1>2. CASE ~(s \in Cached /\ value # Null)
    BY <1>2 DEF store, CacheOK
  <1> QED
    BY <1>1, <1>2

\* Leaving an operation for another keeps the unit's type.
LEMMA LeaveFacts ==
    ASSUME unit \in [op : Operations, env : {Env}], NEW op \in Operations, Leave(op)
    PROVE  unit' \in [op : Operations, env : {Env}]
  BY DEF Leave

\* A call that starts is in order.
LEMMA BeginFacts ==
    ASSUME ManagerInv, NEW fn \in scenario.calls, Begin(fn)
    PROVE  CallOK'
  <1>1. fn \in DOMAIN firstSource
    BY UnitAssumption DEF ManagerInv
  <1>2. CASE call' = call
    BY <1>2 DEF Begin, CallOK
  <1>3. ASSUME NEW arg \in arguments(fn),
               call' = [fn |-> fn, arg |-> arg, want |-> firstSource[fn],
                        held |-> IF fn = "setOperation" THEN arg ELSE Null, elapsed |-> Null]
        PROVE  CallOK'
    <2>1. fn \in DOMAIN argument => arg \in argument[fn]
      BY DEF arguments
    <2>2. fn = "setOperation" => arg \in Operations
      BY <2>1, UnitAssumption DEF argument
    <2>3. /\ DOMAIN call' = {"fn", "arg", "want", "held", "elapsed"}
          /\ call'.fn = fn /\ call'.arg = arg /\ call'.want = firstSource[fn]
          /\ fn = "setOperation" => call'.held = arg
          /\ call'.elapsed = Null
      BY <1>3
    <2> QED
      BY <1>1, <2>1, <2>2, <2>3, SourceFacts DEF CallOK
  <1> QED
    BY <1>2, <1>3 DEF Begin

\* Every step keeps the invariant.
LEMMA ManagerStep == ManagerInv /\ [ManagerNext]_vars => ManagerInv'
  <1> SUFFICES ASSUME ManagerInv, [ManagerNext]_vars PROVE ManagerInv'
    OBVIOUS
  <1> DEFINE Unit == [op : Operations, env : {Env}]
  <1>1. /\ UNCHANGED <<call, capability>> => CallOK'
        /\ UNCHANGED cache => CacheOK'
        /\ UNCHANGED capability => CapabilityOK'
        /\ UNCHANGED wire => FrameErrorsCaught'
        /\ wire' = Null => FrameErrorsCaught'
    BY DEF ManagerInv, CallOK, CacheOK, CapabilityOK, FrameErrorsCaught, isUnsupported
  <1>2. ASSUME NEW fn \in scenario.calls, Begin(fn)
        PROVE  ManagerInv'
    BY <1>1, <1>2, BeginFacts DEF Begin, ManagerInv
  <1>3. CASE Hit
    <2>1. call # Null /\ (call.want = "F1" => cache[call.want].value \in Operations)
      BY <1>3 DEF Hit, Asking, fresh, ManagerInv, CacheOK
    <2>2. CallOK' /\ mIsReady' \in BOOLEAN
      BY <1>3, <2>1, GoesOnFacts DEF Hit, ManagerInv
    <2> QED
      BY <1>1, <1>3, <2>2 DEF Hit, ManagerInv
  <1>4. CASE Refuse
    <2>1. CallOK' /\ mIsReady' \in BOOLEAN
      BY <1>4, GoesOnFacts DEF Refuse, Asking, ManagerInv
    <2> QED
      BY <1>1, <1>4, <2>1 DEF Refuse, ManagerInv
  <1>5. CASE Transmit
    <2>1. CallOK'
      <3>1. call # Null /\ call' = [call EXCEPT !.elapsed = 0] /\ capability' = capability
        BY <1>5 DEF Transmit, Asking
      <3>2. ~isUnsupported(call.want)
        BY <1>5 DEF Transmit
      <3>3. /\ DOMAIN call' = DOMAIN call /\ call'.fn = call.fn /\ call'.arg = call.arg
            /\ call'.want = call.want /\ call'.held = call.held /\ call'.elapsed = 0
        BY <3>1 DEF ManagerInv, CallOK
      <3> QED
        BY <3>1, <3>2, <3>3 DEF ManagerInv, CallOK, isUnsupported
    <2> QED
      BY <1>1, <1>5, <2>1 DEF Transmit, ManagerInv
  <1>6. CASE Response
    <2>1. /\ call # Null /\ call.want \in Requests /\ call.elapsed \in Nat
          /\ ~isUnsupported(call.want)
      BY <1>6 DEF Response, ManagerInv, CallOK
    <2>2. PICK x \in exchanges(call.want), past \in PastEnd :
             LET v == decoded(call.want, x.received, past)
             IN  /\ wire' = IF x.received = Null THEN Null ELSE x
                 /\ record(call.want, v)
                 /\ store(call.want, v, call.elapsed)
                 /\ GoesOn(v)
      BY <1>6 DEF Response
    <2> DEFINE v == decoded(call.want, x.received, past)
    <2>3. x.received # Null => /\ x.received \in Seq(Byte)
                               /\ x.received = x.sent \/ blindSpot(x.received, x.sent)
      BY <2>1, ExchangeFacts DEF ManagerInv
    <2>4. call.want = "F1" /\ v # Null => v \in Operations
      BY <2>3, OperationDecoded, UnitAssumption
    <2> HIDE DEF v
    <2>5. record(call.want, v) /\ store(call.want, v, call.elapsed) /\ GoesOn(v)
      BY <2>2 DEF v
    <2>6. FrameErrorsCaught'
      BY <2>2, <2>3 DEF FrameErrorsCaught
    <2>7. CapabilityOK'
      BY <2>1, <2>5, RecordFacts DEF ManagerInv
    <2>8. CacheOK'
      BY <2>1, <2>4, <2>5, StoreFacts DEF ManagerInv
    <2>9. CallOK' /\ mIsReady' \in BOOLEAN
      BY <2>1, <2>4, <2>5, GoesOnFacts DEF ManagerInv
    <2> QED
      BY <1>6, <2>6, <2>7, <2>8, <2>9 DEF Response, ManagerInv
  <1>7. CASE Command
    <2>1. call # Null /\ call.want = "D1" /\ call.held \in Operations
      BY <1>7 DEF Command, ManagerInv, CallOK
    <2>2. unit' \in Unit
      BY <1>7, <2>1, AsUnitType, LeaveFacts DEF Command, ManagerInv
    <2>3. CacheOK'
      <3>1. 0 \in Nat
        OBVIOUS
      <3> QED
        BY <1>1, <1>7, <2>1, <3>1, StoreFacts DEF Command, ManagerInv
    <2>4. GoesOn(TRUE) \/ GoesOn(Null)
      BY <1>7 DEF Command
    <2>5. CallOK' /\ mIsReady' \in BOOLEAN
      BY <2>1, <2>4, GoesOnFacts DEF ManagerInv
    <2> QED
      BY <1>1, <1>7, <2>2, <2>3, <2>5 DEF Command, ManagerInv
  <1>8. CASE Tick
    <2>1. CacheOK'
      <3>1. ASSUME NEW s \in Cached, cache'[s] # Null
            PROVE  /\ DOMAIN cache'[s] = {"value", "left"} /\ cache'[s].left \in 0..MaxAge
                   /\ cache[s] # Null /\ cache'[s].value = cache[s].value
        <4>1. cache'[s] = older(cache[s], 1)
          BY <1>8 DEF Tick
        <4>2. /\ cache[s] # Null /\ DOMAIN cache[s] = {"value", "left"}
              /\ cache[s].left \in 0..MaxAge /\ ~(cache[s].left < 1)
              /\ cache'[s] = [cache[s] EXCEPT !.left = cache[s].left - 1]
          BY <3>1, <4>1 DEF older, ManagerInv, CacheOK
        <4> QED
          BY <4>2, CacheAssumption
      <3>2. DOMAIN cache' = Cached /\ "F1" \in Cached
        BY <1>8 DEF Tick, Cached
      <3> QED
        BY <3>1, <3>2 DEF ManagerInv, CacheOK
    <2>2. CallOK'
      <3>1. CASE call = Null
        BY <1>1, <1>8, <3>1 DEF Tick
      <3>2. CASE call # Null
        <4>1. /\ call' = [call EXCEPT !.elapsed = call.elapsed + 1]
              /\ call.elapsed # Null /\ capability' = capability
          BY <1>8, <3>2 DEF Tick, Asking
        <4>2. /\ DOMAIN call' = DOMAIN call /\ call'.fn = call.fn /\ call'.arg = call.arg
              /\ call'.want = call.want /\ call'.held = call.held
              /\ call'.elapsed = call.elapsed + 1
          BY <3>2, <4>1 DEF ManagerInv, CallOK
        <4> QED
          BY <3>2, <4>1, <4>2 DEF ManagerInv, CallOK, isUnsupported
      <3> QED
        BY <3>1, <3>2
    <2> QED
      BY <1>1, <1>8, <2>1, <2>2 DEF Tick, ManagerInv
  <1>9. CASE PanelChange
    <2>1. unit' \in Unit
      BY <1>9, LeaveFacts, UnitAssumption DEF PanelChange, ManagerInv
    <2> QED
      BY <1>1, <1>9, <2>1 DEF PanelChange, ManagerInv, managerVars
  <1>10. CASE LineChange
    BY <1>1, <1>10 DEF LineChange, ManagerInv, managerVars
  <1>11. CASE UNCHANGED vars
    BY <1>1, <1>11 DEF vars, ManagerInv, managerVars
  <1> QED
    BY <1>2, <1>3, <1>4, <1>5, <1>6, <1>7, <1>8, <1>9, <1>10, <1>11 DEF ManagerNext

LEMMA ManagerInvariant == ManagerSpec => []ManagerInv
  BY ManagerInitially, ManagerStep, PTL DEF ManagerSpec
-----------------------------------------------------------------------------
(* What the manager promises.                                              *)

\* The manager's state keeps its type: failure counters stop one past the
\* threshold, and no cache entry outlives cacheMaxAge.
THEOREM ManagerTypeCorrect == ManagerSpec => []ManagerTypeOK
  <1>1. ManagerInv => ManagerTypeOK
    BY DEF ManagerInv, ManagerTypeOK, CapabilityOK, CacheOK
  <1> QED
    BY <1>1, ManagerInvariant, PTL

\* Whatever single byte of a response line noise alters, and however long the
\* response is, what S21Frame::decode accepts is what the unit sent, except in the
\* blind spot of the reserved checksum byte.
THEOREM FrameErrorsCorrect == ManagerSpec => []FrameErrorsCaught
  <1>1. ManagerInv => FrameErrorsCaught
    BY DEF ManagerInv
  <1> QED
    BY <1>1, ManagerInvariant, PTL

\* CommandCapability's verdict on a command is final: one that answered is never
\* given up, and one that was given up is never tried again.
verdictStep ==
    \A s \in Tracked : capability[s].status # "Unknown" =>
                           capability'[s].status = capability[s].status

\* The record of what the unit answers never goes back on a verdict, in whatever
\* order the calls come and whatever happens on the line.
THEOREM VerdictFinal == ManagerSpec => [][verdictStep]_vars
  <1>1. ManagerInv /\ [ManagerNext]_vars => [verdictStep]_vars
    <2> SUFFICES ASSUME ManagerInv, ManagerNext PROVE verdictStep
      BY DEF vars, managerVars
    <2>1. UNCHANGED capability => verdictStep
      BY DEF verdictStep
    <2>2. CASE Response
      <3>1. ~isUnsupported(call.want)
        BY <2>2 DEF Response, ManagerInv, CallOK
      <3>2. \E v : record(call.want, v)
        BY <2>2 DEF Response
      <3> QED
        BY <3>1, <3>2, RecordFacts DEF ManagerInv, verdictStep
    <2>3. CASE ~Response
      BY <2>1, <2>3 DEF ManagerNext, Begin, Hit, Refuse, Transmit, Command, Tick,
                        PanelChange, LineChange, managerVars
    <2> QED
      BY <2>2, <2>3
  <1> QED
    BY <1>1, ManagerInvariant, PTL DEF ManagerSpec
-----------------------------------------------------------------------------
(* The age of readings.                                                    *)

\* The unit has the operation, or had it and it counts for so many ticks more.
recentlyHad(op, ticks) == op = unit.op \/ \E x \in recent : x.op = op /\ x.left >= ticks

\* F1 says this of an operation: Auto may stand for Quiet.
reads(v, a) ==
    /\ asUnit(v) = [a EXCEPT !.fanMode = v.fanMode]
    /\ v.fanMode = a.fanMode \/ (a.fanMode = Quiet /\ v.fanMode = AutoFan)

\* A reading is of such an operation ...
ReadingIs(v, ticks) == \E a : recentlyHad(a, ticks) /\ reads(v, a)

\* ... and so is a fan mode, which may come from RG.
FanIs(f, ticks) ==
    \E b : /\ recentlyHad(b, ticks)
           /\ f = b.fanMode \/ (b.fanMode = Quiet /\ f = AutoFan)

\* A setter has put its argument into such a reading.
SetterHolds(ticks) ==
    \E v \in Operations : /\ ReadingIs(v, ticks)
                          /\ call.held = [v EXCEPT ![settable[call.fn]] = call.arg]

\* The unit holds half degrees, and its past counts for at most the time that an entry
\* may serve and an exchange may take.
UnitOK ==
    /\ quantised(unit.op.setPoint) = unit.op.setPoint
    /\ recent \subseteq [op : Operations, left : 0..(MaxAge + ExchangeTicks)]

\* What is cached the unit had so recently that one more exchange may follow.
CacheIsRecent ==
    /\ cache["F1"] # Null => ReadingIs(cache["F1"].value, cache["F1"].left + ExchangeTicks)
    /\ cache["RG"] # Null => FanIs(cache["RG"].value, cache["RG"].left + ExchangeTicks)

\* How long the exchange of the call has been going on.
underWay == IF call.elapsed = Null THEN 0 ELSE call.elapsed

\* getOperation holds a reading of F1 that outlasts the exchange of RG, a setter one
\* that outlasts its command.
HeldIsRecent ==
    call # Null =>
        /\ underWay \in 0..ExchangeTicks
        /\ call.fn = "getOperation" =>
              /\ call.want \in {"F1", "RG"} /\ call.arg = Null
              /\ call.want = "F1" => call.held = Null
              /\ call.want = "RG" => /\ call.held \in Operations
                                     /\ ReadingIs(call.held, ExchangeTicks - underWay)
        /\ call.fn \in DOMAIN settable /\ call.want = "D1" =>
              SetterHolds(ExchangeTicks - underWay)

AgeInv == UnitOK /\ CacheIsRecent /\ HeldIsRecent

\* Rounding to half degrees twice is rounding once, and decoding gives it back.
LEMMA QuantisedTwice ==
    ASSUME NEW t \in Int
    PROVE  /\ quantised(quantised(t)) = quantised(t)
           /\ quantised(t) = t => int16(tempByteToSetPoint(setPointToTempByte(t))) = t
  <1> DEFINE b == setPointToTempByte(t)
  <1>1. b \in 0..255
    BY SetPointTypes DEF Byte
  <1>2. quantised(t) = (b - 64) * 50 + 1800
    BY DEF quantised, tempByteToSetPoint, TempByteBase
  <1> HIDE DEF b
  <1>3. ((b - 64) * 50 + 1800) - 1800 = (b - 64) * 50
    BY <1>1
  <1>4. CDiv((b - 64) * 50, 50) = b - 64
    BY <1>1 DEF CDiv
  <1>5. (64 + (b - 64)) % 256 = b
    BY <1>1
  <1>6. setPointToTempByte(quantised(t)) = b
    BY <1>2, <1>3, <1>4, <1>5 DEF setPointToTempByte, TempByteBase
  <1>7. quantised(quantised(t)) = quantised(t)
    BY <1>6 DEF quantised, b
  <1>8. ASSUME quantised(t) = t
        PROVE  int16(tempByteToSetPoint(b)) = t
    <2>1. tempByteToSetPoint(b) = t /\ t = (b - 64) * 50 + 1800
      BY <1>2, <1>8 DEF quantised, b
    <2>2. -32768 <= t /\ t < 32768
      <3>1. t = (b - 64) * 50 + 1800
        BY <2>1
      <3> QED
        BY <1>1, <3>1
    <2>3. int16(t) = t
      <3>1. \A n \in Nat : n < 65536 => n % 65536 = n
        OBVIOUS
      <3>2. t + 32768 \in Nat /\ t + 32768 < 65536
        BY <2>2
      <3>3. (t + 32768) % 65536 = t + 32768
        BY <3>1, <3>2
      <3> QED
        BY <3>3 DEF int16
    <2> QED
      BY <2>1, <2>3
  <1> QED
    BY <1>7, <1>8 DEF b

\* What F1 and RG decode to is what the unit has.
LEMMA AnswersAreTrue ==
    ASSUME NEW u \in [op : Operations, env : {Env}], quantised(u.op.setPoint) = u.op.setPoint,
           NEW past \in Byte
    PROVE  /\ \A r \in responses("F1", u) :
                 LET v == operationOf(r, past) IN
                 /\ asUnit(v) = [u.op EXCEPT !.fanMode = v.fanMode]
                 /\ v.fanMode = u.op.fanMode \/ (u.op.fanMode = Quiet /\ v.fanMode = AutoFan)
           /\ \A r \in responses("RG", u) : at(r, 2, past) = u.op.fanMode
  <1>1. /\ u.op.mode \in Byte /\ u.op.fanMode \in Byte /\ u.op.onOff \in BOOLEAN
        /\ u.op.setPoint \in Int
        /\ u.op = [onOff |-> u.op.onOff, mode |-> u.op.mode, setPoint |-> u.op.setPoint,
                   fanMode |-> u.op.fanMode]
    BY DEF Operations
  <1> DEFINE t == setPointToTempByte(u.op.setPoint)
             power == IF u.op.onOff THEN 49 ELSE zero
             f1(fan) == <<71, 49>> \o <<power, u.op.mode, t, fan>>
  <1>2. \A r \in responses("F1", u) :
           \/ r = f1(u.op.fanMode)
           \/ u.op.fanMode = Quiet /\ r = f1(AutoFan)
    BY DEF responses, responseCode
  <1>3. \A fan \in Byte : /\ at(f1(fan), 2, past) = power /\ at(f1(fan), 3, past) = u.op.mode
                          /\ at(f1(fan), 4, past) = t /\ at(f1(fan), 5, past) = fan
    BY DEF at
  <1>4. power # zero <=> u.op.onOff
    BY DEF zero
  <1>5. int16(tempByteToSetPoint(t)) = u.op.setPoint
    BY <1>1, QuantisedTwice
  <1>6. ASSUME NEW fan \in Byte
        PROVE  LET v == operationOf(f1(fan), past) IN
               /\ asUnit(v) = [u.op EXCEPT !.fanMode = v.fanMode]
               /\ v.fanMode = fan
    <2> DEFINE v == operationOf(f1(fan), past)
    <2>1. v = [onOff |-> u.op.onOff, mode |-> u.op.mode, setPoint |-> u.op.setPoint,
               fanMode |-> fan]
      <3> HIDE DEF f1, power, t
      <3>1. (at(f1(fan), 2, past) # zero) = u.op.onOff
        BY <1>1, <1>3, <1>4, Zenon
      <3> QED
        BY <1>3, <1>5, <3>1, Zenon DEF operationOf
    <2> HIDE DEF v
    <2> QED
      BY <1>1, <2>1 DEF asUnit, v
  <1>7. AutoFan \in Byte
    BY DEF AutoFan, Byte
  <1>8. \A r \in responses("RG", u) : at(r, 2, past) = u.op.fanMode
    <2>1. responses("RG", u) = {responseCode["RG"] \o <<u.op.fanMode>>}
      BY DEF responses
    <2>2. responseCode["RG"] \o <<u.op.fanMode>> = <<83, 71>> \o <<u.op.fanMode>>
      BY DEF responseCode
    <2>3. at(<<83, 71>> \o <<u.op.fanMode>>, 2, past) = u.op.fanMode
      BY DEF at
    <2> QED
      BY <2>1, <2>2, <2>3, Zenon
  <1> HIDE DEF f1
  <1>9. ASSUME NEW r \in responses("F1", u)
        PROVE  LET v == operationOf(r, past) IN
               /\ asUnit(v) = [u.op EXCEPT !.fanMode = v.fanMode]
               /\ v.fanMode = u.op.fanMode \/ (u.op.fanMode = Quiet /\ v.fanMode = AutoFan)
    <2>1. CASE r = f1(u.op.fanMode)
      BY <1>1, <1>6, <2>1, Zenon
    <2>2. CASE u.op.fanMode = Quiet /\ r = f1(AutoFan)
      BY <1>6, <1>7, <2>2, Zenon
    <2> QED
      BY <1>2, <1>9, <2>1, <2>2, Zenon
  <1> QED
    BY <1>8, <1>9, Zenon

\* A response that is not lost is bytes, and was sent by the unit or by one that does
\* not know the request.
LEMMA ExchangeSent ==
    ASSUME unit \in [op : Operations, env : {Env}], NEW s \in Requests, NEW x \in exchanges(s),
           x.received # Null
    PROVE  /\ x \in [sent : Seq(Byte), received : Seq(Byte)]
           /\ x.sent \in responses(s, unit) \/ (s \in Tracked /\ x.sent \in Garbage)
  <1> DEFINE known == s \in scenario.supports \/ s \notin Tracked
             sent  == IF known THEN responses(s, unit) ELSE Garbage
  <1>1. sent \subseteq Seq(Byte)
    BY ResponseBytes, UnitAssumption
  <1>2. sent \subseteq responses(s, unit) \/ (s \in Tracked /\ sent \subseteq Garbage)
    OBVIOUS
  <1> HIDE DEF known
  <1>3. \/ \E p \in sent : x = [sent |-> p, received |-> decode(encode(p))]
        \/ x = Silence
        \/ \E p \in sent : \E f \in altered(encode(p)) : x = [sent |-> p, received |-> decode(f)]
    BY DEF exchanges, known
  <1> HIDE DEF sent
  <1>4. x # Silence
    BY DEF Silence
  <1>5. PICK p \in sent : \E r : x = [sent |-> p, received |-> r]
    BY <1>3, <1>4
  <1>6. x.received \in Seq(Byte)
    BY ExchangeFacts
  <1> QED
    BY <1>1, <1>2, <1>5, <1>6

\* On a line that deceives nobody, what is read of F1 and RG the unit has now.
LEMMA FaithfulAnswers ==
    ASSUME unit \in [op : Operations, env : {Env}], UnitOK,
           NEW s \in Requests, NEW x \in exchanges(s), NEW past \in PastEnd,
           x.received # Null => x.received = x.sent,
           NEW v, v = decoded(s, x.received, past), v # Null
    PROVE  /\ s = "F1" => v \in Operations /\ \A t \in Int : ReadingIs(v, t)
           /\ s = "RG" => \A t \in Int : FanIs(v, t)
  <1>1. /\ x.received # Null /\ validateResponseCode(x.received, s, past)
        /\ s = "F1" => v = operationOf(x.received, past)
        /\ s = "RG" => v = at(x.received, 2, past)
    BY DEF decoded
  <1>2. /\ x.received \in Seq(Byte) /\ x.received = x.sent
        /\ x.sent \in responses(s, unit) \/ (s \in Tracked /\ x.sent \in Garbage)
    BY <1>1, ExchangeSent
  <1>3. s \in {"F1", "RG"} => x.received \in responses(s, unit)
    BY <1>1, <1>2, AnswerAssumption DEF Tracked
  <1>4. past \in Byte
    BY UnitAssumption
  <1>5. quantised(unit.op.setPoint) = unit.op.setPoint
    BY DEF UnitOK
  <1>6. \A t \in Int : recentlyHad(unit.op, t)
    BY DEF recentlyHad
  <1>7. CASE s = "F1"
    <2>1. v \in Operations
      BY <1>2, <1>4, <1>7, OperationDecoded
    <2>2. /\ asUnit(v) = [unit.op EXCEPT !.fanMode = v.fanMode]
          /\ v.fanMode = unit.op.fanMode \/ (unit.op.fanMode = Quiet /\ v.fanMode = AutoFan)
      BY <1>1, <1>3, <1>4, <1>5, <1>7, AnswersAreTrue
    <2> QED
      BY <1>6, <1>7, <2>1, <2>2 DEF ReadingIs, reads
  <1>8. CASE s = "RG"
    <2>1. v = unit.op.fanMode
      BY <1>1, <1>3, <1>4, <1>5, <1>8, AnswersAreTrue
    <2> QED
      BY <1>6, <1>8, <2>1 DEF FanIs
  <1> QED
    BY <1>7, <1>8

\* What was read stays recent for the ticks it counts for.
staysRecent ==
    \A t \in Int : t <= MaxAge + ExchangeTicks =>
        /\ \A v : ReadingIs(v, t) => ReadingIs(v, t)'
        /\ \A f : FanIs(f, t) => FanIs(f, t)'

\* It does when the unit leaves its operation for another.
LEMMA LeaveKeeps ==
    ASSUME unit \in [op : Operations, env : {Env}], UnitOK, NEW op \in Operations,
           quantised(op.setPoint) = op.setPoint, Leave(op)
    PROVE  UnitOK' /\ staysRecent
  <1>1. unit'.op = op
    BY DEF Leave
  <1> DEFINE left == [op |-> unit.op, left |-> MaxAge + ExchangeTicks]
  <1>2. left \in [op : Operations, left : 0..(MaxAge + ExchangeTicks)]
    BY CacheAssumption
  <1>3. recent' = IF op = unit.op THEN recent
                  ELSE {x \in recent : x.op \notin {op, unit.op}} \cup {left}
    BY DEF Leave
  <1>4. UnitOK'
    BY <1>1, <1>2, <1>3 DEF UnitOK
  <1>5. ASSUME NEW t \in Int, t <= MaxAge + ExchangeTicks, NEW a, recentlyHad(a, t)
        PROVE  recentlyHad(a, t)'
    <2>1. CASE op = unit.op
      BY <1>1, <1>3, <1>5, <2>1 DEF recentlyHad
    <2>2. CASE op # unit.op /\ a = unit.op
      <3>1. left \in recent' /\ left.op = a /\ left.left >= t
        BY <1>3, <1>5, <2>2, CacheAssumption
      <3> QED
        BY <3>1 DEF recentlyHad
    <2>3. CASE op # unit.op /\ a # unit.op
      BY <1>1, <1>3, <1>5, <2>3 DEF recentlyHad
    <2> QED
      BY <2>1, <2>2, <2>3
  <1>6. staysRecent
    BY <1>5 DEF staysRecent, ReadingIs, FanIs
  <1> QED
    BY <1>4, <1>6

\* It does when nothing happens to the unit.
LEMMA QuietKeeps ==
    ASSUME UNCHANGED <<unit, recent>>
    PROVE  (UnitOK => UnitOK') /\ staysRecent
  BY DEF UnitOK, staysRecent, ReadingIs, FanIs, recentlyHad

\* A tick takes one from what it counts for.
LEMMA TickKeeps ==
    ASSUME UnitOK, Tick
    PROVE  /\ UnitOK'
           /\ \A t \in Nat : /\ \A v : ReadingIs(v, t + 1) => ReadingIs(v, t)'
                             /\ \A f : FanIs(f, t + 1) => FanIs(f, t)'
  <1>1. /\ unit' = unit
        /\ recent' = {[x EXCEPT !.left = x.left - 1] : x \in {y \in recent : y.left > 0}}
    BY DEF Tick
  <1>2. ASSUME NEW x \in recent, x.left > 0
        PROVE  LET y == [x EXCEPT !.left = x.left - 1] IN
               /\ y \in recent' /\ y.op = x.op /\ y.left = x.left - 1
               /\ y \in [op : Operations, left : 0..(MaxAge + ExchangeTicks)]
    BY <1>1, <1>2, CacheAssumption DEF UnitOK
  <1>3. UnitOK'
    BY <1>1, <1>2 DEF UnitOK
  <1>4. ASSUME NEW t \in Nat, NEW a, recentlyHad(a, t + 1)
        PROVE  recentlyHad(a, t)'
    <2>1. CASE a = unit.op
      BY <1>1, <2>1 DEF recentlyHad
    <2>2. CASE a # unit.op
      <3>1. PICK x \in recent : x.op = a /\ x.left >= t + 1
        BY <1>4, <2>2 DEF recentlyHad
      <3>2. x.left \in Int
        BY CacheAssumption DEF UnitOK
      <3>3. x.left > 0 /\ x.left - 1 >= t
        BY <3>1, <3>2
      <3> QED
        BY <1>2, <3>1, <3>3 DEF recentlyHad
    <2> QED
      BY <2>1, <2>2
  <1> QED
    BY <1>3, <1>4 DEF ReadingIs, FanIs

\* A cache that is filled with what the unit has now, or not at all, is recent.
LEMMA StoreRecent ==
    ASSUME CacheOK, CacheIsRecent, staysRecent, NEW s, NEW value, NEW age \in Nat,
           store(s, value, age) \/ UNCHANGED cache,
           s = "F1" /\ value # Null => \A t \in Int : ReadingIs(value, t)',
           s = "RG" /\ value # Null => \A t \in Int : FanIs(value, t)'
    PROVE  CacheIsRecent'
  <1>1. ASSUME NEW r \in {"F1", "RG"}, cache'[r] # Null
        PROVE  /\ r = "F1" => ReadingIs(cache[r].value, cache[r].left + ExchangeTicks)'
               /\ r = "RG" => FanIs(cache[r].value, cache[r].left + ExchangeTicks)'
    <2>1. CASE cache'[r] = cache[r]
      <3>1. cache[r].left \in 0..MaxAge
        BY <1>1, <2>1 DEF CacheOK, Cached
      <3>2. /\ cache[r].left + ExchangeTicks \in Int
            /\ cache[r].left + ExchangeTicks <= MaxAge + ExchangeTicks
        BY <3>1, CacheAssumption
      <3>3. /\ r = "F1" => ReadingIs(cache[r].value, cache[r].left + ExchangeTicks)
            /\ r = "RG" => FanIs(cache[r].value, cache[r].left + ExchangeTicks)
        BY <1>1, <2>1 DEF CacheIsRecent
      <3> QED
        BY <2>1, <3>2, <3>3 DEF staysRecent
    <2>2. CASE cache'[r] # cache[r]
      <3>1. s = r /\ value # Null /\ cache'[r] = entry(value, age)
        BY <2>2 DEF store, CacheOK, Cached
      <3>2. cache'[r] = [value |-> value, left |-> MaxAge - age]
        BY <1>1, <3>1 DEF entry
      <3>3. cache'[r].left + ExchangeTicks \in Int /\ cache'[r].value = value
        BY <3>2, CacheAssumption
      <3> QED
        BY <3>1, <3>3
    <2> QED
      BY <2>1, <2>2
  <1> QED
    BY <1>1 DEF CacheIsRecent

\* A call that goes on is over, or asks its next source.
LEMMA GoesOnAsks ==
    ASSUME CallOK, call # Null, NEW v, GoesOn(v)
    PROVE  \/ call' = Null
           \/ /\ call'.fn = call.fn /\ call'.elapsed = Null
              /\ call.fn = "getOperation" =>
                    /\ call.want = "F1" /\ v # Null
                    /\ call'.want = "RG" /\ call'.held = v /\ call'.arg = call.arg
              /\ call.fn \in DOMAIN settable =>
                    /\ call.want = "F1" /\ v # Null /\ call'.arg = call.arg
                    /\ call'.held = [v EXCEPT ![settable[call.fn]] = call.arg]
  <1>1. ASSUME NEW source, NEW held, Ask(source, held)
        PROVE  /\ call'.fn = call.fn /\ call'.elapsed = Null
               /\ call'.want = source /\ call'.held = held /\ call'.arg = call.arg
    BY <1>1 DEF Ask, CallOK
  <1>2. ASSUME NEW value, Return(value)
        PROVE  call' = Null
    BY <1>2 DEF Return
  <1>3. CASE InitGoesOn(v)
    <2>1. call.fn \notin DOMAIN settable \cup {"getOperation"}
      BY <1>3 DEF InitGoesOn, settable
    <2> QED
      BY <1>1, <1>2, <1>3, <2>1 DEF InitGoesOn
  <1>4. CASE getOperationGoesOn(v)
    <2>1. call.fn \notin DOMAIN settable
      BY <1>4 DEF getOperationGoesOn, settable
    <2> QED
      BY <1>1, <1>2, <1>4, <2>1 DEF getOperationGoesOn
  <1>5. CASE accessorGoesOn(v)
    <2>1. call.fn \notin DOMAIN settable \cup {"getOperation"}
      BY <1>5 DEF accessorGoesOn, accessors, settable
    <2> QED
      BY <1>1, <1>2, <1>5, <2>1 DEF accessorGoesOn
  <1>6. CASE sensorGoesOn(v)
    <2>1. call.fn \notin DOMAIN settable \cup {"getOperation"}
      BY <1>6 DEF sensorGoesOn, coarse, settable
    <2> QED
      BY <1>1, <1>2, <1>6, <2>1 DEF sensorGoesOn
  <1>7. CASE setterGoesOn(v)
    <2>1. call.fn # "getOperation"
      BY <1>7 DEF setterGoesOn, argument
    <2>2. CASE call.want = "F1" /\ v # Null
      BY <1>1, <1>7, <2>1, <2>2 DEF setterGoesOn
    <2>3. CASE ~(call.want = "F1" /\ v # Null)
      BY <1>2, <1>7, <2>3 DEF setterGoesOn
    <2> QED
      BY <2>2, <2>3
  <1> QED
    BY <1>3, <1>4, <1>5, <1>6, <1>7 DEF GoesOn

\* What it holds is recent if what it was given is.
LEMMA GoesOnRecent ==
    ASSUME CallOK, HeldIsRecent, call # Null, NEW v, GoesOn(v), staysRecent,
           call.want = "F1" /\ v # Null => v \in Operations /\ ReadingIs(v, ExchangeTicks)
    PROVE  HeldIsRecent'
  <1>1. ExchangeTicks \in Nat /\ ExchangeTicks <= MaxAge + ExchangeTicks
    BY CacheAssumption
  <1>2. CASE call' = Null
    BY <1>2 DEF HeldIsRecent
  <1>3. CASE /\ call'.fn = call.fn /\ call'.elapsed = Null
             /\ call.fn = "getOperation" =>
                   /\ call.want = "F1" /\ v # Null
                   /\ call'.want = "RG" /\ call'.held = v /\ call'.arg = call.arg
             /\ call.fn \in DOMAIN settable =>
                   /\ call.want = "F1" /\ v # Null /\ call'.arg = call.arg
                   /\ call'.held = [v EXCEPT ![settable[call.fn]] = call.arg]
    <2>1. underWay' = 0
      BY <1>3 DEF underWay
    <2>2. underWay' \in 0..ExchangeTicks /\ ExchangeTicks - underWay' = ExchangeTicks
      BY <1>1, <2>1
    <2>3. ASSUME call'.fn = "getOperation"
          PROVE  /\ call'.want = "RG" /\ call'.held \in Operations /\ call'.arg = Null
                 /\ ReadingIs(call.held, ExchangeTicks - underWay)'
      <3>1. v \in Operations /\ ReadingIs(v, ExchangeTicks)' /\ call'.want = "RG" /\ call'.held = v
        BY <1>1, <1>3, <2>3 DEF staysRecent
      <3>2. call'.arg = Null
        BY <1>3, <2>3 DEF HeldIsRecent
      <3> QED
        BY <2>2, <3>1, <3>2
    <2>4. ASSUME call'.fn \in DOMAIN settable
          PROVE  SetterHolds(ExchangeTicks - underWay)'
      <3>1. call.want = "F1" /\ v # Null /\ call'.fn = call.fn /\ call'.arg = call.arg
        BY <1>3, <2>4
      <3>2. v \in Operations /\ ReadingIs(v, ExchangeTicks)'
        BY <1>1, <3>1 DEF staysRecent
      <3>3. call'.held = [v EXCEPT ![settable[call'.fn]] = call'.arg]
        BY <1>3, <2>4, <3>1, Zenon
      <3> QED
        BY <2>2, <3>2, <3>3 DEF SetterHolds
    <2>5. call'.fn = "getOperation" => call'.fn \notin DOMAIN settable
      BY DEF settable
    <2> QED
      BY <2>2, <2>3, <2>4, <2>5 DEF HeldIsRecent
  <1> QED
    BY <1>2, <1>3, GoesOnAsks

\* What getOperation holds stays recent while the call stays as it is.
LEMMA HeldStays ==
    ASSUME HeldIsRecent, staysRecent, UNCHANGED call
    PROVE  HeldIsRecent'
  <1> SUFFICES ASSUME call # Null PROVE HeldIsRecent'
    BY DEF HeldIsRecent
  <1>1. underWay' = underWay /\ underWay \in 0..ExchangeTicks
    BY DEF underWay, HeldIsRecent
  <1>2. ExchangeTicks - underWay \in Int /\ ExchangeTicks - underWay <= MaxAge + ExchangeTicks
    BY <1>1, CacheAssumption
  <1>3. \A v : ReadingIs(v, ExchangeTicks - underWay) => ReadingIs(v, ExchangeTicks - underWay)'
    BY <1>1, <1>2 DEF staysRecent
  <1>4. SetterHolds(ExchangeTicks - underWay) => SetterHolds(ExchangeTicks - underWay)'
    BY <1>1, <1>3 DEF SetterHolds
  <1> QED
    BY <1>1, <1>3, <1>4 DEF HeldIsRecent

\* What counts for longer counts for less as well.
LEMMA CountsForLess ==
    ASSUME UnitOK, NEW t \in Int, NEW n \in Int, t <= n, NEW v, ReadingIs(v, n)
    PROVE  ReadingIs(v, t)
  <1>1. ASSUME NEW a, recentlyHad(a, n)
        PROVE  recentlyHad(a, t)
    <2>1. \A x \in recent : x.left \in Int
      BY CacheAssumption DEF UnitOK
    <2> QED
      BY <1>1, <2>1 DEF recentlyHad
  <1> QED
    BY <1>1 DEF ReadingIs, FanIs

\* Nothing has been read at first.
LEMMA AgeInitially == ManagerInit => AgeInv
  <1> SUFFICES ASSUME ManagerInit PROVE AgeInv
    OBVIOUS
  <1>1. UnitOK
    BY AnswerAssumption DEF ManagerInit, UnitOK
  <1>2. cache["F1"] = Null /\ cache["RG"] = Null
    BY DEF ManagerInit, Cached
  <1> QED
    BY <1>1, <1>2 DEF ManagerInit, AgeInv, CacheIsRecent, HeldIsRecent

\* Time passes for readings and for what the unit had alike.
LEMMA TickAges ==
    ASSUME ManagerInv, AgeInv, Tick
    PROVE  AgeInv'
  <1>1. /\ UnitOK'
        /\ \A t \in Nat : /\ \A v : ReadingIs(v, t + 1) => ReadingIs(v, t)'
                          /\ \A f : FanIs(f, t + 1) => FanIs(f, t)'
    BY TickKeeps DEF AgeInv
  <1>2. ASSUME NEW s \in {"F1", "RG"}, cache'[s] # Null
        PROVE  /\ s = "F1" => ReadingIs(cache[s].value, cache[s].left + ExchangeTicks)'
               /\ s = "RG" => FanIs(cache[s].value, cache[s].left + ExchangeTicks)'
    <2>1. cache'[s] = older(cache[s], 1)
      BY DEF Tick, Cached
    <2>2. /\ cache[s] # Null /\ DOMAIN cache[s] = {"value", "left"}
          /\ cache[s].left \in 0..MaxAge /\ ~(cache[s].left < 1)
          /\ cache'[s] = [cache[s] EXCEPT !.left = cache[s].left - 1]
      BY <1>2, <2>1 DEF older, ManagerInv, CacheOK, Cached
    <2>3. /\ cache'[s].value = cache[s].value
          /\ cache'[s].left + ExchangeTicks \in Nat
          /\ (cache'[s].left + ExchangeTicks) + 1 = cache[s].left + ExchangeTicks
      BY <2>2, CacheAssumption
    <2>4. /\ s = "F1" => ReadingIs(cache[s].value, cache[s].left + ExchangeTicks)
          /\ s = "RG" => FanIs(cache[s].value, cache[s].left + ExchangeTicks)
      BY <2>2 DEF AgeInv, CacheIsRecent
    <2> QED
      BY <1>1, <2>3, <2>4
  <1>3. CASE call = Null
    <2>1. HeldIsRecent'
      BY <1>3 DEF Tick, HeldIsRecent
    <2> QED
      BY <1>1, <1>2, <2>1 DEF AgeInv, CacheIsRecent
  <1>4. CASE call # Null
    <2>1. /\ call' = [call EXCEPT !.elapsed = call.elapsed + 1]
          /\ call.elapsed # Null /\ call.elapsed < ExchangeTicks
      BY <1>4 DEF Tick, Asking
    <2>2. /\ call'.fn = call.fn /\ call'.want = call.want /\ call'.held = call.held
          /\ call'.elapsed = call.elapsed + 1 /\ call'.arg = call.arg
          /\ call.elapsed \in Nat
      BY <1>4, <2>1 DEF ManagerInv, CallOK
    <2>3. call.elapsed + 1 # Null
      BY <2>2, MarkerAssumption
    <2>4. underWay = call.elapsed /\ underWay' = call.elapsed + 1
      BY <2>1, <2>2, <2>3 DEF underWay
    <2>5. /\ underWay' \in 0..ExchangeTicks /\ ExchangeTicks - underWay' \in Nat
          /\ (ExchangeTicks - underWay') + 1 = ExchangeTicks - underWay
      BY <2>1, <2>2, <2>4, CacheAssumption
    <2>6. /\ \A v : ReadingIs(v, ExchangeTicks - underWay) => ReadingIs(v, ExchangeTicks - underWay)'
          /\ SetterHolds(ExchangeTicks - underWay) => SetterHolds(ExchangeTicks - underWay)'
      BY <1>1, <2>2, <2>5 DEF SetterHolds
    <2>7. HeldIsRecent'
      BY <1>4, <2>2, <2>5, <2>6 DEF AgeInv, HeldIsRecent
    <2> QED
      BY <1>1, <1>2, <2>7 DEF AgeInv, CacheIsRecent
  <1> QED
    BY <1>3, <1>4

\* Every step of a manager whose line deceives nobody keeps readings recent.
LEMMA AgeStep ==
    ASSUME ManagerInv, AgeInv, wireFaithful', [ManagerNext]_vars
    PROVE  AgeInv'
  <1> USE DEF ManagerInv
  <1>1. UNCHANGED <<unit, recent>> => UnitOK' /\ staysRecent
    BY QuietKeeps DEF AgeInv
  <1>2. ASSUME staysRecent, UNCHANGED cache PROVE CacheIsRecent'
    <2>1. 0 \in Nat /\ "none" \notin {"F1", "RG"}
      OBVIOUS
    <2> QED
      BY <1>2, <2>1, StoreRecent DEF AgeInv
  <1>3. ASSUME NEW fn \in scenario.calls, Begin(fn)
        PROVE  AgeInv'
    <2>1. UnitOK' /\ staysRecent /\ CacheIsRecent'
      BY <1>1, <1>2, <1>3 DEF Begin
    <2>2. CASE call' = call
      BY <2>1, <2>2, HeldStays DEF AgeInv
    <2>3. CASE call' # call
      <3>1. /\ call'.fn = fn /\ call'.want = firstSource[fn] /\ call'.elapsed = Null
            /\ fn = "getOperation" => call'.arg = Null /\ call'.held = Null
        <4>1. PICK arg \in arguments(fn) :
                       call' = [fn |-> fn, arg |-> arg, want |-> firstSource[fn],
                                  held |-> IF fn = "setOperation" THEN arg ELSE Null,
                                  elapsed |-> Null]
          BY <1>3, <2>3 DEF Begin
        <4> QED
          BY <4>1 DEF arguments, argument
      <3>2. fn = "getOperation" => call'.want = "F1"
        BY <3>1 DEF firstSource
      <3>3. underWay' = 0 /\ 0 \in 0..ExchangeTicks
        BY <3>1, CacheAssumption DEF underWay
      <3>4. fn \in DOMAIN settable => call'.want = "F1"
        BY <3>1 DEF firstSource, settable
      <3> QED
        BY <2>1, <3>1, <3>2, <3>3, <3>4 DEF AgeInv, HeldIsRecent
    <2> QED
      BY <2>2, <2>3
  <1>4. CASE Hit
    <2>1. UnitOK' /\ staysRecent /\ CacheIsRecent'
      BY <1>1, <1>2, <1>4 DEF Hit
    <2> DEFINE e == cache[call.want]
    <2>2. /\ call # Null /\ e # Null /\ call.want \in Cached /\ GoesOn(e.value)
      BY <1>4 DEF Hit, Asking, fresh
    <2>3. ASSUME call.want = "F1"
          PROVE  e.value \in Operations /\ ReadingIs(e.value, ExchangeTicks)
      <3>1. e.left \in Nat /\ e.value \in Operations
        BY <2>2, <2>3, CacheAssumption DEF CacheOK
      <3>2. ReadingIs(e.value, e.left + ExchangeTicks)
        BY <2>2, <2>3 DEF AgeInv, CacheIsRecent
      <3>3. /\ ExchangeTicks \in Int /\ e.left + ExchangeTicks \in Int
            /\ ExchangeTicks <= e.left + ExchangeTicks
        BY <3>1, CacheAssumption
      <3> HIDE DEF e
      <3> QED
        BY <3>1, <3>2, <3>3, CountsForLess DEF AgeInv
    <2> HIDE DEF e
    <2>4. HeldIsRecent'
      BY <2>1, <2>2, <2>3, GoesOnRecent DEF AgeInv
    <2> QED
      BY <2>1, <2>4 DEF AgeInv
  <1>5. CASE Refuse
    <2>1. UnitOK' /\ staysRecent /\ CacheIsRecent'
      BY <1>1, <1>2, <1>5 DEF Refuse
    <2>2. call # Null /\ GoesOn(Null)
      BY <1>5 DEF Refuse, Asking
    <2> QED
      BY <2>1, <2>2, GoesOnRecent DEF AgeInv
  <1>6. CASE Transmit
    <2>1. UnitOK' /\ staysRecent /\ CacheIsRecent'
      BY <1>1, <1>2, <1>6 DEF Transmit
    <2>2. call # Null /\ call' = [call EXCEPT !.elapsed = 0] /\ call.elapsed = Null
      BY <1>6 DEF Transmit, Asking
    <2>3. /\ call'.fn = call.fn /\ call'.want = call.want /\ call'.held = call.held
          /\ call'.elapsed = 0 /\ call'.arg = call.arg
      BY <2>2 DEF CallOK
    <2>4. underWay = 0 /\ underWay' = 0 /\ 0 \in 0..ExchangeTicks
      BY <2>2, <2>3, CacheAssumption DEF underWay
    <2>5. \A v : ReadingIs(v, ExchangeTicks - 0) => ReadingIs(v, ExchangeTicks - 0)'
      BY <2>1, CacheAssumption DEF staysRecent
    <2>6. SetterHolds(ExchangeTicks - 0) => SetterHolds(ExchangeTicks - 0)'
      BY <2>3, <2>5 DEF SetterHolds
    <2>7. HeldIsRecent'
      BY <2>2, <2>3, <2>4, <2>5, <2>6 DEF AgeInv, HeldIsRecent
    <2> QED
      BY <2>1, <2>7 DEF AgeInv
  <1>7. CASE Response
    <2>1. UnitOK' /\ staysRecent
      BY <1>1, <1>7 DEF Response
    <2>2. call # Null /\ call.want \in Requests /\ call.elapsed \in Nat
      BY <1>7 DEF Response, CallOK
    <2>3. PICK x \in exchanges(call.want), past \in PastEnd :
             LET v == decoded(call.want, x.received, past)
             IN  /\ wire' = IF x.received = Null THEN Null ELSE x
                 /\ record(call.want, v)
                 /\ store(call.want, v, call.elapsed)
                 /\ GoesOn(v)
      BY <1>7 DEF Response
    <2>4. PICK v : /\ v = decoded(call.want, x.received, past)
                    /\ store(call.want, v, call.elapsed) /\ GoesOn(v)
      BY <2>3
    <2>5. x.received # Null => x.received = x.sent
      <3>1. x.received # Null => x # Null
        BY <2>2, ExchangeSent, MarkerAssumption
      <3> QED
        BY <2>3, <3>1 DEF wireFaithful
    <2>6. v # Null =>
             /\ call.want = "F1" => v \in Operations /\ \A t \in Int : ReadingIs(v, t)
             /\ call.want = "RG" => \A t \in Int : FanIs(v, t)
      BY <2>2, <2>5, <2>4, FaithfulAnswers DEF AgeInv
    <2>7. HeldIsRecent'
      BY <2>1, <2>2, <2>6, <2>4, GoesOnRecent, CacheAssumption DEF AgeInv
    <2>8. UNCHANGED <<unit, recent>>
      BY <1>7 DEF Response
    <2>9. CacheIsRecent'
      <3>1. v # Null =>
               /\ call.want = "F1" => \A t \in Int : ReadingIs(v, t)'
               /\ call.want = "RG" => \A t \in Int : FanIs(v, t)'
        BY <2>6, <2>8 DEF ReadingIs, FanIs, recentlyHad
      <3> QED
        BY <2>1, <2>2, <2>4, <3>1, StoreRecent DEF AgeInv
    <2> QED
      BY <2>1, <2>7, <2>9 DEF AgeInv
  <1>8. CASE Command
    <2>1. /\ call # Null /\ call.want = "D1" /\ call.held \in Operations
          /\ call.fn # "getOperation"
      BY <1>8 DEF Command, CallOK, AgeInv, HeldIsRecent
    <2>2. call.held.setPoint \in Int /\ asUnit(call.held) \in Operations
      BY <2>1, AsUnitType DEF Operations
    <2>3. quantised(asUnit(call.held).setPoint) = asUnit(call.held).setPoint
      BY <2>1, <2>2, QuantisedTwice DEF asUnit, Operations
    <2>4. UnitOK' /\ staysRecent
      BY <1>1, <1>8, <2>2, <2>3, LeaveKeeps DEF Command, AgeInv
    <2>5. GoesOn(TRUE) \/ GoesOn(Null)
      BY <1>8 DEF Command
    <2>6. HeldIsRecent'
      BY <2>1, <2>4, <2>5, GoesOnRecent DEF AgeInv
    <2>7. CASE Leave(asUnit(call.held)) /\ store("F1", call.held, 0)
      <3> PICK h \in Operations : h = call.held
        BY <2>1
      <3>1. unit'.op = asUnit(h) /\ store("F1", h, 0)
        BY <2>7 DEF Leave
      <3>2. asUnit(h) = [asUnit(h) EXCEPT !.fanMode = h.fanMode]
        BY DEF asUnit, Operations
      <3>3. asUnit(h).fanMode = h.fanMode
        BY DEF asUnit, Operations
      <3>4. \A t \in Int : ReadingIs(h, t)'
        BY <3>1, <3>2, <3>3 DEF ReadingIs, reads, recentlyHad
      <3> QED
        BY <2>4, <2>6, <3>1, <3>4, StoreRecent DEF AgeInv
    <2>8. CASE UNCHANGED cache
      BY <1>2, <2>4, <2>6, <2>8 DEF AgeInv
    <2> QED
      BY <1>8, <2>7, <2>8 DEF Command
  <1>9. CASE PanelChange
    <2>1. PICK op \in scenario.panel : Leave(op)
      BY <1>9 DEF PanelChange
    <2>2. op \in Operations /\ quantised(op.setPoint) = op.setPoint
      BY UnitAssumption, AnswerAssumption
    <2>3. UnitOK' /\ staysRecent
      BY <2>1, <2>2, LeaveKeeps DEF AgeInv
    <2>4. UNCHANGED <<call, cache>>
      BY <1>9 DEF PanelChange, managerVars
    <2> QED
      BY <1>2, <2>3, <2>4, HeldStays DEF AgeInv
  <1>10. CASE LineChange \/ UNCHANGED vars
    <2>1. UNCHANGED <<unit, recent, call, cache>>
      BY <1>10 DEF LineChange, vars, managerVars
    <2> QED
      BY <1>1, <1>2, <2>1, HeldStays DEF AgeInv
  <1> QED
    BY <1>3, <1>4, <1>5, <1>6, <1>7, <1>8, <1>9, <1>10, TickAges DEF ManagerNext

\* The fan mode of a reading is the unit's.
LEMMA FanIsRead ==
    ASSUME NEW v, NEW t, ReadingIs(v, t)
    PROVE  FanIs(v.fanMode, t)
  BY DEF ReadingIs, reads, FanIs

\* A call of getOperation that goes on is not over.
LEMMA CallsArePresent ==
    ASSUME CallOK, HeldIsRecent, call # Null, call.fn = "getOperation",
           NEW source \in Requests, NEW held \in Operations \cup {Null},
           NEW elapsed \in Nat \cup {Null}, NEW c,
           c = [call EXCEPT !.want = source, !.held = held, !.elapsed = elapsed]
    PROVE  c # Null
  <1>1. call.arg = Null /\ DOMAIN call = {"fn", "arg", "want", "held", "elapsed"}
    BY DEF CallOK, HeldIsRecent
  <1>2. /\ c.fn = "getOperation" /\ c.arg = Null /\ c.want = source /\ c.held = held
        /\ c.elapsed = elapsed
    BY <1>1
  <1>3. c = [x \in {"fn", "arg", "want", "held", "elapsed"} |-> c[x]]
    BY <1>1
  <1>4. c = [fn |-> c.fn, arg |-> c.arg, want |-> c.want, held |-> c.held, elapsed |-> c.elapsed]
    BY <1>3
  <1>5. c \in [fn : {"getOperation"}, arg : {Null}, want : Requests,
               held : Operations \cup {Null}, elapsed : Nat \cup {Null}]
    BY <1>2, <1>4
  <1> QED
    BY <1>5, MarkerAssumption

\* As long as the line alters no frame into one that decode cannot tell from it, what
\* getOperation returns the unit had within the age of the caches and one exchange,
\* for every age, every length of an exchange, and whatever the panel, lost answers
\* and lost acknowledgements did in between (ReadThroughCache, S21Manager::getOperation).
THEOREM ReadsCorrect == ManagerSpec /\ []wireFaithful => ReadsWithinAge
  <1> DEFINE returns == /\ call # Null /\ call.fn = "getOperation" /\ call' = Null
                        /\ returned'.value # Null
             agrees(op) == \E a, b \in lately :
                              /\ op.fanMode \in {b.fanMode} \cup
                                                (IF b.fanMode = Quiet THEN {AutoFan} ELSE {})
                              /\ op = [a EXCEPT !.fanMode = op.fanMode]
  <1>1. \A a, t : recentlyHad(a, t) => a \in lately
    BY DEF recentlyHad, lately
  <1>2. ASSUME NEW r \in Operations, NEW f, NEW t, NEW n, ReadingIs(r, t), FanIs(f, n)
        PROVE  agrees(asUnit([r EXCEPT !.fanMode = f]))
    <2> DEFINE v == [r EXCEPT !.fanMode = f]
    <2>1. PICK a \in lately : asUnit(r) = [a EXCEPT !.fanMode = r.fanMode]
      BY <1>1, <1>2 DEF ReadingIs, reads
    <2>2. PICK b \in lately : f = b.fanMode \/ (b.fanMode = Quiet /\ f = AutoFan)
      BY <1>1, <1>2 DEF FanIs
    <2>3. asUnit(v) = [asUnit(r) EXCEPT !.fanMode = f] /\ asUnit(v).fanMode = f
      BY DEF asUnit, Operations
    <2>4. asUnit(v) = [a EXCEPT !.fanMode = f]
      BY <2>1, <2>3
    <2> QED
      BY <2>2, <2>3, <2>4
  <1>3. ASSUME ManagerInv, AgeInv, returns, NEW v, GoesOn(v), NEW t, NEW n,
               call.want = "F1" /\ v # Null => v \in Operations /\ ReadingIs(v, t),
               call.want = "RG" /\ v # Null => FanIs(v, n)
        PROVE  agrees(asUnit(returned'.value))
    <2> HIDE DEF agrees
    <2>1. getOperationGoesOn(v)
      BY <1>3 DEF GoesOn, InitGoesOn, accessorGoesOn, accessors, sensorGoesOn, coarse,
                  setterGoesOn, argument
    <2>2. call.want \in {"F1", "RG"}
      BY <1>3 DEF AgeInv, HeldIsRecent
    <2>3. returned'.value = IF call.want = "F1" THEN v
                            ELSE IF v = Null THEN call.held
                            ELSE [call.held EXCEPT !.fanMode = v]
      <3>1. CASE call.want = "F1" /\ v # Null /\ v.onOff /\ v.fanMode = AutoFan
        <4>1. "RG" \in Requests /\ v \in Operations
          BY <1>3, <3>1 DEF Requests, responseCode
        <4>2. call' = [call EXCEPT !.want = "RG", !.held = v, !.elapsed = Null]
          BY <2>1, <3>1 DEF getOperationGoesOn, Ask
        <4>3. CallOK /\ HeldIsRecent /\ Null \in Nat \cup {Null} /\ v \in Operations \cup {Null}
          BY <1>3, <4>1 DEF ManagerInv, AgeInv
        <4>4. call # Null /\ call.fn = "getOperation" /\ call' = Null
          BY <1>3
        <4>5. call' # Null
          BY <4>1, <4>2, <4>3, <4>4, CallsArePresent, Zenon
        <4> QED
          BY <4>4, <4>5
      <3>2. CASE ~(call.want = "F1" /\ v # Null /\ v.onOff /\ v.fanMode = AutoFan)
        BY <2>1, <3>2 DEF getOperationGoesOn, Return
      <3> QED
        BY <3>1, <3>2
    <2>4. \A r \in Operations : r = [r EXCEPT !.fanMode = r.fanMode]
      BY DEF Operations
    <2>5. CASE call.want = "F1"
      <3>1. v \in Operations /\ ReadingIs(v, t) /\ returned'.value = v
        BY <1>3, <2>3, <2>5
      <3>2. agrees(asUnit([v EXCEPT !.fanMode = v.fanMode]))
        BY <1>2, <3>1, FanIsRead
      <3> QED
        BY <2>4, <3>1, <3>2
    <2>6. CASE call.want = "RG"
      <3>1. /\ call.held \in Operations /\ ReadingIs(call.held, ExchangeTicks - underWay)
            /\ FanIs(call.held.fanMode, ExchangeTicks - underWay)
        BY <1>3, <2>6, FanIsRead DEF AgeInv, HeldIsRecent
      <3>2. CASE v = Null
        <4>1. agrees(asUnit([call.held EXCEPT !.fanMode = call.held.fanMode]))
          BY <1>2, <3>1
        <4> QED
          BY <2>3, <2>4, <2>6, <3>1, <3>2, <4>1
      <3>3. CASE v # Null
        <4>1. agrees(asUnit([call.held EXCEPT !.fanMode = v]))
          BY <1>2, <1>3, <2>6, <3>1, <3>3
        <4> QED
          BY <2>3, <2>6, <3>3, <4>1
      <3> QED
        BY <3>2, <3>3
    <2> QED
      BY <2>2, <2>5, <2>6
  <1>4. ManagerInv /\ AgeInv /\ wireFaithful' /\ [ManagerNext]_vars
           => [returns => agrees(asUnit(returned'.value))]_vars
    <2> SUFFICES ASSUME ManagerInv, AgeInv, wireFaithful', ManagerNext, returns
                 PROVE  agrees(asUnit(returned'.value))
      OBVIOUS
    <2> HIDE DEF agrees
    <2>1. CallOK /\ HeldIsRecent /\ call.want \in {"F1", "RG"} /\ call.want \in Requests
      BY DEF ManagerInv, AgeInv, HeldIsRecent, Requests, responseCode
    <2>2. ASSUME NEW e \in Nat PROVE call' # [call EXCEPT !.elapsed = e]
      <3>1. call.held \in Operations \cup {Null}
        BY <2>1 DEF HeldIsRecent
      <3>2. [call EXCEPT !.elapsed = e]
               = [call EXCEPT !.want = call.want, !.held = call.held, !.elapsed = e]
        BY <2>1 DEF CallOK
      <3>3. /\ call # Null /\ call.fn = "getOperation" /\ call' = Null
            /\ e \in Nat \cup {Null} /\ CallOK /\ HeldIsRecent /\ call.want \in Requests
        BY <2>1
      <3>4. PICK c : c = [call EXCEPT !.want = call.want, !.held = call.held, !.elapsed = e]
        OBVIOUS
      <3>5. c # Null
        BY <3>1, <3>3, <3>4, CallsArePresent, Zenon
      <3> QED
        BY <3>2, <3>3, <3>4, <3>5
    <2>3. CASE Hit
      <3>1. call.want \in Cached /\ cache[call.want] # Null /\ GoesOn(cache[call.want].value)
        BY <2>3 DEF Hit, fresh
      <3>2. CASE call.want = "F1"
        BY <1>3, <3>1, <3>2 DEF ManagerInv, CacheOK, AgeInv, CacheIsRecent
      <3>3. CASE call.want = "RG"
        BY <1>3, <3>1, <3>3 DEF AgeInv, CacheIsRecent
      <3> QED
        BY <2>1, <3>2, <3>3
    <2>4. CASE Refuse
      BY <1>3, <2>4 DEF Refuse
    <2>5. CASE Response
      <3>1. PICK x \in exchanges(call.want), past \in PastEnd :
               /\ wire' = IF x.received = Null THEN Null ELSE x
               /\ GoesOn(decoded(call.want, x.received, past))
        BY <2>5 DEF Response
      <3> PICK v : v = decoded(call.want, x.received, past)
        OBVIOUS
      <3>2. x.received # Null => x.received = x.sent
        <4>1. x.received # Null => x # Null
          BY <2>1, ExchangeSent, MarkerAssumption DEF ManagerInv
        <4> QED
          BY <3>1, <4>1 DEF wireFaithful
      <3>3. v # Null =>
               /\ call.want = "F1" => v \in Operations /\ \A t \in Int : ReadingIs(v, t)
               /\ call.want = "RG" => \A t \in Int : FanIs(v, t)
        BY <2>1, <3>1, <3>2, FaithfulAnswers DEF AgeInv, ManagerInv
      <3>4. 0 \in Int
        OBVIOUS
      <3> QED
        BY <1>3, <3>1, <3>3, <3>4
    <2>6. CASE Transmit
      BY <2>2, <2>6 DEF Transmit
    <2>7. CASE Tick
      <3>1. call.elapsed \in Nat /\ call' = [call EXCEPT !.elapsed = call.elapsed + 1]
        BY <2>1, <2>7 DEF Tick, Asking, CallOK
      <3>2. call.elapsed + 1 \in Nat
        BY <3>1
      <3> QED
        BY <2>2, <3>1, <3>2
    <2>8. CASE (\E fn \in scenario.calls : Begin(fn)) \/ Command \/ PanelChange \/ LineChange
      BY <2>1, <2>8 DEF Begin, Command, PanelChange, LineChange, managerVars
    <2> QED
      BY <2>3, <2>4, <2>5, <2>6, <2>7, <2>8 DEF ManagerNext
  <1> QED
    BY <1>4, ManagerInvariant, AgeInitially, AgeStep, PTL DEF ManagerSpec, ReadsWithinAge
-----------------------------------------------------------------------------
(* What is written.                                                        *)

\* On a line that deceives nobody, a setter of one field gives the unit its argument
\* and otherwise one operation that the unit had within the age of the caches and one
\* exchange, whatever the panel did since (S21Manager::setOnOff, setSetpoint, setFanMode).
THEOREM SettersCorrect == ManagerSpec /\ []wireFaithful => SettersKeepTheRest
  <1> DEFINE sets == /\ call # Null /\ call.fn \in DOMAIN settable /\ call.want = "D1"
                     /\ call' = Null /\ unit' # unit
             keeps == \E a \in lately :
                         \E f \in {a.fanMode} \cup (IF a.fanMode = Quiet THEN {AutoFan} ELSE {}) :
                            unit'.op = asUnit([[a EXCEPT !.fanMode = f]
                                                  EXCEPT ![settable[call.fn]] = call.arg])
  <1>1. ManagerInv /\ AgeInv /\ [ManagerNext]_vars => [sets => keeps]_vars
    <2> SUFFICES ASSUME ManagerInv, AgeInv, ManagerNext, sets PROVE keeps
      OBVIOUS
    <2>1. Command
      BY DEF ManagerNext, Begin, Hit, Refuse, Transmit, Response, Tick, PanelChange,
             LineChange, managerVars
    <2>2. unit'.op = asUnit(call.held)
      BY <2>1 DEF Command, Leave, ManagerInv
    <2>3. PICK v \in Operations : /\ ReadingIs(v, ExchangeTicks - underWay)
                                  /\ call.held = [v EXCEPT ![settable[call.fn]] = call.arg]
      BY DEF AgeInv, HeldIsRecent, SetterHolds
    <2>4. PICK a : recentlyHad(a, ExchangeTicks - underWay) /\ reads(v, a)
      BY <2>3 DEF ReadingIs
    <2>5. a \in lately /\ a \in Operations
      BY <2>4 DEF recentlyHad, lately, AgeInv, UnitOK, ManagerInv
    <2>6. call.fn \in DOMAIN settable /\ [v EXCEPT ![settable[call.fn]] = call.arg] \in Operations
      BY <2>3 DEF ManagerInv, CallOK
    <2>7. asUnit(call.held)
             = asUnit([[a EXCEPT !.fanMode = v.fanMode] EXCEPT ![settable[call.fn]] = call.arg])
      <3> DEFINE u == [a EXCEPT !.fanMode = v.fanMode]
      <3>1. settable[call.fn] \in {"onOff", "setPoint", "fanMode"}
        BY DEF settable
      <3>2. /\ v.setPoint \in Int /\ quantised(v.setPoint) \in Int
            /\ u = [v EXCEPT !.setPoint = quantised(v.setPoint)]
        BY <2>4, SetPointTypes DEF asUnit, Operations, reads
      <3>3. quantised(quantised(v.setPoint)) = quantised(v.setPoint)
        BY <3>2, QuantisedTwice
      <3> SUFFICES asUnit(call.held) = asUnit([u EXCEPT ![settable[call.fn]] = call.arg])
        OBVIOUS
      <3> HIDE DEF u
      <3>4. CASE settable[call.fn] = "setPoint"
        BY <2>3, <3>2, <3>4 DEF asUnit, Operations
      <3>5. CASE settable[call.fn] = "onOff"
        BY <2>3, <3>2, <3>3, <3>5 DEF asUnit, Operations
      <3>6. CASE settable[call.fn] = "fanMode"
        BY <2>3, <3>2, <3>3, <3>6 DEF asUnit, Operations
      <3> QED
        BY <3>1, <3>4, <3>5, <3>6
    <2>8. v.fanMode \in {a.fanMode} \cup (IF a.fanMode = Quiet THEN {AutoFan} ELSE {})
      BY <2>4 DEF reads
    <2> QED
      BY <2>2, <2>5, <2>7, <2>8
  <1> QED
    BY <1>1, ManagerInvariant, AgeInitially, AgeStep, PTL DEF ManagerSpec, SettersKeepTheRest

\* A setpoint within the range is a half degree of it to the unit.
LEMMA HalfDegrees ==
    ASSUME NEW t, SetPointInRange(t)
    PROVE  \E n \in 20..64 : quantised(t) = 50 * n
  <1> DEFINE d == CDiv(t - 1800, 50)
  <1>1. t \in Int /\ t - 1800 \in -800..1400
    BY DEF SetPointInRange
  <1>2. \A m \in Int : m \in -800..1400 => CDiv(m, 50) \in -16..28
    BY DEF CDiv
  <1>3. d \in -16..28
    BY <1>1, <1>2
  <1> HIDE DEF d
  <1>4. (64 + d) % 256 = 64 + d
    BY <1>3
  <1>5. quantised(t) = ((64 + d) - 64) * 50 + 1800
    BY <1>4 DEF quantised, tempByteToSetPoint, setPointToTempByte, TempByteBase, d
  <1>6. d + 36 \in 20..64 /\ ((64 + d) - 64) * 50 + 1800 = 50 * (d + 36)
    BY <1>3
  <1> QED
    BY <1>5, <1>6

\* What is on the wire has passed the check of setOperation.
CommandInRange ==
    call # Null /\ call.want = "D1" /\ call.elapsed # Null => SetPointInRange(call.held.setPoint)

\* Whatever is asked for, whatever a setter reads on whatever line, and whatever the
\* panel does: the bridge gives the unit only setpoints that it has
\* (S21Presentation::setOperation and setPointToTempByte).
THEOREM SetpointsCorrect == ManagerSpec => []SetpointIsOneOfTheUnit
  <1> DEFINE Inv == SetpointIsOneOfTheUnit /\ CommandInRange
  <1>1. ManagerInit => Inv
    BY DEF ManagerInit, SetpointIsOneOfTheUnit, CommandInRange
  <1>2. ManagerInv /\ Inv /\ [ManagerNext]_vars => Inv'
    <2> SUFFICES ASSUME ManagerInv, Inv, [ManagerNext]_vars PROVE Inv'
      OBVIOUS
    <2>1. scenario' = scenario
      BY DEF ManagerNext, Begin, Hit, Refuse, Transmit, Response, Command, Tick,
             PanelChange, LineChange, vars
    <2>2. unit' = unit => SetpointIsOneOfTheUnit'
      BY <2>1 DEF SetpointIsOneOfTheUnit
    <2>3. call' = call => CommandInRange'
      BY DEF CommandInRange
    <2>4. ASSUME NEW fn, Begin(fn) PROVE Inv'
      <3>1. unit' = unit /\ (call' # call => call'.elapsed = Null)
        <4>1. ASSUME call' # call PROVE call'.elapsed = Null
          <5>1. PICK arg, want, held : call' = [fn |-> fn, arg |-> arg, want |-> want,
                                                held |-> held, elapsed |-> Null]
            BY <2>4, <4>1 DEF Begin
          <5> QED
            BY <5>1
        <4> QED
          BY <2>4, <4>1 DEF Begin
      <3> QED
        BY <2>2, <2>3, <3>1 DEF CommandInRange
    <2>5. ASSUME NEW v, call # Null, GoesOn(v) PROVE CommandInRange'
      BY <2>5, GoesOnAsks DEF CommandInRange, ManagerInv
    <2>6. CASE Hit \/ Refuse \/ Response
      <3>1. unit' = unit /\ call # Null /\ \E v : GoesOn(v)
        BY <2>6 DEF Hit, Refuse, Response, Asking
      <3> QED
        BY <2>2, <2>5, <3>1
    <2>7. CASE Transmit
      <3>1. unit' = unit /\ call # Null /\ call' = [call EXCEPT !.elapsed = 0]
        BY <2>7 DEF Transmit, Asking
      <3>2. call'.want = call.want /\ call'.held = call.held
        BY <3>1 DEF ManagerInv, CallOK
      <3>3. call.want = "D1" => SetPointInRange(call.held.setPoint)
        BY <2>7 DEF Transmit
      <3> QED
        BY <2>2, <3>1, <3>2, <3>3 DEF CommandInRange
    <2>8. CASE Tick
      <3>1. unit' = unit
        BY <2>8 DEF Tick
      <3>2. CASE call # Null
        <4>1. call' = [call EXCEPT !.elapsed = call.elapsed + 1] /\ call.elapsed # Null
          BY <2>8, <3>2 DEF Tick, Asking
        <4>2. call'.want = call.want /\ call'.held = call.held
          BY <3>2, <4>1 DEF ManagerInv, CallOK
        <4> QED
          BY <2>2, <3>1, <3>2, <4>1, <4>2 DEF CommandInRange
      <3>3. CASE call = Null
        BY <2>2, <2>3, <2>8, <3>1, <3>3 DEF Tick
      <3> QED
        BY <3>2, <3>3
    <2>9. CASE Command
      <3>1. /\ call # Null /\ call.held \in Operations /\ SetPointInRange(call.held.setPoint)
            /\ \E v : GoesOn(v)
        BY <2>9 DEF Command, CommandInRange, ManagerInv, CallOK
      <3>2. unit' = unit \/ unit'.op = asUnit(call.held)
        BY <2>9 DEF Command, Leave, ManagerInv
      <3>3. asUnit(call.held).setPoint = quantised(call.held.setPoint)
        BY <3>1 DEF asUnit, Operations
      <3>4. SetpointIsOneOfTheUnit'
        BY <2>2, <3>1, <3>2, <3>3, HalfDegrees DEF SetpointIsOneOfTheUnit
      <3> QED
        BY <2>5, <3>1, <3>4
    <2>10. CASE PanelChange
      <3>1. unit'.op \in scenario.panel /\ call' = call
        BY <2>10 DEF PanelChange, Leave, managerVars, ManagerInv
      <3> QED
        BY <2>1, <2>3, <3>1 DEF SetpointIsOneOfTheUnit
    <2>11. CASE LineChange \/ UNCHANGED vars
      BY <2>2, <2>3, <2>11 DEF LineChange, vars, managerVars
    <2> QED
      BY <2>4, <2>6, <2>7, <2>8, <2>9, <2>10, <2>11 DEF ManagerNext
  <1> QED
    BY <1>1, <1>2, ManagerInvariant, PTL DEF ManagerSpec
-----------------------------------------------------------------------------
(* Sensors.                                                                *)

\* What three digits can say.
threeDigits == 0..999

\* A number of three digits is the sum of what they stand for.
LEMMA DigitsSum ==
    ASSUME NEW n \in threeDigits
    PROVE  (n % 10) + ((n \div 10) % 10) * 10 + ((n \div 100) % 10) * 100 = n
  BY SMT DEF threeDigits

\* The digits of n, units first, after the two bytes of the code.
digitsAt(r, n, past) ==
    /\ at(r, 2, past) = zero + (n % 10)
    /\ at(r, 3, past) = zero + ((n \div 10) % 10)
    /\ at(r, 4, past) = zero + ((n \div 100) % 10)

\* They give their number back.
LEMMA DigitsDecoded ==
    ASSUME NEW n \in threeDigits, NEW r, NEW past, digitsAt(r, n, past)
    PROVE  decodeReversedDigits(r, 2, past) = n
  <1> DEFINE d0 == n % 10
             d1 == (n \div 10) % 10
             d2 == (n \div 100) % 10
  <1>1. d0 \in Int /\ d1 \in Int /\ d2 \in Int
    BY DEF threeDigits
  <1>2. d0 + d1 * 10 + d2 * 100 = n
    BY DigitsSum
  <1>3. at(r, 2, past) = zero + d0 /\ at(r, 3, past) = zero + d1 /\ at(r, 4, past) = zero + d2
    BY DEF digitsAt
  <1> HIDE DEF d0, d1, d2
  <1>4. decodeReversedDigits(r, 2, past)
           = (at(r, 2, past) - zero) + (at(r, 3, past) - zero) * 10 + (at(r, 4, past) - zero) * 100
    BY DEF decodeReversedDigits
  <1>5. (zero + d0) - zero = d0 /\ (zero + d1) - zero = d1 /\ (zero + d2) - zero = d2
    BY <1>1 DEF zero
  <1> QED
    BY <1>2, <1>3, <1>4, <1>5

\* Small numbers keep their value in a byte and in two.
LEMMA WidthsKeep ==
    /\ \A n \in Int : -128 <= n /\ n <= 127 => int8(n) = n
    /\ \A n \in Int : -10000 <= n /\ n <= 10000 => int16(n) = n
  <1>1. \A n \in Int : -128 <= n /\ n <= 127 => (n + 128) % 256 = n + 128
    OBVIOUS
  <1>2. \A n \in Int : -10000 <= n /\ n <= 10000 => (n + 32768) % 65536 = n + 32768
    OBVIOUS
  <1> QED
    BY <1>1, <1>2 DEF int8, int16

\* Temperatures that F9 has a byte for, in hundredths of a degree, and those bytes.
sensorRange == {t \in Int : -6500 <= t /\ t <= 6500}
signedBytes == {d \in Int : -128 <= d /\ d <= 127}

LEMMA SensorRange ==
    /\ Env.indoor \in sensorRange /\ CDiv(Env.indoor, 50) \in signedBytes
    /\ Env.outdoor \in sensorRange /\ CDiv(Env.outdoor, 50) \in signedBytes
    /\ Env.humidity \in Nat /\ Env.humidity < 208
  <1>1. ASSUME NEW t \in Int, 128 + CDiv(t, 50) \in Byte
        PROVE  t \in sensorRange /\ CDiv(t, 50) \in signedBytes
    <2>1. CDiv(t, 50) \in Int
      BY DEF CDiv
    <2>2. CDiv(t, 50) \in signedBytes
      BY <1>1, <2>1 DEF Byte, signedBytes
    <2>3. t \in sensorRange
      BY <2>2 DEF CDiv, sensorRange, signedBytes
    <2> QED
      BY <2>2, <2>3
  <1>2. /\ Env.indoor \in Int /\ Env.outdoor \in Int /\ Env.humidity \in Nat
        /\ 128 + CDiv(Env.indoor, 50) \in Byte /\ 128 + CDiv(Env.outdoor, 50) \in Byte
        /\ zero + Env.humidity \in Byte
    BY UnitAssumption
  <1>3. Env.humidity < 208
    BY <1>2 DEF zero, Byte
  <1> QED
    BY <1>1, <1>2, <1>3, Zenon

\* Tenths of a degree have three digits.
LEMMA TenthsFacts ==
    /\ \A t \in sensorRange : /\ t >= 0 => t \div 10 \in threeDigits
                              /\ ~(t >= 0) => (-t) \div 10 \in threeDigits
    /\ \A n \in threeDigits : int16(n * 10) = n * 10 /\ int16((-n) * 10) = (-n) * 10
  <1>1. \A t \in sensorRange : /\ t >= 0 => t \div 10 \in threeDigits
                               /\ ~(t >= 0) => (-t) \div 10 \in threeDigits
    BY DEF sensorRange, threeDigits
  <1>2. ASSUME NEW n \in threeDigits
        PROVE  /\ n * 10 \in Int /\ -10000 <= n * 10 /\ n * 10 <= 10000
               /\ (-n) * 10 \in Int /\ -10000 <= (-n) * 10 /\ (-n) * 10 <= 10000
    BY DEF threeDigits
  <1> QED
    BY <1>1, <1>2, WidthsKeep

\* Three digits and a sign are a temperature in hundredths of a degree.
LEMMA SignedDecoded ==
    ASSUME NEW n \in threeDigits, NEW r, NEW past, digitsAt(r, n, past)
    PROVE  decodeSensorTemp(r, past) = IF at(r, 5, past) = 43 THEN n * 10 ELSE (-n) * 10
  <1>1. decodeReversedDigits(r, 2, past) = n
    BY DigitsDecoded
  <1>2. int16(n * 10) = n * 10 /\ int16((-n) * 10) = (-n) * 10
    BY TenthsFacts
  <1>3. decodeSensorTemp(r, past) = int16((IF at(r, 5, past) = 43 THEN n ELSE -n) * 10)
    BY <1>1 DEF decodeSensorTemp
  <1> QED
    BY <1>2, <1>3

\* What follows the code of a response, and where in it.
concatenated(r, p, q) == r = p \o q
follows(r, a, b, q) == concatenated(r, <<a, b>>, q)
placed(r, p, q) == Len(r) = Len(p) + Len(q) /\ \A i \in 1..Len(q) : r[Len(p) + i] = q[i]

LEMMA Placed ==
    ASSUME NEW p \in Seq(Int), NEW q \in Seq(Int), NEW r, concatenated(r, p, q)
    PROVE  placed(r, p, q)
  BY DEF concatenated, placed

\* Three bytes after the code are where the decoders look for them.
LEMMA ThreeFollow ==
    ASSUME NEW a \in Int, NEW b \in Int, NEW q \in Seq(Int), NEW r, NEW past,
           follows(r, a, b, q), Len(q) >= 3
    PROVE  /\ at(r, 2, past) = q[1] /\ at(r, 3, past) = q[2] /\ at(r, 4, past) = q[3]
           /\ Len(q) >= 4 => at(r, 5, past) = q[4]
  <1> DEFINE p == <<a, b>>
  <1>1. p \in Seq(Int) /\ Len(p) = 2 /\ concatenated(r, p, q)
    BY DEF follows
  <1>2. Len(q) \in Nat
    OBVIOUS
  <1> HIDE DEF p
  <1>3. placed(r, p, q)
    BY <1>1, Placed
  <1>4. Len(r) = 2 + Len(q) /\ \A i \in 1..Len(q) : r[2 + i] = q[i]
    BY <1>1, <1>3 DEF placed
  <1>5. r[2 + 1] = q[1] /\ r[2 + 2] = q[2] /\ r[2 + 3] = q[3]
    BY <1>2, <1>4
  <1>6. Len(q) >= 4 => r[2 + 4] = q[4]
    BY <1>2, <1>4
  <1>7. 2 < Len(r) /\ 3 < Len(r) /\ 4 < Len(r) /\ (Len(q) >= 4 => 5 < Len(r))
    BY <1>2, <1>4
  <1>8. at(r, 2, past) = r[3] /\ at(r, 3, past) = r[4] /\ at(r, 4, past) = r[5]
    BY <1>7 DEF at
  <1>9. Len(q) >= 4 => at(r, 5, past) = r[6]
    BY <1>7 DEF at
  <1> QED
    BY <1>5, <1>6, <1>8, <1>9

\* The digits of a number, units first, and perhaps more ...
digits(q, n) ==
    /\ q \in Seq(Int) /\ Len(q) >= 3
    /\ q[1] = zero + (n % 10) /\ q[2] = zero + ((n \div 10) % 10)
    /\ q[3] = zero + ((n \div 100) % 10)

\* ... are read as they were written.
LEMMA DigitsFollow ==
    ASSUME NEW n, NEW a \in Int, NEW b \in Int, NEW q, digits(q, n),
           NEW r, NEW past, follows(r, a, b, q)
    PROVE  digitsAt(r, n, past)
  <1>1. q \in Seq(Int) /\ Len(q) >= 3
    BY DEF digits
  <1>2. at(r, 2, past) = q[1] /\ at(r, 3, past) = q[2] /\ at(r, 4, past) = q[3]
    BY <1>1, ThreeFollow
  <1> QED
    BY <1>2 DEF digits, digitsAt

\* The unit writes them alone, or with a sign.
LEMMA DigitsWritten ==
    ASSUME NEW n \in threeDigits
    PROVE  /\ digits(reversedDigits(n), n)
           /\ \A c \in Int : LET q == reversedDigits(n) \o <<c>>
                             IN  digits(q, n) /\ Len(q) >= 4 /\ q[4] = c
  <1> DEFINE x == zero + (n % 10)
             y == zero + ((n \div 10) % 10)
             z == zero + ((n \div 100) % 10)
  <1>1. x \in Int /\ y \in Int /\ z \in Int
    BY DEF threeDigits, zero
  <1>2. reversedDigits(n) = <<x, y, z>>
    BY DEF reversedDigits
  <1>3. \A q : digits(q, n) <=> /\ q \in Seq(Int) /\ Len(q) >= 3
                                /\ q[1] = x /\ q[2] = y /\ q[3] = z
    BY DEF digits
  <1> HIDE DEF x, y, z
  <1>4. ASSUME NEW c \in Int, NEW q, q = <<x, y, z>> \o <<c>>
        PROVE  q \in Seq(Int) /\ Len(q) = 4 /\ q[1] = x /\ q[2] = y /\ q[3] = z /\ q[4] = c
    BY <1>1, <1>4
  <1>5. ASSUME NEW q, q = <<x, y, z>>
        PROVE  q \in Seq(Int) /\ Len(q) = 3 /\ q[1] = x /\ q[2] = y /\ q[3] = z
    BY <1>1, <1>5
  <1>6. digits(reversedDigits(n), n)
    <2> DEFINE q == reversedDigits(n)
    <2>1. q \in Seq(Int) /\ Len(q) = 3 /\ q[1] = x /\ q[2] = y /\ q[3] = z
      BY <1>2, <1>5
    <2> HIDE DEF q
    <2>2. digits(q, n)
      BY <1>3, <2>1
    <2> QED
      BY <2>2 DEF q
  <1>7. ASSUME NEW c \in Int
        PROVE  LET q == reversedDigits(n) \o <<c>>
               IN  digits(q, n) /\ Len(q) >= 4 /\ q[4] = c
    <2> DEFINE q == reversedDigits(n) \o <<c>>
    <2>1. q \in Seq(Int) /\ Len(q) = 4 /\ q[1] = x /\ q[2] = y /\ q[3] = z /\ q[4] = c
      BY <1>2, <1>4, Zenon
    <2> HIDE DEF q
    <2>2. digits(q, n) /\ Len(q) >= 4 /\ q[4] = c
      BY <1>3, <2>1
    <2> QED
      BY <2>2 DEF q
  <1> QED
    BY <1>6, <1>7

\* A reading of RH or Ra is the temperature to a tenth of a degree, with its sign.
LEMMA SensorDecoded ==
    ASSUME NEW t \in sensorRange, NEW a \in Int, NEW b \in Int, NEW past, NEW r,
           follows(r, a, b, sensorTemp(t))
    PROVE  decodeSensorTemp(r, past) = towardsZero(t, 10)
  <1> DEFINE q == sensorTemp(t)
  <1>0. follows(r, a, b, q)
    OBVIOUS
  <1>1. CASE t >= 0
    <2> DEFINE n == t \div 10
    <2>1. n \in threeDigits
      BY <1>1, TenthsFacts
    <2>2. q = reversedDigits(n) \o <<43>>
      BY <1>1 DEF sensorTemp
    <2>3. towardsZero(t, 10) = n * 10
      BY <1>1 DEF towardsZero, CDiv
    <2> HIDE DEF n, q
    <2>4. digits(q, n) /\ Len(q) >= 4 /\ q[4] = 43
      BY <2>1, <2>2, DigitsWritten
    <2>5. digitsAt(r, n, past)
      BY <1>0, <2>1, <2>4, DigitsFollow
    <2>6. q \in Seq(Int) /\ Len(q) >= 3
      BY <2>4 DEF digits
    <2>7. at(r, 5, past) = 43
      BY <1>0, <2>4, <2>6, ThreeFollow
    <2> QED
      BY <2>1, <2>3, <2>5, <2>7, SignedDecoded
  <1>2. CASE ~(t >= 0)
    <2> DEFINE n == (-t) \div 10
    <2>1. n \in threeDigits
      BY <1>2, TenthsFacts
    <2>2. q = reversedDigits(n) \o <<45>>
      BY <1>2 DEF sensorTemp
    <2>3. towardsZero(t, 10) = (-n) * 10
      BY <1>2 DEF towardsZero, CDiv
    <2> HIDE DEF n, q
    <2>4. digits(q, n) /\ Len(q) >= 4 /\ q[4] = 45
      BY <2>1, <2>2, DigitsWritten
    <2>5. digitsAt(r, n, past)
      BY <1>0, <2>1, <2>4, DigitsFollow
    <2>6. q \in Seq(Int) /\ Len(q) >= 3
      BY <2>4 DEF digits
    <2>7. at(r, 5, past) = 45
      BY <1>0, <2>4, <2>6, ThreeFollow
    <2> QED
      BY <2>1, <2>3, <2>5, <2>7, SignedDecoded
  <1> QED
    BY <1>1, <1>2

\* What the unit's answer to each sensor command says.
readsSensor(s, v) ==
    /\ s = "RH" => v = towardsZero(Env.indoor, 10)
    /\ s = "Ra" => v = towardsZero(Env.outdoor, 10)
    /\ s = "Re" => v = Env.humidity
    /\ s = "F9" => v = [indoor   |-> towardsZero(Env.indoor, 50),
                        outdoor  |-> towardsZero(Env.outdoor, 50),
                        humidity |-> Env.humidity]

\* A byte of F9 is the temperature to half a degree.
LEMMA CoarseDecoded ==
    ASSUME NEW t, CDiv(t, 50) \in signedBytes
    PROVE  coarseTemp(128 + CDiv(t, 50)) = towardsZero(t, 50)
  <1> DEFINE d == CDiv(t, 50)
  <1>1. d \in signedBytes
    OBVIOUS
  <1> HIDE DEF d
  <1>2. (128 + d) - 128 = d /\ int8(d) = d
    BY <1>1, WidthsKeep DEF signedBytes
  <1>3. d * 50 \in Int /\ -10000 <= d * 50 /\ d * 50 <= 10000
    BY <1>1 DEF signedBytes
  <1>4. int16(d * 50) = d * 50
    BY <1>3, WidthsKeep
  <1> QED
    BY <1>2, <1>4 DEF coarseTemp, towardsZero, d

\* The three bytes of F9 ...
coarseBytes == <<128 + CDiv(Env.indoor, 50), 128 + CDiv(Env.outdoor, 50), zero + Env.humidity>>

\* ... are read as they were written.
LEMMA CoarseFollows ==
    ASSUME NEW a \in Int, NEW b \in Int, NEW r, NEW past, follows(r, a, b, coarseBytes)
    PROVE  /\ coarseTemp(at(r, 2, past)) = towardsZero(Env.indoor, 50)
           /\ coarseTemp(at(r, 3, past)) = towardsZero(Env.outdoor, 50)
           /\ (at(r, 4, past) - zero) % 256 = Env.humidity
  <1> DEFINE x == 128 + CDiv(Env.indoor, 50)
             y == 128 + CDiv(Env.outdoor, 50)
             z == zero + Env.humidity
  <1>1. x \in Int /\ y \in Int /\ z \in Int
    BY SensorRange DEF signedBytes, zero
  <1>2. coarseTemp(x) = towardsZero(Env.indoor, 50) /\ coarseTemp(y) = towardsZero(Env.outdoor, 50)
    BY SensorRange, CoarseDecoded
  <1>3. (z - zero) % 256 = Env.humidity
    <2>1. \A h \in Nat : h < 208 => ((zero + h) - zero) % 256 = h
      BY DEF zero
    <2> QED
      BY <2>1, SensorRange
  <1>4. coarseBytes = <<x, y, z>>
    BY DEF coarseBytes
  <1> HIDE DEF x, y, z
  <1>5. /\ coarseBytes \in Seq(Int) /\ Len(coarseBytes) = 3
        /\ coarseBytes[1] = x /\ coarseBytes[2] = y /\ coarseBytes[3] = z
    BY <1>1, <1>4
  <1>6. coarseBytes \in Seq(Int) /\ Len(coarseBytes) >= 3
    BY <1>5
  <1>7. /\ at(r, 2, past) = coarseBytes[1] /\ at(r, 3, past) = coarseBytes[2]
        /\ at(r, 4, past) = coarseBytes[3]
    BY <1>6, ThreeFollow
  <1> QED
    BY <1>2, <1>3, <1>5, <1>7

\* What the unit sends for each sensor command.
LEMMA SensorResponses ==
    ASSUME unit \in [op : Operations, env : {Env}], NEW s, NEW r \in responses(s, unit)
    PROVE  /\ s = "RH" => follows(r, 83, 72, sensorTemp(Env.indoor))
           /\ s = "Ra" => follows(r, 83, 97, sensorTemp(Env.outdoor))
           /\ s = "Re" => follows(r, 83, 101, reversedDigits(Env.humidity))
           /\ s = "F9" => follows(r, 71, 57, coarseBytes)
  <1>1. unit.env = Env
    OBVIOUS
  <1>2. CASE s = "RH"
    <2>1. r = responseCode["RH"] \o sensorTemp(unit.env.indoor)
      BY <1>2 DEF responses
    <2>2. responseCode["RH"] = <<83, 72>>
      BY DEF responseCode
    <2> QED
      BY <1>1, <1>2, <2>1, <2>2, Zenon DEF follows, concatenated
  <1>3. CASE s = "Ra"
    <2>1. r = responseCode["Ra"] \o sensorTemp(unit.env.outdoor)
      BY <1>3 DEF responses
    <2>2. responseCode["Ra"] = <<83, 97>>
      BY DEF responseCode
    <2> QED
      BY <1>1, <1>3, <2>1, <2>2, Zenon DEF follows, concatenated
  <1>4. CASE s = "Re"
    <2>1. r = responseCode["Re"] \o reversedDigits(unit.env.humidity)
      BY <1>4 DEF responses
    <2>2. responseCode["Re"] = <<83, 101>>
      BY DEF responseCode
    <2> QED
      BY <1>1, <1>4, <2>1, <2>2, Zenon DEF follows, concatenated
  <1>5. CASE s = "F9"
    <2>1. r = responseCode["F9"] \o <<128 + CDiv(unit.env.indoor, 50),
                                      128 + CDiv(unit.env.outdoor, 50),
                                      zero + unit.env.humidity>>
      BY <1>5 DEF responses
    <2>2. responseCode["F9"] = <<71, 57>>
      BY DEF responseCode
    <2> QED
      BY <1>1, <1>5, <2>1, <2>2, Zenon DEF follows, concatenated, coarseBytes
  <1> QED
    BY <1>2, <1>3, <1>4, <1>5, Zenon

\* On a line that deceives nobody, the decoders read what the unit measures.
LEMMA FaithfulSensors ==
    ASSUME unit \in [op : Operations, env : {Env}],
           NEW s \in {"RH", "Ra", "Re", "F9"}, NEW x \in exchanges(s), NEW past \in PastEnd,
           x.received # Null => x.received = x.sent,
           NEW v, v = decoded(s, x.received, past), v # Null
    PROVE  readsSensor(s, v)
  <1> DEFINE r == x.received
  <1>1. s \in Requests /\ s \in Tracked
    BY DEF Requests, responseCode, Tracked
  <1>2. /\ r # Null /\ validateResponseCode(r, s, past)
        /\ s \in {"RH", "Ra"} => v = decodeSensorTemp(r, past)
        /\ s = "Re" => v = decodeHumidity(r, past)
        /\ s = "F9" => v = [indoor   |-> coarseTemp(at(r, 2, past)),
                            outdoor  |-> coarseTemp(at(r, 3, past)),
                            humidity |-> (at(r, 4, past) - zero) % 256]
    BY DEF decoded
  <1>3. x.sent \in responses(s, unit) \/ x.sent \in Garbage
    BY <1>1, <1>2, ExchangeSent
  <1>4. r = x.sent
    BY <1>2
  <1>5. r \in responses(s, unit)
    BY <1>1, <1>2, <1>3, <1>4, AnswerAssumption
  <1> HIDE DEF r
  <1>6. CASE s = "RH"
    <2>1. follows(r, 83, 72, sensorTemp(Env.indoor))
      BY <1>5, <1>6, SensorResponses
    <2>2. decodeSensorTemp(r, past) = towardsZero(Env.indoor, 10)
      BY <2>1, SensorDecoded, SensorRange
    <2> QED
      BY <1>2, <1>6, <2>2 DEF readsSensor
  <1>7. CASE s = "Ra"
    <2>1. follows(r, 83, 97, sensorTemp(Env.outdoor))
      BY <1>5, <1>7, SensorResponses
    <2>2. decodeSensorTemp(r, past) = towardsZero(Env.outdoor, 10)
      BY <2>1, SensorDecoded, SensorRange
    <2> QED
      BY <1>2, <1>7, <2>2 DEF readsSensor
  <1>8. CASE s = "Re"
    <2> DEFINE q == reversedDigits(Env.humidity)
    <2>1. follows(r, 83, 101, q)
      BY <1>5, <1>8, SensorResponses
    <2>2. Env.humidity \in Nat /\ Env.humidity < 208 /\ Env.humidity \in threeDigits
      BY SensorRange DEF threeDigits
    <2>3. digits(q, Env.humidity)
      BY <2>2, DigitsWritten
    <2> HIDE DEF q
    <2>4. digitsAt(r, Env.humidity, past)
      BY <2>1, <2>3, DigitsFollow
    <2>5. decodeReversedDigits(r, 2, past) = Env.humidity
      BY <2>2, <2>4, DigitsDecoded
    <2>6. \A h \in Nat : h < 208 => h % 256 = h
      OBVIOUS
    <2>7. decodeHumidity(r, past) = Env.humidity
      BY <2>2, <2>5, <2>6 DEF decodeHumidity
    <2> QED
      BY <1>2, <1>8, <2>7 DEF readsSensor
  <1>9. CASE s = "F9"
    <2>1. /\ coarseTemp(at(r, 2, past)) = towardsZero(Env.indoor, 50)
          /\ coarseTemp(at(r, 3, past)) = towardsZero(Env.outdoor, 50)
          /\ (at(r, 4, past) - zero) % 256 = Env.humidity
      BY <1>5, <1>9, SensorResponses, CoarseFollows
    <2> QED
      BY <1>2, <1>9, <2>1 DEF readsSensor
  <1> QED
    BY <1>6, <1>7, <1>8, <1>9

\* The sensors as their calls may return them.
sensorIs(fn, v) ==
    v \in IF fn = "getHumidity" THEN {Env[coarse[fn]]}
          ELSE {towardsZero(Env[coarse[fn]], 10), towardsZero(Env[coarse[fn]], 50)}

\* A sensor call asks for its own sensor or for F9, ...
AsksForSensor ==
    call # Null /\ call.fn \in DOMAIN coarse => call.want \in {firstSource[call.fn], "F9"}

\* ... F9 is cached as the unit measures it, and so is what was returned.
SensorInv ==
    /\ cache["F9"] # Null => readsSensor("F9", cache["F9"].value)
    /\ AsksForSensor /\ sensorsRead

\* A sensor call returns the field it is about.
LEMMA SensorFields ==
    ASSUME NEW fn \in DOMAIN coarse, NEW want \in {firstSource[fn], "F9"},
           NEW v, readsSensor(want, v)
    PROVE  sensorIs(fn, IF want = "F9" THEN v[coarse[fn]] ELSE v)
  <1>1. /\ DOMAIN coarse = {"getRoomTemperature", "getOutdoorTemperature", "getHumidity"}
        /\ coarse["getRoomTemperature"] = "indoor" /\ coarse["getOutdoorTemperature"] = "outdoor"
        /\ coarse["getHumidity"] = "humidity"
    BY DEF coarse
  <1>2. /\ firstSource["getRoomTemperature"] = "RH" /\ firstSource["getOutdoorTemperature"] = "Ra"
        /\ firstSource["getHumidity"] = "Re"
    BY DEF firstSource
  <1>3. CASE want = "F9"
    <2>1. v = [indoor   |-> towardsZero(Env.indoor, 50), outdoor |-> towardsZero(Env.outdoor, 50),
               humidity |-> Env.humidity]
      BY <1>3 DEF readsSensor
    <2>2. /\ v["indoor"] = towardsZero(Env.indoor, 50)
          /\ v["outdoor"] = towardsZero(Env.outdoor, 50) /\ v["humidity"] = Env.humidity
      BY <2>1
    <2> QED
      BY <1>1, <1>3, <2>2 DEF sensorIs
  <1>4. CASE want # "F9"
    <2>1. want = firstSource[fn]
      BY <1>4
    <2> QED
      BY <1>1, <1>2, <1>4, <2>1 DEF sensorIs, readsSensor
  <1> QED
    BY <1>3, <1>4

\* However a call goes on, it asks for its own sensor and returns it.
LEMMA GoesOnReads ==
    ASSUME CallOK, AsksForSensor, sensorsRead, call # Null, NEW v, GoesOn(v),
           v # Null => readsSensor(call.want, v)
    PROVE  AsksForSensor' /\ sensorsRead'
  <1>1. ASSUME NEW source, NEW held, Ask(source, held),
               call.fn \in DOMAIN coarse => source = "F9"
        PROVE  AsksForSensor' /\ sensorsRead'
    <2>1. call'.fn = call.fn /\ call'.want = source /\ returned' = returned
      BY <1>1 DEF Ask, CallOK
    <2> QED
      BY <1>1, <2>1 DEF AsksForSensor, sensorsRead
  <1>2. ASSUME NEW value, Return(value),
               call.fn \in DOMAIN coarse /\ value # Null => sensorIs(call.fn, value)
        PROVE  AsksForSensor' /\ sensorsRead'
    <2>1. call' = Null /\ returned' = [fn |-> call.fn, value |-> value]
      BY <1>2 DEF Return
    <2>2. returned'.fn = call.fn /\ returned'.value = value
      BY <2>1
    <2> QED
      BY <1>2, <2>1, <2>2 DEF AsksForSensor, sensorsRead, sensorIs
  <1>3. CASE InitGoesOn(v)
    <2>1. call.fn \notin DOMAIN coarse
      BY <1>3 DEF InitGoesOn, coarse
    <2> QED
      BY <1>1, <1>2, <1>3, <2>1 DEF InitGoesOn
  <1>4. CASE getOperationGoesOn(v)
    <2>1. call.fn \notin DOMAIN coarse
      BY <1>4 DEF getOperationGoesOn, coarse
    <2> QED
      BY <1>1, <1>2, <1>4, <2>1 DEF getOperationGoesOn
  <1>5. CASE accessorGoesOn(v)
    <2>1. call.fn \notin DOMAIN coarse
      BY <1>5 DEF accessorGoesOn, accessors, coarse
    <2> QED
      BY <1>1, <1>2, <1>5, <2>1 DEF accessorGoesOn
  <1>6. CASE setterGoesOn(v)
    <2>1. call.fn \notin DOMAIN coarse
      BY <1>6 DEF setterGoesOn, argument, coarse
    <2>2. CASE call.want = "F1" /\ v # Null
      BY <1>1, <1>6, <2>1, <2>2 DEF setterGoesOn
    <2>3. CASE ~(call.want = "F1" /\ v # Null)
      BY <1>2, <1>6, <2>1, <2>3 DEF setterGoesOn
    <2> QED
      BY <2>2, <2>3
  <1>7. CASE sensorGoesOn(v)
    <2>1. CASE v = Null /\ call.want \in {"RH", "Ra", "Re"}
      BY <1>1, <1>7, <2>1 DEF sensorGoesOn
    <2>2. CASE ~(v = Null /\ call.want \in {"RH", "Ra", "Re"})
      <3> DEFINE value == IF call.want = "F9" /\ v # Null THEN v[coarse[call.fn]] ELSE v
      <3>1. Return(value)
        BY <1>7, <2>2 DEF sensorGoesOn
      <3>2. ASSUME call.fn \in DOMAIN coarse, value # Null
            PROVE  sensorIs(call.fn, value)
        <4>1. v # Null
          BY <3>2
        <4>2. call.want \in {firstSource[call.fn], "F9"} /\ readsSensor(call.want, v)
          BY <3>2, <4>1 DEF AsksForSensor
        <4>3. value = IF call.want = "F9" THEN v[coarse[call.fn]] ELSE v
          BY <4>1
        <4> QED
          BY <3>2, <4>2, <4>3, SensorFields
      <3> HIDE DEF value
      <3> QED
        BY <1>2, <3>1, <3>2
    <2> QED
      BY <2>1, <2>2
  <1> QED
    BY <1>3, <1>4, <1>5, <1>6, <1>7 DEF GoesOn

\* Every step keeps the sensors true, on a line that deceives nobody.
LEMMA SensorStep ==
    ASSUME ManagerInv, SensorInv, wireFaithful', [ManagerNext]_vars
    PROVE  SensorInv'
  <1> DEFINE CacheReads == cache["F9"] # Null => readsSensor("F9", cache["F9"].value)
  <1> USE DEF ManagerInv
  <1>1. CacheReads /\ AsksForSensor /\ sensorsRead
    BY DEF SensorInv
  <1>2. SUFFICES CacheReads' /\ AsksForSensor' /\ sensorsRead'
    BY DEF SensorInv
  <1>3. UNCHANGED cache => CacheReads'
    BY <1>1
  <1>4. ASSUME NEW s, NEW value, NEW age, store(s, value, age),
               s = "F9" /\ value # Null => readsSensor("F9", value)
        PROVE  CacheReads'
    <2>1. CASE cache'["F9"] = cache["F9"]
      BY <1>1, <2>1
    <2>2. CASE cache'["F9"] # cache["F9"]
      <3>1. s = "F9" /\ value # Null /\ cache'["F9"] = entry(value, age)
        BY <1>4, <2>2 DEF store, CacheOK, Cached
      <3>2. cache'["F9"] # Null => cache'["F9"].value = value
        BY <3>1 DEF entry
      <3> QED
        BY <1>4, <3>1, <3>2
    <2> QED
      BY <2>1, <2>2
  <1>5. UNCHANGED <<call, returned>> => AsksForSensor' /\ sensorsRead'
    BY <1>1 DEF AsksForSensor, sensorsRead
  <1> HIDE DEF CacheReads
  <1>6. ASSUME NEW fn \in scenario.calls, Begin(fn)
        PROVE  CacheReads' /\ AsksForSensor' /\ sensorsRead'
    <2>1. CacheReads'
      BY <1>3, <1>6 DEF Begin
    <2>2. CASE call' = call
      <3>1. /\ call = Null
            /\ \/ returned' = Null
               \/ returned' = [fn |-> fn, value |-> IF fn = "Init" THEN TRUE ELSE Null]
        BY <1>6 DEF Begin
      <3>2. \/ returned' = Null
            \/ returned'.fn = "Init" \/ returned'.value = Null
        <4>1. CASE returned' = [fn |-> fn, value |-> IF fn = "Init" THEN TRUE ELSE Null]
          <5>1. returned'.fn = fn /\ returned'.value = IF fn = "Init" THEN TRUE ELSE Null
            BY <4>1
          <5> QED
            BY <5>1, Zenon
        <4> QED
          BY <3>1, <4>1
      <3> QED
        BY <2>1, <2>2, <3>1, <3>2 DEF AsksForSensor, sensorsRead, coarse
    <2>3. CASE call' # call
      <3>1. PICK arg : call' = [fn |-> fn, arg |-> arg, want |-> firstSource[fn],
                                held |-> IF fn = "setOperation" THEN arg ELSE Null,
                                elapsed |-> Null]
        BY <1>6, <2>3 DEF Begin
      <3>2. call'.fn = fn /\ call'.want = firstSource[fn] /\ returned' = Null
        BY <1>6, <2>3, <3>1 DEF Begin
      <3> QED
        BY <2>1, <3>2 DEF AsksForSensor, sensorsRead
    <2> QED
      BY <2>2, <2>3
  <1>7. CASE Hit
    <2> DEFINE v == cache[call.want].value
    <2>1. /\ call # Null /\ call.want \in Cached /\ cache[call.want] # Null /\ GoesOn(v)
          /\ UNCHANGED cache
      BY <1>7 DEF Hit, Asking, fresh
    <2>2. readsSensor(call.want, v)
      <3>1. CASE call.want = "F9"
        BY <1>1, <2>1, <3>1 DEF CacheReads
      <3>2. CASE call.want # "F9"
        BY <2>1, <3>2 DEF Cached, readsSensor
      <3> QED
        BY <3>1, <3>2
    <2> HIDE DEF v
    <2> QED
      BY <1>1, <1>3, <2>1, <2>2, GoesOnReads
  <1>8. CASE Refuse
    <2>1. call # Null /\ GoesOn(Null) /\ UNCHANGED cache
      BY <1>8 DEF Refuse, Asking
    <2> QED
      BY <1>1, <1>3, <2>1, GoesOnReads
  <1>9. CASE Transmit
    <2>1. /\ call # Null /\ call' = [call EXCEPT !.elapsed = 0]
          /\ UNCHANGED <<cache, returned>>
      BY <1>9 DEF Transmit, Asking
    <2>2. call'.fn = call.fn /\ call'.want = call.want
      BY <2>1 DEF CallOK
    <2> QED
      BY <1>1, <1>3, <2>1, <2>2 DEF AsksForSensor, sensorsRead
  <1>10. CASE Response
    <2>1. call # Null /\ call.want \in Requests
      BY <1>10 DEF Response, CallOK
    <2>2. PICK x \in exchanges(call.want), past \in PastEnd :
             LET v == decoded(call.want, x.received, past)
             IN  /\ wire' = IF x.received = Null THEN Null ELSE x
                 /\ record(call.want, v)
                 /\ store(call.want, v, call.elapsed)
                 /\ GoesOn(v)
      BY <1>10 DEF Response
    <2>3. PICK v : /\ v = decoded(call.want, x.received, past)
                   /\ store(call.want, v, call.elapsed) /\ GoesOn(v)
      BY <2>2
    <2>4. x.received # Null => x.received = x.sent
      <3>1. x.received # Null => x # Null
        BY <2>1, ExchangeSent, MarkerAssumption
      <3> QED
        BY <2>2, <3>1 DEF wireFaithful
    <2>5. v # Null => readsSensor(call.want, v)
      <3>1. CASE call.want \in {"RH", "Ra", "Re", "F9"}
        BY <2>3, <2>4, <3>1, FaithfulSensors
      <3>2. CASE call.want \notin {"RH", "Ra", "Re", "F9"}
        BY <3>2 DEF readsSensor
      <3> QED
        BY <3>1, <3>2
    <2>6. CacheReads'
      BY <1>4, <2>3, <2>5
    <2> QED
      BY <1>1, <2>1, <2>3, <2>5, <2>6, GoesOnReads
  <1>11. CASE Command
    <2>1. call # Null /\ call.want = "D1" /\ (GoesOn(TRUE) \/ GoesOn(Null))
      BY <1>11 DEF Command
    <2>2. UNCHANGED cache \/ store("F1", call.held, 0)
      BY <1>11 DEF Command
    <2>3. CacheReads'
      BY <1>3, <1>4, <2>2
    <2>4. \A v : readsSensor(call.want, v)
      BY <2>1 DEF readsSensor
    <2> QED
      BY <1>1, <2>1, <2>3, <2>4, GoesOnReads
  <1>12. CASE Tick
    <2>1. /\ cache' = [s \in Cached |-> older(cache[s], 1)] /\ returned' = returned
          /\ call' = IF call = Null THEN call ELSE [call EXCEPT !.elapsed = @ + 1]
      BY <1>12 DEF Tick
    <2>2. cache'["F9"] = older(cache["F9"], 1)
      BY <2>1 DEF Cached
    <2>3. cache'["F9"] # Null =>
             cache["F9"] # Null /\ cache'["F9"].value = cache["F9"].value
      BY <2>2 DEF older, CacheOK, Cached
    <2>4. CacheReads'
      BY <1>1, <2>3 DEF CacheReads
    <2>5. call # Null => call'.fn = call.fn /\ call'.want = call.want
      BY <2>1 DEF CallOK
    <2> QED
      BY <1>1, <2>1, <2>4, <2>5 DEF AsksForSensor, sensorsRead
  <1>13. CASE PanelChange \/ LineChange \/ UNCHANGED vars
    <2>1. UNCHANGED <<cache, call, returned>>
      BY <1>13 DEF PanelChange, LineChange, vars, managerVars
    <2> QED
      BY <1>3, <1>5, <2>1
  <1> QED
    BY <1>6, <1>7, <1>8, <1>9, <1>10, <1>11, <1>12, <1>13 DEF ManagerNext

\* As long as the line alters no frame into one that decode cannot tell from it, the
\* sensor calls return what the unit measures, for every temperature and humidity that
\* F9 has a byte for: to a tenth of a degree from RH and Ra, to half a degree from F9
\* and its cache, with the sign, and each its own field (decodeSensorTemp,
\* getCoarseTemperatureAndHumidity, S21Manager::getRoomTemperature and its siblings).
THEOREM SensorsCorrect == ManagerSpec => SensorsReadTrue
  <1>1. ManagerInit => SensorInv
    <2> SUFFICES ASSUME ManagerInit PROVE SensorInv
      OBVIOUS
    <2>1. cache["F9"] = Null /\ call = Null /\ returned = Null
      BY DEF ManagerInit, Cached
    <2> QED
      BY <2>1 DEF SensorInv, AsksForSensor, sensorsRead
  <1>2. ManagerInv /\ SensorInv /\ wireFaithful' /\ [ManagerNext]_vars => SensorInv'
    BY SensorStep
  <1>3. SensorInv => sensorsRead
    BY DEF SensorInv
  <1> QED
    BY <1>1, <1>2, <1>3, ManagerInvariant, PTL DEF ManagerSpec, SensorsReadTrue
=============================================================================
