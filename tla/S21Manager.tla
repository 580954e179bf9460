----------------------------- MODULE S21Manager -----------------------------
(***************************************************************************)
(* The orchestration layer over the S21 commands (s21_manager.cpp): the    *)
(* version handshake, the read-through caches of F1, F9 and RG, and the    *)
(* record of which commands the unit answers.  One thread calls it, one    *)
(* call at a time (call); a call asks a row of sources (call.want), each a *)
(* request on the wire unless a cache or the capability record settles it. *)
(*                                                                         *)
(* Time passes in ticks.  A cache entry is stamped when its fetch starts   *)
(* and serves until MaxAge ticks have passed; an entry too old to serve is *)
(* dropped, the clock never runs backwards.                                *)
(***************************************************************************)
EXTENDS S21Presentation, FiniteSets

CONSTANTS
    MaxAge,          \* cacheMaxAge, in ticks
    ExchangeTicks,   \* bound: the longest exchange the timeouts of the data link allow
    kThreshold,      \* failures of a command never yet answered, beyond which it is given up
    Scenarios,       \* bound: [calls, panel, supports], what one behaviour consists of: the
                     \* calls made, the operations the remote panel may put the unit in,
                     \* the tracked commands the unit implements
    Commands,        \* operations a caller may set; their fields, for the single setters
    Env,             \* the unit's sensors
    Garbage,         \* payloads a unit may answer an unknown command with
    Noise,           \* offsets line noise may add to a byte
    PastEnd          \* bytes found past the end of a short payload

VARIABLES
    mIsReady, mProtocolMajor,
    cache,           \* per cached request: Null or [value, left], left in ticks
    capability,      \* per tracked request: [status, failureCount]
    call,            \* Null, or [fn, arg, want, held, elapsed]
    returned,        \* the last finished call, Null once the next one starts
    unit, clean,     \* external: the unit; the line is free of noise and of other users
    scenario,
    recent,          \* history: operations the unit had, and for how long they count
    wire             \* history: the payload sent and the one accepted in the last exchange

managerVars == <<mIsReady, mProtocolMajor, cache, capability, call, returned>>
vars == <<managerVars, unit, clean, scenario, recent, wire>>

Cached  == {"F1", "F9", "RG"}
Tracked == {"RH", "Ra", "Re", "F9", "RG", "RzB2"}

ASSUME CacheAssumption ==
    MaxAge \in Nat /\ ExchangeTicks \in Nat /\ kThreshold \in Nat

\* The source each public call asks first.
firstSource ==
    [Init |-> "F8", getOperation |-> "F1", getOnOff |-> "F1",
     getOperatingMode |-> "F1", getSetpoint |-> "F1", getFanMode |-> "RG",
     getRoomTemperature |-> "RH", getOutdoorTemperature |-> "Ra",
     getHumidity |-> "Re", getUnitState |-> "RzB2", setOperation |-> "D1",
     setOnOff |-> "F1", setSetpoint |-> "F1", setFanMode |-> "F1"]

argument ==
    [setOperation |-> Commands,
     setOnOff     |-> {c.onOff : c \in Commands},
     setSetpoint  |-> {c.setPoint : c \in Commands},
     setFanMode   |-> {c.fanMode : c \in Commands}]

\* What the unit and its panel may be set to, and sensors that F9 has a byte for.
Operations == [onOff : BOOLEAN, mode : Byte, setPoint : Int, fanMode : Byte]

ASSUME UnitAssumption ==
    /\ Commands \subseteq Operations
    /\ \A s \in Scenarios : s.calls \subseteq DOMAIN firstSource /\ s.panel \subseteq Operations
    /\ Env \in [indoor : Int, outdoor : Int, humidity : Nat]
    /\ {128 + CDiv(Env.indoor, 50), 128 + CDiv(Env.outdoor, 50), zero + Env.humidity}
          \subseteq Byte
    /\ Garbage \subseteq Seq(Byte) /\ Noise \subseteq Int /\ PastEnd \subseteq Byte

\* The panel sets half degrees, and what a unit answers to a command it does not have is
\* no answer to it.
ASSUME AnswerAssumption ==
    /\ \A s \in Scenarios : \A op \in s.panel : quantised(op.setPoint) = op.setPoint
    /\ \A g \in Garbage, past \in PastEnd, s \in Tracked : ~validateResponseCode(g, s, past)

\* The marker is no number, no exchange and no call.
ASSUME MarkerAssumption ==
    /\ Null \notin Nat
    /\ Null \notin [sent : Seq(Byte), received : Seq(Byte)]
    /\ Null \notin [fn : {"getOperation"}, arg : {Null}, want : Requests,
                    held : Operations \cup {Null}, elapsed : Nat \cup {Null}]

arguments(fn) == IF fn \in DOMAIN argument THEN argument[fn] ELSE {Null}

ManagerInit ==
    /\ mIsReady = FALSE /\ mProtocolMajor = 0
    /\ cache = [s \in Cached |-> Null]
    /\ capability = [s \in Tracked |-> [status |-> "Unknown", failureCount |-> 0]]
    /\ call = Null /\ returned = Null
    /\ scenario \in Scenarios
    /\ \E op \in scenario.panel : unit = [op |-> op, env |-> Env]
    /\ clean \in BOOLEAN
    /\ recent = {} /\ wire = Null
-----------------------------------------------------------------------------
(* CommandCapability and ReadThroughCache.                                 *)

\* Mutant: a command given up is sent all the same.
isUnsupportedNever(s) == FALSE

isUnsupported(s) == s \in Tracked /\ capability[s].status = "Unsupported"

recordSuccess(s) == [status |-> "Supported", failureCount |-> 0]

\* Mutant: a command that answered before is given up as well.
recordFailureAlways(s) ==
    LET n == capability[s].failureCount + 1
    IN  [status |-> IF n > kThreshold THEN "Unsupported" ELSE capability[s].status,
         failureCount |-> n]

recordFailure(s) ==
    LET n == capability[s].failureCount + 1
    IN  IF capability[s].status = "Supported" THEN capability[s]
        ELSE [status |-> IF n > kThreshold THEN "Unsupported" ELSE "Unknown",
              failureCount |-> n]

record(s, value) ==
    capability' = IF s \notin Tracked THEN capability
                  ELSE [capability EXCEPT ![s] = IF value # Null THEN recordSuccess(s)
                                                 ELSE recordFailure(s)]

entry(value, age) == IF age > MaxAge THEN Null ELSE [value |-> value, left |-> MaxAge - age]

\* ReadThroughCache::get after its fetch: a failure keeps what is there.
store(s, value, age) ==
    cache' = IF s \in Cached /\ value # Null
             THEN [cache EXCEPT ![s] = entry(value, age)] ELSE cache

\* Mutant: an entry serves for one tick too long.
olderLate(e, ticks) == IF e = Null THEN Null
                       ELSE IF e.left < 0 THEN Null ELSE [e EXCEPT !.left = @ - ticks]

older(e, ticks) == IF e = Null THEN Null
                   ELSE IF e.left < ticks THEN Null ELSE [e EXCEPT !.left = @ - ticks]
-----------------------------------------------------------------------------
(* How a call goes on when the source it wants has yielded v (Null: error). *)

Ask(source, held) ==
    /\ call' = [call EXCEPT !.want = source, !.held = held, !.elapsed = Null]
    /\ UNCHANGED <<returned, mIsReady>>

Return(value) ==
    /\ call' = Null
    /\ returned' = [fn |-> call.fn, value |-> value]

\* S21Manager::Init, called while not ready: F8, then FY on version 2 and up.
InitGoesOn(v) ==
    /\ call.fn = "Init"
    /\ mProtocolMajor' = IF v = Null THEN mProtocolMajor ELSE v
    /\ IF call.want = "F8" /\ v # Null /\ v >= 2
       THEN Ask("FY", Null)
       ELSE /\ mIsReady' = (v # Null \/ call.want = "FY")
            /\ Return(mIsReady')

\* F1, cross-checked with RG when it says that a running fan is on Auto.
getOperationGoesOn(v) ==
    /\ call.fn = "getOperation"
    /\ UNCHANGED mProtocolMajor
    /\ IF call.want = "F1" /\ v # Null /\ v.onOff /\ v.fanMode = AutoFan
       THEN Ask("RG", v)
       ELSE /\ Return(IF call.want = "F1" THEN v
                      ELSE IF v = Null THEN call.held
                      ELSE [call.held EXCEPT !.fanMode = v])
            /\ UNCHANGED mIsReady

accessors == [getOnOff |-> "onOff", getOperatingMode |-> "mode", getSetpoint |-> "setPoint"]

\* One field of F1; RG comes first for the fan mode.
accessorGoesOn(v) ==
    /\ call.fn \in DOMAIN accessors \cup {"getFanMode"}
    /\ UNCHANGED mProtocolMajor
    /\ IF call.want = "RG" /\ v = Null
       THEN Ask("F1", Null)
       ELSE /\ Return(IF v = Null \/ call.want = "RG" THEN v
                      ELSE IF call.fn = "getFanMode" THEN v.fanMode
                      ELSE v[accessors[call.fn]])
            /\ UNCHANGED mIsReady

coarse == [getRoomTemperature |-> "indoor", getOutdoorTemperature |-> "outdoor",
           getHumidity |-> "humidity"]

\* The precise sensor, else its field of F9; the unit state has no second source.
sensorGoesOn(v) ==
    /\ call.fn \in DOMAIN coarse \cup {"getUnitState"}
    /\ UNCHANGED mProtocolMajor
    /\ IF v = Null /\ call.want \in {"RH", "Ra", "Re"}
       THEN Ask("F9", Null)
       ELSE /\ Return(IF call.want = "F9" /\ v # Null THEN v[coarse[call.fn]] ELSE v)
            /\ UNCHANGED mIsReady

settable == [setOnOff |-> "onOff", setSetpoint |-> "setPoint", setFanMode |-> "fanMode"]

\* A setter of one field reads F1 and writes the whole operation.
setterGoesOn(v) ==
    /\ call.fn \in DOMAIN argument
    /\ UNCHANGED mProtocolMajor
    /\ IF call.want = "F1" /\ v # Null
       THEN Ask("D1", [v EXCEPT ![settable[call.fn]] = call.arg])
       ELSE Return(v) /\ UNCHANGED mIsReady

GoesOn(v) ==
    \/ InitGoesOn(v)
    \/ getOperationGoesOn(v)
    \/ accessorGoesOn(v)
    \/ sensorGoesOn(v)
    \/ setterGoesOn(v)
-----------------------------------------------------------------------------
(* The calling thread.                                                     *)

\* A call starts: Init is for a manager that is not ready, the rest fail on one.
Begin(fn) ==
    /\ call = Null
    /\ IF mIsReady = (fn # "Init")
       THEN /\ \E arg \in arguments(fn) :
                  call' = [fn |-> fn, arg |-> arg, want |-> firstSource[fn],
                           held |-> IF fn = "setOperation" THEN arg ELSE Null,
                           elapsed |-> Null]
            /\ returned' = Null
       ELSE /\ returned' = [fn |-> fn, value |-> IF fn = "Init" THEN TRUE ELSE Null]
            /\ UNCHANGED call
    /\ UNCHANGED <<mIsReady, mProtocolMajor, cache, capability, unit, clean,
                   scenario, recent, wire>>

Asking == call # Null /\ call.elapsed = Null

fresh(s) == s \in Cached /\ cache[s] # Null

Hit ==
    /\ Asking /\ fresh(call.want)
    /\ GoesOn(cache[call.want].value)
    /\ UNCHANGED <<cache, capability, unit, clean, scenario, recent, wire>>

\* Refused without an exchange: a command given up, a setpoint out of range.
Refuse ==
    /\ Asking /\ ~fresh(call.want)
    /\ \/ isUnsupported(call.want)
       \/ call.want = "D1" /\ ~SetPointInRange(call.held.setPoint)
    /\ GoesOn(Null)
    /\ UNCHANGED <<cache, capability, unit, clean, scenario, recent, wire>>

Transmit ==
    /\ Asking /\ ~fresh(call.want) /\ ~isUnsupported(call.want)
    /\ call.want = "D1" => SetPointInRange(call.held.setPoint)
    /\ call' = [call EXCEPT !.elapsed = 0]
    /\ wire' = Null
    /\ UNCHANGED <<mIsReady, mProtocolMajor, cache, capability, returned, unit,
                   clean, scenario, recent>>
-----------------------------------------------------------------------------
(* The wire (external: the data link below, the unit beyond it).           *)

altered(frame) ==
    {[frame EXCEPT ![i] = (@ + n) % 256] : i \in DOMAIN frame, n \in Noise}

Silence == [sent |-> Null, received |-> Null]

\* What the unit sends for a request, and what the data link makes of it.
exchanges(s) ==
    LET known == s \in scenario.supports \/ s \notin Tracked
        sent  == IF known THEN responses(s, unit) ELSE Garbage
    IN  {[sent |-> p, received |-> decode(encode(p))] : p \in sent}
        \cup (IF clean /\ known THEN {} ELSE {Silence})
        \cup (IF clean THEN {}
              ELSE UNION {{[sent |-> p, received |-> decode(f)]
                              : f \in altered(encode(p))} : p \in sent})

Response ==
    /\ call # Null /\ call.elapsed # Null /\ call.want # "D1"
    /\ \E x \in exchanges(call.want), past \in PastEnd :
          LET v == decoded(call.want, x.received, past)
          IN  /\ wire' = IF x.received = Null THEN Null ELSE x
              /\ record(call.want, v)
              /\ store(call.want, v, call.elapsed)
              /\ GoesOn(v)
    /\ UNCHANGED <<unit, clean, scenario, recent>>

\* The operation as the unit holds it: half-degree steps.
asUnit(op) == [op EXCEPT !.setPoint = quantised(@)]

\* History: the unit leaves its operation for op.
Leave(op) ==
    /\ unit' = [unit EXCEPT !.op = op]
    /\ recent' = IF op = unit.op THEN recent
                 ELSE {x \in recent : x.op \notin {op, unit.op}}
                        \cup {[op |-> unit.op, left |-> MaxAge + ExchangeTicks]}

\* The unit takes D1 or not; on an unclean line its ACK may be lost.  The
\* operation cache takes the operation as commanded.  A unit that takes it acts
\* on it together with its ACK: the code allows it a lag (twin_field.h:104), and
\* the model assumes that the lag ends before the caches do.
Command ==
    /\ call # Null /\ call.elapsed # Null /\ call.want = "D1"
    /\ \/ /\ Leave(asUnit(call.held))
          /\ store("F1", call.held, 0)
          /\ GoesOn(TRUE)
       \/ /\ ~clean
          /\ Leave(asUnit(call.held)) \/ UNCHANGED <<unit, recent>>
          /\ UNCHANGED cache
          /\ GoesOn(Null)
    /\ UNCHANGED <<capability, clean, scenario, wire>>
-----------------------------------------------------------------------------
(* Time, the panel and the line.                                           *)

\* Time passes between calls and during an exchange.
Tick ==
    /\ ~Asking
    /\ call # Null => call.elapsed < ExchangeTicks
    /\ cache' = [s \in Cached |-> older(cache[s], 1)]
    /\ call' = IF call = Null THEN call ELSE [call EXCEPT !.elapsed = @ + 1]
    /\ recent' = {[x EXCEPT !.left = @ - 1] : x \in {y \in recent : y.left > 0}}
    /\ wire' = Null
    /\ UNCHANGED <<mIsReady, mProtocolMajor, capability, returned, unit, clean, scenario>>

PanelChange ==
    /\ \E op \in scenario.panel \ {unit.op} : Leave(op)
    /\ UNCHANGED <<managerVars, clean, scenario, wire>>

LineChange ==
    /\ clean' = ~clean
    /\ UNCHANGED <<managerVars, unit, scenario, recent, wire>>

Thread == Hit \/ Refuse \/ Transmit \/ Response \/ Command

ManagerNext ==
    \/ \E fn \in scenario.calls : Begin(fn)
    \/ Hit \/ Refuse \/ Transmit \/ Response \/ Command
    \/ Tick \/ PanelChange \/ LineChange

\* A call runs to its end, and every poll reads the sensors again.
ManagerSpec ==
    /\ ManagerInit /\ [][ManagerNext]_vars
    /\ WF_vars(Thread)
    /\ \A fn \in {"Init", "getRoomTemperature"} : SF_vars(fn \in scenario.calls /\ Begin(fn))
-----------------------------------------------------------------------------
ManagerTypeOK ==
    /\ mIsReady \in BOOLEAN /\ clean \in BOOLEAN
    /\ \A s \in Tracked : /\ capability[s].status \in {"Unknown", "Supported", "Unsupported"}
                          /\ capability[s].failureCount \in 0..kThreshold + 1
    /\ \A s \in Cached : cache[s] # Null => cache[s].left \in 0..MaxAge
    /\ scenario \in Scenarios

lately == {x.op : x \in recent} \cup {unit.op}

\* What getOperation returns the unit had within the age limit of the caches and
\* the length of one exchange, whatever the panel, a command whose ACK was lost,
\* or noise did meanwhile; the setpoint up to the half degree the unit rounds to.
\* The fan mode may be of another moment than the rest: it comes from RG, or is
\* the Auto that F1 reports for Quiet.  The unit acts with its ACK, see Command.
ReadsWithinAge ==
    [][(call # Null /\ call.fn = "getOperation" /\ call' = Null /\ returned'.value # Null) =>
        LET op == asUnit(returned'.value)
        IN  \E a, b \in lately :
               /\ op.fanMode \in {b.fanMode} \cup
                                 (IF b.fanMode = Quiet THEN {AutoFan} ELSE {})
               /\ op = [a EXCEPT !.fanMode = op.fanMode]]_vars

\* A setter of one field writes the whole operation, from a reading that may be as
\* old as the cache allows and ages further while the command is on the wire.  All
\* the fields but its own are then those of one operation the unit had within the
\* age of the caches and one exchange; Quiet may have become the Auto of F1.  The
\* setters are part of the class's interface; the application itself calls only
\* setOperation.
SettersKeepTheRest ==
    [][(call # Null /\ call.fn \in DOMAIN settable /\ call.want = "D1"
           /\ call' = Null /\ unit' # unit) =>
        \E a \in lately :
           \E f \in {a.fanMode} \cup (IF a.fanMode = Quiet THEN {AutoFan} ELSE {}) :
              unit'.op = asUnit([[a EXCEPT !.fanMode = f]
                                    EXCEPT ![settable[call.fn]] = call.arg])]_vars

\* Whatever setpoint is asked for, or found in a damaged reading that a setter
\* writes back, the bridge sets the unit to whole and half degrees between 10 and 32.
SetpointIsOneOfTheUnit ==
    unit.op \in scenario.panel \/ \E n \in 20..64 : unit.op.setPoint = 50 * n

\* S21Frame::decode lets no response with a single altered byte through, except
\* where the checksum of one is the reserved byte that the other's is moved away from.
FrameErrorsCaught ==
    wire # Null =>
        wire.received = wire.sent \/ blindSpot(wire.received, wire.sent)

\* The line has not altered a frame into one that decode cannot tell from it.
wireFaithful == wire # Null => wire.received = wire.sent

towardsZero(t, step) == CDiv(t, step) * step

\* The sensor of each call, whichever source it came from and however long it was
\* cached: temperatures to a tenth or to half a degree, with their sign; humidity.
sensorsRead ==
    (returned # Null /\ returned.fn \in DOMAIN coarse /\ returned.value # Null) =>
        LET t == Env[coarse[returned.fn]]
        IN  returned.value \in IF returned.fn = "getHumidity" THEN {t}
                               ELSE {towardsZero(t, 10), towardsZero(t, 50)}

\* On a line that deceives nobody, what the sensor calls return is what the unit
\* measures: digits are put together in order and signed, the bytes of F9 are
\* centred and scaled, and the second source supplies the field that was asked for.
SensorsReadTrue == []wireFaithful => []sensorsRead

\* A unit that answered RH or F9 once is read again when an outage ends: failures
\* on a bad line never make the manager give up a command that has worked.
ReadingsRecover ==
    LET answered == \E s \in {"RH", "F9"} : capability[s].status = "Supported"
    IN  (<>[](clean /\ "getRoomTemperature" \in scenario.calls) /\ <>answered) =>
           []<>(returned # Null /\ returned.fn = "getRoomTemperature" /\ returned.value # Null)
=============================================================================
