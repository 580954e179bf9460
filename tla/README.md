# Verification of the Daikin S21 / Matter thermostat bridge

The program is firmware for an nRF54L board that makes a Daikin air conditioner
a Matter device. Controllers write Matter attributes; the bridge turns them into
commands on the unit's S21 serial line, polls the unit, and keeps what Matter
shows in step with what the unit does, while the unit's own remote panel may
change anything at any time.

This directory holds TLA+ models of the bridge, TLC configurations that check
them on small instances, and proofs, checked by TLAPS, of every safety property
that the holding runs check, for every value of the parameters (section 4 says
under which assumptions, and what is only model-checked).

## 1. Inventory

| Component | State it keeps | Operations | Talks to |
|---|---|---|---|
| `TwinField`, `SensorField` | observed, desired, inFlight, attribution | setDesired, promoteDesiredToInFlight, applyObservation, dirty | owned by `LogicalACState` |
| `LogicalACState` | six twins, remembered fan percent, running mode, sensors, reachable | activeSetpoint | owned by `BridgeKernel` |
| `Projector`, fan mapping | none | project, diffProjections, percent and level conversions | read by Matter and by the reconciler |
| `Reconciler` | time of the last device observation per twin, last command sent | one apply per intent, two observations, pendingCommand, onCommandSent, onCommandFailed | mutates `LogicalACState` |
| `SyncCoordinator`, `ChangePublisher` | the lock, listeners, pump callback | the same entry points under the lock, notifications outside it | CHIP thread, S21 work queue |
| `AirConditionerManager` | poll countdown, failure count, retry interval, three work items, report queue, LED | Poll, InitRetry, CommandWork, drain | `S21Manager`, `SyncCoordinator` |
| `S21Manager` | readiness, operation / fan / coarse-sensor caches, capability counters | getters with fallback, setOperation | `S21PresentationSync` |
| `S21PresentationSyncAdapter`, `S21Presentation`, `S21Frame` | mutex and semaphore | one call per S21 command, byte codecs, checksums | `S21DataLink` |
| `S21DataLinkUart` | operation type, ISR state, message queue of depth one, DPPI and UARTE registers | send, transact, ISR, completion work | UARTE hardware |
| AAIs, `CommandRouter` | none | encode reads, decode attribute writes and commands into intents | CHIP cluster servers |
| `AAIInstaller`, `AppTask` | which handlers are registered, how far start-up got | Install, Uninstall, Init, the main loop | SDK registries, every part above |
| S21 debug shell | the shell instance that started a command last | one handler per S21 command | `S21Presentation`, without the adapter |

The hard behaviours are the ones between these parts: the S21 line is slow, so
the lock is dropped while a command is on the wire and controllers keep writing;
polls may be stale, come from a cache or fail; commands may be lost before or
after the unit took them; the panel changes the unit behind the bridge's back;
setpoints and percentages are rounded on the way; and the data link is driven by
an interrupt handler that sees several events at once. `hazards` in
`PROJECT.json` lists them with their lines.

What makes each part correct:

- **Twins, reconciler, projector**: the controller's wishes are not lost, the
  device wins for a second after it has spoken, and what Matter reads is
  consistent (percent and level, running mode and mode, in flight and sent).
- **Poll, init retry and pump**: the unit ends up as controllers want it, the
  pump does not run for ever, reachability follows the line.
- **Notification**: no dirty attribute is lost; subscribers and the LED end up
  with what a read returns.
- **Attribute access and command router**: what a write is answered with success
  for reads back; a read-modify-write command is not applied to a value that a
  poll has replaced.
- **S21Manager and codecs**: a reading is no older than the caches allow, noise is
  not taken for an answer, a sensor that worked is not given up.
- **Start-up**: no thread runs, and no handler stays registered, on state that is
  not there yet or no longer there.
- **Data link**: one answer per transaction, its own; no caller waits for ever.

## 2. Modules

```
TwinField  FanMapping
     \        /
   LogicalACState
         |
     Projector                                   S21DataLink (abstract)
         |                                           ^  refined by
     Reconciler                                  S21DataLinkUart
      |        \                                     |
      |   AirConditionerManager -- S21Codec      S21PresentationSyncAdapter
      |                               |              |
CommandRouter                         |          S21Shell
      |        \                  S21Presentation
      |    AttributeAccess            |   \
SyncCoordinator                       |   S21Frame
      |                           S21Manager
   Startup
```

Each of `Reconciler`, `CommandRouter`, `AttributeAccess`, `AirConditionerManager`,
`Startup`, `S21DataLinkUart`, `S21Shell` and `S21Manager` has its proofs in a module
`...Proofs`. The proofs of a module that uses another build on the other's:

```
        ReconcilerProofs                        S21DataLinkUartProofs
         |            \                                   |
CommandRouterProofs   AirConditionerManagerProofs   S21ShellProofs
   |            \
StartupProofs  AttributeAccessProofs            S21ManagerProofs
```

| Module | Code | State and actions |
|---|---|---|
| `TwinField` | `sync/twin_field.h` | a twin is a record; one operator per member function |
| `FanMapping` | `sync/fan_mapping.h` | level, percent and FanMode category |
| `LogicalACState` | `sync/logical_ac_state.h` | one variable per field, the boot defaults |
| `Projector` | `sync/projector.cpp` | one operator per projected attribute, and the diff |
| `Reconciler` | `sync/reconciler.cpp` | one action per intent, observation and command outcome. A time stamp is kept as the time left of the guard window |
| `S21Codec` | `s21/s21_presentation.cpp` (setOperation) | the setpoint byte and its rounding, the range check |
| `AirConditionerManager` | `airconditioner_manager.cpp`, part of `s21/s21_manager.cpp` | the S21 work queue as a program counter; a call that blocks on the line ends in an action of its own. Unit, panel and line are the environment |
| `CommandRouter` | `sync/command_router.cpp`, `sync/setpoint_math.h` | a command is a sequence of parts, each read and then applied |
| `AttributeAccess` | `sync/aai_*.cpp`, `sync/aai_translation.h` | Read and Write of each cluster through the translation tables; a write is refused, dropped or turned into an intent |
| `SyncCoordinator` | `sync/sync_coordinator.cpp`, `sync/change_publisher.*`, the listeners of `airconditioner_manager.cpp` | the two notifying threads, the report queue, the task queue it shares with the button and the RSSI timer, the posted drain, the LED pin, the reporting engine (external) |
| `Startup` | `app_task.cpp`, `main.cpp`, `sync/aai_installer.*`, `Init` of the coordinator and the manager | one action per step of start-up, each with its failure; then the steps of `SyncCoordinator`, as far as the threads are running |
| `S21Frame` | `s21/s21_frame.cpp` | checksum, encode, decode on sequences of bytes |
| `S21Presentation` | `s21/s21_presentation.cpp` | the response check and the decoders, with `int8_t` and `int16_t` casts; the unit's encoding beside them (external) |
| `S21Manager` | `s21/s21_manager.*` | one call at a time, a row of sources each answered by a cache, the capability record or an exchange on the wire |
| `S21DataLink` | `s21/s21_datalink.h` | what a data link promises: Accept an operation, Hear one reception, Complete on the strength of it |
| `S21DataLinkUart` | `s21/s21_datalink_uart.cpp` | threads, the interrupt handler in its four sections, and the UARTE, timer and DPPI channels as `init()` wires them. The completion handler is one action: it releases `m_opType` before it moves the callback out, which only the cooperative system work queue makes safe |
| `S21PresentationSyncAdapter` | `s21/s21_presentation_sync_adapter.cpp` | `syncCall` of several threads over the UART link |
| `S21Shell` | `s21/s21_shell.cpp` | the shell's handlers beside the adapter; composes link, adapter and shell |

The `MC...` modules name the small sets the configurations use; `MCS21Shell` and
`MCStartup` also count what a behaviour may do how often (section 3, bounds). Operators
marked `Mutant:` are wrong versions of the operator that follows them; each is
used to see that a property notices the mistake.

## 3. Runs

### That hold

| Run | Question | Answer |
|---|---|---|
| `Matter_access` | Attribute writes of five kinds of controller, SetpointRaiseLower included, with readings of all modes and sensors, command outcomes and clock ticks in every order | An unhindered write reads back; the remembered fan percent belongs to the wanted or the reported level, and to the wanted one until the device takes over; the running mode never contradicts the reported power and mode; device wins inside the window; a raise never lowers; what is in flight is what was sent, as long as taking and reporting a command are one step. |
| `Bridge` | Two writes, also while a command is on the wire, a panel change, an outage, on either of two units; a setpoint out of range among the writes | Reachability follows the line, no command is acknowledged twice running, the pump runs dry unless what is wanted cannot be sent; where neither the panel nor a race interferes, the unit ends up as desired and Matter shows it. |
| `Sync_calls` | Two threads over the adapter, a shell beside it, and the link under every order of bytes, line errors, timeouts and interrupts, a late ENDRX included | Each operation completes once with one result; the callback finds its caller; a call meets a busy link only because of the shell; every call returns; the link implements `S21DataLink`. |
| `S21_manager` | Every call of `S21Manager` with noise, silence, lost ACKs, unsupported commands and a panel | What getOperation returns the unit had within the age of the caches and one exchange, and so with all that a setter of one field writes back; the bridge sets no setpoint that the unit does not have; sensor calls return what is measured, from either source; altered frames are caught except in the checksum's blind spot; a sensor that once answered is read again after an outage. |
| `Startup_notify` | A failure of any step of start-up; polls before it is finished; then a toggle, command outcomes and polls that change power, fan and room, notifying on two threads, with one task slot that the button or the RSSI timer may take | No handler outlives the kernel, no thread runs on half-wired state; only a post that the full task queue drops leaves attributes without a drain; subscribers miss no change but the one a sent command makes; every sensor reading reaches them. |

### That the code does not keep

Each states what a comment or test of the repository says; `findings` in
`PROJECT.json` quotes it.

- `Race_in_flight`: a write between taking a command and reporting it sent is
  marked in flight although it was never sent.
- `Failed_command`: a failed command leaves older in-flight values in place; a
  write back to the old value is then never sent.
- `Panel_view`: a panel change that overtakes a command leaves Matter showing
  the controller's value.
- `Fan_after_off`: a fan write after an Off that the unit has not confirmed is
  accepted without turning the unit on: the power-on looks at the observed power.
- `Intent_after_panel`: a setpoint written again after the panel changed it is
  accepted and not sent, because it equals the last command.
- `Late_endrx`: `startTransaction` masks the interrupt while it clears the events, but
  waits for nothing. When the receiver that the ERROR handler stopped raises its
  ENDRX after the clears, the handler finds it at `irq_enable` and ends the new
  transaction with it, before the request is out.
- `Views_follow`: with every notification done and nothing left to report, LED and
  subscribers do not have the OnOff a read returns. TLC finds two ways.
  (1) The CHIP thread's LED update reads OnOff, the poll on the S21 work queue
  reads and sets the newer value, then the CHIP thread sets its older one; the
  LED stays wrong until OnOff changes again. This is the trace the run prints.
  (2) An On is notified and sent, and `OnCommandSent` sets the projection back to off
  without a word; an Off now changes nothing of the projection, so nobody is
  told, nor by the poll that confirms it: the unit is off, and subscribers and
  LED both say on, for good. TLC prints this one when the LED's half of
  `ViewsFollowProjection` is taken out.

### Limits of the runs that hold

- `DesiredReachesDevice` and `UndisturbedViewSettles` are about behaviours in which
  nobody used the panel and no write overtook a command on the wire (`undisturbed`):
  what these do is what `Panel_view` and `Race_in_flight` show. The other
  properties of `Bridge` hold with them.
- These two and `PumpRunsDry` exempt a wanted setpoint outside 10..32 degrees
  (`unsendable`). The attribute access has no limit, so a controller may write
  it; `setOperation` refuses every command with it, each refusal clears the dedup
  memory, and every poll fires the pump again, for as long as it is wanted. The
  run reaches this, with a setpoint of 33 degrees.
- `Bridge` assumes a unit that acts on a command before the operation cache expires
  (`SlowUnit = FALSE`). `S21_manager` assumes a little more, that it acts together
  with its ACK; `twin_field.h:104` allows it a lag. `ReadsWithinAge` depends on it.
- `InFlightWasSent` holds in `Matter_access`, where a command is taken, sent and
  reported in one step, and not in the bridge, where they are three.
- `NoReportForgotten` exempts the post that a full task queue drops. The queue is
  one for the whole application, so a drain can be dropped with none in the
  queue; the attributes then wait for the next notification. The run reaches it.
- `OnlySentIsMissed` exempts the step of `OnCommandSent`; what it leads to is shown by
  `Views_follow`. For the same reason `SensorsReachSubscribers` is about the attributes
  that no command changes, and says that nothing else stops them.
- `AnswerAfterRequest` is not claimed of the link: `Late_endrx`. `S21DataLink` therefore
  promises that a success rests on a reception of its own, not that the reception
  began after the request.
- `RaiseNeverLowers` exempts a setpoint that waits for the unit: the read then
  returns the old value, so a second raise replaces the first instead of adding
  to it. It also exempts a setpoint outside its limits and the shadow of an
  inactive mode.
- `FrameErrorsCaught` is about noise that alters a single byte of an answer; two may
  cancel out in a sum. It exempts the blind spot: a checksum that would be a reserved
  byte is moved by two and then equals that of a sum two higher, so an F9 answer
  with a humidity of 50 can be read as 52 after a single altered byte. The run
  reaches it.
- `WriteReadsBack` is about writes that nothing hinders: no guard window, nothing
  in flight on the twins concerned, no mode or power change still wanted. Others
  are answered with success as well and may be dropped.
- `ReadsWithinAge` lets the fan mode come from another moment than the rest: it
  has a cache and a command of its own.
- `SettersKeepTheRest` lets Quiet become Auto: a setter takes the fan mode from F1,
  which says Auto for Quiet, and writes that back. The run reaches it (setOnOff on
  a unit that runs Quiet). The setters are part of the class's interface; the
  application itself calls only `setOperation`.
- `SensorsReadTrue` is about behaviours in which no altered frame was accepted
  (`wireFaithful`); in the checksum's blind spot a humidity may be read two higher.
  What the unit measures does not change in the run, so the property is about
  decoding and fallback, not about the age of a cached sensor.

### Bounds

| Bound | Values | Why it is enough |
|---|---|---|
| `DeviceWinsWindow` | 1 tick | only "inside" and "outside" matter; the proofs cover every length |
| readings and writes | two to six of each | each twin sees a confirming, a repeating and a contradicting reading; in `Startup_notify` power, fan and the room's temperature only, the proofs cover every reading |
| `MaxIntents` | 2, 3 | one write to send, one to supersede it, one back to the first |
| `MaxPanelChanges` | 0, 1 | one change is enough to overtake a command |
| `MaxLinkChanges` | 0, 2 | down and up again |
| `kReachableFailureThreshold`, sensor ticks | 1, 2 | at and below the threshold; the code has 3 and 6 |
| `MaxCommands` | 1, 2 | a command and one that meets its consequences; in `Startup_notify` one, beside polls, the proofs cover any number |
| `MaxS21Changes` | 3, 4 | changes by polls and command outcomes: two readings and an outcome between the steps of one notification; `Views_follow` needs four |
| tasks of button and timer | only while a thread is about to post a drain | at other times one that takes a slot, or runs, changes nothing for the reports; the proofs allow them at any time |
| `Controllers` | 5 | each behaviour has one kind of controller: fan, heating, cooling, power and mode (with readings of every mode and valve), raise and lower. The run covers their union, not their product: the twins they write to are separate but for power and mode, which the first four share |
| `Scenarios` of `Bridge` | 3 | a unit that cools, retargeted; one that heats, off, turned on; and a panel that turns a cooling one off while power and a setpoint out of range are written |
| `Scenarios` of `S21_manager` | 8 | each behaviour mixes two calls of `S21Manager` that share a cache or a capability, and Init; with a unit that implements the command and one that does not |
| `MaxAge`, `ExchangeTicks` | 1 | younger, at and beyond the age limit; an exchange that outlasts an entry. The code has 5 s |
| `kThreshold` | 1 | at and beyond the threshold; the code has 3 |
| `Noise` | +2, +254 | the two offsets around the moved checksum, the only ones decode can miss; any other offset is refused like these |
| `kMaxListeners` | 4 | the code's value |
| `Shells` | 1 | a command on the wire while callers arrive; the link holds one operation |
| `TaskQueueSize` | 1 | the queue is full as soon as one task of either kind is posted; the proofs cover every size |
| `BufSize` | 2, 3 | a response that just fits and one that, with its ACK, overruns the buffer; the proofs cover every size |
| `UnitSends` | prefixes of three answers | an answer, one with its ACK, a NAK, each broken off anywhere by silence or a line error; the proofs cover every sequence of bytes, and so does `Late_endrx` |
| `MaxLateStarts` | 1 | starts over hardware that is still busy, per behaviour: one late ENDRX is enough to end the next transaction early; the proofs cover any number |
| `Callers` | 2 | the thread that runs `AirConditionerManager::Init`, and the S21 work queue; the shell does not use the adapter |

`CHECK_DEADLOCK FALSE` is set in the bridge runs only, whose writes, panel changes
and outages are bounded. In `Startup` a failed start-up may leave nothing to run;
`Exited` says so. The other models never stop.

### Fairness

- The S21 work queue never stops (`WF` of its handlers) and serves items in the
  order they fall due, so the pump is not starved by polls (`SF` of
  `CommandTake`). The unit acts on what it accepted (`WF` of `DeviceApplies`).
  Nothing is assumed of controllers, panel or line: the properties say "if the
  line is up for good".
- Data link: a started transaction goes on, submitted work and raised interrupts
  are served, a transmission ends, the watchdog expires, a stopping receiver
  stops. Nothing is assumed of the unit, so a silent one is covered.
- Adapter: a caller that can run does (`SF` of `Invoke` and `Return`): the shell's
  thread has the lowest priority, so typing at it cannot starve them. Nobody is
  assumed to call, and the shell may stop at any time.
- `S21Manager`: a call runs to its end (`WF` of `Thread`), and the poll keeps
  calling Init and the room temperature (`SF` of `Begin`). Nothing is assumed of
  line, panel or unit: `ReadingsRecover` is about a line that is clean for good.

## 4. Proofs

Every theorem is about the specification the runs check, for every value of its
constants. The assumptions on constants say what the code's types say:
`ReconcilerAssumption` (windows, readings, writes), `NullAssumption` and
`LinkNullAssumption` (the marker is no value), `BufSizeAssumption`,
`ResultAssumption` (of the adapter), `ControllersAssumption` (an attribute's decoder
yields values of the attribute's type), `CacheAssumption` and `UnitAssumption` (what
a unit may be set to and what its bytes can hold), `AnswerAssumption` (the panel sets
half degrees; what a unit answers to a command it does not have is no answer to it), `MarkerAssumption`
(again, that the marker is no value). TLC evaluates them on the runs' instances.

### How they fit together

The reconciler is called by four specifications. Its lemmas are therefore not
about `ReconcilerNext` but about `AnyCall`, a step that calls any of its operations
with well-typed arguments: the types (`TypeStep`), the fan percent (`FanStep`), the
running mode (`RunningModeStep`) and the guard (`DeviceWinsStep`) survive every such
step. A caller then only has to be shown to call (`NextIsAnyCall`,
`RouterCallsReconciler`, ...) and gets the reconciler's properties without a
second proof. `RouterCall` plays the same part for the command router, and
`StackStepIsLinkStep` for the data link under adapter and shell.

### Reconciler

- `ReconcilerTypeCorrect`: the types are inductive.
- `FanPercentCorrect`, `ControllerPercentCorrect`: neither is inductive alone. A
  confirmation keeps the percent only if it belongs to the wanted level, which
  is what `ControllerPercentKept` says while the device does not own the fan;
  `FanInv` is the two together.
- `RunningModeCorrect`: inductive, by cases of the fusion (`FuseAgrees`).
- `InFlightCorrect`: inductive; a command's fields and the promoted values are
  related through the round trip of mode and fan level (`WireFacts`).
- `DeviceWinsCorrect`: an action property, from the types and `GuardedFacts`.

### Router and attribute access

- A command reads, computes and applies in separate steps, so a report may come
  in between. `StaleIsGuarded` says what saves a raise: if the setpoint that was
  read is no longer the one shown, then a report has opened the twin's guard
  window, so the intent will be refused, or the mode is in flight, and no setpoint
  of it is claimed. From it and the types follows `RaiseNeverLowers`, in
  `AccessKeepsReconciler` and in `ApplicationKeepsReconciler`.
- `AccessKeepsReconciler` carries the reconciler's promises over to attribute access:
  `AccessCallsRouter` for percent, running mode and guard, `AccessIsFaithful`, a command is
  taken and reported in one step, for what is in flight.
- `WriteReadsBackCorrect`: by attribute, through the decoder, both translation
  tables, the power-on of a fan write and the remembered percent.

### Bridge

`BridgeInv` adds to types and `UnreachableAfterThreshold` that a poll with a reading
in hand has reset its failure count (`ReadingResetsFailures`), and that the command
on the wire is not the last one acknowledged (`SendingSomethingNew`); the latter
gives `DedupCorrect`. `InFlightWasSent` is not an invariant of the bridge, as
`Race_in_flight` shows; `InFlightLostOnlyToRace` says that nothing else breaks it: the only
step that does reports a command sent while the twins want another one already
(`overtaken`). No assumption is made on when controllers write.

### Start-up and notification

- `BootInv` describes start-up: how far Install got against which handlers are
  registered (`InstallProgress`), what each stage has wired (`Stages`), that no
  thread runs before the polls (`QuietUntilPolls`). It gives `HandlersCorrect` and
  `WiringCorrect`.
- `ReportsCorrect` and `SubscribersMissOnlySent` are action properties, from the types of
  the notification (`SyncInv`), for every task queue and whatever else is posted
  to it. For the second, `OutOfDateStep`: an attribute can only become out of date
  by a change of the projection, and every call that changes it, but for
  `OnCommandSent`, hands the difference to a listener that is there
  (`NotifyingPends`; the wiring comes from `BootInv`), where it stays until the engine
  reads it (`PendingKept`). A full task queue delays it but does not lose it.
- `SensorsCorrect`: `SteadyInv` says of each attribute no command touches that it is on its
  way or subscribers have it. `OnCommandSent` leaves these attributes alone
  (`SentKeepsSteady`), so nothing has to be exempted.

### Data link, adapter, shell

- `LinkInv` adds to the types that a transaction is in exactly one place
  (`TransactionPlace`: being started, waited for, or completing), that a running
  receiver has room (`BufferRoom`) and that channel A is off exactly while an ACK is
  sent (`ChannelA`). From it follow `LinkTypeCorrect`, `CompletionCorrect`,
  `OneResultCorrect` and `TurnaroundCorrect`, however late a STOPRX takes effect.
- `LinkImplementsDataLink` goes step by step: starting a transaction is Accept, the
  section of the interrupt handler that queues a result is Hear, the completion
  handler is Complete, all else stutters. `LinkInv` gives what it needs: one result
  per transaction, and a queue that is empty when the next one starts. Nothing is
  assumed of when an ENDRX comes.
- `CallInv` is about the adapter: the mutex holder is inside `syncCall`
  (`HolderInside`), the callback of an outstanding operation belongs to the
  holder, which waits, or to a shell (`CallbackOwner`), a permit belongs to the
  holder, which waits and whose answer is there (`PermitOwner`). `StackInv` is `LinkInv` with it. From it follow `CallbackCorrect`,
  `PermitCorrect`, `BusyCorrect`; `StackKeepsLink` and `StackImplementsDataLink` carry the
  link's theorems over to the composition, for any number of threads and shells.

### S21Manager and frames

- `ChecksumCatches`: two payloads that differ in one byte have different sums, which
  is an induction over the payload: equal up to that byte, different from there on
  (`OneByteShows`). Different sums have the same checksum only if one is a control
  byte moved onto the other. The sum is a recursive function, and the induction
  is over a set of lengths, by its least missing one (`Induction`), since induction
  theorems over predicates are out of the prover's reach.
- `ManagerInv`: a call in progress holds what its next source needs (`CallOK`), cache
  entries are typed and young (`CacheOK`), counters bounded (`CapabilityOK`). It gives
  `ManagerTypeCorrect` and, with `ChecksumCatches`, `FrameErrorsCorrect`.
- `VerdictFinal`: the capability record never goes back on a verdict, an action
  property; it is what makes `ReadingsRecover` possible at all.
- `ReadsCorrect`: `ReadsWithinAge` holds of behaviours in which no altered frame was
  accepted (`wireFaithful`): in the checksum's blind spot anything may be read, and
  the hypothesis is about the behaviour, so that every kind of noise is still in
  it. `AgeInv` ties readings to the history of the unit: what a cache entry holds, the
  unit had so recently that it still counts for as long as the entry serves and
  one exchange more (`CacheIsRecent`), because getOperation may hold it while it
  asks for RG (`HeldIsRecent`). A tick takes one from both sides.
- `SettersCorrect`, from the same invariant and under the same hypothesis: a setter
  holds its argument put into one such reading (`SetterHolds`) while its command is on
  the wire. A reading is of one operation as a whole (`reads`), which is more than
  getOperation needs, whose fan mode may be of another.
- `SetpointsCorrect` needs no hypothesis on the line: what is on the wire has passed
  the range check of `setOperation` (`CommandInRange`), and within the range the byte
  neither wraps nor leaves 10..32 degrees (`HalfDegrees`).
- `SensorsCorrect`: by digits for RH, Ra and Re (`DigitsDecoded`, `SensorDecoded`) and by
  bytes for F9 (`CoarseFollows`), through the casts, for every reading that F9 has a
  byte for. `SensorInv` adds that the cached F9 is what the unit measures and that
  a sensor call asks for its own sensor or for F9.

### Model-checked only

- Liveness under fairness, which the prover cannot handle: `DesiredReachesDevice`,
  `UndisturbedViewSettles`, `PumpRunsDry`, `ReachableFollowsLink`, `EveryOperationCompletes`,
  `EveryCallReturns` and `ReadingsRecover`.

## 5. Not modelled

- `applyIntentBundle`: nothing but host tests calls it.
- `RemoveListener`, `Shutdown` and `ReadReachable` of the coordinator: the product
  calls none of them. `Uninstall` is modelled where Install rolls back; it does
  not put the SDK's Thermostat handler back, although `aai_installer.h` calls it
  the reverse of Install. After a failed Install the application ends.
- The air conditioner shell, what the status button and the Thread RSSI timer log
  (their tasks are there, since they share the task queue), the parsing of shell
  arguments, and the generated data model, which is tables.

## 6. Plan

Done, in this order: the reconciler and what it rests on; the bridge around it;
the data link, its abstract specification and the adapter; router and
notifications; the proofs above; `S21Manager` with the codecs; attribute access;
the shell; start-up and the LED.

Then the proofs of section 4: the adapter beside the shell, start-up and the
notifications, the bridge, attribute access, the refinement of `S21DataLink`, frames
and `S21Manager`, and last its setters, setpoints and sensors.

Left out on purpose: `InFlightLostOnlyToRace` for `Startup`, where sending and taking a
command are one step, so that it would say no more than `InFlightCorrect` does.
