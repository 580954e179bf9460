--------------------------- MODULE SyncCoordinator ---------------------------
(***************************************************************************)
(* How changes leave the reconciler (sync_coordinator.cpp,                 *)
(* change_publisher.cpp, and the two listeners of                          *)
(* airconditioner_manager.cpp).  A mutation runs under the coordinator's   *)
(* lock; its dirty attributes are then handed to the listeners outside the *)
(* lock, on the thread that made it.  Two threads mutate: "chip", on which *)
(* Matter commands arrive, and "s21", the S21 work queue.                  *)
(*                                                                         *)
(* The reporter queues the attributes and posts a task that drains the     *)
(* queue and marks them for the CHIP reporting engine, under the CHIP      *)
(* stack lock; the engine then reads and sends them to subscribers.  The   *)
(* task queue is one for the whole application: the button and the RSSI    *)
(* timer post to it too, and a post to a full queue is lost.  The power    *)
(* indicator reads OnOff and sets LED0, with the lock released between the *)
(* two.                                                                    *)
(*                                                                         *)
(* The reporter's queue is kept as the set of attributes in it: a          *)
(* duplicate is only reported twice.                                       *)
(***************************************************************************)
EXTENDS CommandRouter

CONSTANTS
    TaskQueueSize,   \* tasks Nrf::PostTask can hold
    kMaxListeners

ASSUME CoordinatorAssumption == /\ TaskQueueSize \in Nat \ {0}
                                /\ kMaxListeners \in Nat

Threads == {"chip", "s21"}

VARIABLES
    mListeners,    \* the listeners registered, called in the order of registration
    notifyPc,      \* per thread: next step of Snapshot::notify, or "idle"
    dirtyAttrs,    \* per thread: the attributes it is notifying
    mQueue,        \* the reporter's queue
    tasks,         \* tasks posted and not yet run: "drain", "other"
    drained,       \* attributes a running drain has taken
    reportPaths,   \* attributes the reporting engine has yet to send
    subscriber,    \* what subscribers have last been sent
    led,           \* what LED0 shows; Null until the pin is configured
    ledValue       \* per thread: what ReadOnOff returned to the power indicator

ledVars     == <<led, ledValue>>
notifyVars  == <<mListeners, notifyPc, dirtyAttrs>>
reportVars  == <<mQueue, tasks, drained, reportPaths, subscriber>>
allVars     == <<routerVars, notifyVars, reportVars, ledVars>>

\* The attributes with a Matter address; Reachable has none yet.
MatterAttributes ==
    {"onOff", "systemMode", "occupiedHeatingSetpoint", "occupiedCoolingSetpoint",
     "runningMode", "localTemperature", "outdoorTemperature", "setpointSource",
     "speedSetting", "fanMode", "speedCurrent", "percentSetting", "percentCurrent",
     "humidityCentiPercent"}

\* SystemMode is read from one coherent projection.
systemMode == IF projectedOnOff THEN projectedMode ELSE "Off"

\* What a read of each attribute returns.
attributeValues ==
    LET read == project
    IN  [a \in MatterAttributes |-> IF a = "systemMode" THEN systemMode ELSE read[a]]

CoordinatorInit ==
    /\ RouterInit
    /\ mListeners = {}
    /\ notifyPc = [t \in Threads |-> "idle"]
    /\ dirtyAttrs = [t \in Threads |-> {}]
    /\ mQueue = {} /\ tasks = <<>> /\ drained = {} /\ reportPaths = {}
    /\ subscriber = attributeValues
    /\ led = Null /\ ledValue = [t \in Threads |-> Null]
-----------------------------------------------------------------------------
(* Mutating entry points.                                                  *)

\* The listeners of a snapshot run one after the other; the power indicator
\* only looks for OnOff.
indicatorStep(dirtied) ==
    IF "powerIndicator" \in mListeners /\ "onOff" \in dirtied THEN "ledRead" ELSE "idle"

firstStep(dirtied) ==
    CASE dirtied = {}                                  -> "idle"
      [] dirtied # {} /\ "reporter" \in mListeners     -> "enqueue"
      [] dirtied # {} /\ "reporter" \notin mListeners  -> indicatorStep(dirtied)

\* A call that notifies: the dirty attributes are what the call changed of
\* the projection.
Notifying(t) ==
    LET dirtied == diffProjections(project, project')
    IN  /\ notifyPc[t] = "idle"
        /\ dirtyAttrs' = [dirtyAttrs EXCEPT ![t] = dirtied]
        /\ notifyPc' = [notifyPc EXCEPT ![t] = firstStep(dirtied)]
        /\ UNCHANGED <<mListeners, reportVars, ledVars>>

chipFree == commandDone /\ notifyPc["chip"] = "idle"

\* ApplyOperationalObservation and ApplyEnvironmentalObservation.
ObserveAndNotify == Observe /\ Notifying("s21") /\ UNCHANGED commandVars

\* ApplyIntent.
ApplyIntentAndNotify == ApplyPart /\ Notifying("chip")

ReceiveCommand ==
    /\ notifyPc["chip"] = "idle"
    /\ InvokeCommand \/ ReadPart
    /\ UNCHANGED <<notifyVars, reportVars, ledVars>>

\* OnCommandSent, OnCommandFailed and NotifyLinkDown notify nobody.
CommandSentOrFailed ==
    /\ notifyPc["s21"] = "idle"
    /\ CommandOutcome
    /\ UNCHANGED <<commandVars, notifyVars, reportVars, ledVars>>

\* A notification, too, is done well within the guard window.
Tick ==
    /\ \A t \in Threads : notifyPc[t] = "idle"
    /\ ClockTick
    /\ UNCHANGED <<commandVars, notifyVars, reportVars, ledVars>>
-----------------------------------------------------------------------------
(* The two listeners.                                                      *)

\* Go on in notify(); when it returns the thread's local variables are gone.
goto(t, pc) ==
    /\ notifyPc' = [notifyPc EXCEPT ![t] = pc]
    /\ dirtyAttrs' = [dirtyAttrs EXCEPT ![t] = IF pc = "idle" THEN {} ELSE @]
    /\ UNCHANGED mListeners

\* The attributes go into the queue, under its mutex ...
ReporterEnqueue(t) ==
    /\ notifyPc[t] = "enqueue"
    /\ goto(t, "post")
    /\ mQueue' = mQueue \cup dirtyAttrs[t]
    /\ UNCHANGED <<routerVars, tasks, drained, reportPaths, subscriber, ledVars>>

\* Nrf::PostTask: a full queue drops the task.
posted(task) == IF Len(tasks) < TaskQueueSize THEN Append(tasks, task) ELSE tasks

\* ... and a task is posted.
ReporterPost(t) ==
    /\ notifyPc[t] = "post"
    /\ goto(t, indicatorStep(dirtyAttrs[t]))
    /\ tasks' = posted("drain")
    /\ UNCHANGED <<routerVars, mQueue, drained, reportPaths, subscriber, ledVars>>

\* ReadOnOff, under the coordinator's lock, ...
PowerIndicatorRead(t) ==
    /\ notifyPc[t] = "ledRead"
    /\ goto(t, "ledSet")
    /\ ledValue' = [ledValue EXCEPT ![t] = projectedOnOff]
    /\ UNCHANGED <<routerVars, reportVars, led>>

\* ... and gpio_pin_set_dt.
PowerIndicatorSet(t) ==
    /\ notifyPc[t] = "ledSet"
    /\ goto(t, "idle")
    /\ led' = ledValue[t]
    /\ ledValue' = [ledValue EXCEPT ![t] = Null]
    /\ UNCHANGED <<routerVars, reportVars>>

Listener(t) ==
    ReporterEnqueue(t) \/ ReporterPost(t) \/ PowerIndicatorRead(t) \/ PowerIndicatorSet(t)
-----------------------------------------------------------------------------
(* The posted tasks and the reporting engine.                              *)

\* The button's and the RSSI timer's tasks only log.
OtherPost ==
    /\ tasks' = posted("other")
    /\ UNCHANGED <<routerVars, notifyVars, mQueue, drained, reportPaths, subscriber, ledVars>>

\* The main thread takes the oldest task, once it is done with the one before.
takes(task) == drained = {} /\ tasks # <<>> /\ Head(tasks) = task /\ tasks' = Tail(tasks)

OtherTask ==
    /\ takes("other")
    /\ UNCHANGED <<routerVars, notifyVars, mQueue, drained, reportPaths, subscriber, ledVars>>

\* Mutant: one attribute per task.
takenOne == IF mQueue = {} THEN {} ELSE {CHOOSE a \in mQueue : TRUE}

taken == mQueue

\* DrainOnMatterEventLoop up to the CHIP stack lock: the queue is swapped out.
DrainTake ==
    /\ takes("drain")
    /\ drained' = taken /\ mQueue' = mQueue \ taken
    /\ UNCHANGED <<routerVars, notifyVars, reportPaths, subscriber, ledVars>>

\* Mutant: an attribute that is already marked is taken off the marked ones.
markedToggled == (reportPaths \ drained) \cup (drained \ reportPaths)

\* Attributes without a Matter address are skipped.
marked == reportPaths \cup (drained \cap MatterAttributes)

\* Under the CHIP stack lock every drained attribute is marked for reporting.
DrainReport ==
    /\ drained # {} /\ chipFree
    /\ reportPaths' = marked
    /\ drained' = {}
    /\ UNCHANGED <<routerVars, notifyVars, mQueue, tasks, subscriber, ledVars>>

\* The engine reads the marked attributes and sends them (external).
EngineReports ==
    /\ reportPaths # {} /\ chipFree
    /\ subscriber' = [a \in MatterAttributes |->
                         IF a \in reportPaths THEN attributeValues[a] ELSE subscriber[a]]
    /\ reportPaths' = {}
    /\ UNCHANGED <<routerVars, notifyVars, mQueue, tasks, drained, ledVars>>

-----------------------------------------------------------------------------
(* Properties.                                                             *)

threadsIdle == \A t \in Threads : notifyPc[t] = "idle"

drainPosted == \E i \in 1..Len(tasks) : tasks[i] = "drain"

\* Attributes wait in the reporter's queue and no drain will come for them.
stranded == mQueue # {} /\ ~drainPosted /\ \A t \in Threads : notifyPc[t] # "post"

dropped == Len(tasks) = TaskQueueSize /\ \E t \in Threads : ReporterPost(t)

\* A queued attribute is forgotten only when the task queue was full: drains, the
\* other thread's enqueue and other tasks may run between the steps of a
\* notification, and yet no step but a dropped post leaves the reporter's queue
\* without a drain posted or about to be (OnChangedAttributes against
\* DrainOnMatterEventLoop and Nrf::PostTask).
NoReportForgotten == [][stranded' => stranded \/ dropped]_allVars

\* The attributes on their way to subscribers ...
pending == mQueue \cup drained \cup reportPaths
               \cup UNION {dirtyAttrs[t] : t \in {u \in Threads : notifyPc[u] = "enqueue"}}

\* ... and those that are not, although subscribers have an old value.
outOfDate == LET values == attributeValues
             IN  {a \in MatterAttributes \ pending : subscriber[a] # values[a]}

\* Subscribers miss no change but the one onCommandSent makes: whichever threads
\* change the projection, and however enqueues, drains, marking and reports
\* interleave, an attribute that differs from what subscribers have is on its way
\* to them, unless a command that was just sent has set the projection back to
\* what the unit last reported (SyncCoordinator::OnCommandSent notifies nobody).
OnlySentIsMissed ==
    [][outOfDate' \subseteq outOfDate \/ OnCommandSent(desiredCommand)]_allVars

reportsDone == threadsIdle /\ mQueue = {} /\ drained = {} /\ reportPaths = {}

\* Once every report has been sent, subscribers have the temperatures, the humidity
\* and the setpoint source a read would return, although a reading may come while
\* an older one is queued, drained, marked or read by the engine, and whatever
\* commands are sent in between (OnChangedAttributes, DrainOnMatterEventLoop).
SensorsReachSubscribers ==
    reportsDone =>
        /\ subscriber["localTemperature"] = indoorTemp
        /\ subscriber["outdoorTemperature"] = outdoorTemp
        /\ subscriber["humidityCentiPercent"] = projectedHumidityCentiPercent
        /\ subscriber["setpointSource"] = projectedSetpointSource
=============================================================================
