---------------------------- MODULE StartupProofs ----------------------------
(***************************************************************************)
(* Safety of start-up and of the notification of changes, for every set of *)
(* readings and commands, every task queue and any number of listener      *)
(* slots.                                                                  *)
(***************************************************************************)
EXTENDS Startup, CommandRouterProofs

Attributes == MatterAttributes \cup {"reachable"}

\* Types of the notification.
NotifyTypeOK ==
    /\ notifyPc \in [Threads -> {"idle", "enqueue", "post", "ledRead", "ledSet"}]
    /\ dirtyAttrs \in [Threads -> SUBSET Attributes]
    /\ tasks \in Seq({"drain", "other"}) /\ Len(tasks) <= TaskQueueSize
    /\ ledValue \in [Threads -> BOOLEAN \cup {Null}]
    /\ \A t \in Threads : notifyPc[t] = "ledSet" => ledValue[t] \in BOOLEAN

\* The handlers tried so far are in the registry, unless they were refused.
InstallProgress ==
    boot = "install" =>
        /\ mKernel
        /\ registered \subseteq Range(handlers)
        /\ outcomes \in Seq(BOOLEAN) /\ Len(outcomes) <= Len(handlers)
        /\ \A i \in 1..Len(outcomes) : outcomes[i] => handlers[i] \in registered

\* What each stage of AppTask::Init has left behind.
Stages ==
    /\ boot \in {"s21Stack", "coordinator"} => registered = {"sdkThermostat"}
    /\ boot = "board" /\ ~s21Thread => registered = {"sdkThermostat"}
    /\ boot # "install" => outcomes = <<>>
    /\ boot \in {"indicator", "reporter", "powerIndicator", "s21Manager"} =>
          mKernel /\ registered = Range(handlers)
    /\ \/ boot \in {"s21Stack", "coordinator", "install", "indicator", "reporter"}
       \/ boot = "board" /\ ~s21Thread
       => mListeners = {} /\ ~s21Thread
    /\ boot = "powerIndicator" => mListeners = {"reporter"} /\ mPump /\ ~s21Thread
    /\ boot = "s21Manager" => /\ mListeners = {"reporter", "powerIndicator"}
                              /\ mPump /\ ~s21Thread
    /\ boot \in {"reporter", "powerIndicator", "s21Manager"} => led \in BOOLEAN
    /\ boot \in {"server", "running"} => s21Thread
    /\ s21Thread => wired /\ led \in BOOLEAN /\ registered = Range(handlers)

\* Until the S21 thread has work, nobody changes anything.
QuietUntilPolls ==
    ~s21Thread => threadsIdle

BootInv == InstallProgress /\ Stages /\ QuietUntilPolls /\ HandlersHaveKernel
-----------------------------------------------------------------------------
(* Start-up.                                                               *)

\* The handlers by number, and as a set.
LEMMA HandlerFacts ==
    /\ Len(handlers) = 6
    /\ Range(handlers) = {handlers[i] : i \in 1..6}
    /\ "sdkThermostat" \notin Range(handlers)
  BY DEF handlers, Range

\* A sequence is a function on its indices.
LEMMA SeqIsFunction ==
    ASSUME NEW S, NEW s \in Seq(S)
    PROVE  s \in [1..Len(s) -> S]
  OBVIOUS

\* Init leaves the boot invariant.
LEMMA BootInitially == StartupInit => BootInv
  <1> SUFFICES ASSUME StartupInit PROVE BootInv
    OBVIOUS
  <1>1. InstallProgress /\ Stages
    BY DEF StartupInit, CoordinatorInit, InstallProgress, Stages
  <1>2. QuietUntilPolls
    BY DEF StartupInit, CoordinatorInit, QuietUntilPolls, threadsIdle
  <1>3. HandlersHaveKernel
    BY HandlerFacts DEF StartupInit, HandlersHaveKernel
  <1> QED
    BY <1>1, <1>2, <1>3 DEF BootInv

\* A run step needs the S21 thread's work to have been scheduled, unless it is a
\* post of the button or the timer.
LEMMA RunNeedsPolls ==
    ASSUME BootInv, Run
    PROVE  s21Thread \/ ButtonOrTimer
  <1>1. ASSUME NEW t \in Threads, Listener(t)
        PROVE  s21Thread
    BY <1>1 DEF BootInv, QuietUntilPolls, threadsIdle, Listener, ReporterEnqueue,
                ReporterPost, PowerIndicatorRead, PowerIndicatorSet
  <1> QED
    BY <1>1 DEF Run, BootInv, Stages, ChipThread, MainThread, S21Thread

\* Once start-up is over its state stays, and so does what it has wired.
LEMMA RunKeepsWiring ==
    ASSUME NotifyTypeOK, Run
    PROVE  /\ UNCHANGED <<bootVars, mListeners>>
           /\ led \in BOOLEAN => led' \in BOOLEAN
  <1>1. ASSUME NEW t \in Threads, Listener(t)
        PROVE  /\ UNCHANGED mListeners
               /\ led \in BOOLEAN => led' \in BOOLEAN
    BY <1>1 DEF Listener, ReporterEnqueue, ReporterPost, PowerIndicatorRead,
                PowerIndicatorSet, goto, ledVars, NotifyTypeOK
  <1>2. ASSUME ChipThread \/ MainThread \/ S21Thread \/ ButtonOrTimer
        PROVE  UNCHANGED <<mListeners, led>>
    BY <1>2 DEF ChipThread, MainThread, S21Thread, ButtonOrTimer, ReceiveCommand,
                ApplyIntentAndNotify, EngineReports, DrainTake, DrainReport, OtherTask,
                OtherPost, ObserveAndNotify, CommandSentOrFailed, Tick, Notifying,
                notifyVars, ledVars
  <1> QED
    BY <1>1, <1>2 DEF Run

\* Every step keeps the boot invariant.
LEMMA BootStep ==
    ASSUME BootInv, NotifyTypeOK, ReconcilerTypeOK, [StartupNext]_startupVars
    PROVE  BootInv'
  <1>1. ASSUME UNCHANGED notifyPc
        PROVE  /\ QuietUntilPolls => (~s21Thread => QuietUntilPolls')
               /\ s21Thread' => QuietUntilPolls'
    BY <1>1 DEF QuietUntilPolls, threadsIdle
  <1>2. CASE S21StackInit
    <2>1. InstallProgress' /\ Stages' /\ HandlersHaveKernel'
      BY <1>2 DEF S21StackInit, at, BootInv, InstallProgress, Stages, HandlersHaveKernel,
                  allVars, notifyVars, ledVars, wired
    <2> QED
      BY <1>2, <1>1, <2>1 DEF S21StackInit, BootInv, allVars, notifyVars, reportVars
  <1>3. CASE CoordinatorInstall
    <2>1. InstallProgress' /\ Stages' /\ HandlersHaveKernel'
      BY <1>3, HandlerFacts
         DEF CoordinatorInstall, at, BootInv, InstallProgress, Stages, HandlersHaveKernel,
             allVars, notifyVars, ledVars, wired
    <2> QED
      BY <1>3, <1>1, <2>1 DEF CoordinatorInstall, BootInv, allVars, notifyVars, reportVars
  <1>4. CASE Register
    <2>1. PICK ok \in BOOLEAN :
             /\ outcomes' = Append(outcomes, ok)
             /\ registered' = IF ok THEN registered \cup {handlers[Len(outcomes) + 1]}
                                    ELSE registered
      BY <1>4 DEF Register
    <2>2. /\ boot = "install" /\ mKernel /\ Len(outcomes) < 6
          /\ outcomes \in Seq(BOOLEAN) /\ registered \subseteq Range(handlers)
          /\ \A i \in 1..Len(outcomes) : outcomes[i] => handlers[i] \in registered
      BY <1>4, HandlerFacts DEF Register, BootInv, InstallProgress
    <2>3. handlers[Len(outcomes) + 1] \in Range(handlers)
      BY <2>2, HandlerFacts
    <2>4. \A i \in 1..Len(outcomes') : outcomes'[i] => handlers[i] \in registered'
      BY <2>1, <2>2
    <2>5. InstallProgress'
      BY <1>4, <2>1, <2>2, <2>3, <2>4, HandlerFacts DEF Register, InstallProgress
    <2>6. Stages' /\ HandlersHaveKernel'
      BY <1>4, <2>2
         DEF Register, BootInv, Stages, HandlersHaveKernel, allVars, notifyVars
    <2> QED
      BY <1>4, <1>1, <2>5, <2>6 DEF Register, BootInv, allVars, notifyVars, reportVars
  <1>5. CASE InstallEnds
    <2>1. /\ boot = "install" /\ mKernel /\ Len(outcomes) = 6
          /\ outcomes \in Seq(BOOLEAN) /\ registered \subseteq Range(handlers)
          /\ \A i \in 1..Len(outcomes) : outcomes[i] => handlers[i] \in registered
      BY <1>5, HandlerFacts DEF InstallEnds, BootInv, InstallProgress
    <2>2. allRegistered => registered = Range(handlers)
      <3> SUFFICES ASSUME allRegistered PROVE Range(handlers) \subseteq registered
        BY <2>1
      <3>1. \A i \in 1..6 : outcomes[i]
        <4> TAKE i \in 1..6
        <4>1. outcomes \in [1..6 -> BOOLEAN]
          BY <2>1, SeqIsFunction
        <4>2. outcomes[i] \in Range(outcomes)
          BY <4>1 DEF Range
        <4>3. outcomes[i] # FALSE
          BY <4>2 DEF allRegistered
        <4> QED
          BY <4>1, <4>3
      <3> QED
        BY <2>1, <3>1, HandlerFacts
    <2>3. uninstalled \cap Range(handlers) = {}
      BY DEF uninstalled
    <2>4. InstallProgress' /\ Stages' /\ HandlersHaveKernel'
      BY <1>5, <2>1, <2>2, <2>3
         DEF InstallEnds, BootInv, InstallProgress, Stages, HandlersHaveKernel,
             allVars, notifyVars, ledVars, wired
    <2> QED
      BY <1>5, <1>1, <2>4 DEF InstallEnds, BootInv, allVars, notifyVars, reportVars
  <1>6. CASE PowerIndicatorInit
    <2>1. projectedOnOff \in BOOLEAN
      BY DEF ReconcilerTypeOK, StateTypeOK, TwinFields, projectedOnOff, projectedValue
    <2>2. InstallProgress' /\ Stages' /\ HandlersHaveKernel'
      BY <1>6, <2>1
         DEF PowerIndicatorInit, at, BootInv, InstallProgress, Stages, HandlersHaveKernel,
             notifyVars, wired
    <2> QED
      BY <1>6, <1>1, <2>2 DEF PowerIndicatorInit, BootInv, notifyVars, reportVars
  <1>7. CASE AddListeners
    <2>1. InstallProgress' /\ Stages' /\ HandlersHaveKernel'
      BY <1>7
         DEF AddListeners, AddListener, at, BootInv, InstallProgress, Stages,
             HandlersHaveKernel, ledVars, wired
    <2> QED
      BY <1>7, <1>1, <2>1 DEF AddListeners, AddListener, BootInv, reportVars
  <1>8. CASE S21ManagerInit
    <2>1. InstallProgress' /\ Stages' /\ HandlersHaveKernel'
      BY <1>8, NullAssumption
         DEF S21ManagerInit, at, BootInv, InstallProgress, Stages, HandlersHaveKernel,
             allVars, notifyVars, ledVars, wired
    <2> QED
      BY <1>8, <1>1, <2>1 DEF S21ManagerInit, BootInv, allVars, notifyVars, reportVars
  <1>9. CASE BoardInit
    <2>1. InstallProgress' /\ Stages' /\ HandlersHaveKernel'
      BY <1>9
         DEF BoardInit, at, BootInv, InstallProgress, Stages, HandlersHaveKernel,
             allVars, notifyVars, ledVars, wired
    <2> QED
      BY <1>9, <1>1, <2>1 DEF BoardInit, BootInv, allVars, notifyVars, reportVars
  <1>10. CASE StartServer
    <2>1. InstallProgress' /\ Stages' /\ HandlersHaveKernel'
      BY <1>10
         DEF StartServer, at, BootInv, InstallProgress, Stages, HandlersHaveKernel,
             notifyVars, ledVars, wired
    <2> QED
      BY <1>10, <1>1, <2>1 DEF StartServer, BootInv, notifyVars
  <1>11. CASE Run
    <2>1. /\ UNCHANGED <<bootVars, mListeners>>
          /\ led \in BOOLEAN => led' \in BOOLEAN
          /\ s21Thread \/ UNCHANGED <<notifyPc, led>>
      BY <1>11, RunNeedsPolls, RunKeepsWiring
         DEF ButtonOrTimer, OtherPost, notifyVars, ledVars
    <2>2. InstallProgress' /\ HandlersHaveKernel' /\ QuietUntilPolls'
      BY <2>1 DEF BootInv, bootVars, InstallProgress, QuietUntilPolls, HandlersHaveKernel,
                  threadsIdle
    <2>3. Stages'
      BY <2>1, NullAssumption DEF BootInv, bootVars, Stages, wired
    <2> QED
      BY <2>2, <2>3 DEF BootInv
  <1>12. CASE UNCHANGED startupVars
    <2>1. InstallProgress' /\ Stages' /\ HandlersHaveKernel'
      BY <1>12
         DEF startupVars, bootVars, BootInv, InstallProgress, Stages, HandlersHaveKernel,
             allVars, notifyVars, ledVars, wired
    <2> QED
      BY <1>12, <1>1, <2>1
         DEF startupVars, bootVars, BootInv, allVars, notifyVars, reportVars
  <1> QED
    BY <1>2, <1>3, <1>4, <1>5, <1>6, <1>7, <1>8, <1>9, <1>10, <1>11, <1>12
       DEF StartupNext, AppTaskInit, Exited
-----------------------------------------------------------------------------
(* The application calls the router and the reconciler.                    *)

\* Whatever the application does, to the router and the reconciler it is one of
\* their calls, with values of the right type.
LEMMA StartupCallsRouter ==
    ASSUME ReconcilerTypeOK, [StartupNext]_startupVars
    PROVE  [RouterCall]_routerVars
  <1>1. CASE AppTaskInit
    BY <1>1 DEF AppTaskInit, S21StackInit, CoordinatorInstall, Register, InstallEnds,
                PowerIndicatorInit, AddListeners, AddListener, S21ManagerInit, BoardInit,
                StartServer, allVars
  <1>2. CASE EngineReports \/ MainThread
    BY <1>2 DEF EngineReports, MainThread, DrainTake, DrainReport, OtherTask
  <1>3. CASE ReceiveCommand \/ ApplyIntentAndNotify
    BY <1>3 DEF ReceiveCommand, ApplyIntentAndNotify, RouterCall
  <1>4. CASE ObserveAndNotify
    BY <1>4, ReconcilerAssumption DEF ObserveAndNotify, Observe, RouterCall
  <1>5. CASE CommandSentOrFailed
    <2>1. pendingCommand # Null => pendingCommand \in S21OperationCommands
      BY CommandType DEF pendingCommand
    <2> QED
      BY <1>5, <2>1 DEF CommandSentOrFailed, CommandOutcome, RouterCall
  <1>6. CASE Tick
    BY <1>6 DEF Tick, ClockTick, RouterCall
  <1>7. ASSUME NEW t \in Threads, Listener(t)
        PROVE  [RouterCall]_routerVars
    BY <1>7 DEF Listener, ReporterEnqueue, ReporterPost, PowerIndicatorRead, PowerIndicatorSet
  <1>8. CASE UNCHANGED startupVars
    BY <1>8 DEF startupVars, allVars
  <1>9. CASE Run
    BY <1>9, <1>2, <1>3, <1>4, <1>5, <1>6, <1>7
       DEF Run, ChipThread, S21Thread, ButtonOrTimer, OtherPost
  <1> QED
    BY <1>1, <1>8, <1>9 DEF StartupNext, Exited
-----------------------------------------------------------------------------
(* Notification.                                                           *)

\* Only attributes are dirty.
LEMMA DiffFacts == diffProjections(project, project') \subseteq Attributes
  <1>1. DOMAIN project = (Attributes \ {"systemMode"}) \cup {"mode"}
    BY DEF project, Attributes, MatterAttributes
  <1> QED
    BY <1>1 DEF diffProjections, Attributes, MatterAttributes

\* A call that notifies starts at the first listener that has something to do.
LEMMA NotifyingFacts ==
    ASSUME NotifyTypeOK, NEW t \in Threads, Notifying(t)
    PROVE  /\ NotifyTypeOK'
           /\ \A u \in Threads : notifyPc[u] = "post" <=> notifyPc'[u] = "post"
           /\ \A u \in Threads \ {t} : notifyPc'[u] = notifyPc[u] /\ dirtyAttrs'[u] = dirtyAttrs[u]
           /\ UNCHANGED <<mListeners, reportVars, ledVars>>
  <1> DEFINE dirtied == diffProjections(project, project')
  <1>1. /\ notifyPc[t] = "idle"
        /\ dirtyAttrs' = [dirtyAttrs EXCEPT ![t] = dirtied]
        /\ notifyPc' = [notifyPc EXCEPT ![t] = firstStep(dirtied)]
        /\ UNCHANGED <<mListeners, reportVars, ledVars>>
    BY DEF Notifying
  <1>2. dirtied \subseteq Attributes
    BY DiffFacts
  <1> HIDE DEF dirtied
  <1>3. firstStep(dirtied) \in {"idle", "enqueue", "ledRead"}
    BY DEF firstStep, indicatorStep
  <1>4. /\ notifyPc \in [Threads -> {"idle", "enqueue", "post", "ledRead", "ledSet"}]
        /\ dirtyAttrs \in [Threads -> SUBSET Attributes]
    BY DEF NotifyTypeOK
  <1>5. /\ notifyPc'[t] = firstStep(dirtied) /\ dirtyAttrs'[t] = dirtied
        /\ \A u \in Threads \ {t} : notifyPc'[u] = notifyPc[u] /\ dirtyAttrs'[u] = dirtyAttrs[u]
    BY <1>1, <1>4
  <1>6. NotifyTypeOK'
    BY <1>1, <1>2, <1>3, <1>4, <1>5 DEF NotifyTypeOK, reportVars, ledVars
  <1> QED
    BY <1>1, <1>3, <1>5, <1>6

\* Start-up leaves the notification alone.
LEMMA InitIsSilent ==
    ASSUME AppTaskInit
    PROVE  UNCHANGED <<notifyPc, dirtyAttrs, mQueue, tasks, drained, reportPaths, ledValue>>
  BY DEF AppTaskInit, S21StackInit, CoordinatorInstall, Register, InstallEnds,
         PowerIndicatorInit, AddListeners, AddListener, S21ManagerInit, BoardInit,
         StartServer, allVars, notifyVars, reportVars, ledVars

\* A post leaves the tasks before it where they are, and is in the queue unless
\* that is full.
LEMMA PostFacts ==
    ASSUME NotifyTypeOK, NEW task \in {"drain", "other"}, tasks' = posted(task)
    PROVE  /\ tasks' \in Seq({"drain", "other"}) /\ Len(tasks') <= TaskQueueSize
           /\ drainPosted => drainPosted'
           /\ task = "drain" /\ Len(tasks) # TaskQueueSize => drainPosted'
  <1>1. /\ tasks \in Seq({"drain", "other"}) /\ Len(tasks) <= TaskQueueSize
        /\ TaskQueueSize \in Nat /\ Len(tasks) \in Nat
    BY CoordinatorAssumption DEF NotifyTypeOK
  <1>2. CASE Len(tasks) < TaskQueueSize
    <2>1. tasks' = Append(tasks, task)
      BY <1>2 DEF posted
    <2>2. /\ Len(tasks') = Len(tasks) + 1 /\ tasks'[Len(tasks) + 1] = task
          /\ \A i \in 1..Len(tasks) : tasks'[i] = tasks[i]
          /\ tasks' \in Seq({"drain", "other"})
      BY <1>1, <2>1
    <2>3. drainPosted => drainPosted'
      BY <1>1, <2>2 DEF drainPosted
    <2>4. task = "drain" => drainPosted'
      BY <1>1, <2>2 DEF drainPosted
    <2> QED
      BY <1>1, <1>2, <2>2, <2>3, <2>4
  <1>3. CASE ~(Len(tasks) < TaskQueueSize)
    BY <1>1, <1>3 DEF posted, drainPosted
  <1> QED
    BY <1>2, <1>3

\* Taking the oldest task leaves the others, a drain among them.
LEMMA TakeFacts ==
    ASSUME NotifyTypeOK, NEW task, takes(task)
    PROVE  /\ tasks' \in Seq({"drain", "other"}) /\ Len(tasks') <= TaskQueueSize
           /\ task = "other" /\ drainPosted => drainPosted'
  <1>1. /\ tasks \in Seq({"drain", "other"}) /\ Len(tasks) <= TaskQueueSize
        /\ TaskQueueSize \in Nat /\ tasks # <<>> /\ tasks[1] = task
        /\ tasks' = Tail(tasks)
    BY CoordinatorAssumption DEF NotifyTypeOK, takes
  <1>2. /\ tasks' \in Seq({"drain", "other"}) /\ Len(tasks') = Len(tasks) - 1
        /\ Len(tasks) \in Nat /\ Len(tasks) > 0
        /\ \A i \in 1..Len(tasks') : tasks'[i] = tasks[i + 1]
    BY <1>1
  <1>3. ASSUME task = "other", NEW i \in 1..Len(tasks), tasks[i] = "drain"
        PROVE  drainPosted'
    <2>1. i # 1 /\ i - 1 \in 1..Len(tasks') /\ (i - 1) + 1 = i
      BY <1>1, <1>2, <1>3
    <2> QED
      BY <1>2, <1>3, <2>1 DEF drainPosted
  <1> QED
    BY <1>1, <1>2, <1>3 DEF drainPosted

\* The steps of the running application that the notification sees.
LEMMA RunSteps ==
    ASSUME Run
    PROVE  \/ UNCHANGED <<notifyPc, dirtyAttrs, mQueue, tasks, ledValue>>
           \/ \E t \in Threads : Notifying(t) \/ Listener(t)
           \/ DrainTake \/ OtherTask \/ OtherPost
  BY DEF Run, ChipThread, MainThread, S21Thread, ButtonOrTimer, ReceiveCommand,
         ApplyIntentAndNotify, EngineReports, DrainReport, ObserveAndNotify,
         CommandSentOrFailed, Tick, notifyVars, reportVars, ledVars, Threads

\* Every step keeps the notification's types, and only a post to a full queue
\* strands attributes.
LEMMA NotifyStep ==
    ASSUME ReconcilerTypeOK, NotifyTypeOK, [StartupNext]_startupVars
    PROVE  NotifyTypeOK' /\ (stranded' => stranded \/ dropped)
  <1> DEFINE goal == NotifyTypeOK' /\ (stranded' => stranded \/ dropped)
  <1>1. CASE UNCHANGED <<notifyPc, dirtyAttrs, mQueue, tasks, ledValue>>
    BY <1>1 DEF NotifyTypeOK, stranded, drainPosted
  <1>2. ASSUME NEW t \in Threads, Notifying(t)
        PROVE  goal
    <2>1. UNCHANGED <<mQueue, tasks>> /\ \A u \in Threads : notifyPc[u] = "post" <=> notifyPc'[u] = "post"
      BY <1>2, NotifyingFacts DEF reportVars
    <2> QED
      BY <1>2, <2>1, NotifyingFacts DEF stranded, drainPosted
  <1>3. ASSUME NEW t \in Threads, ReporterEnqueue(t)
        PROVE  goal
    BY <1>3 DEF ReporterEnqueue, goto, ledVars, NotifyTypeOK, stranded
  <1>4. ASSUME NEW t \in Threads, ReporterPost(t)
        PROVE  goal
    <2>1. tasks' = posted("drain")
      BY <1>4 DEF ReporterPost
    <2>2. NotifyTypeOK'
      BY <1>4, <2>1, PostFacts DEF ReporterPost, goto, indicatorStep, ledVars, NotifyTypeOK
    <2>3. dropped \/ drainPosted'
      BY <1>4, <2>1, PostFacts DEF dropped
    <2> QED
      BY <2>2, <2>3 DEF stranded
  <1>5. ASSUME NEW t \in Threads, PowerIndicatorRead(t)
        PROVE  goal
    <2>1. projectedOnOff \in BOOLEAN
      BY ProjectionTypes
    <2>2. NotifyTypeOK'
      BY <1>5, <2>1 DEF PowerIndicatorRead, goto, reportVars, NotifyTypeOK
    <2>3. stranded' => stranded
      BY <1>5 DEF PowerIndicatorRead, goto, reportVars, NotifyTypeOK, stranded, drainPosted
    <2> QED
      BY <2>2, <2>3
  <1>6. ASSUME NEW t \in Threads, PowerIndicatorSet(t)
        PROVE  goal
    BY <1>6 DEF PowerIndicatorSet, goto, reportVars, NotifyTypeOK, stranded, drainPosted
  <1>7. CASE DrainTake
    BY <1>7, TakeFacts DEF DrainTake, taken, notifyVars, ledVars, NotifyTypeOK, stranded
  <1>8. CASE OtherTask
    BY <1>8, TakeFacts DEF OtherTask, notifyVars, ledVars, NotifyTypeOK, stranded
  <1>9. CASE OtherPost
    BY <1>9, PostFacts DEF OtherPost, notifyVars, ledVars, NotifyTypeOK, stranded
  <1>10. CASE AppTaskInit
    BY <1>10, <1>1, InitIsSilent
  <1>11. CASE Run
    BY <1>11, <1>1, <1>2, <1>3, <1>4, <1>5, <1>6, <1>7, <1>8, <1>9, RunSteps DEF Listener
  <1> QED
    BY <1>1, <1>10, <1>11
       DEF StartupNext, Exited, startupVars, allVars, notifyVars, reportVars, ledVars

SyncInv == ReconcilerTypeOK /\ CommandTypeOK /\ NotifyTypeOK /\ BootInv

\* The types and the stages of start-up hold together.
LEMMA SyncInvariant == StartupSpec => []SyncInv
  <1>1. StartupInit => SyncInv
    <2> SUFFICES ASSUME StartupInit PROVE SyncInv
      OBVIOUS
    <2>1. ReconcilerTypeOK
      BY TypeInitially DEF StartupInit, CoordinatorInit, RouterInit
    <2>2. CommandTypeOK
      BY CommandTypeInitially DEF StartupInit, CoordinatorInit
    <2>3. NotifyTypeOK
      BY CoordinatorAssumption DEF StartupInit, CoordinatorInit, NotifyTypeOK
    <2> QED
      BY <2>1, <2>2, <2>3, BootInitially DEF SyncInv
  <1>2. SyncInv /\ [StartupNext]_startupVars => SyncInv'
    BY StartupCallsRouter, RouterCallsReconciler, TypeStep, CommandTypeStep, NotifyStep,
       BootStep DEF SyncInv
  <1> QED
    BY <1>1, <1>2, PTL DEF StartupSpec

\* Attributes in the reporter's queue always have a drain posted or about to be,
\* until a post meets a full task queue, whatever its size, whoever else posts to it
\* and however enqueues, posts and drains interleave (OnChangedAttributes against
\* DrainOnMatterEventLoop and Nrf::PostTask).
THEOREM ReportsCorrect == StartupSpec => NoReportForgotten
  <1>1. SyncInv /\ [StartupNext]_startupVars => [stranded' => stranded \/ dropped]_allVars
    BY NotifyStep DEF SyncInv
  <1> QED
    BY <1>1, SyncInvariant, PTL DEF StartupSpec, NoReportForgotten

\* No registered handler outlives the kernel, whichever registrations fail
\* (AAIInstaller::Install and Uninstall, SyncCoordinator::Init).
THEOREM HandlersCorrect == StartupSpec => []HandlersHaveKernel
  <1>1. SyncInv => HandlersHaveKernel
    BY DEF SyncInv, BootInv
  <1> QED
    BY <1>1, SyncInvariant, PTL

\* Whichever step of start-up fails and whenever the SDK runs the callback, polls
\* and commands find the bridge wired (AppTask::Init, AirConditionerManager::Init).
THEOREM WiringCorrect == StartupSpec => []ThreadsFindWiring
  <1>1. SyncInv => ThreadsFindWiring
    BY DEF SyncInv, BootInv, Stages, ThreadsFindWiring
  <1> QED
    BY <1>1, SyncInvariant, PTL

\* In the running application the direction stays in line with the last report,
\* nothing moves a twin inside its guard window, and a raise never lowers: an
\* intent computed from a read that a report has overtaken is no exception
\* (fuseRunningMode, intentPassesGuard, HandleSetpointRaiseLower).
THEOREM ApplicationKeepsReconciler ==
    StartupSpec => []RunningModeAgrees /\ DeviceWinsInsideWindow /\ RaiseNeverLowers
  <1>1. StartupInit => RunningModeAgrees /\ StaleIsGuarded
    BY StaleInitially DEF StartupInit, CoordinatorInit, RouterInit, ReconcilerInit, StateInit,
                          RunningModeAgrees
  <1>2. SyncInv /\ [StartupNext]_startupVars =>
           /\ ReconcilerTypeOK /\ CommandTypeOK
           /\ [RouterCall]_routerVars /\ [AnyCall]_reconcilerVars
    BY StartupCallsRouter, RouterCallsReconciler DEF SyncInv
  <1>3. RunningModeAgrees /\ StaleIsGuarded /\ SyncInv /\ [StartupNext]_startupVars =>
           RunningModeAgrees' /\ StaleIsGuarded'
    BY <1>2, RunningModeStep, StaleStep
  <1>4. SyncInv /\ [StartupNext]_startupVars => [deviceWinsStep]_reconcilerVars
    BY <1>2, DeviceWinsStep
  <1>5. StaleIsGuarded /\ SyncInv /\ [StartupNext]_startupVars =>
           [raiseNeverLowersStep]_routerVars
    BY <1>2, RaiseStep
  <1> QED
    BY <1>1, <1>3, <1>4, <1>5, SyncInvariant, PTL
       DEF StartupSpec, DeviceWinsInsideWindow, RaiseNeverLowers
-----------------------------------------------------------------------------
(* What subscribers have been told.                                        *)

\* The state that reads depend on.
shownVars == <<twinVars, fanPercentSetting, runningMode, sensorVars>>

\* What a read of one attribute returns.
LEMMA ReadValue ==
    ASSUME NEW a \in MatterAttributes
    PROVE  attributeValues[a] = IF a = "systemMode" THEN systemMode ELSE project[a]
  BY DEF attributeValues

LEMMA NextReadValue ==
    ASSUME NEW a \in MatterAttributes
    PROVE  attributeValues'[a] = IF a = "systemMode" THEN systemMode' ELSE project'[a]
  BY DEF attributeValues

\* An attribute that is not dirty reads as before.
LEMMA CleanReadsAsBefore ==
    ASSUME NEW a \in MatterAttributes, a \notin diffProjections(project, project')
    PROVE  attributeValues'[a] = attributeValues[a]
  <1>1. DOMAIN project = (Attributes \ {"systemMode"}) \cup {"mode"}
    BY DEF project, Attributes, MatterAttributes
  <1>2. CASE a = "systemMode"
    <2>1. project["onOff"] = project'["onOff"] /\ project["mode"] = project'["mode"]
      BY <1>2 DEF diffProjections
    <2>2. projectedOnOff = projectedOnOff' /\ projectedMode = projectedMode'
      BY <2>1 DEF project
    <2> QED
      BY <1>2, <2>2, ReadValue, NextReadValue DEF systemMode
  <1>3. CASE a # "systemMode"
    <2>1. a \in DOMAIN project \ {"mode"}
      BY <1>1, <1>3 DEF Attributes, MatterAttributes
    <2>2. project[a] = project'[a]
      BY <2>1 DEF diffProjections
    <2> QED
      BY <1>3, <2>2, ReadValue, NextReadValue
  <1> QED
    BY <1>2, <1>3

\* A step that leaves what is shown alone leaves every read alone.
LEMMA UnchangedReads ==
    ASSUME UNCHANGED shownVars, NEW a \in MatterAttributes
    PROVE  attributeValues'[a] = attributeValues[a]
  <1> USE DEF shownVars, twinVars, sensorVars
  <1>1. UNCHANGED <<projectedOnOff, projectedMode>> /\ projectedValue(fan)' = projectedValue(fan)
    BY DEF projectedOnOff, projectedMode, projectedValue, hasInFlight
  <1>2. \A f \in DOMAIN project \ {"reachable"} : project[f] = project'[f]
    BY <1>1 DEF project, projectedValue, hasInFlight, projectedOccupiedHeatingSetpoint,
           projectedOccupiedCoolingSetpoint, projectedRunningMode, projectedSetpointSource,
           activeSetpoint, projectedSpeedSetting, projectedFanMode, projectedSpeedCurrent,
           projectedPercentSetting, projectedPercentCurrent, projectedHumidityCentiPercent
  <1>3. {"onOff", "mode"} \subseteq DOMAIN project /\ a # "reachable"
    BY DEF project, MatterAttributes
  <1>4. a \notin diffProjections(project, project')
    BY <1>2, <1>3 DEF diffProjections
  <1> QED
    BY <1>4, CleanReadsAsBefore

\* A call that notifies the reporter makes what it dirties pending.
LEMMA NotifyingPends ==
    ASSUME NotifyTypeOK, NEW t \in Threads, Notifying(t), "reporter" \in mListeners
    PROVE  pending \cup diffProjections(project, project') \subseteq pending'
  <1> DEFINE dirtied == diffProjections(project, project')
  <1>1. /\ notifyPc[t] = "idle"
        /\ dirtyAttrs' = [dirtyAttrs EXCEPT ![t] = dirtied]
        /\ notifyPc' = [notifyPc EXCEPT ![t] = firstStep(dirtied)]
        /\ UNCHANGED <<mQueue, drained, reportPaths>>
    BY DEF Notifying, reportVars
  <1> HIDE DEF dirtied
  <1>2. t \in DOMAIN notifyPc /\ t \in DOMAIN dirtyAttrs
    BY DEF NotifyTypeOK
  <1>3. \A u \in Threads \ {t} : notifyPc'[u] = notifyPc[u] /\ dirtyAttrs'[u] = dirtyAttrs[u]
    BY NotifyingFacts
  <1>4. dirtied # {} => notifyPc'[t] = "enqueue" /\ dirtyAttrs'[t] = dirtied
    BY <1>1, <1>2 DEF firstStep
  <1>5. pending \subseteq pending'
    BY <1>1, <1>3 DEF pending
  <1>6. dirtied \subseteq pending'
    BY <1>4 DEF pending
  <1> QED
    BY <1>5, <1>6 DEF dirtied

\* The listeners and the drain lose nothing that is pending, but attributes
\* without a Matter address.
LEMMA PendingKept ==
    ASSUME NotifyTypeOK, (\E t \in Threads : Listener(t)) \/ MainThread \/ ButtonOrTimer
    PROVE  pending \cap MatterAttributes \subseteq pending'
  <1>1. /\ notifyPc \in [Threads -> {"idle", "enqueue", "post", "ledRead", "ledSet"}]
        /\ dirtyAttrs \in [Threads -> SUBSET Attributes]
    BY DEF NotifyTypeOK
  <1>2. ASSUME NEW t \in Threads, ReporterEnqueue(t)
        PROVE  pending \subseteq pending'
    <2>1. /\ mQueue' = mQueue \cup dirtyAttrs[t]
          /\ UNCHANGED <<drained, reportPaths>>
          /\ \A u \in Threads \ {t} : notifyPc'[u] = notifyPc[u] /\ dirtyAttrs'[u] = dirtyAttrs[u]
      BY <1>1, <1>2 DEF ReporterEnqueue, goto
    <2> QED
      BY <2>1 DEF pending
  <1>3. ASSUME NEW t \in Threads,
               ReporterPost(t) \/ PowerIndicatorRead(t) \/ PowerIndicatorSet(t)
        PROVE  pending \subseteq pending'
    <2>1. /\ UNCHANGED <<mQueue, drained, reportPaths>>
          /\ notifyPc[t] # "enqueue"
          /\ \A u \in Threads \ {t} : notifyPc'[u] = notifyPc[u] /\ dirtyAttrs'[u] = dirtyAttrs[u]
      BY <1>1, <1>3 DEF ReporterPost, PowerIndicatorRead, PowerIndicatorSet, goto, reportVars
    <2> QED
      BY <2>1 DEF pending
  <1>4. CASE DrainTake
    BY <1>4 DEF DrainTake, takes, taken, notifyVars, pending
  <1>5. CASE DrainReport
    <2>1. /\ reportPaths' = reportPaths \cup (drained \cap MatterAttributes) /\ drained' = {}
          /\ UNCHANGED <<mQueue, notifyPc, dirtyAttrs>>
      BY <1>5 DEF DrainReport, marked, notifyVars
    <2> QED
      BY <2>1 DEF pending
  <1>6. CASE OtherTask \/ OtherPost
    BY <1>6 DEF OtherTask, OtherPost, notifyVars, pending
  <1> QED
    BY <1>2, <1>3, <1>4, <1>5, <1>6 DEF Listener, MainThread, ButtonOrTimer

\* Every step but OnCommandSent keeps subscribers up to date, or on their way to it.
LEMMA OutOfDateStep ==
    ASSUME SyncInv, [StartupNext]_startupVars
    PROVE  \/ outOfDate' \subseteq outOfDate
           \/ OnCommandSent(desiredCommand) /\ CommandSentOrFailed
  <1> USE DEF SyncInv
  <1> SUFFICES ASSUME ~(OnCommandSent(desiredCommand) /\ CommandSentOrFailed), NEW a \in MatterAttributes,
                      a \notin pending', subscriber'[a] # attributeValues'[a]
               PROVE  a \notin pending /\ subscriber[a] # attributeValues[a]
    BY DEF outOfDate, MatterAttributes
  <1>1. ASSUME attributeValues'[a] = attributeValues[a], subscriber'[a] = subscriber[a],
               a \in pending => a \in pending'
        PROVE  a \notin pending /\ subscriber[a] # attributeValues[a]
    BY <1>1
  <1>2. UNCHANGED <<mQueue, drained, reportPaths, notifyPc, dirtyAttrs>> => pending' = pending
    BY DEF pending
  <1>3. ASSUME s21Thread, NEW t \in Threads, Notifying(t)
        PROVE  a \notin pending /\ subscriber[a] # attributeValues[a]
    <2>1. "reporter" \in mListeners
      BY <1>3 DEF BootInv, Stages, wired
    <2>2. a \notin pending /\ a \notin diffProjections(project, project')
      BY <1>3, <2>1, NotifyingPends
    <2>3. UNCHANGED subscriber
      BY <1>3 DEF Notifying, reportVars
    <2> QED
      BY <1>1, <2>2, <2>3, CleanReadsAsBefore
  <1>4. CASE s21Thread /\ (ObserveAndNotify \/ ApplyIntentAndNotify)
    BY <1>3, <1>4 DEF ObserveAndNotify, ApplyIntentAndNotify, Threads
  <1>5. CASE CommandSentOrFailed
    <2>1. OnCommandFailed \/ NotifyLinkDown
      BY <1>5 DEF CommandSentOrFailed, CommandOutcome, pendingCommand
    <2>2. UNCHANGED shownVars
      BY <2>1 DEF OnCommandFailed, NotifyLinkDown, stateVars, shownVars, twinVars, sensorVars
    <2> QED
      BY <1>1, <1>2, <1>5, <2>2, UnchangedReads DEF CommandSentOrFailed, notifyVars, reportVars
  <1>6. CASE ReceiveCommand \/ Tick
    <2>1. UNCHANGED <<shownVars, subscriber, mQueue, drained, reportPaths, notifyPc, dirtyAttrs>>
      BY <1>6 DEF ReceiveCommand, InvokeCommand, ReadPart, Tick, ClockTick, Elapse, notifyVars,
                  reportVars, reconcilerVars, stateVars, shownVars, twinVars, sensorVars
    <2> QED
      BY <1>1, <1>2, <2>1, UnchangedReads
  <1>7. CASE (\E t \in Threads : Listener(t)) \/ MainThread \/ ButtonOrTimer
    <2>1. UNCHANGED <<shownVars, subscriber>>
      BY <1>7 DEF MainThread, ButtonOrTimer, DrainTake, DrainReport, OtherTask, OtherPost,
                  Listener, ReporterEnqueue, ReporterPost, PowerIndicatorRead,
                  PowerIndicatorSet, reportVars, routerVars, reconcilerVars, stateVars,
                  shownVars, twinVars, sensorVars
    <2> QED
      BY <1>1, <1>7, <2>1, UnchangedReads, PendingKept
  <1>8. CASE EngineReports
    <2>1. UNCHANGED <<shownVars, mQueue, drained, notifyPc, dirtyAttrs>>
      BY <1>8 DEF EngineReports, routerVars, reconcilerVars, stateVars, notifyVars,
                  shownVars, twinVars, sensorVars
    <2>2. a \notin reportPaths
      BY <1>8, <2>1, UnchangedReads DEF EngineReports
    <2>3. subscriber'[a] = subscriber[a]
      BY <1>8, <2>2 DEF EngineReports
    <2>4. a \in pending => a \in pending'
      BY <2>1, <2>2 DEF pending
    <2> QED
      BY <1>1, <2>1, <2>3, <2>4, UnchangedReads
  <1>9. CASE Run
    <2>1. ChipThread => s21Thread
      BY DEF ChipThread, BootInv, Stages
    <2> QED
      BY <1>4, <1>5, <1>6, <1>7, <1>8, <1>9, <2>1 DEF Run, ChipThread, S21Thread
  <1>10. CASE AppTaskInit \/ UNCHANGED startupVars
    <2>1. /\ UNCHANGED <<shownVars, mQueue, drained, reportPaths, notifyPc, dirtyAttrs>>
          /\ subscriber' = attributeValues \/ UNCHANGED subscriber
      BY <1>10, InitIsSilent
         DEF AppTaskInit, S21StackInit, CoordinatorInstall, Register, InstallEnds,
             PowerIndicatorInit, AddListeners, AddListener, S21ManagerInit, BoardInit, StartServer,
             startupVars, allVars, notifyVars, reportVars, routerVars, reconcilerVars, stateVars,
             shownVars, twinVars, sensorVars
    <2> QED
      BY <1>1, <1>2, <2>1, UnchangedReads
  <1> QED
    BY <1>9, <1>10 DEF StartupNext, Exited

\* Whatever threads do, for every sequence of commands and readings and every task
\* queue, the only change of the projection that subscribers are not told of is the
\* one onCommandSent makes (SyncCoordinator::OnCommandSent).
THEOREM SubscribersMissOnlySent == StartupSpec => OnlySentIsMissed
  <1>1. SyncInv /\ [StartupNext]_startupVars =>
           [outOfDate' \subseteq outOfDate \/ OnCommandSent(desiredCommand)]_allVars
    BY OutOfDateStep
  <1> QED
    BY <1>1, SyncInvariant, PTL DEF StartupSpec, OnlySentIsMissed

\* The attributes that no command touches.
SteadyAttributes == {"localTemperature", "outdoorTemperature", "setpointSource",
                     "humidityCentiPercent"}

\* Subscribers have them, or they are on their way.
SteadyInv == outOfDate \cap SteadyAttributes = {}

\* A command that is sent leaves them alone.
LEMMA SentKeepsSteady ==
    ASSUME ReconcilerTypeOK, NEW cmd, OnCommandSent(cmd), NEW a \in SteadyAttributes
    PROVE  attributeValues'[a] = attributeValues[a]
  <1>1. /\ mode \in TwinFields(OperationalModes)
        /\ coolSetpoint \in TwinFields(Int) /\ heatSetpoint \in TwinFields(Int)
        /\ autoSetpoint \in TwinFields(Int)
    BY DEF ReconcilerTypeOK, StateTypeOK
  <1>2. /\ mode'.observed = mode.observed
        /\ coolSetpoint'.attribution = coolSetpoint.attribution
        /\ heatSetpoint'.attribution = heatSetpoint.attribution
        /\ autoSetpoint'.attribution = autoSetpoint.attribution
    BY <1>1, PromoteFacts DEF OnCommandSent
  <1>3. projectedSetpointSource' = projectedSetpointSource
    BY <1>2 DEF projectedSetpointSource, activeSetpoint
  <1>4. UNCHANGED <<indoorTemp, outdoorTemp, humidity>>
    BY DEF OnCommandSent
  <1>5. a \in MatterAttributes /\ a # "systemMode"
    BY DEF SteadyAttributes, MatterAttributes
  <1>6. project'[a] = project[a]
    BY <1>3, <1>4 DEF SteadyAttributes, project, projectedHumidityCentiPercent
  <1> QED
    BY <1>5, <1>6, ReadValue, NextReadValue

LEMMA SteadyStep ==
    ASSUME SyncInv, SteadyInv, [StartupNext]_startupVars
    PROVE  SteadyInv'
  <1>1. CASE outOfDate' \subseteq outOfDate
    BY <1>1 DEF SteadyInv
  <1>2. CASE OnCommandSent(desiredCommand) /\ CommandSentOrFailed
    <2>1. UNCHANGED <<subscriber, mQueue, drained, reportPaths, notifyPc, dirtyAttrs>>
      BY <1>2 DEF CommandSentOrFailed, notifyVars, reportVars
    <2>2. pending' = pending
      BY <2>1 DEF pending
    <2>3. \A a \in SteadyAttributes : attributeValues'[a] = attributeValues[a]
      BY <1>2, SentKeepsSteady DEF SyncInv
    <2> QED
      BY <2>1, <2>2, <2>3 DEF SteadyInv, outOfDate
  <1> QED
    BY <1>1, <1>2, OutOfDateStep

\* For every sequence of commands and readings, subscribers end up with the
\* temperatures, humidity and setpoint source a read returns
\* (DrainOnMatterEventLoop, OnChangedAttributes).
THEOREM SensorsCorrect == StartupSpec => []SensorsReachSubscribers
  <1>1. StartupInit => SteadyInv
    BY DEF StartupInit, CoordinatorInit, SteadyInv, outOfDate
  <1>2. SyncInv /\ SteadyInv /\ [StartupNext]_startupVars => SteadyInv'
    BY SteadyStep
  <1>3. SteadyInv => SensorsReachSubscribers
    <2> SUFFICES ASSUME SteadyInv, reportsDone PROVE SensorsReachSubscribers
      BY DEF SensorsReachSubscribers
    <2>1. pending = {}
      BY DEF reportsDone, threadsIdle, pending
    <2>2. \A a \in SteadyAttributes : a \in MatterAttributes /\ subscriber[a] = project[a]
      BY <2>1, ReadValue DEF SteadyInv, outOfDate, SteadyAttributes, MatterAttributes
    <2> QED
      BY <2>2 DEF SensorsReachSubscribers, SteadyAttributes, project
  <1> QED
    BY <1>1, <1>2, <1>3, SyncInvariant, PTL DEF StartupSpec
=============================================================================
