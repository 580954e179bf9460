------------------------------- MODULE Startup -------------------------------
(***************************************************************************)
(* Start-up of the application and the running bridge after it             *)
(* (AppTask::Init, SyncCoordinator::Init, AAIInstaller,                    *)
(* AirConditionerManager::Init).                                           *)
(*                                                                         *)
(* The steps run one after the other, any of them may fail, and the first  *)
(* failure ends the application's main thread.  From the end of            *)
(* AirConditionerManager::Init the S21 work queue polls the unit, while    *)
(* the main thread is still on its way to StartServer and tasks posted by  *)
(* the reporter are not yet dispatched; Matter commands and reports come   *)
(* after StartServer.  When the SDK runs the callback that holds the two   *)
(* bridge inits, within PrepareServer or only once the server starts, is   *)
(* its choice.  What a poll does is SyncCoordinator's; the retry of a      *)
(* failed S21Manager::Init is AirConditionerManager's.                     *)
(***************************************************************************)
EXTENDS SyncCoordinator, FiniteSets, Functions

VARIABLES
    boot,         \* where AppTask::Init stands; "running" after it, "failed"
    boardReady,   \* buttons, event handler and identify cluster are set up
    mKernel,      \* the coordinator has its kernel
    registered,   \* handlers in the SDK's two registries
    outcomes,     \* Install: how the registrations so far went
    mPump,        \* the command pump handler is set
    s21Thread     \* the S21 work queue has polls or init retries to run

bootVars    == <<boot, boardReady, mKernel, registered, outcomes, mPump, s21Thread>>
startupVars == <<allVars, bootVars>>

\* AAIInstaller's attribute and command handlers, in the order of registration.
handlers == <<"thermostat", "onOff", "fanControl", "humidity", "onOffCmd", "thermostatCmd">>

\* Server init has registered the SDK's own Thermostat attribute handler.
StartupInit ==
    /\ CoordinatorInit
    /\ boot = "s21Stack" /\ boardReady = FALSE
    /\ mKernel = FALSE
    /\ registered = {"sdkThermostat"}
    /\ outcomes = <<>>
    /\ mPump = FALSE /\ s21Thread = FALSE
-----------------------------------------------------------------------------
(* AppTask::Init.                                                          *)

at(stage, next) == boot = stage /\ boot' = next

\* S21Stack::Init, the UART, and PrepareServer, which may run the callback.
S21StackInit ==
    /\ \E next \in {"coordinator", "board", "failed"} : at("s21Stack", next)
    /\ UNCHANGED <<allVars, boardReady, mKernel, registered, outcomes, mPump, s21Thread>>

\* SyncCoordinator::Init up to the registrations; the SDK's handler, found by
\* endpoint and cluster, makes room for the bridge's.
CoordinatorInstall ==
    /\ at("coordinator", "install")
    /\ mKernel' = TRUE
    /\ registered' = registered \ {"sdkThermostat"}
    /\ UNCHANGED <<allVars, boardReady, outcomes, mPump, s21Thread>>

\* A registry refuses a second handler for a cluster, and may refuse others.
Register ==
    /\ boot = "install" /\ Len(outcomes) < Len(handlers)
    /\ LET handler == handlers[Len(outcomes) + 1]
       IN  \E ok \in BOOLEAN :
              /\ ok => ~(handler = "thermostat" /\ "sdkThermostat" \in registered)
              /\ outcomes' = Append(outcomes, ok)
              /\ registered' = IF ok THEN registered \cup {handler} ELSE registered
    /\ UNCHANGED <<allVars, boot, boardReady, mKernel, mPump, s21Thread>>

\* Mutant: the last registration decides.
lastRegistered == outcomes[Len(outcomes)]

allRegistered == FALSE \notin Range(outcomes)

\* Mutant: only the attribute handlers are unregistered.
uninstalledAttributes == registered \ {"thermostat", "onOff", "fanControl", "humidity"}

\* AAIInstaller::Uninstall.
uninstalled == registered \ Range(handlers)

\* Every handler has been tried: installed, or rolled back and the kernel gone.
InstallEnds ==
    /\ boot = "install" /\ Len(outcomes) = Len(handlers)
    /\ outcomes' = <<>>
    /\ \/ /\ allRegistered
          /\ boot' = "indicator"
          /\ UNCHANGED <<registered, mKernel>>
       \/ /\ ~allRegistered
          /\ boot' = "failed"
          /\ registered' = uninstalled
          /\ mKernel' = FALSE
    /\ UNCHANGED <<allVars, boardReady, mPump, s21Thread>>

\* AirConditionerManager::Init: LED0 is configured to show OnOff ...
PowerIndicatorInit ==
    /\ \/ at("indicator", "reporter") /\ led' = projectedOnOff
       \/ at("indicator", "failed") /\ UNCHANGED led
    /\ UNCHANGED <<routerVars, notifyVars, reportVars, ledValue,
                   boardReady, mKernel, registered, outcomes, mPump, s21Thread>>

\* ... the pump handler is set and the listeners are added, one after the
\* other (ChangePublisher::Add) ...
AddListener(stage, listener, next) ==
    LET full == listener \notin mListeners /\ Cardinality(mListeners) >= kMaxListeners
    IN  /\ at(stage, IF full THEN "failed" ELSE next)
        /\ mPump' = TRUE
        /\ mListeners' = IF full THEN mListeners ELSE mListeners \cup {listener}
        /\ UNCHANGED <<routerVars, notifyPc, dirtyAttrs, reportVars, ledVars,
                       boardReady, mKernel, registered, outcomes, s21Thread>>

AddListeners ==
    \/ AddListener("reporter", "reporter", "powerIndicator")
    \/ AddListener("powerIndicator", "powerIndicator", "s21Manager")

\* ... and S21Manager::Init, whichever way it goes, leaves work scheduled.
S21ManagerInit ==
    /\ at("s21Manager", IF boardReady THEN "server" ELSE "board")
    /\ s21Thread' = TRUE
    /\ UNCHANGED <<allVars, boardReady, mKernel, registered, outcomes, mPump>>

\* The board's buttons and LEDs, the event handler and the identify cluster.
BoardInit ==
    /\ \/ at("board", IF s21Thread THEN "server" ELSE "coordinator") /\ boardReady' = TRUE
       \/ at("board", "failed") /\ UNCHANGED boardReady
    /\ UNCHANGED <<allVars, mKernel, registered, outcomes, mPump, s21Thread>>

\* StartServer; a subscription begins with a report of every attribute.
StartServer ==
    /\ \/ /\ at("server", "running")
          /\ subscriber' = attributeValues
       \/ at("server", "failed") /\ UNCHANGED subscriber
    /\ UNCHANGED <<routerVars, notifyVars, mQueue, tasks, drained, reportPaths, ledVars,
                   boardReady, mKernel, registered, outcomes, mPump, s21Thread>>

AppTaskInit ==
    \/ S21StackInit \/ CoordinatorInstall \/ Register \/ InstallEnds
    \/ PowerIndicatorInit \/ AddListeners \/ S21ManagerInit \/ BoardInit \/ StartServer
-----------------------------------------------------------------------------
(* The running bridge.                                                     *)

ChipThread ==
    /\ boot = "running"
    /\ ReceiveCommand \/ ApplyIntentAndNotify \/ EngineReports

MainThread ==
    /\ boot = "running"
    /\ DrainTake \/ DrainReport \/ OtherTask

\* The board's button and the RSSI timer, in interrupt or timer context.
ButtonOrTimer == boardReady /\ OtherPost

S21Thread ==
    /\ s21Thread
    /\ ObserveAndNotify \/ CommandSentOrFailed \/ Tick

Run ==
    /\ ChipThread \/ MainThread \/ S21Thread \/ ButtonOrTimer \/ \E t \in Threads : Listener(t)
    /\ UNCHANGED bootVars

\* main() has returned; before S21ManagerInit nothing else is left to run.
Exited == boot = "failed" /\ UNCHANGED startupVars

StartupNext == AppTaskInit \/ Run \/ Exited

StartupSpec == StartupInit /\ [][StartupNext]_startupVars
-----------------------------------------------------------------------------
(* Properties.                                                             *)

\* No handler in the SDK's registries outlives the kernel it dereferences,
\* whichever registrations fail (AAIInstaller::Install and Uninstall,
\* SyncCoordinator::Init).
HandlersHaveKernel == registered \cap Range(handlers) # {} => mKernel

wired == /\ mKernel /\ mPump
         /\ mListeners = {"reporter", "powerIndicator"}
         /\ led # Null

\* A thread that can change the bridge's state finds it wired: polls start only
\* with the kernel, the pump, both listeners and a configured LED pin in place,
\* and commands only with every handler installed as well (AppTask::Init; "a
\* dispatch arriving before Init returns would otherwise fire gpio_pin_set_dt
\* on an unconfigured pin").
ThreadsFindWiring ==
    /\ s21Thread => wired
    /\ boot = "running" => wired /\ registered = Range(handlers)

\* Every report has been sent, and nothing is left to send to the unit or
\* unanswered by it.
settled ==
    /\ boot = "running" /\ reportsDone /\ ~anyDirty
    /\ ~hasInFlight(onOff) /\ ~hasInFlight(mode) /\ ~hasInFlight(fan)
    /\ ~hasInFlight(heatSetpoint) /\ ~hasInFlight(coolSetpoint) /\ ~hasInFlight(autoSetpoint)

\* Once everything has settled, subscribers have what a read would return
\* (projector.h: "the domain values that subscribers will see"), and LED0 shows the
\* OnOff of that read (airconditioner_manager.h: driven "from the OnOff dirty path
\* on every transition").
ViewsFollowProjection ==
    settled => subscriber = attributeValues /\ led = projectedOnOff
=============================================================================
