-------------------------- MODULE UsbDeviceManager --------------------------
(***************************************************************************)
(* Device mode: UsbDeviceManager (usb_device_manager.cpp) debounces the    *)
(* gadget's connect and disconnect events with a timer, keeps the current  *)
(* functions and reports both: the sticky USB_STATE event, the HDC notice  *)
(* and the function switch window.                                         *)
(*                                                                         *)
(* Four threads meet here with hardly a lock between them: the driver's    *)
(* event thread (HandleEvent), the timer thread (the delayed tasks), an    *)
(* IPC thread (SetCurrentFunctions) and the common event thread            *)
(* (UserChangeProcess).  functionMutex_ only orders SetCurrentFunctions    *)
(* and the task's GetCurrentFunctions.  A bit mask of functions is a set.  *)
(***************************************************************************)
EXTENDS Naturals, FiniteSets

CONSTANTS
  Functions,  \* gadget functions
  Choices     \* function sets that clients and the accessory manager choose

Transfer == {"mtp", "ptp"}

ASSUME DeviceAssumption ==
  /\ {"hdc", "storage"} \subseteq Functions
  /\ Choices \subseteq SUBSET Functions
  /\ {"hdc"} \in Choices

VARIABLES
  gadgetConnected,   \* gadgetConnected_
  connected,         \* connected_
  disableDialog,     \* isDisableDialog_
  functions,         \* currentFunctions_
  hdcNotifier,       \* hasHdcNotifier_: the HDC notice is displayed
  window,            \* the function switch window is requested
  sticky,            \* content of the sticky USB_STATE event
  timer,             \* the registered task (delayDisconnTimerId_)
  event,             \* status HandleEvent is working on
  task,              \* progress of the task the timer thread runs
  set,               \* progress of SetCurrentFunctions
  user,              \* progress of UserChangeProcess
  hdi,               \* functions of the gadget driver (external)
  lastEvent,         \* history: the last status handled
  overlapped,        \* history: HandleEvent decided while an expired task
                     \* had not yet written connected_
  mixed              \* history: no undisturbed connect since a disturbance

deviceVars  == <<gadgetConnected, connected, disableDialog, functions>>
reportVars  == <<hdcNotifier, window, sticky>>
threadVars  == <<timer, event, task, set, user>>
historyVars == <<lastEvent, overlapped, mixed>>
vars == <<deviceVars, reportVars, threadVars, hdi, historyVars>>

Accessory == {"ACCESSORYUP", "ACCESSORYDOWN", "ACCESSORYSEND"}
Status == {"UP", "DOWN"} \union Accessory

Idle == [pc |-> "idle"]
At(l, f) == [pc |-> l, func |-> f]

Init ==
  /\ gadgetConnected = FALSE
  /\ connected = FALSE
  /\ disableDialog = FALSE
  /\ functions = {"hdc"}
  /\ hdcNotifier = FALSE
  /\ window = FALSE
  /\ sticky = [connected |-> FALSE, functions |-> {}]
  /\ timer = "none"
  /\ event = "none"
  /\ task = "idle"
  /\ set = Idle
  /\ user = Idle
  /\ hdi \in Choices
  /\ lastEvent = "DOWN"
  /\ overlapped = FALSE
  /\ mixed = (hdi # {"hdc"})

(* Nobody but the caller works on the functions.                           *)
SetIdle  == set.pc = "idle"
UserIdle == user.pc = "idle"
TaskIdle == task = "idle"
Expired  == task \in {"connect", "disconnect"}

(***************************************************************************)
(* Reports.                                                                *)
(***************************************************************************)
BroadcastFuncChange(c, f) == sticky' = [connected |-> c, functions |-> f]

(* The HDC notice follows what it is told; the notice of the transfer mode *)
(* is left out.                                                            *)
ProcessFunctionNotifier(c, f) == hdcNotifier' = (c /\ "hdc" \in f)

ProcessFuncChange(c, f) ==
  /\ BroadcastFuncChange(c, f)
  /\ window' = IF disableDialog THEN window ELSE c
  /\ ProcessFunctionNotifier(c, f)

(* MTP and PTP do not outlive the connection or the user's session.        *)
StripTransfer(f) == IF f \subseteq Transfer THEN {"storage"} ELSE f \ Transfer

(***************************************************************************)
(* HandleEvent, on the driver's event thread.                              *)
(***************************************************************************)
(* ProcessStatus, and the registered task is taken back.                   *)
ProcessStatus(s) ==
  /\ event = "none"
  /\ event' = s
  /\ lastEvent' = s
  /\ gadgetConnected' = IF s = "UP" THEN TRUE
                        ELSE IF s = "DOWN" THEN FALSE ELSE gadgetConnected
  /\ disableDialog' = (disableDialog \/ s \in Accessory)
  /\ window' = (window /\ s \notin Accessory)
  /\ timer' = "none"
  /\ UNCHANGED <<connected, functions, hdcNotifier, sticky, task, set, user,
                 hdi, overlapped, mixed>>

(* Mutant: an accessory event counts as connected.                         *)
HandleEventMutant ==
  /\ event # "none"
  /\ timer' = IF event # "DOWN" /\ ~connected THEN "connect"
              ELSE IF event = "DOWN" /\ connected THEN "disconnect"
              ELSE timer
  /\ event' = "none"
  /\ overlapped' = Expired
  /\ UNCHANGED <<deviceVars, reportVars, task, set, user, hdi, lastEvent,
                 mixed>>

(* The task to register is chosen by connected_ as it is now.              *)
HandleEvent ==
  /\ event # "none"
  /\ timer' = IF event = "UP" /\ ~connected THEN "connect"
              ELSE IF event # "UP" /\ connected THEN "disconnect"
              ELSE timer
  /\ event' = "none"
  /\ overlapped' = Expired
  /\ UNCHANGED <<deviceVars, reportVars, task, set, user, hdi, lastEvent,
                 mixed>>

(***************************************************************************)
(* The delayed tasks, on the timer thread.                                 *)
(***************************************************************************)
(* From here on Unregister has no effect, and connected_ is still the old   *)
(* value that HandleEvent compares with.                                   *)
TimerExpires ==
  /\ TaskIdle
  /\ timer # "none"
  /\ timer' = "none"
  /\ task' = timer
  /\ overlapped' = FALSE
  /\ UNCHANGED <<deviceVars, reportVars, event, set, user, hdi, lastEvent,
                 mixed>>

ConnectTask ==
  /\ task = "connect"
  /\ connected' = TRUE
  /\ task' = "get"
  /\ mixed' = ~(SetIdle /\ UserIdle)
  /\ UNCHANGED <<gadgetConnected, disableDialog, functions, reportVars, timer,
                 event, set, user, hdi, lastEvent, overlapped>>

(* GetCurrentFunctions waits for functionMutex_ and may fail.              *)
TaskGetFunctions ==
  /\ task = "get"
  /\ SetIdle
  /\ \/ functions' = hdi /\ UNCHANGED mixed
     \/ UNCHANGED functions /\ mixed' = TRUE
  /\ task' = "report"
  /\ UNCHANGED <<gadgetConnected, connected, disableDialog, reportVars, timer,
                 event, set, user, hdi, lastEvent, overlapped>>

DisconnectTask ==
  /\ task = "disconnect"
  /\ connected' = FALSE
  /\ disableDialog' = FALSE
  /\ \/ /\ functions \intersect Transfer # {}
        /\ functions' = StripTransfer(functions)
        /\ task' = "set"
     \/ /\ functions \intersect Transfer = {}
        /\ "devmode_auth" \in functions
        /\ functions' = {"storage"}
        /\ task' = "set"
     \/ /\ functions \intersect (Transfer \union {"devmode_auth"}) = {}
        /\ task' = "report"
        /\ UNCHANGED functions
  /\ mixed' = (mixed \/ ~(SetIdle /\ UserIdle))
  /\ UNCHANGED <<gadgetConnected, reportVars, timer, event, set, user, hdi,
                 lastEvent, overlapped>>

(* The driver is told without functionMutex_; its answer is not looked at. *)
TaskSetFunctions ==
  /\ task = "set"
  /\ \/ hdi' = functions /\ UNCHANGED mixed
     \/ UNCHANGED hdi /\ mixed' = TRUE
  /\ task' = "report"
  /\ UNCHANGED <<deviceVars, reportVars, timer, event, set, user, lastEvent,
                 overlapped>>

(* Mutant: the notices are not told.                                       *)
TaskReportMutant ==
  /\ task = "report"
  /\ BroadcastFuncChange(connected, functions)
  /\ task' = "idle"
  /\ UNCHANGED <<deviceVars, hdcNotifier, window, timer, event, set, user, hdi,
                 historyVars>>

TaskReport ==
  /\ task = "report"
  /\ ProcessFuncChange(connected, functions)
  /\ task' = "idle"
  /\ UNCHANGED <<deviceVars, timer, event, set, user, hdi, historyVars>>

(***************************************************************************)
(* SetCurrentFunctions: the driver first, then UpdateFunctions.            *)
(***************************************************************************)
SetCurrentFunctions(f) ==
  /\ SetIdle
  /\ hdi # f
  /\ hdi' = f
  /\ set' = At("update", f)
  /\ mixed' = (mixed \/ ~(TaskIdle /\ UserIdle))
  /\ UNCHANGED <<deviceVars, reportVars, timer, event, task, user, lastEvent,
                 overlapped>>

(* The broadcast is left to the connect task that is on its way.           *)
UpdateFunctions ==
  /\ set.pc = "update"
  /\ functions' = set.func
  /\ IF functions = set.func
     THEN UNCHANGED <<sticky, hdcNotifier>>
     ELSE /\ IF ~connected /\ gadgetConnected THEN UNCHANGED sticky
             ELSE BroadcastFuncChange(connected, set.func)
          /\ ProcessFunctionNotifier(connected, set.func)
  /\ set' = Idle
  /\ UNCHANGED <<gadgetConnected, connected, disableDialog, window, timer,
                 event, task, user, hdi, historyVars>>

(***************************************************************************)
(* UserChangeProcess, when the foreground user changes.                    *)
(***************************************************************************)
UserChangeProcess ==
  /\ UserIdle
  /\ \/ /\ functions \intersect Transfer # {}
        /\ hdi' = StripTransfer(functions)
        /\ user' = At("update", StripTransfer(functions))
     \/ /\ user' = At("notify", functions)  \* nothing to strip, or it failed
        /\ UNCHANGED hdi
  /\ mixed' = (mixed \/ ~(TaskIdle /\ SetIdle))
  /\ UNCHANGED <<deviceVars, reportVars, timer, event, task, set, lastEvent,
                 overlapped>>

UserChangeDone ==
  /\ ~UserIdle
  /\ IF user.pc = "update" /\ user.func # functions
     THEN functions' = user.func /\ BroadcastFuncChange(connected, user.func)
     ELSE UNCHANGED <<functions, sticky>>
  /\ ProcessFunctionNotifier(connected, functions')
  /\ user' = Idle
  /\ UNCHANGED <<gadgetConnected, connected, disableDialog, window, timer,
                 event, task, set, hdi, historyVars>>

(* The accessory manager sets the driver's functions behind this one.      *)
AccessorySetFunctions(f) ==
  /\ hdi' = f
  /\ mixed' = TRUE
  /\ UNCHANGED <<deviceVars, reportVars, threadVars, lastEvent, overlapped>>

(***************************************************************************)
(* The specification                                                       *)
(***************************************************************************)
TaskStep == \/ ConnectTask \/ DisconnectTask
            \/ TaskGetFunctions \/ TaskSetFunctions \/ TaskReport

Next ==
  \/ \E s \in Status : ProcessStatus(s)
  \/ HandleEvent
  \/ TimerExpires
  \/ TaskStep
  \/ \E f \in Choices : SetCurrentFunctions(f) \/ AccessorySetFunctions(f)
  \/ UpdateFunctions
  \/ UserChangeProcess
  \/ UserChangeDone

(* Handlers end and timers fire; nobody has to plug, set or switch.        *)
Fairness ==
  /\ WF_vars(HandleEvent)
  /\ WF_vars(TimerExpires)
  /\ WF_vars(TaskStep)
  /\ SF_vars(TaskGetFunctions)
  /\ WF_vars(UpdateFunctions)
  /\ WF_vars(UserChangeDone)

Spec == Init /\ [][Next]_vars /\ Fairness

(***************************************************************************)
(* Properties                                                              *)
(***************************************************************************)
TypeOK ==
  /\ gadgetConnected \in BOOLEAN
  /\ connected \in BOOLEAN
  /\ disableDialog \in BOOLEAN
  /\ functions \subseteq Functions
  /\ hdcNotifier \in BOOLEAN
  /\ window \in BOOLEAN
  /\ sticky \in [connected : BOOLEAN, functions : SUBSET Functions]
  /\ timer \in {"none", "connect", "disconnect"}
  /\ event \in Status \union {"none"}
  /\ task \in {"idle", "connect", "disconnect", "get", "set", "report"}
  /\ set \in {Idle} \union [pc : {"update"}, func : SUBSET Functions]
  /\ user \in {Idle} \union [pc : {"update", "notify"}, func : SUBSET Functions]
  /\ hdi \subseteq Functions
  /\ lastEvent \in Status
  /\ overlapped \in BOOLEAN
  /\ mixed \in BOOLEAN

(* A task that is registered is the one the last event asks for: the timer *)
(* never carries a decision that a later event has overruled.              *)
PendingIsLast ==
  /\ timer = "connect" => lastEvent = "UP"
  /\ timer = "disconnect" => lastEvent # "UP"

(* Debouncing settles on the truth: with nothing registered, running or    *)
(* being handled, connected_ says what the last event said, unless         *)
(* HandleEvent compared that event with a connected_ that an expired task  *)
(* was about to write: that decision is lost until the next event.         *)
Settled ==
  timer = "none" /\ ~Expired /\ event = "none" /\ ~overlapped =>
     connected = (lastEvent = "UP")

(* What is reported is true: after a connect that nobody disturbed, and as *)
(* long as no two of the four threads overlap, the driver runs the current *)
(* functions, the sticky event says whether the device is connected and    *)
(* with which functions, and the HDC notice is displayed exactly while HDC *)
(* is usable.                                                              *)
ReportedTruth ==
  TaskIdle /\ SetIdle /\ UserIdle /\ ~mixed =>
     /\ hdi = functions
     /\ sticky.connected = connected
     /\ connected => sticky.functions = functions
     /\ hdcNotifier = (connected /\ "hdc" \in functions)

(* Once the events stop, debouncing ends and connected_ stays right, with  *)
(* the exception that Settled names.  (A cable that bounces faster than    *)
(* the timer for ever is never taken over: every event restarts it.)       *)
Debounced ==
  <>[](event = "none") =>
     <>[](~overlapped => connected = (lastEvent = "UP"))

(***************************************************************************)
(* What the proofs add to make the invariants inductive.                   *)
(***************************************************************************)
(* An event in hand is the last one and has nothing registered; a task     *)
(* that has expired is the one the last event asks for.                    *)
DebounceInv ==
  /\ event # "none" => event = lastEvent /\ timer = "none"
  /\ timer = "none" /\ event = "none" /\ ~overlapped =>
        /\ task = "connect" => lastEvent = "UP"
        /\ task = "disconnect" => lastEvent # "UP"

Reporting == task \in {"get", "set", "report"}

Told ==
  /\ sticky.connected = connected
  /\ connected => sticky.functions = functions
  /\ hdcNotifier = (connected /\ "hdc" \in functions)

(* Undisturbed, the three threads that change functions take turns; each   *)
(* owes the rest of the truth only what its next step establishes.         *)
TurnInv ==
  ~mixed =>
     /\ Reporting => SetIdle /\ UserIdle
     /\ SetIdle \/ UserIdle
     /\ ~Reporting => Told
     /\ ~Reporting /\ SetIdle /\ UserIdle => hdi = functions
     /\ task = "report" => hdi = functions
     /\ ~SetIdle => hdi = set.func
     /\ ~UserIdle => hdi = IF user.pc = "update" THEN user.func ELSE functions
=============================================================================
