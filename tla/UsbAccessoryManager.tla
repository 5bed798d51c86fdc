------------------------ MODULE UsbAccessoryManager ------------------------
(***************************************************************************)
(* Accessory mode: UsbAccessoryManager (usb_accessory_manager.cpp) puts    *)
(* the gadget into the accessory function when a host asks for it, waits   *)
(* ten seconds for the host to come back, announces the accessory, and     *)
(* restores the replaced functions when the host has gone or never came.   *)
(*                                                                         *)
(* HandleEvent runs on the driver's event thread and, for the debounced UP *)
(* and DOWN, on the timer thread; mutexHandleEvent_ orders the two.  The   *)
(* ten second task also runs on the timer thread but takes no lock.  A bit *)
(* mask of functions is a set.                                             *)
(***************************************************************************)
CONSTANTS
  Choices     \* function sets the device manager and its clients choose, the
              \* accessory function among them: SetCurrentFunctions bars nothing

Acc == {"accessory"}                      \* FUN_ACCESSORY alone
IsAccessory(f) == "accessory" \in f       \* (f & FUN_ACCESSORY) != 0

VARIABLES
  accStatus,    \* accStatus_
  eventStatus,  \* eventStatus_
  curFunc,      \* curDeviceFunc_
  lastFunc,     \* lastDeviceFunc_
  delayTimer,   \* the ten second task is registered (accDelayTimerId_)
  shakeTimer,   \* the debouncing task is registered (antiShakeDelayTimerId_)
  handler,      \* progress of HandleEvent under mutexHandleEvent_
  task,         \* progress of the task on the timer thread
  hdi,          \* functions of the gadget driver (external)
  announced,    \* history: ATTACHED of this session not yet taken back
  before,       \* history: functions this session replaced
  disturbed,    \* history: something else has interfered with the session
  lastEvent,    \* history: the driver's last event
  overlapped    \* history: it came while a debouncing task was under way

managerVars == <<accStatus, eventStatus, curFunc, lastFunc>>
timerVars   == <<delayTimer, shakeTimer>>
historyVars == <<announced, before, disturbed, lastEvent, overlapped>>
vars == <<managerVars, timerVars, handler, task, hdi, historyVars>>

Debounced == {"UP", "DOWN"}
Downs     == {"DOWN", "ACCESSORYDOWN"}
Status    == Debounced \union {"ACCESSORYUP", "ACCESSORYDOWN", "ACCESSORYSEND"}
Modes     == {"NONE", "CONFIGURING", "START", "STOP", "SEND"}

Idle     == [pc |-> "idle"]
At(l, w) == [pc |-> l, wanted |-> w]

LockFree == handler.pc = "idle"
Delaying == task.pc \in {"expire", "restore"}  \* the ten second task has begun
Shaking  == task.pc \in {"popped", "shake"}    \* the debouncing task waits

(* eventStatus_ starts as 0, a status that HandleEvent is never given.     *)
Init ==
  /\ accStatus = "NONE"
  /\ eventStatus = "none"
  /\ curFunc = {}
  /\ lastFunc = {}
  /\ delayTimer = FALSE
  /\ shakeTimer = FALSE
  /\ handler = Idle
  /\ task = Idle
  /\ hdi \in Choices \union {Acc}  \* the service may start in accessory mode
  /\ announced = FALSE
  /\ before = hdi
  /\ disturbed = IsAccessory(hdi)
  /\ lastEvent = "DOWN"
  /\ overlapped = FALSE

(***************************************************************************)
(* HandleEvent up to the first driver call.                                *)
(***************************************************************************)
(* Mutant: the ten second task stays registered when the host comes back.  *)
WantStartMutant(s, w, t) ==
  /\ \/ s = "ACCESSORYUP" /\ w = "CONFIGURING"
     \/ s = "UP" /\ accStatus = "CONFIGURING" /\ w = "START"
  /\ handler' = At("get", w)
  /\ task' = t
  /\ disturbed' = (disturbed \/ Delaying)
  /\ UNCHANGED <<accStatus, delayTimer>>

(* The ten second task is taken back before anything is known.             *)
WantStart(s, w, t) ==
  /\ \/ s = "ACCESSORYUP" /\ w = "CONFIGURING"
     \/ s = "UP" /\ accStatus = "CONFIGURING" /\ w = "START"
  /\ delayTimer' = FALSE
  /\ handler' = At("get", w)
  /\ task' = t
  /\ disturbed' = (disturbed \/ Delaying)
  /\ UNCHANGED accStatus

WantStop(s, t) ==
  /\ s \in Downs
  /\ IsAccessory(curFunc)
  /\ accStatus = "START"
  /\ accStatus' = "STOP"
  /\ handler' = At("stop", "STOP")
  /\ task' = t
  /\ UNCHANGED <<delayTimer, disturbed>>

(* ProcessAccessorySend takes any mode over and has no driver call that    *)
(* matters here; its broadcast carries the extra data only.                *)
WantSend(s, t) ==
  /\ s = "ACCESSORYSEND"
  /\ accStatus' = "SEND"
  /\ disturbed' = (disturbed \/ accStatus \in {"CONFIGURING", "START"})
  /\ task' = t
  /\ UNCHANGED <<delayTimer, handler>>

(* UP without a host awaited; a stop while it is, or without accessory.    *)
NotNecessary(s, t) ==
  /\ \/ s = "UP" /\ accStatus # "CONFIGURING"
     \/ s \in Downs /\ ~(IsAccessory(curFunc) /\ accStatus = "START")
  /\ task' = t
  /\ UNCHANGED <<accStatus, delayTimer, handler, disturbed>>

(* The switch of HandleEvent and the branches of ProcessHandle; the timer  *)
(* thread is at busy if the handler has more to do, else at done.          *)
ProcessHandle(s, busy, done) ==
  \/ \E w \in {"CONFIGURING", "START"} : WantStart(s, w, busy)
  \/ WantStop(s, busy)
  \/ WantSend(s, done)
  \/ NotNecessary(s, done)

(* Mutant: the other timer's id is unregistered.                           *)
HandleEventSwapMutant(s) ==
  /\ LockFree
  /\ eventStatus' = s
  /\ shakeTimer' = (shakeTimer \/ s \in Debounced)
  /\ \/ /\ s \in Debounced
        /\ delayTimer' = FALSE
        /\ UNCHANGED <<accStatus, handler, task, disturbed>>
     \/ /\ s \notin Debounced
        /\ ProcessHandle(s, task, task)
  /\ lastEvent' = s
  /\ overlapped' = Shaking
  /\ UNCHANGED <<curFunc, lastFunc, hdi, announced, before>>

(* Mutant: eventStatus_ is stored behind the early return.                 *)
HandleEventOrderMutant(s) ==
  /\ LockFree
  /\ shakeTimer' = (s \in Debounced)
  /\ \/ /\ s \in Debounced
        /\ UNCHANGED <<accStatus, eventStatus, delayTimer, handler, task,
                       disturbed>>
     \/ /\ s \notin Debounced
        /\ eventStatus' = s
        /\ ProcessHandle(s, task, task)
  /\ lastEvent' = s
  /\ overlapped' = Shaking
  /\ UNCHANGED <<curFunc, lastFunc, hdi, announced, before>>

(* From the driver: a registered debouncing task is replaced or taken      *)
(* back; one that the timer thread has popped is not.                      *)
HandleEvent(s) ==
  /\ LockFree
  /\ eventStatus' = s
  /\ shakeTimer' = (s \in Debounced)
  /\ \/ /\ s \in Debounced
        /\ UNCHANGED <<accStatus, delayTimer, handler, task, disturbed>>
     \/ /\ s \notin Debounced
        /\ ProcessHandle(s, task, task)
  /\ lastEvent' = s
  /\ overlapped' = Shaking
  /\ UNCHANGED <<curFunc, lastFunc, hdi, announced, before>>

(***************************************************************************)
(* The debouncing task: eventStatus_ is read before the lock is taken and  *)
(* written back under it.                                                  *)
(***************************************************************************)
ShakeExpires ==
  /\ task = Idle
  /\ shakeTimer
  /\ shakeTimer' = FALSE
  /\ task' = [pc |-> "popped"]
  /\ UNCHANGED <<managerVars, delayTimer, handler, hdi, historyVars>>

ShakeReads ==
  /\ task.pc = "popped"
  /\ task' = [pc |-> "shake", status |-> eventStatus]
  /\ UNCHANGED <<managerVars, timerVars, handler, hdi, historyVars>>

ShakeHandles ==
  /\ task.pc = "shake"
  /\ LockFree
  /\ eventStatus' = task.status
  /\ ProcessHandle(task.status, [pc |-> "handling"], Idle)
  /\ UNCHANGED <<curFunc, lastFunc, shakeTimer, hdi, announced, before,
                 lastEvent, overlapped>>

(***************************************************************************)
(* The rest of HandleEvent, under the lock.                                *)
(***************************************************************************)
(* HandleEvent returns; the timer thread is free again if it called it.    *)
Return ==
  /\ handler' = Idle
  /\ task' = IF task.pc = "handling" THEN Idle ELSE task

GetCurrentFunctions ==
  /\ handler.pc = "get"
  /\ \/ /\ curFunc' = hdi
        /\ handler' = [handler EXCEPT !.pc = "start"]
        /\ UNCHANGED <<task, disturbed>>
     \/ /\ Return                          \* the driver failed
        /\ disturbed' = TRUE
        /\ UNCHANGED curFunc
  /\ UNCHANGED <<accStatus, eventStatus, lastFunc, timerVars, hdi, announced,
                 before, lastEvent, overlapped>>

(* ProcessAccessoryStart, first branch: the host is back.                  *)
StartAccessory ==
  /\ handler.pc = "start"
  /\ IsAccessory(curFunc)
  /\ accStatus # "START"
  /\ accStatus' = "START"
  /\ announced' = TRUE
  /\ Return
  /\ UNCHANGED <<eventStatus, curFunc, lastFunc, timerVars, hdi, before,
                 disturbed, lastEvent, overlapped>>

(* Second branch: the host asks for accessory mode.                        *)
SetAccessory ==
  /\ handler.pc = "start"
  /\ ~IsAccessory(curFunc)
  /\ handler.wanted = "CONFIGURING"
  /\ \/ /\ hdi' = Acc
        /\ handler' = [handler EXCEPT !.pc = "arm"]
        /\ before' = hdi
        /\ announced' = FALSE
        /\ disturbed' = (Delaying \/ hdi # curFunc)
        /\ UNCHANGED task
     \/ /\ Return                          \* the driver failed
        /\ UNCHANGED <<hdi, before, announced, disturbed>>
  /\ UNCHANGED <<managerVars, timerVars, lastEvent, overlapped>>

(* Mutant: the functions to restore are read after the switch.             *)
ArmDelayMutant ==
  /\ handler.pc = "arm"
  /\ lastFunc' = hdi
  /\ delayTimer' = TRUE
  /\ accStatus' = "CONFIGURING"
  /\ Return
  /\ UNCHANGED <<eventStatus, curFunc, shakeTimer, hdi, historyVars>>

ArmDelay ==
  /\ handler.pc = "arm"
  /\ lastFunc' = curFunc
  /\ delayTimer' = TRUE
  /\ accStatus' = "CONFIGURING"
  /\ Return
  /\ UNCHANGED <<eventStatus, curFunc, shakeTimer, hdi, historyVars>>

(* Third branch: already started, or the awaited functions have gone.      *)
StartNotNecessary ==
  /\ handler.pc = "start"
  /\ \/ IsAccessory(curFunc) /\ accStatus = "START"
     \/ ~IsAccessory(curFunc) /\ handler.wanted = "START"
  /\ Return
  /\ UNCHANGED <<managerVars, timerVars, hdi, historyVars>>

(* ProcessAccessoryStop: the replaced functions come back, if the driver   *)
(* agrees, and DETACHED is broadcast.                                      *)
StopAccessory ==
  /\ handler.pc = "stop"
  /\ \/ hdi' = lastFunc /\ UNCHANGED disturbed
     \/ UNCHANGED hdi /\ disturbed' = TRUE
  /\ curFunc' = lastFunc
  /\ announced' = FALSE
  /\ Return
  /\ UNCHANGED <<accStatus, eventStatus, lastFunc, timerVars, before,
                 lastEvent, overlapped>>

(***************************************************************************)
(* The ten second task, without the lock: the host never came back.        *)
(***************************************************************************)
DelayExpires ==
  /\ task = Idle
  /\ delayTimer
  /\ delayTimer' = FALSE
  /\ task' = [pc |-> "expire"]
  /\ UNCHANGED <<managerVars, shakeTimer, handler, hdi, historyVars>>

DelayStops ==
  /\ task.pc = "expire"
  /\ accStatus' = "STOP"
  /\ task' = [pc |-> "restore"]
  /\ UNCHANGED <<eventStatus, curFunc, lastFunc, timerVars, handler, hdi,
                 historyVars>>

DelayRestores ==
  /\ task.pc = "restore"
  /\ \/ hdi' = lastFunc /\ UNCHANGED disturbed
     \/ UNCHANGED hdi /\ disturbed' = TRUE
  /\ task' = Idle
  /\ UNCHANGED <<managerVars, timerVars, handler, announced, before,
                 lastEvent, overlapped>>

(* The device manager sets the driver's functions behind this one.         *)
DeviceSetFunctions(f) ==
  /\ hdi' = f
  /\ disturbed' = TRUE
  /\ UNCHANGED <<managerVars, timerVars, handler, task, announced, before,
                 lastEvent, overlapped>>

(***************************************************************************)
(* The specification                                                       *)
(***************************************************************************)
HandlerStep == \/ GetCurrentFunctions \/ StartAccessory \/ SetAccessory
               \/ ArmDelay \/ StartNotNecessary \/ StopAccessory

TaskStep == \/ ShakeExpires \/ ShakeReads \/ ShakeHandles
            \/ DelayExpires \/ DelayStops \/ DelayRestores

Next ==
  \/ \E s \in Status : HandleEvent(s)
  \/ HandlerStep
  \/ TaskStep
  \/ \E f \in Choices : DeviceSetFunctions(f)

(* Handlers end, timers fire, and a task that waits for mutexHandleEvent_  *)
(* gets it in the end; the host and the device manager owe nothing.        *)
Fairness ==
  /\ WF_vars(HandlerStep)
  /\ WF_vars(ShakeReads)
  /\ SF_vars(ShakeHandles)
  /\ WF_vars(DelayStops)
  /\ WF_vars(DelayRestores)
  /\ SF_vars(ShakeExpires)
  /\ SF_vars(DelayExpires)

Spec == Init /\ [][Next]_vars /\ Fairness

(***************************************************************************)
(* Properties                                                              *)
(***************************************************************************)
AnyFunc == Choices \union {Acc, {}}

HandlerStates ==
  {Idle} \union [pc : {"get", "start", "arm", "stop"},
                 wanted : {"CONFIGURING", "START", "STOP"}]

TaskStates ==
  [pc : {"idle", "popped", "handling", "expire", "restore"}]
     \union [pc : {"shake"}, status : Status]

TypeOK ==
  /\ accStatus \in Modes
  /\ eventStatus \in Status \union {"none"}
  /\ curFunc \in AnyFunc
  /\ lastFunc \in AnyFunc
  /\ delayTimer \in BOOLEAN
  /\ shakeTimer \in BOOLEAN
  /\ handler \in HandlerStates
  /\ task \in TaskStates
  /\ hdi \in AnyFunc
  /\ announced \in BOOLEAN
  /\ before \in AnyFunc
  /\ disturbed \in BOOLEAN
  /\ lastEvent \in Status
  /\ overlapped \in BOOLEAN

(* Applications are told the truth: in a session that nothing else has     *)
(* interfered with, ATTACHED has been broadcast and DETACHED has not       *)
(* exactly while accStatus_ is ACC_START, which GetAccessoryList and the   *)
(* accessory rights go by.  (What interferes: the device manager sets      *)
(* other functions, the driver fails, ACCESSORYSEND arrives in the middle, *)
(* a new request meets the ten second task at work.)                       *)
AnnouncedIsStarted ==
  LockFree /\ ~disturbed => (announced <=> accStatus = "START")

(* A host that is awaited is not awaited for ever: while the manager is    *)
(* configuring, the ten second task is registered or at work.              *)
AwaitedIsTimed ==
  LockFree /\ ~disturbed /\ accStatus = "CONFIGURING" =>
     delayTimer \/ task.pc = "expire"

(* What the accessory replaced comes back: with nothing under way and no   *)
(* session on, the driver has the functions it had when the session began. *)
ReplacedComesBack ==
  /\ LockFree /\ ~Delaying /\ ~disturbed
  /\ accStatus \notin {"CONFIGURING", "START"}
  => hdi = before

(* Unplugging is not overlooked: when the last event was DOWN or           *)
(* ACCESSORYDOWN and nothing is registered or under way, the accessory is  *)
(* not started, unless the event met a debouncing task that the timer      *)
(* thread had popped: that task writes its older status over the event's.  *)
UnpluggedIsStopped ==
  /\ LockFree /\ task = Idle /\ ~shakeTimer /\ ~disturbed /\ ~overlapped
  /\ lastEvent \in Downs
  => accStatus # "START"

(* Configuring ends, with the host's return or without it.                 *)
ConfiguringEnds ==
  (accStatus = "CONFIGURING" /\ ~disturbed)
     ~> (accStatus # "CONFIGURING" \/ disturbed)

(***************************************************************************)
(* What the proofs add to make the invariants inductive.                   *)
(***************************************************************************)
Starting  == handler.pc \in {"get", "start", "arm"}
InSession == \/ accStatus \in {"CONFIGURING", "START"}
             \/ handler.pc = "stop"
             \/ Delaying

(* An undisturbed session owns the driver's functions from the request to  *)
(* their restoration; each step under way owes what its next one does.     *)
SessionInv ==
  /\ ~IsAccessory(before)
  /\ Delaying => LockFree /\ ~delayTimer
  /\ handler.pc = "start" => curFunc = hdi
  /\ handler.pc = "arm" => hdi = Acc /\ curFunc = before /\ ~announced
  /\ handler.pc # "arm" =>
       /\ announced <=> accStatus = "START" \/ handler.pc = "stop"
       /\ InSession => hdi = Acc /\ lastFunc = before
       /\ ~InSession => hdi = before
       /\ accStatus = "START" => IsAccessory(curFunc)
       /\ delayTimer \/ task.pc = "expire" => accStatus = "CONFIGURING"
       /\ task.pc = "restore" \/ handler.pc = "stop" =>
            accStatus \notin {"CONFIGURING", "START"}
       /\ accStatus = "CONFIGURING" /\ LockFree =>
            delayTimer \/ task.pc = "expire"

(* Unless it met a popped task, the last event is the one that is stored,  *)
(* debounced and handled.                                                  *)
EventInv ==
  /\ shakeTimer \/ task.pc = "popped" => eventStatus # "none"
  /\ ~overlapped =>
       /\ eventStatus \in {lastEvent, "none"}
       /\ task.pc = "shake" => task.status = lastEvent
       /\ Starting => lastEvent \in {"UP", "ACCESSORYUP"}

HeededInv ==
  ~overlapped /\ ~disturbed /\ lastEvent \in Downs /\ accStatus = "START" =>
     shakeTimer \/ Shaking

AccessoryInv ==
  /\ TypeOK
  /\ Starting => ~delayTimer
  /\ ~disturbed => SessionInv
  /\ EventInv
  /\ HeededInv
=============================================================================
