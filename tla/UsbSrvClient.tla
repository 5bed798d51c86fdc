---------------------------- MODULE UsbSrvClient ----------------------------
(***************************************************************************)
(* The life of the service and of a client's connection to it.             *)
(*                                                                         *)
(* UsbService (usb_service.cpp) is loaded on demand.  It binds to the      *)
(* drivers, publishes itself and asks to be unloaded thirty seconds after  *)
(* the last enabled device and the host cable have gone.  The thread of    *)
(* OnStart and the two driver threads that deliver events call UnLoadSelf; *)
(* unloadSelfTimerMutex_ orders them, but neither the events themselves    *)
(* nor the policies of the device management.                              *)
(*                                                                         *)
(* UsbSrvClient (usb_srv_client.cpp) keeps one proxy per process.  Connect *)
(* and the death notice change it under mutex_; the calls test and use it  *)
(* without.  The client is a JavaScript process: synchronous calls run on  *)
(* its JS thread, promises on a worker (usb_info.cpp, serial_info.cpp).    *)
(*                                                                         *)
(* The default build is modelled: USB_MANAGER_PASS_THROUGH with the host,  *)
(* device and port features.  The ability manager (samgr) and the drivers  *)
(* are external.                                                           *)
(***************************************************************************)
EXTENDS Naturals

CONSTANTS
  Retries,   \* SERVICE_STARTUP_MAX_TIME, the attempts to bind to the drivers
  Budgets    \* how often the surroundings act: records of Resources

Resources == {"events", "calls", "crashes", "policies", "refusals"}

ASSUME ClientAssumption ==
  /\ Retries \in Nat \ {0}
  /\ Budgets \subseteq [Resources -> Nat]

Drivers   == {"gadget", "host"}           \* in the order InitUsbd binds them
Evaluators == Drivers \union {"start"}    \* threads that call UnLoadSelf
Callers   == {"js", "worker"}
Locals    == Callers \union {"death"}     \* threads of the client process

VARIABLES
  sa,          \* state of the system ability
  instance,    \* number of the service process; 0 is never one
  wanted,      \* samgr has been asked to load the ability (external)
  tries,       \* attempts of WaitUsbdService left
  bound,       \* drivers the service has subscribed to
  attached,    \* what hangs on the port (external)
  queue,       \* whether a driver's event waits for the service
  known,       \* device the host manager holds, gadgetConnected_
  eval,        \* progress of the threads that call UnLoadSelf
  timer,       \* unloadSelfTimer_ holds the task
  task,        \* the task has begun
  stale,       \* history: a policy has changed known since it was evaluated
  refused,     \* history: the unloading, or the timer for it, was refused
  proxy,       \* proxy_: 0 is nullptr, else the instance
  mutex,       \* holder of mutex_
  call,        \* progress of the client's threads
  watched,     \* instances that carry this process's death recipient
  notices,     \* death notices on their way
  unlinked,    \* history: instances whose AddDeathRecipient has failed
  objectless,  \* history: instances whose proxy has shown no remote object
  crashed,     \* the client process has used a null proxy
  budget       \* what the surroundings may still do

serviceVars == <<sa, instance, wanted, tries, bound>>
portVars    == <<attached, queue, known>>
unloadVars  == <<eval, timer, task, stale, refused>>
clientVars  == <<proxy, mutex, call, watched, notices, unlinked,
                 objectless, crashed>>
vars == <<serviceVars, portVars, unloadVars, clientVars, budget>>

States == {"absent", "disabled", "enabled"}
Idle   == [pc |-> "idle", how |-> "none"]

Alive     == sa # "down"
AllIdle   == [e \in Evaluators |-> "idle"]
Nothing   == [d \in Drivers |-> "absent"]

(* The client's constructor only calls Connect, as the first method does.  *)
Init ==
  /\ sa = "down"
  /\ instance = 0
  /\ wanted = FALSE
  /\ tries = 0
  /\ bound = {}
  /\ attached = [d \in Drivers |-> FALSE]
  /\ queue = [d \in Drivers |-> FALSE]
  /\ known = Nothing
  /\ eval = AllIdle
  /\ timer = FALSE
  /\ task = FALSE
  /\ stale = FALSE
  /\ refused = FALSE
  /\ proxy = 0
  /\ mutex = "free"
  /\ call = [t \in Locals |-> Idle]
  /\ watched = {}
  /\ notices = {}
  /\ unlinked = {}
  /\ objectless = {}
  /\ crashed = FALSE
  /\ budget \in Budgets

Spend(r) ==
  /\ budget[r] > 0
  /\ budget' = [budget EXCEPT ![r] = @ - 1]

(***************************************************************************)
(* The service starts.                                                     *)
(***************************************************************************)
(* samgr starts the process; the constructor creates the managers, whose   *)
(* fields are fresh.  Init only waits for the common event service.        *)
OnStart ==
  /\ sa = "down"
  /\ wanted
  /\ sa' = "binding"
  /\ instance' = instance + 1
  /\ wanted' = FALSE
  /\ tries' = Retries
  /\ UNCHANGED <<bound, portVars, unloadVars, clientVars, budget>>

(* The drivers a successful prefix of InitUsbd has bound.                  *)
InitUsbd == {{}, {"gadget"}, Drivers}

(* A driver that gains its subscriber reports what is attached.            *)
Report(ds) == queue' = [d \in Drivers |-> queue[d] \/ (d \in ds /\ attached[d])]

(* InitUsbd binds one driver after the other and starts over when one is   *)
(* not there yet; after the last attempt OnStart goes on all the same.     *)
WaitUsbdService ==
  /\ sa = "binding"
  /\ \E got \in InitUsbd :
       /\ bound' = bound \union got
       /\ Report(got)
       /\ tries' = tries - 1
       /\ sa' = IF got = Drivers \/ tries = 1 THEN "publishing" ELSE "binding"
  /\ UNCHANGED <<instance, wanted, attached, known, unloadVars, clientVars, budget>>

(* The tail of OnStart: Publish, ready_, and the first UnLoadSelf.  It     *)
(* returns early when a manager is missing, or samgr refuses the           *)
(* subscription or the publication: the process stays, and is never ready. *)
Publish ==
  /\ sa = "publishing"
  /\ \/ /\ sa' = "ready"
        /\ eval' = [eval EXCEPT !["start"] = "unload"]
        /\ UNCHANGED budget
     \/ /\ Spend("refusals")
        /\ sa' = "unpublished"
        /\ UNCHANGED eval
  /\ UNCHANGED <<instance, wanted, tries, bound, portVars, timer, task, stale,
                 refused, clientVars>>

(***************************************************************************)
(* Events of the drivers.                                                  *)
(***************************************************************************)
(* Something is plugged or unplugged: the driver tells its subscriber, or  *)
(* has the service loaded when there is none (external).                   *)
Plug(d) ==
  /\ Spend("events")
  /\ ~queue[d]
  /\ attached' = [attached EXCEPT ![d] = ~@]
  /\ queue' = [queue EXCEPT ![d] = d \in bound]
  /\ wanted' = (wanted \/ ~Alive)
  /\ UNCHANGED <<sa, instance, tries, bound, known, unloadVars, clientVars>>

(* AddDevice: the descriptors cannot be read, or a policy disables it.     *)
AddDevice(d) == IF d = "host" THEN States ELSE {"enabled"}

(* Mutant: the service does not look at itself again after a detach.       *)
DeviceEventMutant(d) ==
  /\ queue[d]
  /\ eval[d] = "idle"
  /\ queue' = [queue EXCEPT ![d] = FALSE]
  /\ \E s \in IF attached[d] THEN AddDevice(d) ELSE {"absent"} :
       known' = [known EXCEPT ![d] = s]
  /\ eval' = [eval EXCEPT ![d] = IF attached[d] THEN "unload" ELSE "idle"]
  /\ UNCHANGED <<serviceVars, attached, timer, task, stale, refused, clientVars, budget>>

(* DeviceEvent changes the managers first and calls UnLoadSelf then.       *)
DeviceEvent(d) ==
  /\ queue[d]
  /\ eval[d] = "idle"
  /\ queue' = [queue EXCEPT ![d] = FALSE]
  /\ \E s \in IF attached[d] THEN AddDevice(d) ELSE {"absent"} :
       known' = [known EXCEPT ![d] = s]
  /\ eval' = [eval EXCEPT ![d] = "unload"]
  /\ UNCHANGED <<serviceVars, attached, timer, task, stale, refused, clientVars, budget>>

(* Device management enables or disables the device that is there; nothing *)
(* evaluates the service's own state again.                                *)
ManagePolicy ==
  /\ sa = "ready"
  /\ known["host"] # "absent"
  /\ Spend("policies")
  /\ known' = [known EXCEPT !["host"] = IF @ = "enabled" THEN "disabled" ELSE "enabled"]
  /\ stale' = TRUE
  /\ UNCHANGED <<serviceVars, attached, queue, eval, timer, task, refused, clientVars>>

(***************************************************************************)
(* The service unloads itself.                                             *)
(***************************************************************************)
(* Mutant: only the devices of the host are counted.                       *)
IsNotNeedUnloadMutant == known["host"] = "enabled"

(* GetDevices lists the enabled devices only.                              *)
IsNotNeedUnload == \E d \in Drivers : known[d] = "enabled"

TimerMutexFree == \A e \in Evaluators : eval[e] # "register"

(* UnLoadSelf takes unloadSelfTimerMutex_ and the task back, if it has not *)
(* begun (Shutdown(false) does not wait for it), and looks.                *)
UnLoadSelf(e) ==
  /\ eval[e] = "unload"
  /\ TimerMutexFree
  /\ timer' = FALSE
  /\ stale' = FALSE
  /\ eval' = [eval EXCEPT ![e] = IF IsNotNeedUnload THEN "idle" ELSE "register"]
  /\ UNCHANGED <<serviceVars, portVars, task, refused, clientVars, budget>>

(* It registers the task afresh and releases the mutex; if Setup fails     *)
(* there is no task.                                                       *)
Register(e) ==
  /\ eval[e] = "register"
  /\ eval' = [eval EXCEPT ![e] = "idle"]
  /\ \/ /\ timer' = TRUE
        /\ refused' = FALSE
        /\ UNCHANGED budget
     \/ /\ Spend("refusals")
        /\ refused' = TRUE
        /\ UNCHANGED timer
  /\ UNCHANGED <<serviceVars, portVars, task, stale, clientVars>>

(* UNLOAD_SA_TIMER_INTERVAL has passed; the task is registered for once.   *)
TimerExpires ==
  /\ timer
  /\ timer' = FALSE
  /\ task' = TRUE
  /\ UNCHANGED <<serviceVars, portVars, eval, stale, refused, clientVars, budget>>

(* UnloadSystemAbility.  samgr refuses it before the service is published  *)
(* and whenever it likes (external); the task only logs that.              *)
Unload ==
  /\ task
  /\ task' = FALSE
  /\ \/ /\ sa = "ready"
        /\ sa' = "stopping"
        /\ UNCHANGED <<refused, budget>>
     \/ /\ sa # "ready"
        /\ UNCHANGED <<sa, refused, budget>>
     \/ /\ sa = "ready"
        /\ Spend("refusals")
        /\ refused' = TRUE
        /\ UNCHANGED sa
  /\ UNCHANGED <<instance, wanted, tries, bound, portVars, eval, timer, stale, clientVars>>

(* OnStop: the managers unsubscribe, so that no new event comes.           *)
OnStop ==
  /\ sa = "stopping"
  /\ bound # {}
  /\ bound' = {}
  /\ queue' = [d \in Drivers |-> FALSE]
  /\ UNCHANGED <<sa, instance, wanted, tries, attached, known, unloadVars, clientVars, budget>>

(* What a call leaves behind: a worker leaves the rest to the JS thread.   *)
After(t, state) == IF t = "worker" THEN [state EXCEPT !.pc = "done"] ELSE Idle

(* The process ends: its memory goes, the calls it was serving fail, and   *)
(* its death is told to the watcher (external).                            *)
Gone ==
  /\ sa' = "down"
  /\ tries' = 0
  /\ bound' = {}
  /\ queue' = [d \in Drivers |-> FALSE]
  /\ known' = Nothing
  /\ eval' = AllIdle
  /\ timer' = FALSE
  /\ task' = FALSE
  /\ stale' = FALSE
  /\ refused' = FALSE
  /\ notices' = notices \union watched
  /\ watched' = {}
  /\ call' = [t \in Locals |-> IF call[t].pc \in {"served", "kept"}
                               THEN After(t, call[t]) ELSE call[t]]
  /\ UNCHANGED <<instance, attached, proxy, mutex, unlinked, objectless, crashed>>

Exit ==
  /\ sa = "stopping"
  /\ bound = {}
  /\ Gone
  /\ UNCHANGED <<wanted, budget>>

(* The process dies; samgr loads it again ("auto-restart").                *)
Crash ==
  /\ Alive
  /\ Spend("crashes")
  /\ Gone
  /\ wanted' = TRUE

(***************************************************************************)
(* The client's connection.                                                *)
(***************************************************************************)
Step(t, l) == call' = [call EXCEPT ![t] = [pc |-> l, how |-> call[t].how]]

(* A synchronous call returns.                                             *)
Return(t) == call' = [call EXCEPT ![t] = After(t, @)]

(* A method begins: with Connect(), with Connect(true), or with the test   *)
(* of proxy_ alone.                                                        *)
Begin(t, h) ==
  /\ ~crashed
  /\ call[t] = Idle
  /\ Spend("calls")
  /\ call' = [call EXCEPT ![t] =
                [pc |-> IF h = "tested" THEN "test" ELSE "lock", how |-> h]]
  /\ UNCHANGED <<serviceVars, portVars, unloadVars, proxy, mutex, watched, notices,
                 unlinked, objectless, crashed>>

(* Connect, under mutex_.                                                  *)
Connect(t) ==
  /\ call[t].pc = "lock"
  /\ ~crashed
  /\ mutex = "free"
  /\ \/ proxy # 0 /\ Step(t, "use") /\ UNCHANGED mutex
     \/ proxy = 0 /\ Step(t, "connect") /\ mutex' = t
  /\ UNCHANGED <<serviceVars, portVars, unloadVars, proxy, watched, notices, unlinked,
                 objectless, crashed, budget>>

(* ConnectUnLocked with force: samgr loads the ability and waits for it.   *)
LoadSystemAbility(t) ==
  /\ call[t].pc = "connect"
  /\ call[t].how = "force"
  /\ ~crashed
  /\ sa # "ready"
  /\ Step(t, "load")
  /\ wanted' = (wanted \/ sa \in {"down", "stopping"})
  /\ UNCHANGED <<sa, instance, tries, bound, portVars, unloadVars, proxy, mutex, watched,
                 notices, unlinked, objectless, crashed, budget>>

(* Mutant: the proxy is used without watching the service.                 *)
ConnectUnLockedMutant(t) ==
  /\ call[t].pc \in {"connect", "load"}
  /\ ~crashed
  /\ sa \in {"ready", "stopping"}
  /\ proxy' = instance
  /\ mutex' = "free"
  /\ call' = [call EXCEPT ![t] = IF t = "death" THEN Idle ELSE [@ EXCEPT !.pc = "use"]]
  /\ UNCHANGED <<serviceVars, portVars, unloadVars, watched, notices, unlinked, objectless,
                 crashed, budget>>

(* ConnectUnLocked finds the published service: proxy_ is set before the   *)
(* death recipient is.                                                     *)
ConnectUnLocked(t) ==
  /\ call[t].pc \in {"connect", "load"}
  /\ ~crashed
  /\ sa \in {"ready", "stopping"}
  /\ proxy' = instance
  /\ Step(t, "link")
  /\ UNCHANGED <<serviceVars, portVars, unloadVars, mutex, watched, notices, unlinked,
                 objectless, crashed, budget>>

(* CheckSystemAbility finds nothing, or MAX_WAIT_LOAD_SA_SECONDS are over. *)
ConnectFails(t) ==
  /\ \/ call[t].pc = "connect" /\ call[t].how # "force"
     \/ call[t].pc = "load"
  /\ ~crashed
  /\ sa # "ready"
  /\ mutex' = "free"
  /\ Return(t)
  /\ UNCHANGED <<serviceVars, portVars, unloadVars, proxy, watched, notices, unlinked,
                 objectless, crashed, budget>>

(* AddDeathRecipient; it fails when the service has gone meanwhile, and    *)
(* ConnectUnLocked returns UEC_OK all the same.                            *)
AddDeathRecipient(t) ==
  /\ call[t].pc = "link"
  /\ ~crashed
  /\ IF Alive /\ proxy = instance
       THEN watched' = watched \union {proxy} /\ UNCHANGED unlinked
       ELSE unlinked' = unlinked \union {proxy} /\ UNCHANGED watched
  /\ mutex' = "free"
  /\ call' = [call EXCEPT ![t] = IF t = "death" THEN Idle ELSE [@ EXCEPT !.pc = "use"]]
  /\ UNCHANGED <<serviceVars, portVars, unloadVars, proxy, notices, objectless, crashed, budget>>

(* AsObject gives nothing: an error is returned with proxy_ already set.   *)
DeadObject(t) ==
  /\ call[t].pc = "link"
  /\ ~crashed
  /\ Spend("refusals")
  /\ objectless' = objectless \union {proxy}
  /\ mutex' = "free"
  /\ Return(t)
  /\ UNCHANGED <<serviceVars, portVars, unloadVars, proxy, watched, notices, unlinked,
                 crashed>>

(* Mutant: the notice's thread connects with Connect, which locks again.   *)
ResetProxyMutant(i) ==
  /\ i \in notices
  /\ ~crashed
  /\ mutex = "free"
  /\ notices' = notices \ {i}
  /\ \/ proxy # i /\ UNCHANGED <<proxy, mutex, call>>
     \/ /\ proxy = i
        /\ proxy' = 0
        /\ mutex' = "death"
        /\ call' = [call EXCEPT !["death"] = [pc |-> "lock", how |-> "check"]]
  /\ UNCHANGED <<serviceVars, portVars, unloadVars, watched, unlinked, objectless, crashed, budget>>

(* OnRemoteDied and ResetProxy: the dead proxy goes, and mutex_ is kept    *)
(* over WAIT_SERVICE_LOAD and a connection that loads nothing.             *)
ResetProxy(i) ==
  /\ i \in notices
  /\ ~crashed
  /\ mutex = "free"
  /\ notices' = notices \ {i}
  /\ \/ proxy # i /\ UNCHANGED <<proxy, mutex, call>>
     \/ /\ proxy = i
        /\ proxy' = 0
        /\ mutex' = "death"
        /\ call' = [call EXCEPT !["death"] = [pc |-> "connect", how |-> "check"]]
  /\ UNCHANGED <<serviceVars, portVars, unloadVars, watched, unlinked, objectless, crashed, budget>>

(* The test of proxy_ that takes no lock.                                  *)
TestProxy(t) ==
  /\ call[t].pc = "test"
  /\ ~crashed
  /\ IF proxy = 0 THEN Return(t) ELSE Step(t, "use")
  /\ UNCHANGED <<serviceVars, portVars, unloadVars, proxy, mutex, watched, notices,
                 unlinked, objectless, crashed, budget>>

(* The call itself, without a lock: the null proxy ends the process, a     *)
(* dead one fails, a living service serves it (the other modules) or keeps *)
(* it while it waits for something itself, as RequestRight for the user.   *)
UseProxy(t) ==
  /\ call[t].pc = "use"
  /\ ~crashed
  /\ \/ proxy = 0 /\ crashed' = TRUE /\ UNCHANGED call
     \/ proxy # 0 /\ ~(Alive /\ proxy = instance) /\ Return(t) /\ UNCHANGED crashed
     \/ /\ proxy # 0 /\ Alive /\ proxy = instance
        /\ Step(t, "served") \/ Step(t, "kept")
        /\ UNCHANGED crashed
  /\ UNCHANGED <<serviceVars, portVars, unloadVars, proxy, mutex, watched, notices,
                 unlinked, objectless, budget>>

Answered(t, l) ==
  /\ call[t].pc = l
  /\ ~crashed
  /\ Return(t)
  /\ UNCHANGED <<serviceVars, portVars, unloadVars, proxy, mutex, watched, notices,
                 unlinked, objectless, crashed, budget>>

(***************************************************************************)
(* The methods of UsbSrvClient, by the way they reach the service.         *)
(***************************************************************************)
DeviceMethods(t)     == Begin(t, "check")    \* OpenDevice, HasRight, GetDevices, ...
PipeMethods(t)       == Begin(t, "tested")   \* ClaimInterface, BulkTransfer, ...
DescriptorMethods(t) == Begin(t, "check")    \* GetRawDescriptors, GetFileDescriptor
RequestMethods(t)    == Begin(t, "tested")   \* Close, RequestQueue, BulkRead, ...
RightMethods(t)      == Begin(t, "check")    \* AddRight, AddAccessRight
PolicyMethods(t)     == Begin(t, "tested")   \* ManageDevice, ClearHalt, ...
SpeedMethods(t)      == Begin(t, "check")    \* GetDeviceSpeed, ...
FunctionMethods(t)   == Begin(t, "force")    \* SetCurrentFunctions, ...
AccessoryMethods(t)  == Begin(t, "check")    \* OpenAccessory, CloseAccessory, ...
PortMethods(t)       == Begin(t, "force")    \* GetPorts, SetPortRole, ...
SerialMethods(t)     == Begin(t, "check")    \* SerialOpen, SerialRead, ...

(* Synchronous functions of JavaScript keep the JS thread until they       *)
(* return; those that return a promise let a worker call.                  *)
Promise(method) == call["js"] = Idle /\ method

CoreGetDevices              == DeviceMethods("js")
CoreRights                  == DeviceMethods("js") \/ RightMethods("js")
CoreRequestRight            == Promise(DeviceMethods("worker"))
CoreFunctions               == FunctionMethods("js")
CoreSetCurrentFunctions     == Promise(FunctionMethods("worker"))
CorePorts                   == FunctionMethods("js") \/ PortMethods("js")
PortSetPortRole             == Promise(PortMethods("worker"))
DeviceGetAccessoryList      == AccessoryMethods("js")
DeviceOpenAccessory         == AccessoryMethods("js")
DeviceAddRight              == RightMethods("js") \/ AccessoryMethods("js")
DeviceHasAccessoryRight     == AccessoryMethods("js")
DeviceRequestAccessoryRight == Promise(AccessoryMethods("worker"))
SerialAttribute             == SerialMethods("js")
SerialWriteSync             == SerialMethods("js")
SerialWrite                 == Promise(SerialMethods("worker"))
SerialReadSync              == SerialMethods("js")
SerialRead                  == Promise(SerialMethods("worker"))
SerialOpen                  == SerialMethods("js")
SerialRights                == SerialMethods("js")
SerialRequestRight          == Promise(SerialMethods("worker"))
Pipe                        == PipeMethods("js") \/ DescriptorMethods("js")
Native(t)                   == RequestMethods(t) \/ PolicyMethods(t) \/ SpeedMethods(t)

(* ArkTS has synchronous functions only; the language runs the promises.   *)
AniDevices(t)    == DeviceMethods(t) \/ RightMethods(t)
AniFunctions(t)  == FunctionMethods(t)
AniPorts(t)      == PortMethods(t)
AniInterfaces(t) == PipeMethods(t) \/ DescriptorMethods(t)
AniTransfers(t)  == PipeMethods(t) \/ RequestMethods(t)
AniAccessory(t)  == AccessoryMethods(t)
AniSerial(t)     == SerialMethods(t)
AniSerialRead(t) == SerialMethods(t)

Js ==
  \/ CoreGetDevices \/ CoreRights \/ CoreRequestRight
  \/ CoreFunctions \/ CoreSetCurrentFunctions
  \/ CorePorts \/ PortSetPortRole
  \/ DeviceGetAccessoryList \/ DeviceOpenAccessory \/ DeviceAddRight
  \/ DeviceHasAccessoryRight \/ DeviceRequestAccessoryRight
  \/ SerialAttribute \/ SerialWriteSync \/ SerialWrite \/ SerialReadSync \/ SerialRead
  \/ SerialOpen \/ SerialRights \/ SerialRequestRight
  \/ Pipe

ArkTs(t) ==
  \/ AniDevices(t) \/ AniFunctions(t) \/ AniPorts(t)
  \/ AniInterfaces(t) \/ AniTransfers(t) \/ AniAccessory(t)
  \/ AniSerial(t) \/ AniSerialRead(t)

(* The complete function settles the promise on the JS thread.             *)
Complete ==
  /\ call["worker"].pc = "done"
  /\ call["js"] = Idle
  /\ ~crashed
  /\ call' = [call EXCEPT !["worker"] = Idle]
  /\ UNCHANGED <<serviceVars, portVars, unloadVars, proxy, mutex, watched, notices,
                 unlinked, objectless, crashed, budget>>

-----------------------------------------------------------------------------
Evaluate(e) == UnLoadSelf(e) \/ Register(e)

Progress(t) ==
  \/ Connect(t) \/ LoadSystemAbility(t) \/ ConnectUnLocked(t) \/ ConnectFails(t)
  \/ AddDeathRecipient(t) \/ DeadObject(t) \/ TestProxy(t) \/ UseProxy(t)
  \/ Answered(t, "served")

Next ==
  \/ OnStart \/ WaitUsbdService \/ Publish
  \/ \E d \in Drivers : Plug(d) \/ DeviceEvent(d)
  \/ ManagePolicy
  \/ \E e \in Evaluators : Evaluate(e)
  \/ TimerExpires \/ Unload \/ OnStop \/ Exit \/ Crash
  \/ Js
  \/ \E t \in Callers : Native(t) \/ ArkTs(t)
  \/ \E t \in Locals : Progress(t) \/ Answered(t, "kept")
  \/ \E i \in notices : ResetProxy(i)
  \/ Complete

(* Every thread of both processes runs on, timers expire, samgr starts and *)
(* ends the process it was asked for, and death notices arrive.  What the  *)
(* surroundings may do has no fairness, and neither has the answer to a    *)
(* call that the service keeps.                                            *)
Fairness ==
  /\ WF_vars(OnStart) /\ WF_vars(WaitUsbdService) /\ WF_vars(Publish)
  /\ \A d \in Drivers : WF_vars(DeviceEvent(d))
  /\ \A e \in Evaluators : WF_vars(Evaluate(e))
  /\ WF_vars(TimerExpires) /\ WF_vars(Unload) /\ WF_vars(OnStop) /\ WF_vars(Exit)
  /\ \A t \in Locals : WF_vars(Progress(t))
  /\ WF_vars(\E i \in notices : ResetProxy(i))
  /\ WF_vars(Complete)

Spec == Init /\ [][Next]_vars /\ Fairness

-----------------------------------------------------------------------------
(***************************************************************************)
(* Properties.                                                             *)
(***************************************************************************)
(* What keeps the service loaded.                                          *)
InUse == \E d \in Drivers : known[d] = "enabled"

(* The unloading task is only ever registered while no enabled device and  *)
(* no host are connected, unless a thread that has changed that is still   *)
(* to call UnLoadSelf, or device management has changed a device, which    *)
(* nothing evaluates again (usb_service.cpp, DeviceEvent and UnLoadSelf).  *)
TimerMeansIdle ==
  timer => ~InUse \/ stale \/ \E e \in Evaluators : eval[e] = "unload"

(* A service that has nothing to do in the end is unloaded again and again *)
(* (each time something has loaded it).  The exceptions: samgr refuses it  *)
(* or the timer cannot be set up (UnLoadSelf), which is not tried again;   *)
(* device management has disabled the last device; OnStart returned before *)
(* the service was ready, and nothing unloads the process that is left.    *)
IdleUnloads ==
  <>[](~InUse /\ ~stale /\ ~refused /\ sa # "unpublished") => []<>(sa = "down")

(* The instance behind proxy_ carries the client's death recipient, or its *)
(* death notice is on its way: a dead proxy is replaced.  The exceptions   *)
(* are a connection still being made, the result of AddDeathRecipient that *)
(* ConnectUnLocked drops, and a proxy without a remote object, for which   *)
(* ConnectUnLocked returns an error and keeps the proxy.                   *)
ProxyWatched ==
  proxy # 0 => \/ proxy \in watched \union notices \union unlinked \union objectless
               \/ \E t \in Locals : call[t].pc = "link"

(* Every call comes back to the application and every promise is settled,  *)
(* whatever happens to the service: mutex_ is never kept for good by       *)
(* Connect or ResetProxy.  The exceptions: the process has ended with the  *)
(* use of a null proxy; the service keeps the call itself, as RequestRight *)
(* may for ever; or it keeps a synchronous call, and with it the JS thread *)
(* on which a promise would be settled.                                    *)
CallReturns ==
  \A t \in Callers :
    call[t] # Idle ~> \/ call[t] = Idle \/ crashed
                      \/ call[t].pc = "kept" \/ call["js"].pc = "kept"

-----------------------------------------------------------------------------
(***************************************************************************)
(* The strengthening that makes the two invariants inductive.              *)
(***************************************************************************)
Connecting == {"connect", "load", "link"}

(* The types of what the invariants speak of.                              *)
TypeOK ==
  /\ sa \in {"down", "binding", "publishing", "unpublished", "ready", "stopping"}
  /\ instance \in Nat /\ proxy \in Nat
  /\ watched \subseteq Nat /\ notices \subseteq Nat /\ unlinked \subseteq Nat
  /\ objectless \subseteq Nat
  /\ known \in [Drivers -> States]
  /\ eval \in [Evaluators -> {"idle", "unload", "register"}]
  /\ call \in [Locals -> [pc : Connecting \union {"idle", "lock", "test", "use", "served", "kept", "done"},
                          how : {"none", "check", "tested", "force"}]]
  /\ mutex \in Locals \union {"free"}

(* A thread that has looked and is about to register the task holds what   *)
(* the timer is going to hold.                                             *)
UnloadInv ==
  timer \/ (\E e \in Evaluators : eval[e] = "register") =>
    ~InUse \/ stale \/ \E e \in Evaluators : eval[e] = "unload"

(* mutex_ is held by the thread that is making a connection.               *)
MutexInv == \A t \in Locals : call[t].pc \in Connecting <=> mutex = t

(* The living instance alone can be watched; what has been told dead, or   *)
(* could not be watched, is not the living one and never comes back.       *)
InstanceInv ==
  /\ proxy <= instance
  /\ \A i \in watched : Alive /\ i = instance
  /\ \A i \in notices \union unlinked : i < instance \/ (i = instance /\ ~Alive)

ClientInv == TypeOK /\ UnloadInv /\ MutexInv /\ InstanceInv /\ ProxyWatched

(* While the service lives, a client that holds its proxy watches it or is *)
(* about to: but for a proxy without a remote object, the exceptions of    *)
(* ProxyWatched concern dead instances only.                               *)
LivingProxyWatched ==
  Alive /\ proxy = instance /\ proxy # 0 =>
    proxy \in watched \union objectless \/ \E t \in Locals : call[t].pc = "link"
=============================================================================
