-------------------------- MODULE UsbHostManager --------------------------
(***************************************************************************)
(* Host mode: the devices plugged into this machine and the policies of    *)
(* the enterprise device manager (EDM) on them (usb_host_manager.cpp, with *)
(* the entry points of usb_service.cpp).                                   *)
(*                                                                         *)
(* Four threads work on devices_: the driver's device events, the          *)
(* administrator's calls (ManageGlobalInterface, ManageDevicePolicy,       *)
(* ManageInterfaceType, ManageDevice), the watcher of the serial parameter *)
(* and the callback that the EDM ability was loaded.  devicesMutex_ is a   *)
(* shared mutex: only the insertion and the removal of a device take it    *)
(* exclusively.  A device's authorisation status is read and written under *)
(* the shared lock only, so reading it is a step of its own: two threads   *)
(* may decide on one device at once.  The driver's call, the broadcast and *)
(* the new status are one step, because no thread reads what the first two *)
(* change.                                                                 *)
(*                                                                         *)
(* A thread has a plan: the policy queries and the walks through devices_  *)
(* it has still to do.  A walk is a set of jobs; the order of devices_ is  *)
(* left open.  EDM is taken as enabled (IsEdmEnabled); without it no       *)
(* policy is ever applied.  The build has USB_MANAGER_PASS_THROUGH.        *)
(***************************************************************************)
EXTENDS Naturals, Sequences

CONSTANTS
  Devs,        \* bus-address names, the keys of devices_
  Hubs,        \* devices of class BASE_CLASS_HUB
  Serials,     \* devices the serial driver lists
  Types,       \* device and interface types of d_typeMap and g_typeMap
  TypeOf,      \* a device's type, or NoType if d_typeMap has none for it
  IfTypeOf,    \* the type of a device's interface, or NoType
  Ids,         \* vendor and product ids
  IdOf,        \* a device's id
  NoType,
  NoDev,
  Policies,    \* the policies the administrator may set
  MaxInputs    \* bound on events, calls, changes and faults

NoPolicy == [kind |-> "none", set |-> {}]

(* What can be asked for: a global ban, banned types, trusted ids; and two *)
(* one-off calls no policy records: ManageDevice, and ManageInterfaceType  *)
(* with disable = false, which bans every type but the listed ones.        *)
OneOff == {"device", "only"}

PolicyType == [kind : {"none", "global", "types", "trust"} \union OneOff,
               set : SUBSET (Types \union Ids)]

ASSUME HostAssumption ==
  /\ Hubs \subseteq Devs
  /\ Serials \subseteq Devs \ Hubs
  /\ TypeOf \in [Devs -> Types \union {NoType}]
  /\ IfTypeOf \in [Devs -> Types \union {NoType}]
  /\ IdOf \in [Devs -> Ids]
  /\ NoType \notin Types \union Ids
  /\ NoDev \notin Devs
  /\ Policies \subseteq PolicyType
  /\ \A pol \in Policies : pol.kind \notin OneOff
  /\ \A pol \in Policies : pol.kind \in {"types", "trust"} <=> pol.set # {}
  /\ NoPolicy \in Policies
  /\ MaxInputs \in Nat

VARIABLES
  status,     \* authorizeStatus_ of each device; "absent": not in devices_
  serialDevs, \* serialDevices_
  serialUp,   \* usbSerialManager_ is set
  writer,     \* TRUE: the event thread has devicesMutex_ exclusively
  call,       \* what each thread is executing
  adding,     \* the device AddDevice is working on, or NoDev
  policy,     \* the policy EDM has recorded (external)
  edmUp,      \* the EDM ability is loaded (external)
  loading,    \* LoadSystemAbility has been called, no callback yet
  serialOff,  \* persist.edm.usb_serial_disable is "1"
  notice,     \* a change of that parameter not yet delivered: "none", "0", "1"
  unauth,     \* devices the kernel has deauthorised (external)
  ifOff,      \* devices whose interface the kernel has deauthorised (external)
  seen,       \* devices whose last broadcast was ATTACHED
  inputs,     \* how much has come from outside
  disturbed,  \* history: devices decided on by two threads at once, or replaced
  excused     \* history: devices a policy could not be applied to

vars == <<status, serialDevs, serialUp, writer, call, adding, policy, edmUp,
          loading, serialOff, notice, unauth, ifOff, seen, inputs, disturbed,
          excused>>

deviceVars == <<status, serialDevs, serialUp, writer, adding>>
edmVars    == <<policy, edmUp, loading>>
paramVars  == <<serialOff, notice>>
kernelVars == <<unauth, ifOff>>

Threads == {"event", "admin", "watch", "load"}

Walks == {"globalOff", "globalOn", "types", "onlyTypes", "trust", "deviceOff",
          "deviceOn", "serialOff", "serialOn"}

Items == Walks \union {"strategy"}

Jobs == [dev : Devs, what : {"device", "interface"}, on : BOOLEAN]

Job(d, what, on) == [dev |-> d, what |-> what, on |-> on]

(* pc: "insert" and "recorded" are AddDevice up to its unlock, "next" looks *)
(* at the plan, "walk" and "authorize" are inside a walk and "enable" is   *)
(* the end of AddDevice, both under the shared lock.                       *)
Idle == [pc |-> "idle", plan |-> <<>>, pol |-> NoPolicy, walk |-> "none",
         todo |-> {}, dev |-> NoDev, on |-> FALSE, was |-> "absent"]

Status == {"absent", "new", "enabled", "disabled"}

Pcs == {"idle", "insert", "recorded", "next", "walk", "authorize", "enable"}

Init ==
  /\ status = [d \in Devs |-> "absent"]
  /\ serialDevs = {}
  /\ serialUp \in BOOLEAN   \* whether the device type has the serial capability
  /\ writer = FALSE
  /\ call = [t \in Threads |-> Idle]
  /\ adding = NoDev
  /\ policy \in Policies
  /\ edmUp \in BOOLEAN
  /\ loading = FALSE
  /\ serialOff \in BOOLEAN
  /\ notice = "none"
  /\ unauth = {}
  /\ ifOff = {}
  /\ seen = {}
  /\ inputs = 0
  /\ disturbed = {}
  /\ excused = {}

Present == {d \in Devs : status[d] # "absent"}

Deciding(t) == call[t].pc = "authorize"

(* The device a thread has read the status of and is about to write.       *)
DecidesOn(t, d) ==
  \/ Deciding(t) /\ call[t].dev = d
  \/ t = "event" /\ call[t].pc = "enable" /\ adding = d

(* The threads that hold devicesMutex_ shared.                             *)
Reader(t) == Deciding(t) \/ call[t].pc \in {"walk", "enable"}

LockFree == ~writer /\ \A t \in Threads : ~Reader(t)

(* A thread that will still act on a policy it has read.                   *)
InFlight(t) ==
  \/ Deciding(t) \/ call[t].pc = "walk"
  \/ call[t].pc = "next" /\ call[t].plan # <<>> /\ Head(call[t].plan) # "strategy"

Alone(t) == \A u \in Threads \ {t} : ~InFlight(u)

(* A device read by t while another thread is deciding on it.              *)
Disturb(t, d) ==
  disturbed' = IF \E u \in Threads \ {t} : DecidesOn(u, d)
               THEN disturbed \union {d} ELSE disturbed

Update(t, c) == call' = [call EXCEPT ![t] = c]
Goto(t, pc)  == Update(t, [call[t] EXCEPT !.pc = pc])
Done(t)      == Update(t, Idle)

Input == inputs < MaxInputs /\ inputs' = inputs + 1

(***************************************************************************)
(* Adding a device.  The driver's event arrives; the kernel has            *)
(* authorised a new device.  A repeated event finds an entry: the device   *)
(* is the same one or its successor at the address.                        *)
(***************************************************************************)
AddEvent(d) ==
  /\ call["event"].pc = "idle"
  /\ Input
  /\ adding' = d
  /\ Goto("event", "insert")
  /\ \/ /\ unauth' = unauth \ {d}
        /\ ifOff' = ifOff \ {d}
     \/ /\ status[d] # "absent"
        /\ UNCHANGED kernelVars
  /\ disturbed' = IF status[d] = "absent" THEN disturbed
                  ELSE disturbed \union {d}
  /\ UNCHANGED <<status, serialDevs, serialUp, writer, edmVars, paramVars,
                 seen, excused>>

(* Under the exclusive lock the entry is inserted or replaced.             *)
AddDevice ==
  /\ call["event"].pc = "insert"
  /\ LockFree
  /\ writer' = TRUE
  /\ status' = [status EXCEPT ![adding] = "new"]
  /\ excused' = IF Alone("event") THEN excused \ {adding} ELSE excused
  /\ Goto("event", "recorded")
  /\ UNCHANGED <<serialDevs, serialUp, adding, edmVars, paramVars, kernelVars,
                 seen, inputs, disturbed>>

(* Mutant: the exclusive lock is kept while the policy is asked for.       *)
AddUsbSerialDeviceMutant ==
  /\ call["event"].pc = "recorded"
  /\ serialDevs' = serialDevs \union ({adding} \intersect Serials)
  /\ Update("event", [call["event"] EXCEPT !.pc = "next",
                                            !.plan = <<"strategy">>])
  /\ UNCHANGED <<status, serialUp, writer, adding, edmVars, paramVars,
                 kernelVars, seen, inputs, disturbed, excused>>

(* The device is recorded as a serial device if the serial manager is      *)
(* there and its list has it; then the lock is released and the policy     *)
(* asked for.                                                              *)
AddUsbSerialDevice ==
  /\ call["event"].pc = "recorded"
  /\ \/ /\ serialUp /\ adding \in Serials
        /\ serialDevs' = serialDevs \union {adding}
     \/ UNCHANGED serialDevs
  /\ writer' = FALSE
  /\ Update("event", [call["event"] EXCEPT !.pc = "next",
                                            !.plan = <<"strategy">>])
  /\ UNCHANGED <<status, serialUp, adding, edmVars, paramVars, kernelVars,
                 seen, inputs, disturbed, excused>>

(* After the strategy the entry is looked up again.  A device that is gone *)
(* or disallowed is not announced.  DeviceEvent then starts the serial     *)
(* manager if it finds a ttyUSB; the node of a serial device may not be    *)
(* there yet, or be gone.                                                  *)
StartSerial == serialUp' \in {serialUp, serialUp \/ adding \in Serials}

AddedUnseen ==
  /\ call["event"].pc = "next" /\ call["event"].plan = <<>>
  /\ status[adding] \in {"absent", "disabled"}
  /\ Done("event")
  /\ adding' = NoDev
  /\ StartSerial
  /\ Disturb("event", adding)
  /\ UNCHANGED <<status, serialDevs, writer, edmVars, paramVars, kernelVars,
                 seen, inputs, excused>>

(* Mutant: the status the strategy has set is not looked at.               *)
AddedAllowedMutant ==
  /\ call["event"].pc = "next" /\ call["event"].plan = <<>>
  /\ status[adding] # "absent"
  /\ Goto("event", "enable")
  /\ Disturb("event", adding)
  /\ UNCHANGED <<deviceVars, edmVars, paramVars, kernelVars, seen, inputs,
                 excused>>

AddedAllowed ==
  /\ call["event"].pc = "next" /\ call["event"].plan = <<>>
  /\ status[adding] \in {"new", "enabled"}
  /\ Goto("event", "enable")
  /\ Disturb("event", adding)
  /\ UNCHANGED <<deviceVars, edmVars, paramVars, kernelVars, seen, inputs,
                 excused>>

AddedEnable ==
  /\ call["event"].pc = "enable"
  /\ status' = [status EXCEPT ![adding] = "enabled"]
  /\ seen' = seen \union {adding}
  /\ Done("event")
  /\ adding' = NoDev
  /\ StartSerial
  /\ UNCHANGED <<serialDevs, writer, edmVars, paramVars, kernelVars, inputs,
                 disturbed, excused>>

(* Mutant: the removal does not wait for the threads in a walk.            *)
DelDeviceMutant(d) ==
  /\ Input
  /\ ~writer
  /\ status[d] # "absent"
  /\ seen' = IF status[d] = "enabled" THEN seen \ {d} ELSE seen
  /\ serialDevs' = serialDevs \ {d}
  /\ status' = [status EXCEPT ![d] = "absent"]
  /\ unauth' = unauth \ {d}
  /\ ifOff' = ifOff \ {d}
  /\ UNCHANGED <<serialUp, writer, call, adding, edmVars, paramVars, disturbed,
                 excused>>

(***************************************************************************)
(* Removing a device, all of it under the exclusive lock.  Another thread  *)
(* of the driver may deliver it while AddDevice is running.                *)
(***************************************************************************)
DelDevice(d) ==
  /\ Input
  /\ LockFree
  /\ status[d] # "absent"
  /\ seen' = IF status[d] = "enabled" THEN seen \ {d} ELSE seen
  /\ serialDevs' = serialDevs \ {d}
  /\ status' = [status EXCEPT ![d] = "absent"]
  /\ unauth' = unauth \ {d}
  /\ ifOff' = ifOff \ {d}
  /\ UNCHANGED <<serialUp, writer, call, adding, edmVars, paramVars, disturbed,
                 excused>>

(***************************************************************************)
(* ExecuteStrategy.  GetUsbPolicy waits for EDM's own lock, which the      *)
(* administrator's calls hold; no devicesMutex_ is held meanwhile.         *)
(***************************************************************************)
StrategyPlan(pol, off) ==
  IF pol.kind = "global" THEN <<"globalOff">>
  ELSE (IF off THEN <<"serialOff">> ELSE <<>>)
       \o (IF pol.kind \in {"types", "trust"} THEN <<pol.kind>> ELSE <<>>)

EdmAnswers(t) ==
  /\ call[t].pc = "next" /\ call[t].plan # <<>> /\ Head(call[t].plan) = "strategy"
  /\ call["admin"].pc = "idle"

ExecuteStrategy(t) ==
  /\ EdmAnswers(t)
  /\ edmUp
  /\ Update(t, [call[t] EXCEPT !.plan = StrategyPlan(policy, serialOff),
                               !.pol = policy])
  /\ UNCHANGED <<deviceVars, edmVars, paramVars, kernelVars, seen, inputs,
                 disturbed, excused>>

(* EDM is not loaded, and its loading is requested, or it answers with an  *)
(* error: the strategy ends without a policy.                              *)
StrategyFails(t) ==
  /\ EdmAnswers(t)
  /\ \/ ~edmUp /\ loading' = TRUE /\ UNCHANGED inputs
     \/ edmUp /\ Input /\ UNCHANGED loading
  /\ Update(t, [call[t] EXCEPT !.plan = <<>>])
  /\ excused' = excused \union serialDevs \union ({adding} \ {NoDev})
  /\ UNCHANGED <<deviceVars, policy, edmUp, paramVars, kernelVars, seen,
                 disturbed>>

(***************************************************************************)
(* The walks.  Which devices a walk is about:                              *)
(***************************************************************************)
SerialManaged(d) == serialOff /\ d \in serialDevs

DeviceJobs(S, allowed) == {Job(d, "device", d \in allowed) : d \in S}

InterfaceJobs(S, allowed) == {Job(d, "interface", d \in allowed) : d \in S}

ManageGlobalInterfaceImpl(disable) ==
  IF disable THEN DeviceJobs(Present \intersect Hubs, {})
  ELSE DeviceJobs(Present, Devs) \union InterfaceJobs(Present, Devs)

(* The listed types are banned and all others allowed, or the reverse.     *)
Listed(S, disable) == IF disable THEN S ELSE Types \ S

ExecuteManageInterfaceType(S, disable) ==
  DeviceJobs({d \in Present : TypeOf[d] # NoType},
             {d \in Devs : TypeOf[d] \notin Listed(S, disable)})
  \union InterfaceJobs({d \in Present \ Hubs : IfTypeOf[d] # NoType},
                       {d \in Devs : IfTypeOf[d] \notin Listed(S, disable)})

(* ManageDeviceImpl for the id of every device; an empty list trusts all.  *)
ExecuteManageDevicePolicy(S) ==
  DeviceJobs(Present \ Hubs, {d \in Devs : S = {} \/ IdOf[d] \in S})

ManageDeviceImpl(S, disable) ==
  DeviceJobs({d \in Present \ Hubs : IdOf[d] \in S},
             IF disable THEN {} ELSE Devs)

ManageUsbSerialDevice(disable) ==
  DeviceJobs(serialDevs, IF disable THEN {} ELSE Devs)

JobsOf(walk, S) ==
  CASE walk = "globalOff" -> ManageGlobalInterfaceImpl(TRUE)
    [] walk = "globalOn"  -> ManageGlobalInterfaceImpl(FALSE)
    [] walk = "types"     -> ExecuteManageInterfaceType(S, TRUE)
    [] walk = "onlyTypes" -> ExecuteManageInterfaceType(S, FALSE)
    [] walk = "trust"     -> ExecuteManageDevicePolicy(S)
    [] walk = "deviceOff" -> ManageDeviceImpl(S, TRUE)
    [] walk = "deviceOn"  -> ManageDeviceImpl(S, FALSE)
    [] walk = "serialOff" -> ManageUsbSerialDevice(TRUE)
    [] walk = "serialOn"  -> ManageUsbSerialDevice(FALSE)

StartWalk(t) ==
  /\ call[t].pc = "next" /\ call[t].plan # <<>> /\ Head(call[t].plan) # "strategy"
  /\ ~writer
  /\ Update(t, [call[t] EXCEPT
       !.pc = "walk",
       !.walk = Head(call[t].plan),
       !.plan = Tail(call[t].plan),
       !.todo = JobsOf(Head(call[t].plan), call[t].pol.set)])
  /\ UNCHANGED <<deviceVars, edmVars, paramVars, kernelVars, seen, inputs,
                 disturbed, excused>>

EndWalk(t) ==
  /\ call[t].pc = "walk" /\ call[t].todo = {}
  /\ Update(t, [call[t] EXCEPT !.pc = "next", !.walk = "none"])
  /\ UNCHANGED <<deviceVars, edmVars, paramVars, kernelVars, seen, inputs,
                 disturbed, excused>>

(* The administrator's, the watcher's and the callback's calls return.     *)
Return(t) ==
  /\ t # "event"
  /\ call[t].pc = "next" /\ call[t].plan = <<>>
  /\ Done(t)
  /\ UNCHANGED <<deviceVars, edmVars, paramVars, kernelVars, seen, inputs,
                 disturbed, excused>>

(* A global or a type walk leaves a serial device alone while the serial   *)
(* policy is in force.                                                     *)
Spared(t, j) ==
  /\ SerialManaged(j.dev)
  /\ \/ call[t].walk \in {"globalOff", "globalOn"}
     \/ call[t].walk \in {"types", "onlyTypes"} /\ j.what = "device"

(* The change UsbDeviceAuthorize asks the driver for; otherwise there is   *)
(* no need to change the state.                                            *)
NeedsChange(d, on) == on <=> status[d] = "disabled"

Todo(t, j) ==
  /\ call[t].pc = "walk"
  /\ j \in call[t].todo
  /\ j.what = "interface" =>
       ~\E k \in call[t].todo : k.dev = j.dev /\ k.what = "device"

(* The policy that is in force has been applied to the device.             *)
Applied(t, d) ==
  excused' = IF /\ Alone(t) /\ call[t].pol = policy
                /\ call[t].walk = "serialOff" => serialOff
                /\ call[t].walk = "serialOn" => ~serialOff
                /\ SerialManaged(d) => call[t].walk = "serialOff"
             THEN excused \ {d} ELSE excused

(***************************************************************************)
(* UsbDeviceAuthorize reads the status and decides.                        *)
(***************************************************************************)
SkipDevice(t, j) ==
  /\ Todo(t, j) /\ j.what = "device"
  /\ Spared(t, j) \/ ~NeedsChange(j.dev, j.on)
  /\ Update(t, [call[t] EXCEPT !.todo = @ \ {j}])
  /\ Disturb(t, j.dev)
  /\ Applied(t, j.dev)
  /\ UNCHANGED <<deviceVars, edmVars, paramVars, kernelVars, seen, inputs>>

UsbDeviceAuthorize(t, j) ==
  /\ Todo(t, j) /\ j.what = "device"
  /\ ~Spared(t, j) /\ NeedsChange(j.dev, j.on)
  /\ Update(t, [call[t] EXCEPT !.pc = "authorize", !.todo = @ \ {j},
                               !.dev = j.dev, !.on = j.on,
                               !.was = status[j.dev]])
  /\ Disturb(t, j.dev)
  /\ UNCHANGED <<deviceVars, edmVars, paramVars, kernelVars, seen, inputs,
                 excused>>

(* Mutant: the broadcast is made for new devices instead of for the others. *)
PublishCommonEventMutant(t) ==
  seen' = CASE call[t].was # "new" -> seen
            [] call[t].was = "new" /\ call[t].on -> seen \union {call[t].dev}
            [] call[t].was = "new" /\ ~call[t].on -> seen \ {call[t].dev}

(* The driver has done it, the change is broadcast and the status set.  A  *)
(* new device is announced by AddDevice, if at all.  Deauthorising a       *)
(* device takes its interfaces down; authorising it brings them up         *)
(* authorised.                                                             *)
PublishCommonEvent(t) ==
  seen' = CASE call[t].was = "new" -> seen
            [] call[t].was # "new" /\ call[t].on -> seen \union {call[t].dev}
            [] call[t].was # "new" /\ ~call[t].on -> seen \ {call[t].dev}

SetAuthorizeStatus(t) ==
  status' = [status EXCEPT ![call[t].dev] =
               IF call[t].on THEN "enabled" ELSE "disabled"]

BackToWalk(t) ==
  Update(t, [call[t] EXCEPT !.pc = "walk", !.dev = NoDev, !.on = FALSE,
                            !.was = "absent"])

Authorized(t) ==
  /\ call[t].pc = "authorize"
  /\ unauth' = IF call[t].on THEN unauth \ {call[t].dev}
               ELSE unauth \union {call[t].dev}
  /\ ifOff' = ifOff \ {call[t].dev}
  /\ PublishCommonEvent(t)
  /\ SetAuthorizeStatus(t)
  /\ BackToWalk(t)
  /\ Applied(t, call[t].dev)
  /\ UNCHANGED <<serialDevs, serialUp, writer, adding, edmVars, paramVars,
                 inputs, disturbed>>

AuthorizeFails(t) ==
  /\ Input
  /\ call[t].pc = "authorize"
  /\ BackToWalk(t)
  /\ excused' = excused \union {call[t].dev}
  /\ UNCHANGED <<deviceVars, edmVars, paramVars, kernelVars, seen, disturbed>>

(***************************************************************************)
(* A device has to be opened first, but for the global and the serial      *)
(* walks.  ManageDeviceImpl returns at the first that cannot be: the       *)
(* devices of the id that are still to come are left out.  The walks over  *)
(* types go on with the next device.                                       *)
(***************************************************************************)
IdWalks == {"trust", "deviceOff", "deviceOn"}

LeftOut(t, j) ==
  {k \in call[t].todo :
     \/ k = j
     \/ call[t].walk \in IdWalks /\ IdOf[k.dev] = IdOf[j.dev]}

OpenFails(t, j) ==
  /\ Input
  /\ Todo(t, j) /\ j.what = "device"
  /\ call[t].walk \in IdWalks \union {"types", "onlyTypes"}
  /\ ~Spared(t, j)
  /\ Update(t, [call[t] EXCEPT !.todo = @ \ LeftOut(t, j)])
  /\ excused' = excused \union {k.dev : k \in LeftOut(t, j)}
  /\ UNCHANGED <<deviceVars, edmVars, paramVars, kernelVars, seen, disturbed>>

(* ExecuteManageDevicePolicy calls ManageDeviceImpl for every device, so   *)
(* an id that two devices have is gone through again.  How often is left   *)
(* open.                                                                   *)
SameIdAgain(t, id) ==
  /\ call[t].pc = "walk" /\ call[t].walk = "trust"
  /\ \A j \in call[t].todo : IdOf[j.dev] # id
  /\ \E d, e \in Present : d # e /\ IdOf[d] = id /\ IdOf[e] = id
  /\ Update(t, [call[t] EXCEPT !.todo = @ \union
       {j \in ExecuteManageDevicePolicy(call[t].pol.set) : IdOf[j.dev] = id}])
  /\ UNCHANGED <<deviceVars, edmVars, paramVars, kernelVars, seen, inputs,
                 disturbed, excused>>

(***************************************************************************)
(* UsbInterfaceAuthorize for the interface of a device that is not         *)
(* disabled; a disabled device has no interfaces.                          *)
(***************************************************************************)
UsbInterfaceAuthorize(t, j) ==
  /\ Todo(t, j) /\ j.what = "interface"
  /\ Update(t, [call[t] EXCEPT !.todo = @ \ {j}])
  /\ \/ /\ Spared(t, j) \/ status[j.dev] = "disabled"
        /\ UNCHANGED <<ifOff, excused, inputs>>
     \/ /\ ~Spared(t, j) /\ status[j.dev] # "disabled"
        /\ ifOff' = IF j.on THEN ifOff \ {j.dev} ELSE ifOff \union {j.dev}
        /\ UNCHANGED <<excused, inputs>>
     \/ /\ ~Spared(t, j) /\ status[j.dev] # "disabled"
        /\ Input
        /\ excused' = excused \union {j.dev}
        /\ UNCHANGED ifOff
  /\ Disturb(t, j.dev)
  /\ UNCHANGED <<deviceVars, edmVars, paramVars, unauth, seen>>

(***************************************************************************)
(* EDM and the parameter (external).  The administrator lifts one kind of  *)
(* policy before it sets another, and makes the call that goes with it.    *)
(***************************************************************************)
LiftWalk(kind) == IF kind = "global" THEN "globalOn" ELSE kind

SetWalk(kind) == IF kind = "global" THEN "globalOff" ELSE kind

Stale(t) == IF Alone(t) THEN excused ELSE Devs

AdminCalls(walk, pol) ==
  /\ call["admin"].pc = "idle"
  /\ edmUp
  /\ Input
  /\ Update("admin", [call["admin"] EXCEPT !.pc = "next", !.plan = <<walk>>,
                                            !.pol = pol])
  /\ UNCHANGED <<deviceVars, edmUp, loading, paramVars, kernelVars, seen,
                 disturbed>>

SetPolicy(pol) ==
  /\ pol.kind # "none"
  /\ policy.kind \in {"none", pol.kind}
  /\ AdminCalls(SetWalk(pol.kind), pol)
  /\ policy' = pol
  /\ excused' = Stale("admin")

LiftPolicy ==
  /\ policy.kind # "none"
  /\ AdminCalls(LiftWalk(policy.kind), NoPolicy)
  /\ policy' = NoPolicy
  /\ excused' = Stale("admin")

(* The devices a one-off call is about.                                    *)
Meant(pol, d) ==
  IF pol.kind = "device" THEN d \notin Hubs /\ IdOf[d] \in pol.set
  ELSE TypeOf[d] # NoType \/ IfTypeOf[d] # NoType

AdminOnce(walk, pol) ==
  /\ AdminCalls(walk, pol)
  /\ excused' = excused \union {d \in Devs : Meant(pol, d)}
  /\ UNCHANGED policy

ManageDevice(id, disable) ==
  AdminOnce(IF disable THEN "deviceOff" ELSE "deviceOn",
            [kind |-> "device", set |-> {id}])

ManageInterfaceType(pol) ==
  /\ pol.kind = "types"
  /\ AdminOnce("onlyTypes", [kind |-> "only", set |-> pol.set])

SetSerialParameter ==
  /\ notice = "none"
  /\ Input
  /\ serialOff' = ~serialOff
  /\ notice' = IF serialOff THEN "0" ELSE "1"
  /\ excused' = Stale("watch")
  /\ UNCHANGED <<deviceVars, call, edmVars, kernelVars, seen, disturbed>>

(* Mutant: lifting the serial policy does not apply the other policies.    *)
WatchParameterMutant ==
  /\ notice # "none"
  /\ call["watch"].pc = "idle"
  /\ notice' = "none"
  /\ Update("watch", [call["watch"] EXCEPT
       !.pc = "next",
       !.plan = IF notice = "1" THEN <<"serialOff">> ELSE <<"serialOn">>])
  /\ UNCHANGED <<deviceVars, edmVars, serialOff, kernelVars, seen, inputs,
                 disturbed, excused>>

(* The service ignores the change as long as it has no serial manager.     *)
WatchPlan ==
  CASE ~serialUp                  -> <<>>
    [] serialUp /\ notice = "1" -> <<"serialOff">>
    [] serialUp /\ notice # "1" -> <<"serialOn", "strategy">>

WatchParameter ==
  /\ notice # "none"
  /\ call["watch"].pc = "idle"
  /\ notice' = "none"
  /\ Update("watch", [call["watch"] EXCEPT !.pc = "next", !.plan = WatchPlan])
  /\ UNCHANGED <<deviceVars, edmVars, serialOff, kernelVars, seen,
                 inputs, disturbed, excused>>

OnLoadSystemAbilitySuccess ==
  /\ loading
  /\ call["load"].pc = "idle"
  /\ loading' = FALSE
  /\ edmUp' = TRUE
  /\ Update("load", [call["load"] EXCEPT !.pc = "next",
                                          !.plan = <<"strategy">>])
  /\ UNCHANGED <<deviceVars, policy, paramVars, kernelVars, seen, inputs,
                 disturbed, excused>>

OnLoadSystemAbilityFail ==
  /\ Input
  /\ loading
  /\ loading' = FALSE
  /\ UNCHANGED <<deviceVars, call, policy, edmUp, paramVars, kernelVars, seen,
                 disturbed, excused>>

(* The ability is unloaded, or started by somebody else.                   *)
EdmChanges ==
  /\ Input
  /\ call["admin"].pc = "idle"
  /\ edmUp' = ~edmUp
  /\ UNCHANGED <<deviceVars, call, policy, loading, paramVars, kernelVars,
                 seen, disturbed, excused>>

Step(t) ==
  \/ ExecuteStrategy(t) \/ StrategyFails(t)
  \/ StartWalk(t) \/ EndWalk(t) \/ Return(t)
  \/ \E j \in call[t].todo :
        \/ SkipDevice(t, j) \/ UsbDeviceAuthorize(t, j) \/ OpenFails(t, j)
        \/ UsbInterfaceAuthorize(t, j)
  \/ \E id \in Ids : SameIdAgain(t, id)
  \/ Authorized(t) \/ AuthorizeFails(t)

EventStep ==
  \/ AddDevice \/ AddUsbSerialDevice
  \/ AddedUnseen \/ AddedAllowed \/ AddedEnable

Next ==
  \/ \E d \in Devs : AddEvent(d) \/ DelDevice(d)
  \/ EventStep
  \/ \E t \in Threads : Step(t)
  \/ \E pol \in Policies : SetPolicy(pol) \/ ManageInterfaceType(pol)
  \/ LiftPolicy
  \/ \E id \in Ids, disable \in BOOLEAN : ManageDevice(id, disable)
  \/ SetSerialParameter \/ WatchParameter
  \/ OnLoadSystemAbilitySuccess \/ OnLoadSystemAbilityFail \/ EdmChanges

Spec == Init /\ [][Next]_vars

(***************************************************************************)
(* Properties.                                                             *)
(***************************************************************************)
Calls == [pc : Pcs, plan : Seq(Items), pol : PolicyType,
          walk : Walks \union {"none"}, todo : SUBSET Jobs,
          dev : Devs \union {NoDev}, on : BOOLEAN, was : Status]

(* The type invariant of the host manager's state.                         *)
TypeOK ==
  /\ status \in [Devs -> Status]
  /\ serialDevs \subseteq Devs
  /\ serialUp \in BOOLEAN /\ writer \in BOOLEAN
  /\ call \in [Threads -> Calls]
  /\ adding \in Devs \union {NoDev}
  /\ policy \in Policies
  /\ edmUp \in BOOLEAN /\ loading \in BOOLEAN /\ serialOff \in BOOLEAN
  /\ notice \in {"none", "0", "1"}
  /\ unauth \subseteq Devs /\ ifOff \subseteq Devs /\ seen \subseteq Devs
  /\ inputs \in Nat
  /\ disturbed \subseteq Devs /\ excused \subseteq Devs

(* A thread that works on an entry of devices_ it found under the shared   *)
(* lock (UsbDeviceAuthorize, the end of AddDevice, the rest of a walk)     *)
(* never has it deleted under its hands, and serialDevices_ names only     *)
(* devices that are there.                                                 *)
NoUseAfterDelete ==
  /\ \A t \in Threads, d \in Devs : DecidesOn(t, d) => d \in Present
  /\ \A t \in Threads : \A j \in call[t].todo : j.dev \in Present
  /\ serialDevs \subseteq Present

Undecided(d) == \A t \in Threads : ~DecidesOn(t, d)

(* What applications have been told is what the service shows them: the    *)
(* last broadcast about a device was ATTACHED exactly while the device is  *)
(* enabled.  Excepted are devices two threads decided on at the same time  *)
(* and devices that were announced twice.                                  *)
SeenIsEnabled ==
  \A d \in Devs \ disturbed :
    Undecided(d) => (d \in seen <=> status[d] = "enabled")

(* The kernel agrees with the status: a device is deauthorised exactly     *)
(* while the service has it as disabled, driver failures included, with    *)
(* the same exceptions.                                                    *)
KernelAgrees ==
  \A d \in Devs \ disturbed :
    Undecided(d) => (d \in unauth <=> status[d] = "disabled")

Bans(pol, d) ==
  \/ pol.kind = "global" /\ d \in Hubs
  \/ pol.kind = "types" /\ TypeOf[d] \in pol.set
  \/ pol.kind = "trust" /\ d \notin Hubs /\ IdOf[d] \notin pol.set

Forbidden(d) == Bans(policy, d)

Quiet == notice = "none" /\ \A t \in Threads : call[t].pc = "idle"

(* In whatever order devices arrive, policies change, EDM comes up and the *)
(* serial parameter is flipped: when nothing is running, a device is       *)
(* disabled exactly if the policy in force forbids it, and an enabled      *)
(* device's interface is off exactly if its type is banned.  Excepted are  *)
(* devices that the serial policy manages, devices decided on by two       *)
(* threads at once, and devices to which the policy was last not applied:  *)
(* because a driver's call failed, for the device or for one before it of  *)
(* the same id, because a policy was replaced while it was applied, or     *)
(* because a one-off call of the administrator came after it.              *)
PolicyInForce ==
  Quiet =>
    \A d \in Present \ (disturbed \union excused) :
      ~SerialManaged(d) =>
        /\ status[d] = "disabled" <=> Forbidden(d)
        /\ policy.kind = "types" /\ ~Forbidden(d) /\ d \notin Hubs =>
             (d \in ifOff <=> IfTypeOf[d] \in policy.set)

(* ManageDeviceTypeImpl says of a serial device that it is "managed by usb *)
(* serial policy": while the parameter forbids serial devices, one that is *)
(* recorded in serialDevices_ is disabled when nothing is running, with    *)
(* the same exceptions.                                                    *)
SerialPolicyInForce ==
  Quiet =>
    \A d \in serialDevs \ (disturbed \union excused) :
      serialOff => status[d] = "disabled"

(* What a thread's next step waits for: the exclusive lock for whoever is  *)
(* reading, the shared lock for the event thread that has the lock         *)
(* exclusively, EDM's answer for the administrator's call.                 *)
WaitsFor(t, u) ==
  \/ call[t].pc = "insert" /\ Reader(u)
  \/ /\ call[t].pc = "next" /\ call[t].plan # <<>>
     /\ \/ Head(call[t].plan) # "strategy" /\ u = "event" /\ writer
        \/ /\ Head(call[t].plan) = "strategy"
           /\ u = "admin" /\ call[u].pc # "idle"

(* The threads before such a step; no other thread waits.                  *)
Waiting == {t \in Threads : call[t].pc \in {"insert", "next"}}

(* The threads never wait for each other in a circle: of any that wait,    *)
(* one waits for none of them.  AddDevice asks EDM without devicesMutex_,  *)
(* because the administrator's calls hold EDM's lock when they wait for it *)
(* ("DONT hold unique_lock here").                                         *)
NoCircularWait ==
  \A S \in (SUBSET Waiting) \ {{}} :
    \E t \in S : \A u \in S : ~WaitsFor(t, u)

(***************************************************************************)
(* The inductive invariant behind the proofs.                              *)
(***************************************************************************)
(* Who may be where: the exclusive lock excludes every reader, and only    *)
(* the event thread is in AddDevice.                                       *)
LockInv ==
  /\ writer <=> call["event"].pc = "recorded"
  /\ writer => \A t \in Threads : ~Reader(t)
  /\ \A t \in Threads \ {"event"} :
       call[t].pc \in {"idle", "next", "walk", "authorize"}
  /\ call["event"].pc # "idle" => adding \in Devs

(* What a thread under the lock works on is an entry of devices_.          *)
EntryInv ==
  /\ \A t \in Threads : call[t].pc = "authorize" => call[t].dev \in Present
  /\ \A t \in Threads : call[t].todo # {} => call[t].pc \in {"walk", "authorize"}
  /\ \A t \in Threads : \A j \in call[t].todo : j.dev \in Present
  /\ call["event"].pc \in {"recorded", "enable"} => adding \in Present
  /\ call["event"].pc = "insert" /\ adding \in Present => adding \in disturbed
  /\ serialDevs \subseteq Present

(* An undisturbed device is decided on by one thread at most, and that     *)
(* thread's idea of the status is the status.                              *)
DecisionInv ==
  \A d \in Devs \ disturbed :
    /\ d \in seen <=> status[d] = "enabled"
    /\ d \in unauth <=> status[d] = "disabled"
    /\ \A t, u \in Threads : DecidesOn(t, d) /\ DecidesOn(u, d) => t = u
    /\ \A t \in Threads : Deciding(t) /\ call[t].dev = d =>
         call[t].was = status[d] /\ NeedsChange(d, call[t].on)
    /\ call["event"].pc = "enable" /\ adding = d => status[d] \in {"new", "enabled"}

HostInv == TypeOK /\ LockInv /\ EntryInv /\ DecisionInv

(***************************************************************************)
(* What PolicyInForce needs besides.                                       *)
(***************************************************************************)
PolicyWalks == {"globalOff", "globalOn", "types", "trust"}

(* The policy that goes with a walk, and the thread that may do it.        *)
Fits(t, walk) ==
  /\ walk \in PolicyWalks => call[t].pol \in Policies
  /\ walk = "globalOff" => call[t].pol.kind = "global"
  /\ walk = "globalOn" => call[t].pol = NoPolicy
  /\ walk \in {"types", "trust"} => call[t].pol.kind \in {walk, "none"}
  /\ walk \in {"deviceOff", "deviceOn"} =>
       t = "admin" /\ call[t].pol.kind = "device"
  /\ walk = "onlyTypes" => t = "admin" /\ call[t].pol.kind = "only"
  /\ walk = "serialOn" => t = "watch"
  /\ walk = "serialOff" => t # "admin"

(* The plans there are.                                                    *)
PlanOk(t) ==
  /\ call[t].pc = "idle" => call[t] = Idle
  /\ call[t].pc \in {"insert", "recorded", "enable"} => call[t].plan = <<>>
  /\ call[t].pc \in {"walk", "authorize"} <=> call[t].walk # "none"
  /\ Fits(t, call[t].walk)
  /\ \/ call[t].plan = <<>>
     \/ /\ call[t].plan = <<"strategy">>
        /\ t # "admin" /\ call[t].walk \in {"none", "serialOn"}
     \/ /\ call[t].plan = <<"serialOn", "strategy">>
        /\ t = "watch" /\ call[t].walk = "none"
     \/ \E w \in Walks \ {"serialOn"} :
          /\ call[t].plan = <<w>> /\ Fits(t, w)
          /\ \/ call[t].walk = "none"
             \/ call[t].walk = "serialOff" /\ w \in {"types", "trust"}
     \/ \E w \in {"types", "trust"} :
          /\ call[t].plan = <<"serialOff", w>> /\ Fits(t, w)
          /\ t # "admin" /\ call[t].walk = "none"
  /\ call[t].walk = "serialOn" => call[t].plan = <<"strategy">>

PlanInv == \A t \in Threads : PlanOk(t)

(* The jobs a thread has still to do in its walk.                          *)
InHand(t) ==
  call[t].todo \union
    (IF Deciding(t) THEN {Job(call[t].dev, "device", call[t].on)} ELSE {})

BarsInterface(pol, d) == IfTypeOf[d] \in pol.set

HasInterface(d) == d \notin Hubs /\ IfTypeOf[d] # NoType

(* A job asks for what the policy of the walk says; the interface of a     *)
(* device comes after the device.                                          *)
JobOk(t, j) ==
  /\ call[t].walk \in PolicyWalks /\ j.what = "device" =>
       j.on = ~Bans(call[t].pol, j.dev)
  /\ j.what = "interface" =>
       \/ call[t].walk = "globalOn" /\ j.on
       \/ /\ call[t].walk = "types" /\ HasInterface(j.dev)
          /\ j.on = ~BarsInterface(call[t].pol, j.dev)
       \/ call[t].walk = "onlyTypes" /\ HasInterface(j.dev)
  /\ call[t].walk \in {"serialOff", "serialOn"} =>
       j.dev \in serialDevs /\ j.on = (call[t].walk = "serialOn")
  /\ call[t].walk \in {"deviceOff", "deviceOn", "onlyTypes"} =>
       Meant(call[t].pol, j.dev)
  /\ call[t].walk = "types" /\ j.what = "device" /\ HasInterface(j.dev) =>
       \E k \in call[t].todo : k.dev = j.dev /\ k.what = "interface"

JobInv == \A t \in Threads : \A j \in InHand(t) : JobOk(t, j)

(* The watcher applies the serial parameter and no policy.                 *)
WatchOnly(t) ==
  /\ t = "watch"
  /\ \/ call[t].plan = <<"serialOn", "strategy">> \/ call[t].walk = "serialOn"
     \/ call[t].plan = <<"serialOff">>
     \/ call[t].walk = "serialOff" /\ call[t].plan = <<>>

SerialAhead(t) ==
  \/ call[t].walk = "serialOff"
  \/ call[t].plan = <<"serialOff">>
  \/ \E w \in {"types", "trust"} : call[t].plan = <<"serialOff", w>>

(* A thread acts on the policy in force, or all it acts on is excused.     *)
FreshOk(t) ==
  \/ excused = Devs
  \/ /\ t = "admin" /\ call[t].pol.kind \in OneOff
     /\ \A d \in Devs : Meant(call[t].pol, d) => d \in excused
  \/ WatchOnly(t)
  \/ call[t].pol = policy /\ (SerialAhead(t) => serialOff)

FreshInv == \A t \in Threads : InFlight(t) => FreshOk(t)

(* The watcher is about to ask for the policy.                             *)
AsksLater ==
  \/ call["watch"].plan = <<"serialOn", "strategy">>
  \/ call["watch"].plan = <<"strategy">>

(* The serial devices and the notices about their parameter.               *)
SerialInv ==
  /\ serialDevs # {} => serialUp
  /\ notice = "0" => ~serialOff
  /\ notice = "1" => serialOff
  /\ SerialAhead("watch") => serialOff \/ notice = "0"
  /\ AsksLater /\ serialOff => notice = "1"
  /\ \A w \in {"types", "trust"} :
       \/ call["watch"].plan = <<"serialOff", w>>
       \/ call["watch"].walk = "serialOff" /\ call["watch"].plan = <<w>>
       => notice = "1"

(* The interfaces the kernel has off are those of types that have been     *)
(* banned, and a disabled device has none.                                 *)
InterfaceInv ==
  \A d \in ifOff : HasInterface(d) /\ (d \in disturbed \/ status[d] # "disabled")

Covers(walk, d) ==
  \/ walk = "globalOff" /\ d \in Hubs
  \/ walk = "globalOn"
  \/ walk = "types" /\ TypeOf[d] # NoType
  \/ walk = "trust" /\ d \notin Hubs

Ahead(t, walk) ==
  call[t].plan = <<walk>> \/ call[t].plan = <<"serialOff", walk>>

(* The policy in force is about to be applied to the device by t.          *)
DevicePending(t, d) ==
  /\ call[t].pol = policy
  /\ \/ \E w \in PolicyWalks : Ahead(t, w) /\ Covers(w, d)
     \/ /\ call[t].walk \in PolicyWalks
        /\ \E j \in InHand(t) : j.dev = d /\ j.what = "device"

InterfacePending(t, d) ==
  /\ call[t].pol = policy
  /\ \/ Ahead(t, "types")
     \/ /\ call[t].walk = "types"
        /\ \E j \in call[t].todo : j.dev = d /\ j.what = "interface"

(* The watcher is about to lift the serial policy from the device.         *)
LiftPending(d) ==
  /\ d \in serialDevs
  /\ \/ notice = "0"
     \/ call["watch"].plan = <<"serialOn", "strategy">>
     \/ call["watch"].walk = "serialOn" /\ \E j \in InHand("watch") : j.dev = d

(* The policy is going to be asked for because of the device.              *)
AskPending(d) ==
  \/ /\ d \in serialDevs
     /\ notice = "0" \/ AsksLater
  \/ /\ adding = d
     /\ call["event"].pc = "recorded" \/ call["event"].plan = <<"strategy">>

BannedIsOff(d) ==
  Forbidden(d) => \/ status[d] = "disabled" \/ AskPending(d)
                  \/ \E t \in Threads : DevicePending(t, d)

OffIsBanned(d) ==
  status[d] = "disabled" => \/ Forbidden(d) \/ LiftPending(d)
                            \/ \E t \in Threads : DevicePending(t, d)

InterfaceMatches(d) ==
  policy.kind = "types" /\ ~Forbidden(d) /\ HasInterface(d) =>
    \/ d \in ifOff <=> BarsInterface(policy, d)
    \/ AskPending(d)
    \/ \E t \in Threads : InterfacePending(t, d)

Governed(d) == d \in Present \ (disturbed \union excused) /\ ~SerialManaged(d)

(* Wherever the policy in force is not applied, somebody is about to.      *)
ForceInv ==
  \A d \in Devs :
    Governed(d) => BannedIsOff(d) /\ OffIsBanned(d) /\ InterfaceMatches(d)

PolicyInv ==
  /\ HostInv /\ PlanInv /\ JobInv /\ FreshInv /\ SerialInv /\ InterfaceInv
  /\ ForceInv

(***************************************************************************)
(* What SerialPolicyInForce needs besides, where the policies ban types    *)
(* only.                                                                   *)
(***************************************************************************)
TypesOnly == \A pol \in Policies : pol.kind \in {"none", "types"}

(* The serial policy is about to be applied to the device by t.            *)
SerialPending(t, d) ==
  \/ call[t].plan # <<>> /\ Head(call[t].plan) = "serialOff"
  \/ call[t].walk = "serialOff" /\ \E j \in InHand(t) : j.dev = d

(* AddDevice is going to ask for the policies because of the device.       *)
EventPending(d) ==
  /\ adding = d
  /\ call["event"].pc = "recorded" \/ call["event"].plan = <<"strategy">>

(* The device is off or about to be switched off, and only the watcher, to *)
(* whom the parameter's change back is on its way, is switching it on.     *)
SerialKept(d) ==
  /\ \/ status[d] = "disabled" \/ notice = "1" \/ EventPending(d)
     \/ \E t \in Threads : SerialPending(t, d)
  /\ \A t \in Threads :
       Deciding(t) /\ call[t].dev = d /\ call[t].on => t = "watch" /\ notice = "1"

SerialForceInv ==
  /\ \A t \in Threads : call[t].walk # "trust" /\ ~Ahead(t, "trust")
  /\ \A d \in serialDevs \ (disturbed \union excused) : serialOff => SerialKept(d)
=============================================================================
