---------------------------- MODULE UsbTransfers ----------------------------
(***************************************************************************)
(* Device sessions and transfers in host mode, through all the layers a    *)
(* call passes: the NAPI binding (usb_info.cpp) on the application's JS    *)
(* thread or on a worker, the entry point of UsbService that checks the    *)
(* right, UsbHostManager, and the driver behind it (external).             *)
(*                                                                         *)
(* Asynchronous transfers come back by another way: the driver calls       *)
(* UsbTransferCallbackImpl in the service, which calls the application's   *)
(* process, where the answer finds its context by the address that         *)
(* travelled as userData.  The service watches for the death of the        *)
(* process with one recipient per accepted transfer.                       *)
(***************************************************************************)
EXTENDS Naturals

CONSTANTS
  Clients,        \* application processes
  SystemClients,  \* those that are system applications or abilities
  Programs,       \* the calls each process makes, in each of the cases studied
  Addrs,          \* bus number and device address
  Devices,        \* device identities: vendor, product and serial number
  Endpoints,      \* endpoint addresses
  Transfers,      \* contexts of asynchronous transfers
  OwnerOf,        \* the process a context belongs to
  Handlers,       \* threads on which the service hears of devices
  None,           \* no device, no client, no transfer
  MaxPlugs        \* bound on how often a device is plugged in, in each case

(* What a call does to a session: open, close or reset it; the calls on an *)
(* open pipe by family; asynchronous transfers; bulk calls with a callback.*)
JsOps == {"OpenDevice", "Close", "ResetDevice", "interface", "descriptor",
          "kernel", "request", "UsbSubmitTransfer", "UsbCancelTransfer",
          "RegBulkCallback", "UnRegBulkCallback", "BulkRead"}

(* Calls that return a promise and run on a worker. *)
WorkOps == {"BulkTransfer", "ControlTransfer", "UsbControlTransfer"}

ASSUME TransfersAssumption ==
  /\ SystemClients \subseteq Clients
  /\ Programs \subseteq [Clients -> SUBSET (JsOps \union WorkOps)]
  /\ OwnerOf \in [Transfers -> Clients]
  /\ None \notin Clients \union Devices \union Transfers
  /\ MaxPlugs \in [Programs -> Nat]

VARIABLES
  plugged,        \* the device at each address (external)
  opened,         \* addresses the driver has a handle for (external)
  reg,            \* the process whose callback the driver has for an address
  flight,         \* transfers the driver has accepted and not answered
  plugs,          \* number of plugs so far
  attaches,       \* attach events of an address that no handler has taken
  detaches,       \* detach events of an address that no handler has taken
  read,           \* what a handler has read of a device and not recorded yet
  known,          \* deviceVidPidMap_: the device the service thinks is there
  crossed,        \* history: addresses detached between a read and its record
  recipients,     \* transfers whose death recipient is registered
  notices,        \* recipients that have been called and have not cancelled yet
  closing,        \* recipients that have cancelled and have not closed yet
  late,           \* history: transfers accepted after their process had died
  stuck,          \* history: transfers whose recipient's cancel was refused
  hdiCb,          \* hdiCb_: the process that is told of bulk answers
  mutex,          \* the thread that holds transferMutex_, or None
  uses,           \* the calls each process makes
  alive,          \* processes that have not died
  call,           \* what each client thread is executing
  where,          \* address and endpoint of each transfer
  ctx,            \* state of each USBTransferAsyncContext
  answers,        \* answers of the driver that the service has to forward
  arrived         \* answers that are on their way to a process

driverVars  == <<plugged, opened, reg, flight>>
eventVars   == <<plugs, attaches, detaches, read, known, crossed>>
deathVars   == <<recipients, notices, closing, late, stuck>>
lockVars    == <<hdiCb, mutex>>
clientVars  == <<alive, call, where, ctx, answers, arrived>>

vars == <<uses, driverVars, eventVars, deathVars, lockVars, clientVars>>

(* A process has the JS thread and a worker for its queued async work. *)
Threads == Clients \X {"js", "work"}

Client(t) == t[1]

Js(c) == <<c, "js">>

Idle == [pc |-> "idle"]

Busy(pc, op, a, e, id) ==
  [pc |-> pc, op |-> op, addr |-> a, ep |-> e, id |-> id]

At(t, pc, ops) == call[t].pc = pc /\ call[t].op \in ops

Goto(t, pc) == call' = [call EXCEPT ![t] = [call[t] EXCEPT !.pc = pc]]

(* What the driver has in flight on an endpoint, and for an address. *)
FlightAt(a, e) == {id \in flight : where[id] = <<a, e>>}

FlightOf(a) == {id \in flight : where[id][1] = a}

(* The driver gives up transfers and reports every one of them. *)
EndFlight(S) ==
  /\ flight' = flight \ S
  /\ answers' = answers \union S

(* Close takes the driver's handle away from whoever had opened it. *)
CloseHandle(a) == opened' = opened \ {a} /\ EndFlight(FlightOf(a))

Init ==
  /\ plugged = [a \in Addrs |-> None]
  /\ opened = {}
  /\ reg = [a \in Addrs |-> None]
  /\ flight = {}
  /\ plugs = 0
  /\ attaches = [a \in Addrs |-> 0]
  /\ detaches = [a \in Addrs |-> 0]
  /\ read = [h \in Handlers |-> <<>>]
  /\ known = [a \in Addrs |-> None]
  /\ crossed = {}
  /\ recipients = {}
  /\ notices = {}
  /\ closing = {}
  /\ late = {}
  /\ stuck = {}
  /\ hdiCb = None
  /\ mutex = None
  /\ uses \in Programs
  /\ alive = Clients
  /\ call = [t \in Threads |-> Idle]
  /\ where = [id \in Transfers |-> <<>>]
  /\ ctx = [id \in Transfers |-> "none"]
  /\ answers = {}
  /\ arrived = {}

-----------------------------------------------------------------------------
(* The application's calls.  A call whose arguments do not parse throws or *)
(* returns before anything has changed, and has no action.                 *)

Begin(t, pc, op, a, e, id) ==
  /\ op \in uses[Client(t)]
  /\ Client(t) \in alive
  /\ call[t] = Idle
  /\ call[Js(Client(t))] = Idle
  /\ call' = [call EXCEPT ![t] = Busy(pc, op, a, e, id)]

JsCall(c, op, a, e) ==
  /\ Begin(Js(c), "service", op, a, e, None)
  /\ UNCHANGED <<driverVars, eventVars, deathVars, lockVars,
                 alive, where, ctx, answers, arrived>>

(* connectDevice, closePipe and resetUsbDevice. *)
CoreConnectDevice(c, a, e) == JsCall(c, "OpenDevice", a, e)

PipeClose(c, a, e) == JsCall(c, "Close", a, e)

PipeResetDevice(c, a, e) == JsCall(c, "ResetDevice", a, e)

(* claimInterface, releaseInterface, setInterface, setConfiguration. *)
PipeInterface(c, a, e) == JsCall(c, "interface", a, e)

(* getRawDescriptor, getFileDescriptor. *)
PipeDescriptor(c, a, e) == JsCall(c, "descriptor", a, e)

(* Kernel drivers and halted endpoints, requests, and the bulk calls: the  *)
(* inner kit only.                                                         *)
PipeInner(c, op, a, e) ==
  /\ op \in {"kernel", "request", "RegBulkCallback", "UnRegBulkCallback",
             "BulkRead"}
  /\ JsCall(c, op, a, e)

(* usbCancelTransfer. *)
PipeCancel(c, a, e) == JsCall(c, "UsbCancelTransfer", a, e)

(* usbSubmitTransfer: a context is made, its address becomes userData.  If *)
(* the shared buffer cannot be made the context is deleted and the call    *)
(* returns without an error.                                               *)
SubmitTransfer(c, id, a, e) ==
  /\ OwnerOf[id] = c
  /\ ctx[id] = "none"
  /\ Begin(Js(c), "service", "UsbSubmitTransfer", a, e, id)
  /\ where' = [where EXCEPT ![id] = <<a, e>>]
  /\ ctx' = [ctx EXCEPT ![id] = "built"]
  /\ UNCHANGED <<driverVars, eventVars, deathVars, lockVars, alive, answers, arrived>>

SubmitWithoutBuffer(c, id) ==
  /\ OwnerOf[id] = c
  /\ ctx[id] = "none"
  /\ "UsbSubmitTransfer" \in uses[c]
  /\ c \in alive
  /\ call[Js(c)] = Idle
  /\ ctx' = [ctx EXCEPT ![id] = "silent"]
  /\ UNCHANGED <<driverVars, eventVars, deathVars, lockVars,
                 alive, call, where, answers, arrived>>

(* bulkTransfer, controlTransfer, usbControlTransfer: the promise is       *)
(* returned and the work queued.                                           *)
Queue(c, op, a, e) ==
  /\ Begin(<<c, "work">>, "queued", op, a, e, None)
  /\ UNCHANGED <<driverVars, eventVars, deathVars, lockVars,
                 alive, where, ctx, answers, arrived>>

PipeBulkTransfer(c, a, e) == Queue(c, "BulkTransfer", a, e)

PipeControlTransfer(c, a, e) == Queue(c, "ControlTransfer", a, e)

PipeUsbControlTransfer(c, a, e) == Queue(c, "UsbControlTransfer", a, e)

(* The execute half of a queued work, on the worker. *)
Execute(t, op) ==
  /\ Client(t) \in alive
  /\ At(t, "queued", {op})
  /\ Goto(t, "service")
  /\ UNCHANGED <<driverVars, eventVars, deathVars, lockVars,
                 alive, where, ctx, answers, arrived>>

bulkTransferExecute(t) == Execute(t, "BulkTransfer")

controlTransferExecute(t) == Execute(t, "ControlTransfer")

usbControlTransferExecute(t) == Execute(t, "UsbControlTransfer")

(* The complete half settles the promise on the JS thread. *)
TransferComplete(t) ==
  /\ Client(t) \in alive
  /\ call[t].pc = "settle"
  /\ call[Js(Client(t))] = Idle
  /\ call' = [call EXCEPT ![t] = Idle]
  /\ UNCHANGED <<driverVars, eventVars, deathVars, lockVars,
                 alive, where, ctx, answers, arrived>>

-----------------------------------------------------------------------------
(* UsbService: every entry point asks for the right to the device that the *)
(* service has recorded at the address, and goes on to the host manager.   *)

(* A system application passes; of the others the right manager decides    *)
(* (UsbRightDb), here either way.                                          *)
HasRight(c, a, right) ==
  /\ known[a] # None
  /\ c \in SystemClients \/ right

(* The call is answered.  A submit that fails deletes its context. *)
Done(t) ==
  /\ IF t[2] = "work" THEN Goto(t, "settle")
                      ELSE call' = [call EXCEPT ![t] = Idle]
  /\ UNCHANGED ctx

Fail(t) ==
  IF call[t].id # None /\ ctx[call[t].id] = "built"
  THEN /\ call' = [call EXCEPT ![t] = Idle]
       /\ ctx' = [ctx EXCEPT ![call[t].id] = "rejected"]
  ELSE Done(t)

CheckDevicePermission(t) ==
  /\ \E right \in BOOLEAN :
       IF HasRight(Client(t), call[t].addr, right)
       THEN Goto(t, "checked") /\ UNCHANGED ctx
       ELSE Fail(t)
  /\ UNCHANGED <<driverVars, eventVars, deathVars, lockVars,
                 alive, where, answers, arrived>>

Entry(t, ops) == At(t, "service", ops) /\ CheckDevicePermission(t)

ServiceSession(t) == Entry(t, {"OpenDevice", "Close", "ResetDevice"})

ServiceInterface(t) == Entry(t, {"interface"})

ServiceDescriptor(t) == Entry(t, {"descriptor"})

ServiceKernel(t) == Entry(t, {"kernel"})

ServiceRequest(t) == Entry(t, {"request"})

ServiceBulkTransfer(t) == Entry(t, {"BulkTransfer"})

ServiceControlTransfer(t) == Entry(t, {"ControlTransfer", "UsbControlTransfer"})

ServiceAsync(t) ==
  Entry(t, {"RegBulkCallback", "UsbCancelTransfer", "UsbSubmitTransfer"})

ServiceBulk(t) == Entry(t, {"UnRegBulkCallback", "BulkRead"})

-----------------------------------------------------------------------------
(* UsbHostManager: one call of the driver each.  The driver may refuse any *)
(* of them.                                                                *)

HostOpenDevice(t) ==
  /\ At(t, "checked", {"OpenDevice"})
  /\ \/ /\ plugged[call[t].addr] # None
        /\ opened' = opened \union {call[t].addr}
        /\ Done(t)
     \/ Fail(t) /\ UNCHANGED opened
  /\ UNCHANGED <<plugged, reg, flight, eventVars, deathVars, lockVars,
                 alive, where, answers, arrived>>

HostClose(t) ==
  /\ At(t, "checked", {"Close"})
  /\ \/ CloseHandle(call[t].addr) /\ Done(t)
     \/ Fail(t) /\ UNCHANGED <<opened, flight, answers>>
  /\ UNCHANGED <<plugged, reg, eventVars, deathVars, lockVars, alive, where, arrived>>

(* Nothing the service keeps changes, and the answer is the driver's. *)
AskDriver(t, ops) ==
  /\ At(t, "checked", ops)
  /\ (call[t].addr \in opened /\ Done(t)) \/ Fail(t)
  /\ UNCHANGED <<driverVars, eventVars, deathVars, lockVars,
                 alive, where, answers, arrived>>

HostInterface(t) == AskDriver(t, {"ResetDevice", "interface"})

HostDescriptor(t) == AskDriver(t, {"descriptor"})

HostKernel(t) == AskDriver(t, {"kernel"})

HostRequest(t) == AskDriver(t, {"request"})

HostBulkRead(t) == AskDriver(t, {"BulkRead"})

(* A synchronous bulk transfer blocks in the driver. *)
HostBulkTransfer(t) ==
  /\ At(t, "checked", {"BulkTransfer"})
  /\ Goto(t, "driver")
  /\ UNCHANGED <<driverVars, eventVars, deathVars, lockVars,
                 alive, where, ctx, answers, arrived>>

(* Control transfers of all devices hold transferMutex_ over the driver's  *)
(* call.                                                                   *)
HostControlTransfer(t) ==
  /\ At(t, "checked", {"ControlTransfer", "UsbControlTransfer"})
  /\ mutex = None
  /\ mutex' = t
  /\ Goto(t, "driver")
  /\ UNCHANGED <<driverVars, eventVars, deathVars, hdiCb,
                 alive, where, ctx, answers, arrived>>

TransferReturns(t) ==
  /\ call[t].pc = "driver"
  /\ mutex' = IF mutex = t THEN None ELSE mutex
  /\ Goto(t, "settle")
  /\ UNCHANGED <<driverVars, eventVars, deathVars, hdiCb,
                 alive, where, ctx, answers, arrived>>

(* hdiCb_ is made for the first process that registers, and handed to the  *)
(* driver for every later one until somebody unregisters.                  *)
HostRegBulkCallback(t) ==
  /\ At(t, "checked", {"RegBulkCallback"})
  /\ hdiCb' = IF hdiCb = None THEN Client(t) ELSE hdiCb
  /\ \/ /\ call[t].addr \in opened
        /\ reg' = [reg EXCEPT ![call[t].addr] = hdiCb']
        /\ Done(t)
     \/ Fail(t) /\ UNCHANGED reg
  /\ UNCHANGED <<plugged, opened, flight, eventVars, deathVars, mutex,
                 alive, where, answers, arrived>>

HostUnRegBulkCallback(t) ==
  /\ At(t, "checked", {"UnRegBulkCallback"})
  /\ hdiCb' = None
  /\ \/ reg' = [reg EXCEPT ![call[t].addr] = None] /\ Done(t)
     \/ Fail(t) /\ UNCHANGED reg
  /\ UNCHANGED <<plugged, opened, flight, eventVars, deathVars, mutex,
                 alive, where, answers, arrived>>

(* Everything in flight on the endpoint is given up; the driver refuses if *)
(* there is nothing.                                                       *)
HostCancelTransfer(t) ==
  /\ At(t, "checked", {"UsbCancelTransfer"})
  /\ LET S == FlightAt(call[t].addr, call[t].ep)
     IN  \/ S # {} /\ EndFlight(S) /\ Done(t)
         \/ Fail(t) /\ UNCHANGED <<flight, answers>>
  /\ UNCHANGED <<plugged, opened, reg, eventVars, deathVars, lockVars,
                 alive, where, arrived>>

(* Mutant: one recipient for each endpoint. *)
AddDeathRecipientMutant(t) ==
  /\ At(t, "checked", {"UsbSubmitTransfer"})
  /\ Client(t) \in alive
  /\ recipients' = IF \E r \in recipients : where[r] = where[call[t].id]
                   THEN recipients ELSE recipients \union {call[t].id}
  /\ Goto(t, "linked")
  /\ UNCHANGED <<driverVars, eventVars, notices, closing, late, stuck, lockVars,
                 alive, where, ctx, answers, arrived>>

(* UsbSubmitTransfer first links the recipient to the client's callback    *)
(* object, which fails if its process is dead ...                          *)
AddDeathRecipient(t) ==
  /\ At(t, "checked", {"UsbSubmitTransfer"})
  /\ \/ /\ Client(t) \in alive
        /\ recipients' = recipients \union {call[t].id}
        /\ Goto(t, "linked")
        /\ UNCHANGED ctx
     \/ Fail(t) /\ UNCHANGED recipients
  /\ UNCHANGED <<driverVars, eventVars, notices, closing, late, stuck, lockVars,
                 alive, where, answers, arrived>>

(* Mutant: a transfer that was accepted is reported as refused. *)
HostSubmitTransferMutant(t) ==
  /\ At(t, "linked", {"UsbSubmitTransfer"})
  /\ call[t].addr \in opened
  /\ flight' = flight \union {call[t].id}
  /\ recipients' = recipients \ {call[t].id}
  /\ Fail(t)
  /\ UNCHANGED <<plugged, opened, reg, eventVars, notices, closing, late, stuck,
                 lockVars, alive, where, answers, arrived>>

(* ... and then calls the driver; the recipient goes if the driver refuses.*)
HostSubmitTransfer(t) ==
  /\ At(t, "linked", {"UsbSubmitTransfer"})
  /\ \/ /\ call[t].addr \in opened
        /\ flight' = flight \union {call[t].id}
        /\ late' = IF Client(t) \in alive THEN late ELSE late \union {call[t].id}
        /\ Done(t)
        /\ UNCHANGED recipients
     \/ /\ recipients' = recipients \ {call[t].id}
        /\ Fail(t)
        /\ UNCHANGED <<flight, late>>
  /\ UNCHANGED <<plugged, opened, reg, eventVars, notices, closing, stuck, lockVars,
                 alive, where, answers, arrived>>

-----------------------------------------------------------------------------
(* The way back of an asynchronous transfer.                               *)

DriverCompletes(id) ==
  /\ id \in flight
  /\ EndFlight({id})
  /\ UNCHANGED <<plugged, opened, reg, eventVars, deathVars, lockVars,
                 alive, call, where, ctx, arrived>>

(* A context that is still waiting is not going to be answered. *)
Lose(id) == ctx' = IF ctx[id] = "built" THEN [ctx EXCEPT ![id] = "lost"] ELSE ctx

(* Mutant: an answer that was sent is sent again. *)
OnTransferCallbackMutant(id) ==
  /\ id \in answers
  /\ OwnerOf[id] \in alive
  /\ arrived' = arrived \union {id}
  /\ UNCHANGED <<driverVars, eventVars, deathVars, lockVars,
                 alive, call, where, ctx, answers>>

(* UsbTransferCallbackImpl writes the answer into a parcel and sends it;   *)
(* nobody looks at a failure.                                              *)
OnTransferCallback(id) ==
  /\ id \in answers
  /\ answers' = answers \ {id}
  /\ \/ OwnerOf[id] \in alive /\ arrived' = arrived \union {id} /\ UNCHANGED ctx
     \/ Lose(id) /\ UNCHANGED arrived
  /\ UNCHANGED <<driverVars, eventVars, deathVars, lockVars,
                 alive, call, where>>

(* Mutant: the task is made and not sent. *)
JsCallBackMutant(id) == UNCHANGED ctx

(* On an IPC thread of the process: a task for the JS thread, or nothing   *)
(* if there is no memory or the event cannot be sent.                      *)
JsCallBack(id) ==
  \/ ctx' = [ctx EXCEPT ![id] = "queued"]
  \/ Lose(id)

(* UsbdStubCallBack reads the parcel and calls back, or gives up. *)
OnRemoteRequest(id) ==
  /\ id \in arrived
  /\ OwnerOf[id] \in alive
  /\ arrived' = arrived \ {id}
  /\ JsCallBack(id) \/ Lose(id)
  /\ UNCHANGED <<driverVars, eventVars, deathVars, lockVars,
                 alive, call, where, answers>>

(* The task calls the application's function and deletes the context. *)
RunTask(id) ==
  /\ ctx[id] = "queued"
  /\ call[Js(OwnerOf[id])] = Idle
  /\ ctx' = [ctx EXCEPT ![id] = "called"]
  /\ UNCHANGED <<driverVars, eventVars, deathVars, lockVars,
                 alive, call, where, answers, arrived>>

-----------------------------------------------------------------------------
(* The death of a process.  Calls it has made in the service go on.        *)

Die(c) ==
  LET mine == {id \in Transfers : OwnerOf[id] = c} IN
  /\ c \in alive
  /\ alive' = alive \ {c}
  /\ notices' = notices \union (recipients \cap mine)
  /\ recipients' = recipients \ mine
  /\ arrived' = arrived \ mine
  /\ ctx' = [id \in Transfers |->
               IF id \in mine /\ ctx[id] \in {"built", "queued"} THEN "gone" ELSE ctx[id]]
  /\ call' = [t \in Threads |-> IF Client(t) = c /\ call[t].pc \in {"queued", "settle"}
                                THEN Idle ELSE call[t]]
  /\ UNCHANGED <<driverVars, eventVars, closing, late, stuck, lockVars, where, answers>>

(* UsbSubmitTransferDeathRecipient: cancel by address and endpoint, and if *)
(* that succeeds close the device.  The driver refuses if there is nothing *)
(* to cancel, and may refuse otherwise; a close that fails is not noticed. *)
OnRemoteDied(id) ==
  /\ id \in notices
  /\ notices' = notices \ {id}
  /\ LET S == FlightAt(where[id][1], where[id][2])
     IN  \/ /\ S # {}
            /\ EndFlight(S)
            /\ closing' = closing \union {id}
            /\ UNCHANGED stuck
         \/ /\ stuck' = stuck \union ({id} \cap S)
            /\ UNCHANGED <<flight, answers, closing>>
  /\ UNCHANGED <<plugged, opened, reg, eventVars, recipients, late, lockVars,
                 alive, call, where, ctx, arrived>>

OnRemoteDiedClose(id) ==
  /\ id \in closing
  /\ closing' = closing \ {id}
  /\ CloseHandle(where[id][1]) \/ UNCHANGED <<opened, flight, answers>>
  /\ UNCHANGED <<plugged, reg, eventVars, recipients, notices, late, stuck, lockVars,
                 alive, call, where, ctx, arrived>>

-----------------------------------------------------------------------------
(* Devices come and go.  The driver's calls of DeviceEvent are handled on  *)
(* any of the service's threads: later, in any order and side by side.     *)

Plug(a, d) ==
  /\ plugs < MaxPlugs[uses]
  /\ plugged[a] = None
  /\ \A b \in Addrs : plugged[b] # d
  /\ plugs' = plugs + 1
  /\ plugged' = [plugged EXCEPT ![a] = d]
  /\ attaches' = [attaches EXCEPT ![a] = @ + 1]
  /\ UNCHANGED <<opened, reg, flight, detaches, read, known, crossed,
                 deathVars, lockVars, clientVars>>

Unplug(a) ==
  /\ plugged[a] # None
  /\ plugged' = [plugged EXCEPT ![a] = None]
  /\ opened' = opened \ {a}
  /\ reg' = [reg EXCEPT ![a] = None]
  /\ EndFlight(FlightOf(a))
  /\ detaches' = [detaches EXCEPT ![a] = @ + 1]
  /\ UNCHANGED <<plugs, attaches, read, known, crossed, deathVars, lockVars,
                 alive, call, where, ctx, arrived>>

(* The service opens the device, reads its descriptors and closes it.  If  *)
(* any of it fails nothing is recorded, and the device may stay open.      *)
GetDeviceInfo(h, a) ==
  /\ attaches[a] > 0
  /\ read[h] = <<>>
  /\ attaches' = [attaches EXCEPT ![a] = @ - 1]
  /\ \/ /\ plugged[a] # None
        /\ read' = [read EXCEPT ![h] = <<a, plugged[a]>>]
        /\ CloseHandle(a)
     \/ CloseHandle(a) /\ UNCHANGED read
     \/ /\ opened' \in {opened, opened \union {b \in {a} : plugged[b] # None}}
        /\ UNCHANGED <<read, flight, answers>>
  /\ UNCHANGED <<plugged, reg, plugs, detaches, known, crossed, deathVars, lockVars,
                 alive, call, where, ctx, arrived>>

(* What was read is recorded; insert does not replace an earlier record.   *)
AddDevice(h) ==
  /\ read[h] # <<>>
  /\ LET a == read[h][1]
     IN  known' = IF known[a] = None THEN [known EXCEPT ![a] = read[h][2]] ELSE known
  /\ read' = [read EXCEPT ![h] = <<>>]
  /\ UNCHANGED <<driverVars, plugs, attaches, detaches, crossed, deathVars, lockVars,
                 clientVars>>

(* A handler has read the device of an address and not recorded it. *)
Between(a) == \E h \in Handlers : read[h] # <<>> /\ read[h][1] = a

(* Mutant: the record stays. *)
DelDeviceMutant(a) ==
  /\ detaches[a] > 0
  /\ detaches' = [detaches EXCEPT ![a] = @ - 1]
  /\ crossed' = IF Between(a) THEN crossed \union {a} ELSE crossed \ {a}
  /\ CloseHandle(a) \/ UNCHANGED <<opened, flight, answers>>
  /\ UNCHANGED <<plugged, reg, plugs, attaches, read, known, deathVars, lockVars,
                 alive, call, where, ctx, arrived>>

(* Close, which checks a permission and may fail, then the record goes.    *)
DelDevice(a) ==
  /\ detaches[a] > 0
  /\ detaches' = [detaches EXCEPT ![a] = @ - 1]
  /\ known' = [known EXCEPT ![a] = None]
  /\ crossed' = IF Between(a) THEN crossed \union {a} ELSE crossed \ {a}
  /\ CloseHandle(a) \/ UNCHANGED <<opened, flight, answers>>
  /\ UNCHANGED <<plugged, reg, plugs, attaches, read, deathVars, lockVars,
                 alive, call, where, ctx, arrived>>

-----------------------------------------------------------------------------
AppStep(c) ==
  \E a \in Addrs, e \in Endpoints :
    \/ CoreConnectDevice(c, a, e) \/ PipeClose(c, a, e) \/ PipeResetDevice(c, a, e)
    \/ PipeInterface(c, a, e) \/ PipeDescriptor(c, a, e) \/ PipeCancel(c, a, e)
    \/ \E op \in JsOps : PipeInner(c, op, a, e)
    \/ \E id \in Transfers : SubmitTransfer(c, id, a, e)
    \/ PipeBulkTransfer(c, a, e) \/ PipeControlTransfer(c, a, e)
    \/ PipeUsbControlTransfer(c, a, e)

WorkerStep(t) ==
  \/ bulkTransferExecute(t) \/ controlTransferExecute(t)
  \/ usbControlTransferExecute(t) \/ TransferComplete(t)

ServiceStep(t) ==
  \/ ServiceSession(t) \/ ServiceInterface(t) \/ ServiceDescriptor(t)
  \/ ServiceKernel(t) \/ ServiceRequest(t) \/ ServiceBulkTransfer(t)
  \/ ServiceControlTransfer(t) \/ ServiceAsync(t) \/ ServiceBulk(t)
  \/ HostOpenDevice(t) \/ HostClose(t) \/ HostInterface(t) \/ HostDescriptor(t)
  \/ HostKernel(t) \/ HostRequest(t) \/ HostBulkRead(t) \/ HostBulkTransfer(t)
  \/ HostControlTransfer(t) \/ TransferReturns(t) \/ HostRegBulkCallback(t)
  \/ HostUnRegBulkCallback(t) \/ HostCancelTransfer(t) \/ AddDeathRecipient(t)
  \/ HostSubmitTransfer(t)

TransferStep(id) ==
  \/ DriverCompletes(id) \/ OnTransferCallback(id) \/ OnRemoteRequest(id)
  \/ RunTask(id) \/ OnRemoteDied(id) \/ OnRemoteDiedClose(id)

Next ==
  /\ UNCHANGED uses
  /\ \/ \E c \in Clients : AppStep(c) \/ Die(c)
     \/ \E c \in Clients, id \in Transfers : SubmitWithoutBuffer(c, id)
     \/ \E t \in Threads : WorkerStep(t) \/ ServiceStep(t)
     \/ \E id \in Transfers : TransferStep(id)
     \/ \E h \in Handlers, a \in Addrs : GetDeviceInfo(h, a)
     \/ \E h \in Handlers : AddDevice(h)
     \/ \E a \in Addrs : DelDevice(a) \/ Unplug(a)
     \/ \E a \in Addrs, d \in Devices : Plug(a, d)

(* IPC threads, the callback threads and the JS event queue go on.  The    *)
(* event queue is first in, first out, so that a task is not passed over   *)
(* for ever by new calls: strong fairness.  Nothing is assumed of the      *)
(* driver's answers, of the user or of the application.                    *)
Fairness ==
  /\ \A c \in Clients : WF_vars(ServiceStep(Js(c)) /\ UNCHANGED uses)
  /\ \A id \in Transfers :
       /\ WF_vars(OnTransferCallback(id) /\ UNCHANGED uses)
       /\ WF_vars(OnRemoteRequest(id) /\ UNCHANGED uses)
       /\ SF_vars(RunTask(id) /\ UNCHANGED uses)

Spec == Init /\ [][Next]_vars /\ Fairness

-----------------------------------------------------------------------------
(* An answer that a living process is still going to receive finds its     *)
(* context: userData is dereferenced in JsCallBack without a test, so no   *)
(* path of usbSubmitTransfer may delete a context the driver has accepted. *)
ContextLive ==
  \A id \in flight \union answers \union arrived :
    OwnerOf[id] \in alive => ctx[id] = "built"

(* The driver works for a dead process only until its death recipient has  *)
(* run.  Two cases are excepted: the process died between the registration *)
(* of the recipient and the driver's acceptance, when the notice has come  *)
(* too early, or the driver refused the recipient's cancel, which is not   *)
(* tried again.                                                            *)
OrphanCancelled ==
  \A id \in flight :
    OwnerOf[id] \in alive \/ id \in notices \/ id \in late \union stuck

(* Permissions are checked against the device that is really there: what   *)
(* deviceVidPidMap_ says of an address is out of date only while a detach  *)
(* of the address waits to be handled.  Excepted is a detach handled       *)
(* between an attach's read of the device and its record, until the next   *)
(* detach of the address is handled by itself.                             *)
KnownIsCurrent ==
  \A a \in Addrs :
    known[a] \in {None, plugged[a]} \/ detaches[a] > 0 \/ a \in crossed

(* Every answer of the driver ends a transfer: the application's function  *)
(* is called, or the answer is lost in the process, or the process dies.   *)
AnswerDelivered ==
  \A id \in Transfers : id \in answers ~> ctx[id] \in {"called", "lost", "gone"}

(* Seen from the application a transfer is an asynchronous request: at     *)
(* most one answer, and none for a request that was refused.               *)
StatusOf(state) ==
  CASE state = "none"                       -> "new"
    [] state \in {"built", "queued"}        -> "issued"
    [] state = "called"                     -> "answered"
    [] state = "rejected"                   -> "refused"
    [] state \in {"silent", "lost", "gone"} -> "abandoned"

requestStatus == [id \in Transfers |-> StatusOf(ctx[id])]

Request == INSTANCE AsyncRequest WITH Requests <- Transfers, status <- requestStatus

ImplementsRequest == Request!Spec

-----------------------------------------------------------------------------
(* The strengthening that makes the invariants inductive.                  *)

ContextStates ==
  {"none", "silent", "built", "queued", "called", "rejected", "lost", "gone"}

Calls == [pc : {"queued", "service", "checked", "linked", "driver", "settle"},
          op : JsOps \union WorkOps,
          addr : Addrs, ep : Endpoints, id : Transfers \union {None}]

DeviceTypes ==
  /\ plugged \in [Addrs -> Devices \union {None}]
  /\ known \in [Addrs -> Devices \union {None}]
  /\ attaches \in [Addrs -> Nat] /\ detaches \in [Addrs -> Nat]
  /\ read \in [Handlers -> {<<>>} \union (Addrs \X Devices)]
  /\ crossed \subseteq Addrs

(* The types of what the invariants speak of.                              *)
TypeOK ==
  /\ flight \subseteq Transfers /\ answers \subseteq Transfers
  /\ arrived \subseteq Transfers
  /\ recipients \subseteq Transfers /\ notices \subseteq Transfers
  /\ closing \subseteq Transfers /\ late \subseteq Transfers
  /\ stuck \subseteq Transfers
  /\ alive \subseteq Clients
  /\ call \in [Threads -> {Idle} \union Calls]
  /\ ctx \in [Transfers -> ContextStates]
  /\ where \in [Transfers -> {<<>>} \union (Addrs \X Endpoints)]
  /\ DeviceTypes

Waiting == flight \union answers \union arrived

(* A submission under way is the JS thread's of the owner.  Its transfer   *)
(* is nowhere else yet, its context lives as long as the owner, and once   *)
(* it is linked the owner's death will be told.                            *)
SubmitInv ==
  \A t \in Threads :
    call[t] # Idle =>
      /\ call[t].op = "UsbSubmitTransfer" <=> call[t].id # None
      /\ call[t].id # None =>
           /\ t = Js(OwnerOf[call[t].id])
           /\ call[t].pc \in {"service", "checked", "linked"}
           /\ call[t].id \notin Waiting
           /\ where[call[t].id] \in Addrs \X Endpoints
           /\ OwnerOf[call[t].id] \in alive =>
                /\ ctx[call[t].id] = "built"
                /\ call[t].pc = "linked" => call[t].id \in recipients

(* A transfer waits in one place: with the driver, with the service or on  *)
(* its way to the process.                                                 *)
OnePlace ==
  /\ flight \cap answers = {}
  /\ flight \cap arrived = {}
  /\ answers \cap arrived = {}

(* What the driver has is addressed, and watched while its owner lives.    *)
FlightWatched ==
  \A id \in flight :
    /\ where[id] \in Addrs \X Endpoints
    /\ OwnerOf[id] \in alive => id \in recipients

(* What a handler is going to record is out of date only in those cases.   *)
ReadIsCurrent ==
  \A h \in Handlers :
    read[h] # <<>> =>
      LET a == read[h][1]
      IN  read[h][2] = plugged[a] \/ detaches[a] > 0 \/ a \in crossed

DeviceInv == DeviceTypes /\ KnownIsCurrent /\ ReadIsCurrent

TransferInv ==
  /\ TypeOK /\ SubmitInv /\ OnePlace /\ FlightWatched
  /\ ContextLive /\ OrphanCancelled /\ DeviceInv
=============================================================================
