# TLA+ specifications of usb_manager

The specifications in this directory model the USB manager service of
OpenHarmony (`src/services/native`) and the client side that talks to it
(`src/interfaces`, `src/frameworks`): their control flow, the threads they run
on and the failures they meet. TLC checks small instances; TLAPS proves the safety
properties that matter most for every value of the constants.

1. [The system](#the-system)
2. [Modules](#modules)
3. [What the runs check](#what-the-runs-check)
4. [Fairness](#fairness)
5. [What is proved](#what-is-proved)
6. [Findings](#findings)
7. [Abstractions and what is not modelled](#abstractions-and-what-is-not-modelled)
8. [Plan](#plan)

## The system

`UsbService` is a system ability that is loaded on demand and unloads itself
when idle. Its IPC entry points run on a bounded pool of IPC threads, its
driver callbacks on HDI threads, its common events on the common event thread
and its delayed work on timer threads. It owns these parts:

| part | state it keeps | operations | what is hard about it |
|---|---|---|---|
| **Serial ports** `serial_manager.cpp` | `serialPortMap_`, `portTokenMap_` (the owner), first read and write records, death recipients in `UsbService` | list, open, close, read, write, attributes, rights, dump, death of a client | the driver is called outside `portTokenMapMutex_`, so that ownership is checked first and used later; a client dies inside a call; two ways to end a session that must do the same |
| **Right request** `usb_right_manager.cpp`, `UsbDialog.ets` | `dialogRunning_`, `usbDialogParams_`, `waitDialogDisappear_`, `usbAbilityConn_` | RequestRight, connect and disconnect callbacks, buttons, detach | a blocking wait on a semaphore that callbacks of another process post; threads of one pool wait for one another |
| **Right records** `usb_right_db_helper.cpp`, clean-up in `usb_right_manager.cpp` | one table: user, device, bundle, token, installation and request times | grant, look up, remove, clean up on uninstall, reinstall, user stop or removal, expiry, detach, restart | decisions from an earlier query or an earlier bundle lookup; late or lost events; two ways to decide expiry; a clock that moves |
| **Device mode** `usb_device_manager.cpp`, `usb_timer_wraper.cpp` | `connected_`, `gadgetConnected_`, `currentFunctions_`, `isDisableDialog_`, timer, sticky event, HDC notice | events of the gadget, delayed tasks, SetCurrentFunctions, user switch | debouncing by a timer that is restarted; four threads and one lock that covers two of them |
| **Accessory mode** `usb_accessory_manager.cpp` | `accStatus_`, two timers, accessory strings, file descriptor | events, open and close of an accessory | a state machine driven by two timers; it writes the gadget's functions behind the device manager's back |
| **Function switch window** `usb_function_switch_window.cpp` | `windowAction_`, `isAbortDialog_`, connection to the dialog | pop up, dismiss, boot completed | a window requested before it can be shown, and dismissed before it is there |
| **Ports** `usb_port_manager.cpp` | `portMap_`, `supportedModeMap_` | query, set role, driver's port events | the role is set in the driver, notified and stored in different steps |
| **Notices** `usb_connection_notifier.cpp` | last function and notice ids | send, cancel | a notice that replaces another one |
| **Host mode** `usb_host_manager.cpp` | device map, EDM policy, bulk callbacks, submitted transfers | attach, detach, open, claim, transfers, policies | a status decided under a shared lock; a policy fetched before and applied after a change; a detach between two steps of a call; callbacks of clients that died |
| **Transfers** `usb_host_manager.cpp`, `usb_transfer_callback_impl.cpp`, `usb_info.cpp` | open sessions, submitted transfers, bulk callbacks, one death recipient per transfer, contexts in the application | open, close, reset, blocking and asynchronous transfers, cancel, death of a client, unplugging | an answer comes through three processes and finds its context by an address; the client dies or the device goes between two steps |
| **Life cycle** `usb_service.cpp` | unload timer, subscriptions to the drivers | start, events, idle unload, stop, crash | three threads decide whether the service is idle; unload races a new call |
| **Client** `usb_srv_client.cpp`, `usb_info.cpp`, `serial_info.cpp`, Taihe | `proxy_` of each process, its death recipient, promises | connect, reconnect, every call of the bindings | the proxy is replaced by a death notice while calls test and use it |
| **Descriptor parser** `usb_descriptor_parser.cpp` | none | parse | lengths at their limits |

How they interact. The service's entry points check a right
(*right records*) before they reach *host mode* or *serial ports*; a missing
right is requested through the *right request* dialog, which calls the service
back to write the record. A detach closes the dialog and tidies the table up. A
gadget event goes to *device mode* or to *accessory mode*, and both write the
functions of the same driver; *device mode* reports by a sticky common event, a
*notice* and the *function switch window*. Common events (uninstall, user
stopped, removed or switched) reach the *right records* and *device mode* on one
thread.

What makes each part correct: a port has one owner and the owner entry tells
the truth about the driver; there is one dialog, it is about the call that
waits, no wakeup is lost or foreign and a click is honoured; a record means a
grant to the present installation, and nobody loses one who should keep it;
what device mode reports is what the driver does and the last event said; a
device is shown, announced and authorised exactly if the policy in force allows
it, and no thread is left with a device that is gone; a transfer is answered at
most once, into a context that is still there, and the driver does not work for
the dead; an idle service goes and a busy one stays, and no client is left
waiting or with a dead proxy; a window that was asked for is shown and one that
was dismissed goes; the port map follows the driver. The hazards, each at its
line, and the properties that cover them are listed in `PROJECT.json`.

## Modules

| module | models | extended by |
|---|---|---|
| `SerialManager` | serial ports with the entry points of `UsbService` | `MCSerialManager`, `SerialManagerProofs` |
| `UsbRightDialog` | RequestRight and the dialog | `MCUsbRightDialog`, `UsbRightsProofs` |
| `UsbDeviceManager` | device mode | `MCUsbDeviceManager`, `UsbDeviceManagerProofs` |
| `UsbAccessoryManager` | accessory mode | `MCUsbAccessoryManager`, `UsbAccessoryManagerProofs` |
| `UsbHostManager` | host mode: the device map and the device policies | `MCUsbHostManager`, `UsbHostManagerProofs` |
| `UsbRightDb` | right records and their clean-up | `MCUsbRightDb`, `UsbRightsProofs` |
| `AsyncRequest` | abstract: what an asynchronous request promises its caller | implemented by `UsbTransfers` |
| `OwnedPort` | abstract: a serial port as a lock with an owner | implemented by `SerialManager` |
| `UserConsent` | abstract: what RequestRight promises its callers | implemented by `UsbRightDialog` |
| `UsbTransfers` | sessions and transfers of host mode, from the binding to the driver and back | `MCUsbTransfers`, `UsbTransfersProofs` |
| `UsbSrvClient` | life of the service, and a client's connection to it | `MCUsbSrvClient`, `UsbSrvClientProofs` |
| `UsbFunctionSwitchWindow` | the window and its connection to the dialog host | `MCUsbPrompts`, `UsbPromptsProofs` |
| `UsbPortManager` | the port map and the connection notice | `MCUsbPrompts`, `UsbPromptsProofs` |

Conventions. Variables and actions keep the names of the members and functions
they model, without the trailing underscore. A handler is one action, and it is
split exactly where it gives up the lock that protects the state it goes on to
use, or waits, or calls another process: there another thread can come between.
A handler that returns early without changing anything is a stuttering step.
Variables marked *history* are not in the code; they record what a property has
to mention and no action of the code reads them. Variables and actions marked
*external* are the driver, the dialog host, the bundle and account managers and
the clock, as the code in `src/` uses them. Definitions named `...Mutant` are
deliberately wrong versions of the definition they precede: each is a plausible
mistake that the properties are known to catch.

### SerialManager

`call[t]` is what IPC thread `t` is executing: `OpenCall` is the part of
`SerialOpen` in `UsbService` (right and port checks, death link), `SerialOpen`
the driver call under `portTokenMapMutex_`. `SerialClose` is four steps: the
check of the owner, the driver's close, the reset of the first-use records and
the erasure of the entry, each under a lock of its own or none. Reads, writes
and attribute calls check the owner, call the driver, then record the first
use. `Die` and `OnRemoteDied` are a client's death and its recipient, which
frees the port by `FreeTokenId` whatever a handler of the dead client is doing.
`SerialGetAttributeDump` is the dump command, which opens and closes a port
under the token of its caller. Clients are as free as the bindings make them:
they call from several threads at once (reads and writes run on workers), share
a token (a restarted application is a new process with the old token) and die at
any time, inside `SerialOpen` or in the middle of a close too. What a property
has to except is history: `stale` holds the calls past `CheckPortAndTokenId`
whose port was given up meanwhile, `leftover` the first-use records that no
`SerialClose` will reset, `late` the ports opened after the last notice of the
opener's death; `opener` and `endedBy` say who opened a port and what ended its
last session.

### UsbRightDialog

`pc[r]` follows a `RequestRight` call: waiting for `dialogRunning_`,
connecting, asleep on the semaphore, checking the record. `session` is the
ability manager's connection and gives one connect callback and then one
disconnect callback. The buttons are `ClickAllow` (an `AddAccessRight` call,
then the dialog terminates itself) and `ClickNotAllow`. `RemoveDeviceAllRight`,
`CloseDialog` and `DisconnectAbility` are a detach. Threads are counted
(`ThreadFree`): what blocks holds one, a callback or a call needs one. The
variants for a device, an accessory and a serial port are the same protocol.
`DialogHasRight`, `DialogAddAccessRight` and `DialogRemoveRight` are `HasRight`,
`AddAccessRight` and `RemoveRight` as the dialog meets them, on a set of rights;
`UsbRightDb` models them on the table.

### UsbDeviceManager

`ProcessStatus` takes back the registered task and remembers the event,
`HandleEvent` compares it with `connected_` and registers the opposite task or
none, `TimerExpires` turns the registered task into a running one before it
writes anything. The connect task reads the functions under `functionMutex_`;
the disconnect task strips the transfer functions, sets the driver and reports.
`SetCurrentFunctions` and `UserChangeProcess` each set the driver and update
the manager in a second step, and `AccessorySetFunctions` is the accessory
manager's direct call of the driver. `overlapped` remembers that an event was
compared with a `connected_` an expired task was about to overwrite; `mixed`
that two of the threads that change functions overlapped, or a driver call
failed, since the last undisturbed connect.

### UsbAccessoryManager

`HandleEvent` is the driver's event: it is stored, and debounced (`shakeTimer`)
or handled. `ShakeExpires`, `ShakeReads` and `ShakeHandles` are the debouncing
task, which reads `eventStatus_`, then waits for `mutexHandleEvent_`, then
handles. `handler` holds that lock from the first driver call to the return:
`GetCurrentFunctions`, then `StartAccessory`, or `SetAccessory` and `ArmDelay`,
or `StopAccessory`. `DelayExpires`, `DelayStops` and `DelayRestores` are the ten
second task, which takes no lock. Both tasks run on the one timer thread
(`task`). A session begins when the driver is switched to the accessory
function; `disturbed` says that something else interfered since: the device
manager set other functions (`DeviceSetFunctions`), a driver call failed,
ACCESSORYSEND came in the middle, or a request met the ten second task at work.
It is also set from the start if the service finds the gadget in accessory
mode. `overlapped` says that the last event met a debouncing task that had been
popped. Clients may choose any functions, the accessory function too:
`SetCurrentFunctions` bars nothing (`IsSettableFunctions` is called by tests only).

### UsbHostManager

`status` is `devices_` with each entry's authorisation status. Four threads work
on it: the driver's device events, the administrator's calls, the watcher of
`persist.edm.usb_serial_disable` and the callback of a loaded EDM. `call[t]` is
what a thread is doing; its `plan` lists the policy queries (`ExecuteStrategy`,
`StrategyFails`) and the walks through `devices_` it has still to do, a walk is
the set of its jobs (`JobsOf`), and the order of the map is left open.
`AddDevice` is five steps: the insertion under the exclusive lock, the serial
device's record and the unlock, the strategy without a lock, the second lookup
and the announcement under the shared lock. `UsbDeviceAuthorize` reads the
status (`SkipDevice` or `UsbDeviceAuthorize`) and writes it (`Authorized` or
`AuthorizeFails`) in two steps, because the shared lock lets two threads do
that at once. `disturbed` remembers the devices for which that happened, or
which were announced twice; `excused` those for which the last application of
the policy failed, used a policy that was replaced while it ran, or was followed
by a one-off call. A walk goes on to the next device after a failure with one
exception, `OpenFails`: `ManageDeviceImpl` returns out of its loop at the first
device it cannot open, and the devices of the same id that come later (`LeftOut`)
are not reached; `SameIdAgain` is the loop over devices that goes through the id
of two devices again. The calls of the
administrator that leave no policy behind (`ManageDevice` for one id, and
`ManageInterfaceType` with `disable` false, whose list names the allowed types)
are `OneOff`: they are applied as they come, and the devices they mean are
excused until the policy in force is applied again.

Assumed of the surroundings: EDM is enabled on the device; the build passes
calls through to the driver; EDM holds its lock during the calls it makes, has
one kind of policy at a time and lifts one before it sets another (a ban of
types by `ManageInterfaceType` with an empty list and `disable`); the serial parameter
does not change again before its last change was delivered; the driver delivers
attach events one after another, while a detach may come during an attach.

### UsbRightDb

`rows` is the table. A grant is two steps (`AddDeviceRight` reads the
installation time, `AddOrUpdateRightRecord` writes), a lookup deletes expired
records first, a removal tries the caller's token and then the default token.
`tidy` follows `TidyUpRight` through its four clean-ups: the applications that
were found in the table, one lookup each and a deletion for each that is not
installed; deleted users; expired records; reinstalled applications. Events are
received in the order they are published. A restart of the service loses
events and whatever was going on. Every record is written with the period
`USB_RIGHT_VALID_PERIOD_SET`; the branches for other periods find nothing. An
installation has a number, which stands for its access token. That an `IN` over
an empty list matches no row is assumed of the database. `scenario`, chosen with
the initial state, says which faults a behaviour may meet, which applications
take part and how far clock and installations go; the code reads nothing of it.

### UsbTransfers

`call[t]` follows a call of an application's JS thread or of its worker through
the binding, the entry point of `UsbService` with `CheckDevicePermission`, and
the host manager to the driver. `ctx[id]` is the `USBTransferAsyncContext` of an
asynchronous transfer: it is built by `SubmitTransfer`, travels as an address in
`userData`, and comes back by `DriverCompletes`, `OnTransferCallback` in the
service, `OnRemoteRequest` and `JsCallBack` in the application, and `RunTask` on
its JS thread. `AddDeathRecipient` registers a recipient before the driver has
accepted the transfer; `OnRemoteDied` and `OnRemoteDiedClose` are that recipient,
which cancels and then closes; if the driver refuses the cancel the recipient
returns without closing and the transfer stays (`stuck`), and the close may fail
too. `late` remembers transfers that the driver accepted after the recipient had
run. `Plug` and `Unplug` are the bus; attach and detach events are handled on
`Handlers`, in any order and at the same time. An attach reads the device
(`GetDeviceInfo`) and inserts it into `deviceVidPidMap_` (`AddDevice`) in two
steps without a lock; the insertion does not replace an entry. `DelDevice`
closes the device, which may fail, and erases the entry. `crossed` holds the
addresses where a detach was handled between the two steps of an attach, until
a detach is handled by itself. `uses`, chosen
with the initial state among `Programs`, says which calls a process makes.
`Request` maps a transfer to a request of `AsyncRequest`.

### UsbSrvClient

`sa` is the state of the system ability from loading to exit, `instance` the
number of the process. `OnStart`, `WaitUsbdService` and `Publish` are the start,
in which the drivers may answer later; if the subscription or the publication
fails, `OnStart` returns before the service is ready and the process stays
(`"unpublished"`). `eval` is how far each thread that calls `UnLoadSelf` has got
(`Register`, in which the timer's `Setup` may fail, so that no task is
registered), `TimerExpires` and `Unload` the thirty second task. `Exit`
and `Crash` end the process and send the death notices. On the client's side
`Connect`, `LoadSystemAbility`, `ConnectUnLocked` and `AddDeathRecipient` run
under `mutex_`, `TestProxy` and `UseProxy` without it, `ResetProxy` is the death
notice. A connection may come without a remote object (`DeadObject`): then
`ConnectUnLocked` returns an error and keeps the proxy (`objectless`). A call that
has reached the service is `"served"` until it is `Answered`, and a service with a
device may keep it (`"kept"`), as `RequestRight` does while nobody answers the
dialog, or for ever. Every entry point of the bindings is a call of one of the families of
`UsbSrvClient` methods, on the JS thread or as a promise on the worker
(`Complete` settles it). `Budgets` bounds what the surroundings do: events,
calls, crashes, policies, refused unloads.

### UsbFunctionSwitchWindow

`pc[t]` follows three threads: callers of `PopUp...` and `Dismiss...` and the
boot watcher, which hold `opMutex_`, and the install check, which takes no lock
(`Query`, `CheckDialogInstallStatus`, retries, then `OnReceiveEvent` after
`SubscribeCommonEvent`). Connection objects are numbered, because a callback may
belong to an object that has been replaced; `queue[c]` is what the ability
manager owes object `c`, `callback[c]` how far its callback has got, `shown` the
windows the dialog host displays. The history flags name the exceptions:
`hurried` (a Dismiss before the connect callback), `raced` (the install check
met a holder of `opMutex_`), `orphaned` (a refused second connection dropped the
object of the first, or the dialog host did not obey the close command), `missed` (boot or scan completed before its subscription)
and `refused`.

### UsbPortManager

`events` are the driver's `PortChangedEvent`s on their way, `query` a query that
has its answer in hand: `GetPorts` queries under `mutex_`, `Init` does not.
`SetPortRole` switches the driver, `NotifyRole` then decides on the notice by
`portMap_`. `SendNotification` and `CancelNotification` are those of the
connection notifier; the notice is `lastFunc`. Its users are modelled step by
step. In host mode `HostArrives`, `HostAttached` and `HostPublish` insert a
device, enable it and send; `Authorize`, `AuthorizePublish` and `AuthorizeWrite`
are `UsbDeviceAuthorize`: the status is read, the notice sent or cancelled, the
status written, and the shared lock lets several threads (`Policers`, and
`AddDevice`) do that at once, while insertion and removal need it exclusively
(`Unshared`). In device mode the connection task, `UpdateFunctions` and
`UserChangeProcess` (`Notifiers`) run `ProcessFunctionNotifier`: they read
`connected_` (`ReadConnected`), choose the notice and send or cancel it later,
with no lock that all three take. `overtaken` says that an event was dropped
while `Init` held an older answer; `unowned` that the notice was sent by
SetPortRole or by a stale `isReverseCharge_`, or after its owner had left (by
`UpdateFunctions` or `UserChangeProcess` after the disconnect task, or for a
device that another thread was disabling), or that its owner's record was
replaced in `devices_` without an event.

`MCUsbPrompts` holds window and port in one instance: they share no state, so
each runs with the other at rest, as `part` says.

## What the runs check

| run | instance | properties |
|---|---|---|
| `serial` | an application and its next start with the same token, the dumper, 1 port, 2 threads | an owner entry is backed by an open port (`EntryBacked`), a port is a lock up to stale closes (`ImplementsLock`), a close that is not stale leaves no port open without an owner (`NoOrphanByClose`), a first-use record silences the audit of its own session only, unless it is left over (`AuditNotSilenced`), a dead opener's port still has a recipient to come (`DeadOwnerWatched`) and is freed (`DeadOwnerFreed`), unless it was opened too late |
| `dialog` | 3 calls for 2 rights, every fault, 5 threads | a call is woken by its own dialog only (`WokenByOwnDialog`), no wakeup lost (`NoLostWakeup`), the user is asked about one call at a time and a click on Allow is honoured (`ImplementsConsent`), every call returns unless a connection without a dialog stays open (`RequestReturns`) |
| `dialog_not_shown` | the dialog may fail to appear | *violated*: every call returns (`EveryRequestReturns`) |
| `device_events` | 4 functions, 3 choices | debouncing settles (`Settled`, `Debounced`), what is reported is true (`ReportedTruth`) |
| `accessory_events` | 3 function sets, one of them with the accessory function | broadcasts are true (`AnnouncedIsStarted`), waiting for the host ends (`ConfiguringEnds`), replaced functions come back (`ReplacedComesBack`), unplugging is heeded (`UnpluggedIsStopped`) |
| `host_policy` | a hub, a serial device with one interface and a twin of the same id, 4 policies, 3 inputs | no entry is deleted while it is used (`NoUseAfterDelete`), broadcasts and kernel agree with the status (`SeenIsEnabled`, `KernelAgrees`), the policy in force is applied when all is quiet (`PolicyInForce`), no circular wait (`NoCircularWait`) |
| `host_serial` | a serial device, a trust list, 3 inputs | *violated*: a serial device stays disabled while the serial policy forbids it (`SerialPolicyInForce`) |
| `rightdb` | 1 user and device; three scenarios: every fault but a failing lookup with a clock to 3 and no reinstallation; failing lookups and a restart with one; 2 applications and 2 installations without faults | clean-up takes no record that the lookup still accepts (`CleanUpSparesValid`), no record outlives its installation (`EndsWithInstallation`), who stays installed keeps his right (`LoyalKeepsRight`), what an ended installation was granted is gone in the end (`Forgotten`) |
| `rightdb_removed` | 1 application | *violated*: after RemoveRight there is no right (`RemovedRightIsGone`) |
| `transfers` | 2 processes (one a system application), 1 address, 2 devices that take turns, 2 event handlers, 2 transfers, 5 programs | an answer finds its context (`ContextLive`), the driver does not work for the dead (`OrphanCancelled`), rights are checked against the device that is there (`KnownIsCurrent`), answers arrive (`AnswerDelivered`), a transfer is an asynchronous request (`ImplementsRequest`) |
| `service_and_client` | 2 attempts to bind, 5 budgets | the unload task is registered only while nothing is in use (`TimerMeansIdle`), an idle service goes (`IdleUnloads`), a proxy's death is noticed (`ProxyWatched`), every call returns unless the service keeps it or the process crashed (`CallReturns`) |
| `prompts` | 3 calls, 2 connection objects, 2 retries; 4 role switches, 2 devices, 2 policies at once, the threads of device mode | a request is prompted whatever comes last (`PromptNotLost`), a dismissed window goes (`NoWindowLeft`), null pointers only in the races named (`CrashOnlyHurried`), the port map follows the driver (`PortMapCurrent`), the notice goes with those who sent it (`NoNoticeLeft`) |

Why the bounds are enough. In `SerialManager` a bad interleaving needs two
calls on one port and perhaps a death: two threads, an application with its next
start, which has the same token, and the dump command, which has another, give
every pair, and ports are independent of one another. `MaxLinks` bounds the death
recipients of a process and port; with one, a recipient of the first process
still fires in a session of the second, which is the case that matters. In
`UsbRightDialog` the third call is the one that waits behind two; two of them
ask for the same right. In `UsbDeviceManager` the function sets are one with
HDC, one with HDC and a transfer function, one with neither; the model has no
counter. In `UsbAccessoryManager` two function sets tell whether the right one
comes back, and the third meets the accessory function chosen by a client. In `UsbHostManager` a race is between two threads about one device,
and what starts a thread is an input: three inputs (`MaxInputs`, which counts
events, calls, changes of the parameter and faults alike) give every pair, with
a fault or a third thread; the initial states add every policy, EDM loaded or
not, the parameter and the serial manager. A hub and a device that is serial
and has an interface of a banned type meet every rule of the walks. The twin is
there for the walks over ids: `TwinBound` lets it come second only, under a trust
list, without the hub and the serial policy. In
`UsbRightDb` the clock passes the period once, an application is
installed again or a second one is installed, and one event is under way while
the next thing happens; the faults have scenarios of their own, one with a longer
clock, in which an expired record can become valid again. In `UsbTransfers` a
hazard is between two processes at one address, or between one process and a
device that is replaced (`MaxPlugs`, per program: 2 where the address is used
again, 1 elsewhere); the programs
put together the calls that touch the same state. In `UsbSrvClient` one crash
and three calls, or three events with a policy and a refusal, give a reconnect
with another thread in every step, and a timer that is registered, taken back
and registered again; the other budgets put a call beside an event that keeps or
ends the service, two calls of which one is kept, and calls among refusals; two attempts to bind tell a late driver from one that
never comes. In `UsbFunctionSwitchWindow` three calls show, dismiss and show
again around boot and install check, and the second connection object is the one
that an old callback meets. In `UsbPortManager` four switches pass a query
twice; the notice's users meet the port only through the role a switch of users
reads, so two of the three gadget threads are checked with the moving port and
one with host mode, where two devices and two policies at once, besides
`AddDevice`, give every pair under the shared lock. Where an invariant is
also a theorem (below) the bounds do not matter.

Deadlock is checked in `device_events`, `accessory_events` and `rightdb`. In
`SerialManager` and `UsbRightDialog` the system may stop: all clients are dead,
or every call has returned. In the others it stops when the inputs (plugs,
calls, events, switches) are used up; that it does not stop in the middle of a
call is `NoCircularWait`, `CallReturns` and, for answers, `AnswerDelivered`.

### The refinements

`UsbTransfers` implements `AsyncRequest`: seen from the application, a context
that exists is an issued request, the call of its function the answer, an error
of the submission a refusal, and a death, a dropped answer or a submission that
ends without a word an abandonment. `ImplementsRequest` says that every step of
every layer is a step of `AsyncRequest` or leaves it alone: no transfer is
answered twice, after a refusal or after it was abandoned, however its
cancellation, its device's removal and its process's death interleave. The run
checks it for two transfers, `TransfersImplementRequest` proves it for any number.

`SerialManager` implements the lock `OwnedPort`, for clients that may do anything:
the owner of a port is its entry in `portTokenMap_`, who has passed
`CheckPortAndTokenId` is at work (`portWork`), and a token of which a process died
is gone (`deadTokens`). `SerialOpen` acquires, the check begins, the end of a read
or write ends, and the erasure at the end of a close releases; a death recipient
lets the port of a gone token expire. It is a lock with a weakness, which
`OwnedPort` states: work that is under way when its port is given up goes on as
stale work, and the end of a stale close breaks the lock, that is, takes the
port from whoever has it by then. So a port goes from one owner to another only
through nobody, a living owner loses it only to a close of that port
(`LostToWork`), and work that is not stale is the present owner's (`Exclusive`).

`UsbRightDialog` implements the server `UserConsent`: a call that holds
`dialogRunning_` is served until its connection comes up and asked from then on
(`consentPhase`), the displayed dialog is the question, `agreed` what the user
allowed. `ImplementsConsent` says that the user is asked about one call at a
time and once, that no call is answered while the question is displayed, and
that what the user allowed is not denied, unless a detach, a removal or a dying
host came between.

## Fairness

* Handlers that have begun go on (weak fairness of their steps): threads are
  scheduled. Where a step needs `functionMutex_` or `mutexHandleEvent_`, which
  others take again and again, or the timer thread, which serves two timers, strong fairness: nobody is starved for ever.
* The kernel delivers a death notice, the ability manager its callbacks, the
  timer its task, the common event service its events in the end.
* A user answers a dialog that is displayed, and `terminateSelf` of the dialog
  succeeds in the end: while it fails the dialog stays (`TerminateDialog`).
* In `UsbTransfers` the steps of the service, the two IPC hops of an answer and
  the task on the JS thread are fair; the task strongly, because the JS thread's
  event queue is first in, first out, while the thread is busy now and then.
  Nothing is assumed of the driver: it need not answer.
* In `UsbSrvClient` start, events, timer, unloading, exit and the client's
  threads go on; nothing has to be called, plugged or to crash, and a call that the
  service keeps need not be answered.
* Nobody has to call, plug, detach, die, install, grant or remove anything.

`RequestReturns` rests on the third point, on more IPC threads than waiting
calls, and excepts behaviours in which a connection without a dialog stays open
for ever; `Debounced` assumes in its own statement that the events stop, and
`IdleUnloads` that the service is idle from some time on.

## What is proved

All theorems hold for every value of the constants that satisfies the module's
named assumption (`SerialAssumption`, `DialogAssumption`, `DeviceAssumption`,
`HostAssumption`, `RightDbAssumption`,
`TransfersAssumption`, `ClientAssumption`, `WindowAssumption`,
`PortAssumption`), which only say what kind of thing a constant is. The type
invariants, `OneDialog`, `AgreementHonoured`, `PendingIsLast`,
`AwaitedIsTimed` and `LivingProxyWatched` are proved and are in no run's
configuration; `OneDialog` and `AgreementHonoured` say of the code's own state what
the refinement says of the abstract one. Each module ends with the strengthening its
proofs need (`SerialInv`, `DialogInv`, ...), a conjunction of the named parts
below; one lemma per action shows that the action preserves it.

`SerialManagerProofs`

* `TypeCorrect`: `Spec => []TypeOK`.
* `EntryAlwaysBacked`: `Spec => []EntryBacked` for any number of threads and
  clients. `EntryBacked` is inductive with the type: whoever closes the port in
  the driver is himself the exception until he erases the entry, and nobody opens
  a port that has an entry.
* `CloseLeaksNothing` (`NoOrphanByClose`), `FirstUsesAudited` (`AuditNotSilenced`)
  and `DeathIsWatched` (`DeadOwnerWatched`), from `SerialInv`, with overlapping
  calls of one token and deaths at any point. A call past its check owns its port
  until it is stale (`CallerOwns`); a close that is not stale has closed the port
  in the driver before the entry goes, and nobody opened it again because there is
  an entry (`ClosedInDriver`); what is recorded after the reset of a close is left
  over (`ResetBeforeErase`), and any other record belongs to a session
  (`FirstUseInSession`); a process inside `SerialOpen` or with an open port has its
  recipient registered while it lives (`OpenerLinked`).
* `ServiceImplementsLock`: `Spec => ImplementsLock`, again from `SerialInv`; each
  action has a lemma that names the step of the lock it is. The crux is the
  erasure at the end of a close, which is a release or a break, and makes the
  other calls on the port stale.
* `LockIsExclusive`: `ImplementsLock` implies `Exclusive` and `LostToWork`, proved
  about the abstract lock alone.

`UsbRightsProofs`: the dialog

* `DialogTypeCorrect`, `OneDialogAtATime`, `NoForeignWakeup`, `WakeupNotLost`,
  `AllowIsHonoured`, from `DialogInv`: the mutex is held between the two ends of
  a call (`MutexInv`); parameters, connection and a post belong to the holder,
  and there is a connection or a post but not both (`HolderInv`); an
  undisturbed Allow is on its way or in the table (`AgreedInv`).
* `DialogImplementsConsent`: `Spec => ImplementsConsent`, from `DialogInv`: a call
  is served only when nobody else is, because the mutex is free; it returns only
  when no dialog is left, because the one post is the end of its connection; and
  an allowed call finds its right, by `AgreedInv`.
* `ConsentIsKept`: `ImplementsConsent` implies that one call is in service at a
  time and that the user's Allow is kept, proved about `UserConsent` alone.

`UsbRightsProofs`: the table

* `ValidRecordsSpared`: the comparison of `IsRecordExpired` and the clause of the
  clean-up agree but for one instant, for every period and clock.
* `RightsEndWithInstallation` and `LoyalKeepsItsRight`, from `DbInv`. An account
  that is gone stays gone, and an event under way tells what has happened
  (`BundleInv`). What a grant has learnt of an application stays true until the
  application is over, so every record and every grant in hand is settled; and
  `TidyUpRight` holds between its steps only applications that were installed
  when it looked and dooms only those that are over (`GrantInv`). Without the
  last part a clean-up that looked before a reinstallation could take the
  right of an application that was never uninstalled. `LoyalKeepsItsRight` is an
  action property: each action that deletes has a lemma that says whose record
  it takes. Users, applications, installations, clock and queue are unbounded.

`UsbDeviceManagerProofs`

* `DeviceTypeCorrect`, `TimerNotStale`, `DebounceSettles`, `ReportsAreTrue`,
  from `DeviceInv`: an event in hand is the last one and has nothing registered,
  and what has expired is what the last event asked for unless they overlapped
  (`DebounceInv`); while nothing is mixed, the threads that change functions
  take turns, and each owes the rest only what its next step establishes
  (`TurnInv`).

`UsbAccessoryManagerProofs`

* `AccessoryTypeCorrect`, `BroadcastsAreTrue`, `TenSecondTaskNotLost`,
  `FunctionsRestored`, `UnpluggingIsHeeded`, from `AccessoryInv`: an undisturbed
  session owns the driver's functions from the request to their restoration,
  and its timer is registered or its task at work exactly while it waits
  (`SessionInv`); the stored, the debounced and the handled event are the last
  one (`EventInv`), and a stop that has not been handled is still on its way
  (`HeededInv`).

`UsbHostManagerProofs`

* `HostTypeCorrect`, `EntriesStayAlive`, `BroadcastsMatchStatus`,
  `KernelMatchesStatus`, from `HostInv`: the exclusive lock excludes every reader
  (`LockInv`); what a thread under the shared lock has in hand is an entry of
  `devices_` (`EntryInv`), which the removal cannot take away because it needs
  the exclusive lock; and about an undisturbed device at most one thread is
  deciding, and the status it read is the status it overwrites (`DecisionInv`).
* `PolicyIsInForce`, from `PolicyInv`, which says of the states where something is
  running what `PolicyInForce` says of the quiet ones: wherever the policy in
  force is not applied to a device, somebody is about to apply it (`ForceInv`).
  "About to" is a walk in a thread's plan that covers the device, a job in its
  hands, the strategy `AddDevice` or the watcher has still to ask for, or a notice
  of the serial parameter not yet delivered. So the plans must be those the
  entry points make, each with a policy that fits it (`PlanInv`), the jobs of a
  walk must ask for what that policy says (`JobInv`), and a thread that acts on
  an old policy must have every device it can reach excused (`FreshInv`). The
  watcher undoes exactly what the parameter did (`SerialInv`), and an interface is
  off only on a device that has a bannable one and is not disabled
  (`InterfaceInv`).
* `NobodyWaitsInACircle`: `Spec => []NoCircularWait`, from `PolicyInv`. An
  administrator's call brings its policy with it and never asks EDM, so it waits
  at most for devicesMutex_; whoever holds that mutex, shared or exclusively, is
  past all waiting (it asks EDM before it takes the mutex or after it gave it up).
* `SerialPolicyWithTypesOnly`: `Spec => []SerialPolicyInForce` under the assumption
  `TypesOnly` that the policies ban device types only. It is the other side of
  the finding `host_serial`: the type walk leaves serial devices alone, so what
  the watcher switched off stays off. `SerialForceInv` says it of the states
  where something is running: a recorded serial device is off, or the walk, the
  notice or the strategy that will switch it off is pending, and nobody but the
  watcher is switching it on (`SerialKept`); and no walk over a trust list is
  planned.

The bound on the inputs plays no part in any of them.

`UsbTransfersProofs`

* `ContextsLive`, `OrphansCancelled`, `KnownStaysCurrent` and the refinement
  `TransfersImplementRequest`, from `TransferInv`: a submission under way is the
  JS thread's of its owner, its context is built and its transfer is nowhere
  else (`SubmitInv`); a transfer waits in one place, with the driver, in the
  service or on its way back (`OnePlace`); what the driver has is addressed, and
  while its owner lives there is a recipient for it (`FlightWatched`);
  what a handler has read of an address and is going to record is as current as
  the record (`ReadIsCurrent`). The
  refinement rests on `ContextLive`: a step that calls the application's function
  needs the context to be the one that was issued. Any number of processes,
  transfers, addresses, devices and handlers, and events in any order.
* `RequestOutcomeIsFinal`: `ImplementsRequest` implies that an outcome never
  changes (`OutcomeIsFinal`), so no application is answered twice.

`UsbSrvClientProofs`

* `TimerOnlyIdle`, `ProxyIsWatched` and `LivingProxyIsWatched`, from `ClientInv`.
  `TimerMeansIdle` is not inductive: a thread that has looked and is about to
  register the task counts as the timer (`UnloadInv`). `mutex_` is held exactly
  by the thread that is making a connection (`MutexInv`), and what is watched is
  the living instance, while what was told dead or could not be watched is not
  it and never comes back (`InstanceInv`); so, but for a proxy without a remote
  object, the exceptions of `ProxyWatched` only concern dead instances, which is
  `LivingProxyWatched`. Any number of
  crashes, calls and attempts to bind.

`UsbPromptsProofs`: the window

* `CrashNeedsHurry`, `NoWindowIsLeft` and `PromptIsNotLost`, from `WindowInv`:
  `opMutex_` keeps caller and boot watcher apart (`LockInv`), and what a thread
  has found out about boot and installation is not taken back (`FoundInv`).
  Without a race one thread at a time uses the connection and finds there what
  it left (`ConnInv`); without a hurried Dismiss no callback is outstanding for an
  object that was told to abort (`CallbackInv`); a window belongs to the object in
  use and no disconnection waits behind it (`ShownInv`). A request is not lost
  because what it waits for will come (`AwaitedInv`), an abort is taken back
  before anybody connects (`ReopenInv`) and somebody is on the way to the window
  until it was displayed (`PromptInv`). Any number of calls and connection objects.

`UsbPromptsProofs`: the port

* `PortMapFollowsDriver` and `NoticesTakenBack`, from `PortInv`: the last event
  under way tells the driver's role (`LastEventTells`); the map is that role
  unless an event is under way or `Init` was overtaken (`FreshUnlessPending`);
  an answer in hand is as fresh, and under `mutex_` nothing can overtake it
  (`QueryInv`); a notice has an owner who is still there, or the disconnect
  task or a policy is about to take it back (`NoticeOwned`); a policy under way has
  found its device, which does not leave meanwhile (`PolicingInv`); and the connect
  task sends before the disconnect task can run (`TimerInv`). No
  bound on switches, devices or policies.

Only model-checked: liveness (`DeadOwnerFreed`, `RequestReturns`, `Debounced`,
`ConfiguringEnds`, `Forgotten`, `AnswerDelivered`, `IdleUnloads`, `CallReturns`),
which TLAPS does not prove.

## Findings

The runs marked *violated* show where the code differs from what a comment, an
assertion or a test of the repository says:

* `dialog_not_shown`: if the connect callback cannot show the dialog nobody
  posts the semaphore, and the call and all later ones sleep.
* `host_serial`: the strategy disables a serial device by the serial policy and
  authorises it again by the trust list in one pass, because
  `ManageDeviceImpl` does not ask whether the serial policy manages the device.
* `rightdb_removed`: RemoveRight succeeds and HasRight stays true if there is
  also a record of the default token, which AddRight writes.

Some races are not contradicted by any document and are named as exceptions in
the properties:

* serial ports: after the owner's death the next owner's first read is not
  reported, because `FreeTokenId` resets neither first-use record, and nor is it
  after a read that ran past the reset of a close (`AuditNotSilenced`); a close
  whose session was ended by another close or a death erases the entry of the next
  session, whose port then stays open without an owner (`ImplementsLock`,
  `NoOrphanByClose`); a process that dies inside `SerialOpen` may get the port after
  its recipient has run, and nobody frees it (`DeadOwnerWatched`);
* dialog: with every IPC thread inside RequestRight none is left for the
  callbacks that would end them;
* device mode: an event that is compared with `connected_` while an expired task
  is about to write it (`Settled`);
* right records: a grant that is so slow that its installation is over when it is
  written (`EndsWithInstallation`); a bundle manager that cannot be reached counts
  as "not installed" (`LoyalKeepsRight` is about behaviours without faults);
* accessory mode: an unplug that a popped debouncing task overwrites
  (`UnpluggedIsStopped`); a failed query while the host is awaited, which leaves
  ACC_CONFIGURING without a timer; ACCESSORYSEND in the middle of a session, which
  leaves the accessory function set and DETACHED unsent;
* host mode: two decisions about one device under the shared lock, after which a
  device may be shown and announced that the kernel has deauthorised
  (`SeenIsEnabled`, `KernelAgrees`);
* host mode: a device that cannot be opened keeps the trust list from the later
  devices of the same id (`PolicyInForce`);
* transfers: a process that dies between the registration of its recipient and
  the driver's acceptance leaves a transfer nobody cancels, and so does a cancel
  that the driver refuses the recipient (`OrphanCancelled`); a detach handled between
  an attach's read and its insertion leaves a record of a device that is gone, which
  the next insertion does not replace (`KnownIsCurrent`);
* life cycle: `ManagePolicy` does not evaluate the unload timer again; a refused
  unloading and a failed `Setup` of the timer are not tried again; a start that fails
  after the process is up leaves it loaded (`TimerMeansIdle`, `IdleUnloads`);
* client: the calls test and use `proxy_` without `mutex_`, so that a death notice
  between the two leaves a null pointer, and a call that the service keeps keeps
  its thread (`CallReturns`); a proxy without a remote object is kept
  (`ProxyWatched`);
* window: a Dismiss before the connect callback makes the callback's abort branch
  use the connection the Dismiss has dropped
  (`usb_function_switch_window.cpp:218`), and the install check shares the
  connection with holders of `opMutex_` (`CrashOnlyHurried`); a close command that
  the host does not obey leaves the window (`NoWindowLeft`);
* ports: an event that overtakes `Init` is lost (`PortMapCurrent`); SetPortRole's
  notice is decided by the old role, and a thread that has read `connected_` or a
  device's status may send after the disconnect or the policy (`NoNoticeLeft`).

Met while reading, and outside the models: `SetCurrentFunctions` of
`usb_srv_client.cpp` returns `false`, which is UEC_OK, if it cannot connect;
`DeviceCloseAccessory` (`usb_info.cpp`) goes on after it has thrown;
`supportedModeMap_` is filled by `Init` only; `UnShowUsbDialog` uses
`usbAbilityConn_` without a test, also after a refused connection
(`usb_right_manager.cpp:1055`); uninstall and user events that are published
while the service is unloaded are lost (`usb_service.cpp:2314`); the first serial
device is added before the serial manager exists (`usb_service.cpp:2640`);
`AddAccessRight` resolves bus and address to a device again, which may be another
one than the user was asked about (`usb_service.cpp:1620`).

## Abstractions and what is not modelled

* Data: device names, bundle names, tokens and function bit masks are model
  values or sets. Descriptors, transfer buffers, JSON parameters, resources,
  logs and reports are left out.
* `TaskReport` (broadcast, HDC notice, window) and `UpdateFunctions` are one
  step each: between their parts only output happens. The window has a module of
  its own, in which requests and dismissals come in any order.
* `CleanUpRightUserDeleted`, the two deletions of `RemoveRight` and the
  query-then-delete of an uninstall event are one step: the queries in between
  decide nothing that another thread can make wrong, because deleted users do
  not come back.
* `UsbRightDialog` and `SerialManager` keep a set of valid rights in the place
  of the table: a record of theirs is one that `HasRight` of `UsbRightDb`
  accepts, and it may disappear at any time.
* In `UsbHostManager` the driver's call, the broadcast and the new status of
  `UsbDeviceAuthorize` are one step: no thread reads what the first two change.
  A failed `OpenDevice` ends `ManageDeviceImpl` (`OpenFails`). A deauthorised
  device has no interfaces, and its interfaces come up authorised.
* In `UsbTransfers` a system application passes the check of its right and any
  other may pass or not; the length, flags and data of a transfer are left out, and the bulk
  callback classes, which forward one call each, are part of the driver's answer.
* In `UsbSrvClient` the methods of the client are families that connect, test and
  use the proxy in the same way. The default build is modelled, which passes calls
  through to the drivers.
* In `UsbPortManager` there is one port, and data role and mode change with the
  power role.
* Not modelled: the accessory's strings, `GetAccessoryList`, open and close of the
  accessory; function strings; opening and upgrading the store of rights; the
  descriptor parser, a pure function of bytes without state; dumps and system
  event reports, which only write; settings and marshalling; the conversion of
  arguments and results in the bindings; texts and icons of notices; the hardware
  and kernel side of the driver; generated IPC stubs.

## Plan

Done: a module for every part above but the descriptor parser, proofs for all of
them, three abstract specifications with their refinements. Left, in this order:

1. `UsbAccessoryManager`: the accessory's strings, `GetAccessoryList`, open and
   close, and the rights that end with a session.
2. Compositions: device mode with accessory mode over one driver; the dialog
   over `UsbRightDb` instead of a set of rights.
3. Pure algorithms: the descriptor parser over short byte sequences with its
   length arithmetic, function strings to masks and back.

Runs of later modules take one instance each where one instance can hold all of
a module's properties, with a second one only for its faults.
