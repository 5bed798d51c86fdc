--------------------------- MODULE UsbPortManager ---------------------------
(***************************************************************************)
(* The port (usb_port_manager.cpp) and the notice of its use               *)
(* (usb_connection_notifier.cpp).  portMap_ copies what the driver knows:  *)
(* a query fills it, PortChangedEvent updates it.  The query of Init runs  *)
(* without mutex_ after the subscriber is bound, so that an event can meet *)
(* it; the query of GetPorts runs under mutex_.  SetPortRole decides on    *)
(* the notice by portMap_, which the driver's event updates later.         *)
(*                                                                         *)
(* One port, of which only the power role matters; data role and mode      *)
(* change with it.                                                         *)
(*                                                                         *)
(* The notice has many users.  The device manager reads connected_ on      *)
(* three threads and sends or cancels later, with no lock that all take;   *)
(* the host manager writes a device's status and sends or cancels, in      *)
(* either order, under a lock that its threads share.  HostDevs are the    *)
(* devices that have a notice: neither hubs nor audio devices.             *)
(***************************************************************************)
EXTENDS Naturals, Sequences

CONSTANTS
  MaxSwitches,  \* bound on changes of the role
  HostDevs,     \* the devices of devices_ that have a notice
  Policers      \* threads that apply a policy of the administrator

ASSUME PortAssumption == MaxSwitches \in Nat

Roles == {"source", "sink"}
Other(r) == IF r = "source" THEN "sink" ELSE "source"

VARIABLES
  driverRole,    \* the driver's power role (external)
  events,        \* PortChangedEvents not yet handled
  portRole,      \* the role in portMap_, "none" without an entry
  modesKnown,    \* supportedModeMap_ has the port
  query,         \* QueryPort in progress: by whom, and the driver's answer
  setting,       \* SetPortRole has switched the driver and not yet returned
  switches,      \* changes of the role so far
  lastFunc,      \* lastFunc_, the notice displayed: "" if none
  status,        \* the authorisation status of each device in devices_
  publishing,    \* devices AddDevice has enabled and not yet published
  policing,      \* what each Policer is doing in UsbDeviceAuthorize
  connected,     \* connected_ of the device manager
  notifying,     \* how far each thread is in ProcessFunctionNotifier
  reverseFlag,   \* isReverseCharge_ of the device manager
  overtaken,     \* history: an event was dropped while Init held an older answer,
                 \* and none came since
  initFailed,    \* history: Init's query failed
  unowned        \* history: the notice is SetPortRole's or isReverseCharge_'s,
                 \* or came after its owner had left, or the owner was replaced

deviceVars == <<status, publishing, policing>>
gadgetVars == <<connected, notifying, reverseFlag>>
users      == <<deviceVars, gadgetVars>>
noticeVars == <<lastFunc, unowned, users>>
mapVars    == <<driverRole, events, portRole, modesKnown, query, setting,
                switches, overtaken, initFailed>>
portVars   == <<mapVars, noticeVars>>

NoQuery == [by |-> "none", role |-> "none"]

(* Who runs ProcessFunctionNotifier: the connection tasks, a call that     *)
(* sets functions (under functionMutex_), the switch of users.             *)
Notifiers == {"timer", "functions", "user"}

(* An idle Policer, and what one in UsbDeviceAuthorize does to a device.   *)
NoTask == [step |-> "idle", dev |-> "none", to |-> "none"]
Task(d, to, step) == [step |-> step, dev |-> d, to |-> to]

PortInit ==
  /\ driverRole \in Roles
  /\ events = <<>>
  /\ portRole = "none"
  /\ modesKnown = FALSE
  /\ query = [by |-> "Init", role |-> "none"]
  /\ setting = FALSE
  /\ switches = 0
  /\ lastFunc = ""
  /\ status = [d \in HostDevs |-> "absent"]
  /\ publishing = {}
  /\ policing = [p \in Policers |-> NoTask]
  /\ connected = FALSE
  /\ notifying = [t \in Notifiers |-> "idle"]
  /\ reverseFlag = FALSE
  /\ overtaken = FALSE
  /\ initFailed = FALSE
  /\ unowned = FALSE

Started == query.by # "Init"

(* mutex_ is held by a GetPorts that queries.                              *)
Locked == query.by = "GetPorts"

(***************************************************************************)
(* The port map.                                                           *)
(***************************************************************************)
(* Init asks the driver.                                                   *)
InitQuery ==
  /\ query = [by |-> "Init", role |-> "none"]
  /\ query' = [query EXCEPT !.role = driverRole]
  /\ UNCHANGED <<driverRole, events, portRole, modesKnown, setting, switches,
                 noticeVars, overtaken, initFailed>>

(* The service is published after Init, so that the map is still empty;    *)
(* AddSupportedMode runs only here.                                        *)
InitAdd ==
  /\ query.by = "Init"
  /\ query.role # "none"
  /\ portRole' = query.role
  /\ modesKnown' = TRUE
  /\ query' = NoQuery
  /\ UNCHANGED <<driverRole, events, setting, switches, noticeVars, overtaken, initFailed>>

InitFails ==
  /\ query = [by |-> "Init", role |-> "none"]
  /\ query' = NoQuery
  /\ initFailed' = TRUE
  /\ UNCHANGED <<driverRole, events, portRole, modesKnown, setting, switches,
                 noticeVars, overtaken>>

GetPorts ==
  /\ query = NoQuery
  /\ portRole = "none"
  /\ query' = [by |-> "GetPorts", role |-> driverRole]
  /\ UNCHANGED <<driverRole, events, portRole, modesKnown, setting, switches,
                 noticeVars, overtaken, initFailed>>

AddPort ==
  /\ query.by = "GetPorts"
  /\ portRole' = query.role
  /\ query' = NoQuery
  /\ UNCHANGED <<driverRole, events, modesKnown, setting, switches, noticeVars,
                 overtaken, initFailed>>

(* Mutant: UpdatePort does not take mutex_.                                *)
UpdatePortMutant ==
  /\ events # <<>>
  /\ events' = Tail(events)
  /\ portRole' = IF portRole = "none" THEN "none" ELSE Head(events)
  /\ overtaken' = IF portRole = "none"
                  THEN overtaken \/ (query.by = "Init" /\ query.role # "none")
                  ELSE FALSE
  /\ UNCHANGED <<driverRole, modesKnown, query, setting, switches, noticeVars, initFailed>>

(* PortChangedEvent; an event for a port that is not listed is dropped.    *)
UpdatePort ==
  /\ events # <<>>
  /\ ~Locked
  /\ events' = Tail(events)
  /\ portRole' = IF portRole = "none" THEN "none" ELSE Head(events)
  /\ overtaken' = IF portRole = "none"
                  THEN overtaken \/ (query.by = "Init" /\ query.role # "none")
                  ELSE FALSE
  /\ UNCHANGED <<driverRole, modesKnown, query, setting, switches, noticeVars, initFailed>>

(* The partner at the other end swaps the roles.                           *)
Swap ==
  /\ switches < MaxSwitches
  /\ switches' = switches + 1
  /\ driverRole' = Other(driverRole)
  /\ events' = Append(events, driverRole')
  /\ UNCHANGED <<portRole, modesKnown, query, setting, noticeVars, overtaken, initFailed>>

(***************************************************************************)
(* The notice.  Where the product supports no function none is displayed;  *)
(* the notice of HDC is part of UsbDeviceManager.                          *)
(***************************************************************************)
SendNotification(func, odd) ==
  /\ lastFunc' = func
  /\ unowned' = odd

(* Mutant: every caller cancels only a notice of reverse charging.         *)
CancelNotificationMutant(isHost) ==
  IF lastFunc # "reverse"
  THEN UNCHANGED <<lastFunc, unowned>>
  ELSE lastFunc' = "" /\ unowned' = FALSE

(* Host mode takes back the notice of reverse charging, device mode the    *)
(* others.                                                                 *)
CancelNotification(isHost) ==
  IF isHost # (lastFunc = "reverse")
  THEN UNCHANGED <<lastFunc, unowned>>
  ELSE lastFunc' = "" /\ unowned' = FALSE

(***************************************************************************)
(* SetPortRole, under setPortRoleMutex_, in two steps.                     *)
(***************************************************************************)
(* A call the driver refuses changes nothing.                              *)
SetPortRole(r) ==
  /\ Started
  /\ ~setting
  /\ switches < MaxSwitches
  /\ switches' = switches + 1
  /\ setting' = TRUE
  /\ driverRole' = r
  /\ events' = IF r = driverRole THEN events ELSE Append(events, r)
  /\ UNCHANGED <<portRole, modesKnown, query, noticeVars, overtaken, initFailed>>

(* On portMap_ and without mutex_.                                         *)
IsReverseCharge == portRole = "source"

NotifyRole ==
  /\ setting
  /\ setting' = FALSE
  /\ SendNotification(IF IsReverseCharge THEN "reverse" ELSE "charge", TRUE)
  /\ UNCHANGED <<driverRole, events, portRole, modesKnown, query, switches,
                 users, overtaken, initFailed>>

(***************************************************************************)
(* Host mode.  devicesMutex_ is shared but for the insertion and removal.  *)
(***************************************************************************)
Unshared == publishing = {} /\ \A p \in Policers : policing[p] = NoTask

(* A device stays, as far as the policies under way go.                    *)
Backed(d) ==
  /\ \/ status[d] = "enabled"
     \/ \E p \in Policers : policing[p] = Task(d, "enabled", "write")
  /\ \A p \in Policers : policing[p] # Task(d, "disabled", "write")

HasOwner == \E d \in HostDevs : Backed(d)

(* AddDevice inserts the device; a record it replaces, whose detach event  *)
(* was missed, takes no notice back.                                       *)
HostArrives(d) ==
  /\ Unshared
  /\ status' = [status EXCEPT ![d] = "new"]
  /\ UNCHANGED <<mapVars, publishing, policing, gadgetVars, lastFunc>>
  /\ unowned' = (unowned \/ (lastFunc = "reverse" /\ ~HasOwner'))

(* After ExecuteStrategy it enables the device, unless a policy disabled   *)
(* it; the notice follows.                                                 *)
HostAttached(d) ==
  /\ status[d] = "new"
  /\ status' = [status EXCEPT ![d] = "enabled"]
  /\ publishing' = publishing \union {d}
  /\ UNCHANGED <<mapVars, policing, gadgetVars, lastFunc, unowned>>

(* A policy may have disabled the device meanwhile.                        *)
HostPublish(d) ==
  /\ d \in publishing
  /\ publishing' = publishing \ {d}
  /\ SendNotification("reverse", ~HasOwner)
  /\ UNCHANGED <<mapVars, status, policing, gadgetVars>>

(* DelDevice; only an enabled device takes its notice back.                *)
HostDetached(d) ==
  /\ Unshared
  /\ status[d] # "absent"
  /\ status' = [status EXCEPT ![d] = "absent"]
  /\ IF status[d] = "enabled" THEN CancelNotification(TRUE)
     ELSE UNCHANGED <<lastFunc, unowned>>
  /\ UNCHANGED <<mapVars, publishing, policing, gadgetVars>>

(* UsbDeviceAuthorize reads the status; a driver that refuses ends it.     *)
(* A newly arrived device has no event.                                    *)
Authorize(p, d, to) ==
  /\ policing[p] = NoTask
  /\ status[d] # "absent"
  /\ to = "enabled" <=> status[d] = "disabled"
  /\ policing' = [policing EXCEPT ![p] =
                    Task(d, to, IF status[d] = "new" THEN "write" ELSE "publish")]
  /\ UNCHANGED <<mapVars, status, publishing, gadgetVars, lastFunc, unowned>>

AuthorizePublish(p) ==
  /\ policing[p].step = "publish"
  /\ policing' = [policing EXCEPT ![p].step = "write"]
  /\ UNCHANGED <<mapVars, status, publishing, gadgetVars>>
  /\ IF policing[p].to = "enabled"
     THEN SendNotification("reverse", ~HasOwner')
     ELSE CancelNotification(TRUE)

AuthorizeWrite(p) ==
  /\ policing[p].step = "write"
  /\ status' = [status EXCEPT ![policing[p].dev] = policing[p].to]
  /\ policing' = [policing EXCEPT ![p] = NoTask]
  /\ UNCHANGED <<mapVars, publishing, gadgetVars, lastFunc, unowned>>

HostNext ==
  \/ \E d \in HostDevs :
        \/ HostArrives(d) \/ HostAttached(d) \/ HostPublish(d) \/ HostDetached(d)
        \/ \E p \in Policers, to \in {"enabled", "disabled"} : Authorize(p, d, to)
  \/ \E p \in Policers : AuthorizePublish(p) \/ AuthorizeWrite(p)

(***************************************************************************)
(* Device mode.  Only the tasks of the timer write connected_.             *)
(***************************************************************************)
Reach(t, place) == notifying' = [notifying EXCEPT ![t] = place]

(* The connect task and the disconnect task of HandleEvent.                *)
ConnectionTask(up) ==
  /\ notifying["timer"] = "idle"
  /\ connected' = up
  /\ Reach("timer", IF up THEN "connected" ELSE "disconnected")
  /\ UNCHANGED <<mapVars, deviceVars, reverseFlag, lastFunc, unowned>>

(* A switch of users is the only time isReverseCharge_ is refreshed.       *)
UserChangeProcess ==
  /\ Started
  /\ notifying["user"] = "idle"
  /\ reverseFlag' = IsReverseCharge
  /\ Reach("user", "entered")
  /\ UNCHANGED <<mapVars, deviceVars, connected, lastFunc, unowned>>

(* UpdateFunctions and UserChangeProcess pass on connected_.               *)
ReadConnected(t) ==
  /\ \/ t = "functions" /\ notifying[t] = "idle"
     \/ t = "user" /\ notifying[t] = "entered"
  /\ Reach(t, IF connected THEN "connected" ELSE "disconnected")
  /\ UNCHANGED <<mapVars, deviceVars, connected, reverseFlag, lastFunc, unowned>>

(* ProcessFunctionNotifier chooses the notice by the functions, then by    *)
(* isReverseCharge_.                                                       *)
ProcessFunctionNotifier(t, transfer) ==
  /\ notifying[t] = "connected"
  /\ Reach(t, IF transfer THEN "transfer" ELSE IF reverseFlag THEN "reverse" ELSE "charge")
  /\ UNCHANGED <<mapVars, deviceVars, connected, reverseFlag, lastFunc, unowned>>

(* It sends the notice, which is late if the disconnect task came between; *)
(* the tasks themselves are never late.                                    *)
GadgetSends(t) ==
  /\ notifying[t] \in {"transfer", "reverse", "charge"}
  /\ SendNotification(notifying[t], notifying[t] = "reverse" \/ (t # "timer" /\ ~connected))
  /\ Reach(t, "idle")
  /\ UNCHANGED <<mapVars, deviceVars, connected, reverseFlag>>

GadgetCancels(t) ==
  /\ notifying[t] = "disconnected"
  /\ CancelNotification(FALSE)
  /\ Reach(t, "idle")
  /\ UNCHANGED <<mapVars, deviceVars, connected, reverseFlag>>

GadgetNext ==
  \/ \E up \in BOOLEAN : ConnectionTask(up)
  \/ UserChangeProcess
  \/ \E t \in Notifiers :
        \/ ReadConnected(t) \/ GadgetSends(t) \/ GadgetCancels(t)
        \/ \E transfer \in BOOLEAN : ProcessFunctionNotifier(t, transfer)

MapNext ==
  \/ InitQuery \/ InitAdd \/ InitFails \/ GetPorts \/ AddPort \/ UpdatePort
  \/ Swap \/ NotifyRole
  \/ \E r \in Roles : SetPortRole(r)

PortNext == MapNext \/ HostNext \/ GadgetNext

PortSpec == PortInit /\ [][PortNext]_portVars

-----------------------------------------------------------------------------
(* Once the driver's events are handled, portMap_ tells the driver's role  *)
(* and the supported modes of the port are known with it, unless an event  *)
(* overtook the answer to Init's unlocked query and was the last, or that  *)
(* query failed.                                                           *)
PortMapCurrent ==
  events = <<>> /\ query = NoQuery /\ portRole # "none"
    => /\ overtaken \/ portRole = driverRole
       /\ initFailed \/ modesKnown

(* Nothing is connected, and no thread is about to say so or otherwise.    *)
NobodyConnected ==
  /\ ~connected /\ \A t \in Notifiers : notifying[t] = "idle"
  /\ Unshared /\ \A d \in HostDevs : status[d] # "enabled"

(* When nothing is connected in either mode and no thread is about to send *)
(* or cancel, no notice stays, unless SetPortRole or the stale             *)
(* isReverseCharge_ sent it, which nobody's end takes back (a gadget's     *)
(* disconnect spares reverse charging), or it was sent too late: by        *)
(* UpdateFunctions or UserChangeProcess after the disconnect task, or for  *)
(* a device that another thread's policy was disabling, or its device was  *)
(* replaced in devices_ without an event.                                  *)
NoNoticeLeft == NobodyConnected /\ ~unowned => lastFunc = ""

(***************************************************************************)
(* The strengthening that makes the two properties inductive.              *)
(***************************************************************************)
MapTypeOK ==
  /\ driverRole \in Roles
  /\ events \in Seq(Roles)
  /\ portRole \in Roles \union {"none"}
  /\ modesKnown \in BOOLEAN
  /\ query \in [by : {"none", "Init", "GetPorts"}, role : Roles \union {"none"}]
  /\ setting \in BOOLEAN
  /\ switches \in Nat
  /\ overtaken \in BOOLEAN /\ initFailed \in BOOLEAN

NoticeTypeOK ==
  /\ lastFunc \in {"", "reverse", "charge", "transfer"}
  /\ status \in [HostDevs -> {"absent", "new", "enabled", "disabled"}]
  /\ publishing \subseteq HostDevs
  /\ policing \in [Policers -> [step : {"idle", "publish", "write"},
                                dev : HostDevs \union {"none"},
                                to : {"enabled", "disabled", "none"}]]
  /\ notifying \in [Notifiers -> {"idle", "entered", "connected", "disconnected",
                                  "transfer", "reverse", "charge"}]
  /\ connected \in BOOLEAN /\ reverseFlag \in BOOLEAN /\ unowned \in BOOLEAN

PortTypeOK == MapTypeOK /\ NoticeTypeOK

(* The last event on its way tells the driver's role.                      *)
LastEventTells == events # <<>> => events[Len(events)] = driverRole

(* An answer or an entry is old only while an event is on its way.         *)
FreshUnlessPending ==
  events = <<>> /\ ~overtaken =>
     /\ query.role # "none" => query.role = driverRole
     /\ portRole # "none" => portRole = driverRole

QueryInv ==
  /\ query.by = "Init" => portRole = "none"
  /\ query.by = "none" => query.role = "none"
  /\ query.by # "Init" => initFailed \/ modesKnown

(* Who displays a notice is still there to take it back, or is at it.      *)
NoticeOwned ==
  ~unowned => /\ lastFunc = "reverse" => HasOwner
              /\ lastFunc \in {"charge", "transfer"}
                   => connected \/ notifying["timer"] = "disconnected"

(* A policy under way has found its device, one that enables it has found  *)
(* it disabled; the device does not leave meanwhile.                       *)
PolicingInv ==
  \A p \in Policers : policing[p].step # "idle" =>
     /\ policing[p].dev \in HostDevs
     /\ policing[p].to \in {"enabled", "disabled"}
     /\ policing[p].to = "enabled" => status[policing[p].dev] # "new"

(* The connect task sends before the disconnect task can run.              *)
TimerInv ==
  notifying["timer"] \in {"connected", "transfer", "reverse", "charge"} => connected

MapInv    == MapTypeOK /\ LastEventTells /\ FreshUnlessPending /\ QueryInv
NoticeInv == NoticeTypeOK /\ NoticeOwned /\ PolicingInv /\ TimerInv
PortInv   == MapInv /\ NoticeInv
=============================================================================
