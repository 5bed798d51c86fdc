-------------------------- MODULE UsbPromptsProofs --------------------------
(***************************************************************************)
(* Proofs about what the user is shown: the port map with its notice, and  *)
(* the function switch window.  The two share no state.                    *)
(*                                                                         *)
(* PortInv is inductive: the map and the answer of a query are old only    *)
(* while an event that tells the driver's role is still on its way.  The   *)
(* notice has an owner: a device that no policy is about to disable, or a  *)
(* connection whose disconnect task has still to cancel.                   *)
(*                                                                         *)
(* WindowInv is inductive: opMutex_ keeps the caller and the boot callback *)
(* apart, so that only the unlocked check can race for the connection; a   *)
(* Dismiss that is not hurried finds no callback outstanding; the window   *)
(* belongs to the connection in use; and as long as the boot or the        *)
(* installation is missing, something waits that will bring it.            *)
(***************************************************************************)
EXTENDS UsbFunctionSwitchWindow, UsbPortManager, TLAPS

(***************************************************************************)
(* The port map and the notice.                                            *)
(***************************************************************************)
(* The initial state satisfies the invariant.                              *)
LEMMA PortInitInv == PortInit => PortInv
<1> SUFFICES ASSUME PortInit PROVE PortInv
  OBVIOUS
<1>1. MapTypeOK
  <2>1. events \in Seq(Roles)
    <3>1. events = <<>>  BY DEF PortInit
    <3> QED  BY <3>1
  <2>2. query \in [by : {"none", "Init", "GetPorts"}, role : Roles \union {"none"}]
    BY DEF PortInit
  <2>3. switches \in Nat
    <3>1. switches = 0  BY DEF PortInit
    <3> QED  BY <3>1
  <2> QED  BY <2>1, <2>2, <2>3 DEF PortInit, MapTypeOK
<1>2. LastEventTells /\ FreshUnlessPending /\ QueryInv
  BY DEF PortInit, LastEventTells, FreshUnlessPending, QueryInv
<1>3. NoticeTypeOK  BY DEF PortInit, NoticeTypeOK, NoTask
<1>4. NoticeOwned  BY DEF PortInit, NoticeOwned
<1>5. PolicingInv /\ TimerInv
  BY DEF PortInit, PolicingInv, TimerInv, NoTask, Notifiers
<1> QED  BY <1>1, <1>2, <1>3, <1>4, <1>5 DEF PortInv, MapInv, NoticeInv

(* A sequence with an element appended to it ends with that element.       *)
LEMMA AppendEnds ==
  ASSUME NEW s \in Seq(Roles), NEW r \in Roles
  PROVE  /\ Append(s, r) \in Seq(Roles)
         /\ Append(s, r) # <<>>
         /\ Append(s, r)[Len(Append(s, r))] = r
OBVIOUS

(* Taking the head keeps the last element; a last head is that element.    *)
LEMMA TailEnds ==
  ASSUME NEW s \in Seq(Roles), s # <<>>
  PROVE  /\ Head(s) \in Roles
         /\ Tail(s) \in Seq(Roles)
         /\ Tail(s) # <<>> => Tail(s)[Len(Tail(s))] = s[Len(s)]
         /\ Tail(s) = <<>> => Head(s) = s[Len(s)]
<1>1. /\ Len(s) \in Nat
      /\ Head(s) = s[1] /\ Head(s) \in Roles
      /\ Tail(s) \in Seq(Roles) /\ Len(Tail(s)) = Len(s) - 1
  OBVIOUS
<1>2. Tail(s) # <<>> => Tail(s)[Len(Tail(s))] = s[Len(s)]
  OBVIOUS
<1>3. Tail(s) = <<>> => Len(s) = 1
  <2>1. Len(<<>>) = 0  OBVIOUS
  <2>2. Tail(s) = <<>> => Len(Tail(s)) = 0  BY <2>1, Zenon
  <2>3. Len(s) \in Nat /\ Len(Tail(s)) = Len(s) - 1  BY <1>1
  <2> QED  BY <2>2, <2>3
<1> QED  BY <1>1, <1>2, <1>3

(* The query of Init and that of GetPorts.                                 *)
LEMMA QuerySteps ==
  ASSUME MapInv,
         InitQuery \/ InitAdd \/ InitFails \/ GetPorts \/ AddPort
  PROVE  MapInv'
<1> USE DEF MapInv, MapTypeOK, LastEventTells, FreshUnlessPending, QueryInv, NoQuery
<1>1. CASE InitQuery  BY <1>1 DEF InitQuery
<1>2. CASE InitAdd    BY <1>2 DEF InitAdd
<1>3. CASE InitFails  BY <1>3 DEF InitFails
<1>4. CASE GetPorts   BY <1>4 DEF GetPorts
<1>5. CASE AddPort    BY <1>5 DEF AddPort
<1> QED  BY <1>1, <1>2, <1>3, <1>4, <1>5

(* An event is handled: an entry that is listed becomes the driver's role  *)
(* with the last event.                                                    *)
LEMMA UpdateStep ==
  ASSUME MapInv, UpdatePort
  PROVE  MapInv'
<1> USE DEF MapInv, MapTypeOK
<1>1. /\ Head(events) \in Roles
      /\ Tail(events) \in Seq(Roles)
      /\ Tail(events) # <<>> => Tail(events)[Len(Tail(events))] = driverRole
      /\ Tail(events) = <<>> => Head(events) = driverRole
  BY TailEnds DEF UpdatePort, LastEventTells
<1>2. MapTypeOK'  BY <1>1 DEF UpdatePort
<1>3. LastEventTells'  BY <1>1 DEF UpdatePort, LastEventTells
<1>4. FreshUnlessPending'
  <2>1. CASE portRole = "none"
    BY <1>1, <2>1 DEF UpdatePort, FreshUnlessPending, QueryInv, Locked
  <2>2. CASE portRole # "none"
    BY <1>1, <2>2 DEF UpdatePort, FreshUnlessPending, QueryInv, Locked
  <2> QED  BY <2>1, <2>2
<1>5. QueryInv'  BY DEF UpdatePort, QueryInv
<1> QED  BY <1>2, <1>3, <1>4, <1>5

(* The role is switched from either end: its event is appended.            *)
LEMMA SwitchSteps ==
  ASSUME MapInv, NEW r \in Roles, Swap \/ SetPortRole(r)
  PROVE  MapInv'
<1>0. /\ driverRole \in Roles /\ events \in Seq(Roles)
      /\ switches \in Nat /\ setting \in BOOLEAN
      /\ LastEventTells
  BY DEF MapInv, MapTypeOK
<1>1. /\ driverRole' \in Roles /\ events' \in Seq(Roles)
      /\ switches' \in Nat /\ setting' \in BOOLEAN
      /\ events' # <<>> => events'[Len(events')] = driverRole'
      /\ events' = <<>> => events = <<>> /\ driverRole' = driverRole
  <2>1. switches' \in Nat
    <3>1. switches' = switches + 1  BY DEF Swap, SetPortRole
    <3> QED  BY <1>0, <3>1
  <2>2. CASE Swap
    <3>1. driverRole' \in Roles  BY <2>2 DEF Swap, Other, Roles
    <3>2. events' = Append(events, driverRole') /\ setting' = setting
      BY <2>2 DEF Swap
    <3> QED  BY <1>0, <2>1, <3>1, <3>2, AppendEnds
  <2>3. CASE SetPortRole(r) /\ r = driverRole
    <3>1. events' = events /\ driverRole' = driverRole /\ setting' = TRUE
      BY <2>3 DEF SetPortRole
    <3> QED  BY <1>0, <2>1, <3>1 DEF LastEventTells
  <2>4. CASE SetPortRole(r) /\ r # driverRole
    <3>1. events' = Append(events, r) /\ driverRole' = r /\ setting' = TRUE
      BY <2>4 DEF SetPortRole
    <3> QED  BY <1>0, <2>1, <3>1, AppendEnds
  <2> QED  BY <2>2, <2>3, <2>4
<1>2. UNCHANGED <<portRole, modesKnown, query, overtaken, initFailed>>
  BY DEF Swap, SetPortRole
<1>3. MapTypeOK'  BY <1>1, <1>2 DEF MapInv, MapTypeOK
<1>4. LastEventTells'  BY <1>1 DEF LastEventTells
<1>5. FreshUnlessPending'  BY <1>1, <1>2 DEF MapInv, FreshUnlessPending
<1>6. QueryInv'  BY <1>2 DEF MapInv, QueryInv
<1> QED  BY <1>3, <1>4, <1>5, <1>6 DEF MapInv

(* Without a change of the map its part of the invariant stays.            *)
LEMMA MapUnchanged ==
  ASSUME MapInv, UNCHANGED mapVars
  PROVE  MapInv'
BY DEF MapInv, MapTypeOK, LastEventTells, FreshUnlessPending, QueryInv, mapVars

(* A device that stays stays an owner, whatever becomes of the others.     *)
LEMMA OwnerStays ==
  ASSUME \A e \in HostDevs : Backed(e) => Backed(e)', HasOwner
  PROVE  HasOwner'
BY DEF HasOwner

(* Without a change of the users or the notice their part stays.           *)
LEMMA NoticeUnchanged ==
  ASSUME NoticeInv, UNCHANGED noticeVars
  PROVE  NoticeInv'
<1>1. UNCHANGED <<lastFunc, unowned, status, publishing, policing,
                  connected, notifying, reverseFlag>>
  BY DEF noticeVars, users, deviceVars, gadgetVars
<1>2. \A e \in HostDevs : Backed(e) => Backed(e)'  BY <1>1 DEF Backed
<1>3. NoticeTypeOK'  BY <1>1 DEF NoticeInv, NoticeTypeOK
<1>4. NoticeOwned'  BY <1>1, <1>2, OwnerStays DEF NoticeInv, NoticeOwned
<1>5. PolicingInv' /\ TimerInv'  BY <1>1 DEF NoticeInv, PolicingInv, TimerInv
<1> QED  BY <1>3, <1>4, <1>5 DEF NoticeInv

(* SetPortRole sends a notice that is nobody's.                            *)
LEMMA RoleStep ==
  ASSUME PortInv, NotifyRole
  PROVE  PortInv'
<1>1. MapInv'
  BY DEF PortInv, MapInv, MapTypeOK, LastEventTells, FreshUnlessPending, QueryInv,
         NotifyRole
<1>2. /\ lastFunc' \in {"reverse", "charge"} /\ unowned' = TRUE
      /\ UNCHANGED <<status, publishing, policing, connected, notifying, reverseFlag>>
  BY DEF NotifyRole, SendNotification, users, deviceVars, gadgetVars
<1>3. NoticeTypeOK'  BY <1>2 DEF PortInv, NoticeInv, NoticeTypeOK
<1>4. NoticeOwned'  BY <1>2 DEF NoticeOwned
<1>5. PolicingInv' /\ TimerInv'  BY <1>2 DEF PortInv, NoticeInv, PolicingInv, TimerInv
<1> QED  BY <1>1, <1>3, <1>4, <1>5 DEF PortInv, NoticeInv

(* The steps of the map.                                                   *)
LEMMA MapSteps ==
  ASSUME PortInv, MapNext
  PROVE  PortInv'
<1>1. CASE NotifyRole  BY <1>1, RoleStep
<1>2. CASE \/ InitQuery \/ InitAdd \/ InitFails \/ GetPorts \/ AddPort \/ UpdatePort
           \/ Swap \/ \E r \in Roles : SetPortRole(r)
  <2>1. MapInv'
    BY <1>2, QuerySteps, UpdateStep, SwitchSteps DEF PortInv, Roles
  <2>2. UNCHANGED noticeVars
    BY <1>2 DEF InitQuery, InitAdd, InitFails, GetPorts, AddPort, UpdatePort, Swap,
                SetPortRole
  <2> QED  BY <2>1, <2>2, NoticeUnchanged DEF PortInv
<1> QED  BY <1>1, <1>2 DEF MapNext

(* What a notice sent or taken back leaves.                                *)
LEMMA NoticeChanges ==
  ASSUME NEW f \in {"reverse", "charge", "transfer"}, NEW odd \in BOOLEAN,
         NEW isHost \in BOOLEAN, unowned \in BOOLEAN
  PROVE  /\ SendNotification(f, odd) => lastFunc' = f /\ unowned' = odd
         /\ CancelNotification(isHost) =>
              /\ \/ lastFunc' = "" /\ unowned' = FALSE
                 \/ UNCHANGED <<lastFunc, unowned>>
              /\ isHost => lastFunc' # "reverse"
              /\ ~isHost => lastFunc' \in {"", "reverse"}
<1>1. SendNotification(f, odd) => lastFunc' = f /\ unowned' = odd
  BY DEF SendNotification
<1>2. CASE isHost
  BY <1>1, <1>2 DEF CancelNotification
<1>3. CASE ~isHost
  BY <1>1, <1>3 DEF CancelNotification
<1> QED  BY <1>2, <1>3

(* Devices come, are enabled and disabled, and go.                         *)
LEMMA HostSteps ==
  ASSUME NoticeInv, HostNext
  PROVE  NoticeInv'
<1>1. /\ NoticeTypeOK /\ NoticeOwned /\ PolicingInv /\ TimerInv  BY DEF NoticeInv
<1>2. UNCHANGED <<connected, notifying, reverseFlag>>
  BY DEF HostNext, HostArrives, HostAttached, HostPublish, HostDetached, Authorize,
         AuthorizePublish, AuthorizeWrite, gadgetVars
<1>3. TimerInv'  BY <1>1, <1>2 DEF TimerInv
<1>4. ASSUME NEW d \in HostDevs, HostArrives(d) PROVE NoticeInv'
  <2>1. /\ status' = [status EXCEPT ![d] = "new"]
        /\ UNCHANGED <<publishing, policing, lastFunc>>
        /\ unowned' = (unowned \/ (lastFunc = "reverse" /\ ~HasOwner'))
        /\ \A p \in Policers : policing[p] = NoTask
    BY <1>4 DEF HostArrives, Unshared
  <2>2. unowned' \in BOOLEAN  BY <2>1
  <2>3. NoticeTypeOK'  BY <1>1, <1>2, <2>1, <2>2 DEF NoticeTypeOK
  <2>4. NoticeOwned'
    <3>1. CASE unowned'  BY <3>1 DEF NoticeOwned
    <3>2. CASE ~unowned'
      <4>1. ~unowned /\ (lastFunc' = "reverse" => HasOwner')  BY <2>1, <3>2
      <4> QED  BY <1>1, <1>2, <2>1, <4>1 DEF NoticeOwned
    <3> QED  BY <3>1, <3>2
  <2>5. PolicingInv'  BY <2>1 DEF PolicingInv, NoTask
  <2> QED  BY <1>3, <2>3, <2>4, <2>5 DEF NoticeInv
<1>5. ASSUME NEW d \in HostDevs, HostAttached(d) PROVE NoticeInv'
  <2>1. /\ status[d] = "new" /\ status' = [status EXCEPT ![d] = "enabled"]
        /\ publishing' = publishing \union {d}
        /\ UNCHANGED <<policing, lastFunc, unowned>>
    BY <1>5 DEF HostAttached
  <2>2. \A e \in HostDevs : status[e] = "enabled" => status'[e] = "enabled"
    BY <1>1, <2>1 DEF NoticeTypeOK
  <2>3. \A e \in HostDevs : Backed(e) => Backed(e)'  BY <2>1, <2>2 DEF Backed
  <2>4. NoticeTypeOK'  BY <1>1, <1>2, <2>1 DEF NoticeTypeOK
  <2>5. NoticeOwned'  BY <1>1, <1>2, <2>1, <2>3, OwnerStays DEF NoticeOwned
  <2>6. PolicingInv'
    <3>1. \A e \in HostDevs : status[e] # "new" => status'[e] # "new"
      BY <1>1, <2>1 DEF NoticeTypeOK
    <3> QED  BY <1>1, <2>1, <3>1 DEF PolicingInv
  <2> QED  BY <1>3, <2>4, <2>5, <2>6 DEF NoticeInv
<1>6. ASSUME NEW d \in HostDevs, HostPublish(d) PROVE NoticeInv'
  <2>1. /\ publishing' = publishing \ {d} /\ UNCHANGED <<status, policing>>
        /\ lastFunc' = "reverse" /\ unowned' = ~HasOwner
    BY <1>6 DEF HostPublish, SendNotification
  <2>2. \A e \in HostDevs : Backed(e) => Backed(e)'  BY <2>1 DEF Backed
  <2>3. NoticeTypeOK'
    <3>1. unowned' \in BOOLEAN  BY <2>1
    <3> QED  BY <1>1, <1>2, <2>1, <3>1 DEF NoticeTypeOK
  <2>4. NoticeOwned'
    <3>1. ~unowned' => HasOwner'  BY <2>1, <2>2, OwnerStays
    <3> QED  BY <2>1, <3>1 DEF NoticeOwned
  <2>5. PolicingInv'  BY <1>1, <2>1 DEF PolicingInv
  <2> QED  BY <1>3, <2>3, <2>4, <2>5 DEF NoticeInv
<1>7. ASSUME NEW d \in HostDevs, HostDetached(d) PROVE NoticeInv'
  <2>1. /\ status' = [status EXCEPT ![d] = "absent"]
        /\ UNCHANGED <<publishing, policing>>
        /\ \A p \in Policers : policing[p] = NoTask
    BY <1>7 DEF HostDetached, Unshared
  <2>2. PolicingInv'  BY <2>1 DEF PolicingInv, NoTask
  <2>3. CASE status[d] = "enabled"
    <3>1. /\ \/ lastFunc' = "" /\ unowned' = FALSE
             \/ UNCHANGED <<lastFunc, unowned>>
          /\ lastFunc' # "reverse"
      BY <1>7, <2>3, <1>1, NoticeChanges DEF HostDetached, NoticeTypeOK
    <3>2. NoticeTypeOK'
      <4>1. lastFunc' \in {"", "reverse", "charge", "transfer"} /\ unowned' \in BOOLEAN
        BY <1>1, <3>1 DEF NoticeTypeOK
      <4> QED  BY <1>1, <1>2, <2>1, <4>1 DEF NoticeTypeOK
    <3>3. NoticeOwned'
      <4>1. CASE lastFunc' = ""  BY <4>1 DEF NoticeOwned
      <4>2. CASE UNCHANGED <<lastFunc, unowned>>
        <5>1. lastFunc' # "reverse"  BY <3>1
        <5>2. ~unowned' /\ lastFunc' \in {"charge", "transfer"}
                => connected' \/ notifying'["timer"] = "disconnected"
          BY <1>1, <1>2, <4>2 DEF NoticeOwned
        <5> QED  BY <5>1, <5>2 DEF NoticeOwned
      <4> QED  BY <3>1, <4>1, <4>2
    <3> QED  BY <1>3, <2>2, <3>2, <3>3 DEF NoticeInv
  <2>4. CASE status[d] # "enabled"
    <3>1. UNCHANGED <<lastFunc, unowned>>  BY <1>7, <2>4 DEF HostDetached
    <3>2. NoticeTypeOK'  BY <1>1, <1>2, <2>1, <3>1 DEF NoticeTypeOK
    <3>3. \A e \in HostDevs : status[e] = "enabled" => status'[e] = "enabled"
      BY <1>1, <2>1, <2>4 DEF NoticeTypeOK
    <3>4. \A e \in HostDevs : Backed(e) => Backed(e)'  BY <2>1, <3>3 DEF Backed
    <3>5. NoticeOwned'  BY <1>1, <1>2, <3>1, <3>4, OwnerStays DEF NoticeOwned
    <3> QED  BY <1>3, <2>2, <3>2, <3>5 DEF NoticeInv
  <2> QED  BY <2>3, <2>4
<1>8. ASSUME NEW d \in HostDevs, NEW p \in Policers, NEW to \in {"enabled", "disabled"},
             Authorize(p, d, to)
      PROVE  NoticeInv'
  <2> DEFINE x == Task(d, to, IF status[d] = "new" THEN "write" ELSE "publish")
  <2>1. /\ policing[p] = NoTask /\ (to = "enabled" <=> status[d] = "disabled")
        /\ policing' = [policing EXCEPT ![p] = x]
        /\ UNCHANGED <<status, publishing, lastFunc, unowned>>
    BY <1>8 DEF Authorize
  <2>2. /\ x \in [step : {"idle", "publish", "write"}, dev : HostDevs \union {"none"},
                  to : {"enabled", "disabled", "none"}]
        /\ x.dev = d /\ x.to = to
        /\ x.step = IF status[d] = "new" THEN "write" ELSE "publish"
    BY DEF Task
  <2> HIDE DEF x
  <2>3. \A q \in Policers : policing'[q] = IF q = p THEN x ELSE policing[q]
    BY <1>1, <2>1 DEF NoticeTypeOK
  <2>4. NoticeTypeOK'  BY <1>1, <1>2, <2>1, <2>2 DEF NoticeTypeOK
  <2>5. PolicingInv'  BY <1>1, <2>1, <2>2, <2>3 DEF PolicingInv
  <2>6. ASSUME NEW e \in HostDevs, Backed(e) PROVE Backed(e)'
    <3>1. ASSUME NEW q \in Policers, policing[q] = Task(e, "enabled", "write")
          PROVE  q # p /\ status[e] # "new" /\ policing'[q] = Task(e, "enabled", "write")
      BY <1>1, <2>1, <2>3, <3>1 DEF PolicingInv, Task, NoTask
    <3>2. status[e] # "new"  BY <2>6, <3>1 DEF Backed
    <3>3. x # Task(e, "disabled", "write")  BY <2>2, <3>2 DEF Task
    <3>4. \A q \in Policers : policing'[q] # Task(e, "disabled", "write")
      BY <2>3, <2>6, <3>3 DEF Backed
    <3> QED  BY <2>1, <2>6, <3>1, <3>4 DEF Backed
  <2>7. NoticeOwned'  BY <1>1, <1>2, <2>1, <2>6, OwnerStays DEF NoticeOwned
  <2> QED  BY <1>3, <2>4, <2>5, <2>7 DEF NoticeInv
<1>9. ASSUME NEW p \in Policers, AuthorizePublish(p) PROVE NoticeInv'
  <2> DEFINE x == [policing[p] EXCEPT !.step = "write"]
  <2>1. /\ policing[p].step = "publish"
        /\ policing' = [policing EXCEPT ![p] = x]
        /\ UNCHANGED <<status, publishing>>
    BY <1>9 DEF AuthorizePublish
  <2>2. /\ x \in [step : {"idle", "publish", "write"}, dev : HostDevs \union {"none"},
                  to : {"enabled", "disabled", "none"}]
        /\ x.dev = policing[p].dev /\ x.to = policing[p].to
    BY <1>1 DEF NoticeTypeOK
  <2> HIDE DEF x
  <2>3. \A q \in Policers : policing'[q] = IF q = p THEN x ELSE policing[q]
    BY <1>1, <2>1 DEF NoticeTypeOK
  <2>4. PolicingInv'  BY <1>1, <2>1, <2>2, <2>3 DEF PolicingInv
  <2>5. CASE policing[p].to = "enabled"
    <3>1. lastFunc' = "reverse" /\ unowned' = ~HasOwner'
      BY <1>9, <2>5 DEF AuthorizePublish, SendNotification
    <3>2. unowned' \in BOOLEAN  BY <3>1
    <3>3. NoticeTypeOK'  BY <1>1, <1>2, <2>1, <2>2, <3>1, <3>2 DEF NoticeTypeOK
    <3>4. NoticeOwned'  BY <3>1 DEF NoticeOwned
    <3> QED  BY <1>3, <2>4, <3>3, <3>4 DEF NoticeInv
  <2>6. CASE policing[p].to # "enabled"
    <3>1. /\ \/ lastFunc' = "" /\ unowned' = FALSE
             \/ UNCHANGED <<lastFunc, unowned>>
          /\ lastFunc' # "reverse"
      BY <1>1, <1>9, <2>6, NoticeChanges DEF AuthorizePublish, NoticeTypeOK
    <3>2. lastFunc' \in {"", "reverse", "charge", "transfer"} /\ unowned' \in BOOLEAN
      BY <1>1, <3>1 DEF NoticeTypeOK
    <3>3. NoticeTypeOK'  BY <1>1, <1>2, <2>1, <2>2, <3>2 DEF NoticeTypeOK
    <3>4. NoticeOwned'
      <4>1. CASE lastFunc' = ""  BY <4>1 DEF NoticeOwned
      <4>2. CASE UNCHANGED <<lastFunc, unowned>>
        <5>1. lastFunc' # "reverse"  BY <3>1
        <5>2. ~unowned' /\ lastFunc' \in {"charge", "transfer"}
                => connected' \/ notifying'["timer"] = "disconnected"
          BY <1>1, <1>2, <4>2 DEF NoticeOwned
        <5> QED  BY <5>1, <5>2 DEF NoticeOwned
      <4> QED  BY <3>1, <4>1, <4>2
    <3> QED  BY <1>3, <2>4, <3>3, <3>4 DEF NoticeInv
  <2> QED  BY <2>5, <2>6
<1>10. ASSUME NEW p \in Policers, AuthorizeWrite(p) PROVE NoticeInv'
  <2> DEFINE d == policing[p].dev
             to == policing[p].to
  <2>1. /\ policing[p].step = "write"
        /\ status' = [status EXCEPT ![d] = to]
        /\ policing' = [policing EXCEPT ![p] = NoTask]
        /\ UNCHANGED <<publishing, lastFunc, unowned>>
    BY <1>10 DEF AuthorizeWrite
  <2>2. d \in HostDevs /\ to \in {"enabled", "disabled"}
    BY <1>1, <2>1 DEF PolicingInv
  <2>3. policing[p] = Task(d, to, "write")
    BY <1>1, <2>1 DEF NoticeTypeOK, Task
  <2> HIDE DEF d, to
  <2>4. \A q \in Policers : policing'[q] = IF q = p THEN NoTask ELSE policing[q]
    BY <1>1, <2>1 DEF NoticeTypeOK
  <2>5. \A e \in HostDevs : status'[e] = IF e = d THEN to ELSE status[e]
    BY <1>1, <2>1, <2>2 DEF NoticeTypeOK
  <2>6. NoticeTypeOK'  BY <1>1, <1>2, <2>1, <2>2 DEF NoticeTypeOK, NoTask
  <2>7. PolicingInv'
    <3>1. \A e \in HostDevs : status[e] # "new" => status'[e] # "new"  BY <2>2, <2>5
    <3>2. NoTask.step = "idle"  BY DEF NoTask
    <3> QED  BY <1>1, <2>4, <3>1, <3>2 DEF PolicingInv
  <2>8. ASSUME NEW e \in HostDevs, Backed(e) PROVE Backed(e)'
    <3>1. \A q \in Policers : policing'[q] # Task(e, "disabled", "write")
      BY <2>4, <2>8 DEF Backed, Task, NoTask
    <3>2. CASE e = d
      <4>1. to # "disabled"  BY <2>3, <2>8, <3>2 DEF Backed
      <4>2. status'[e] = "enabled"  BY <2>2, <2>5, <3>2, <4>1
      <4> QED  BY <3>1, <4>2 DEF Backed
    <3>3. CASE e # d
      <4>1. status'[e] = status[e]  BY <2>5, <3>3
      <4>2. \A q \in Policers : policing[q] = Task(e, "enabled", "write")
                                  => policing'[q] = policing[q]
        BY <2>3, <2>4, <3>3 DEF Task
      <4> QED  BY <2>8, <3>1, <4>1, <4>2 DEF Backed
    <3> QED  BY <3>2, <3>3
  <2>9. NoticeOwned'  BY <1>1, <1>2, <2>1, <2>8, OwnerStays DEF NoticeOwned
  <2> QED  BY <1>3, <2>6, <2>7, <2>9 DEF NoticeInv
<1> QED  BY <1>4, <1>5, <1>6, <1>7, <1>8, <1>9, <1>10 DEF HostNext

(* The threads of the device manager.                                      *)
LEMMA GadgetSteps ==
  ASSUME NoticeInv, GadgetNext
  PROVE  NoticeInv'
<1>1. /\ NoticeTypeOK /\ NoticeOwned /\ PolicingInv /\ TimerInv  BY DEF NoticeInv
<1>2. UNCHANGED <<status, publishing, policing>>
  BY DEF GadgetNext, ConnectionTask, UserChangeProcess, ReadConnected,
         ProcessFunctionNotifier, GadgetSends, GadgetCancels, deviceVars
<1>3. PolicingInv'  BY <1>1, <1>2 DEF PolicingInv
<1>4. HasOwner => HasOwner'
  <2>1. \A e \in HostDevs : Backed(e) => Backed(e)'  BY <1>2 DEF Backed
  <2> QED  BY <2>1, OwnerStays
<1>5. ASSUME NEW t \in Notifiers, NEW l, Reach(t, l)
      PROVE  \A u \in Notifiers : notifying'[u] = IF u = t THEN l ELSE notifying[u]
  BY <1>1, <1>5 DEF Reach, NoticeTypeOK
<1>6. ASSUME NEW t \in Notifiers,
             NEW l \in {"idle", "entered", "connected", "disconnected",
                        "transfer", "reverse", "charge"},
             Reach(t, l), connected' \in BOOLEAN, reverseFlag' \in BOOLEAN,
             unowned' \in BOOLEAN, lastFunc' \in {"", "reverse", "charge", "transfer"}
      PROVE  NoticeTypeOK'
  BY <1>1, <1>2, <1>6 DEF Reach, NoticeTypeOK
<1>7. "timer" \in Notifiers /\ "user" \in Notifiers  BY DEF Notifiers
<1>8. /\ connected \in BOOLEAN /\ reverseFlag \in BOOLEAN /\ unowned \in BOOLEAN
      /\ lastFunc \in {"", "reverse", "charge", "transfer"}
  BY <1>1 DEF NoticeTypeOK
<1>9. ASSUME NEW up \in BOOLEAN, ConnectionTask(up) PROVE NoticeInv'
  <2> DEFINE l == IF up THEN "connected" ELSE "disconnected"
  <2>1. /\ connected' = up /\ Reach("timer", l)
        /\ UNCHANGED <<reverseFlag, lastFunc, unowned>>
    BY <1>9 DEF ConnectionTask
  <2>2. notifying'["timer"] = l  BY <1>5, <1>7, <2>1
  <2>3. NoticeTypeOK'  BY <1>6, <1>7, <1>8, <2>1
  <2>4. NoticeOwned'  BY <1>1, <1>4, <2>1, <2>2 DEF NoticeOwned
  <2>5. TimerInv'  BY <2>1, <2>2 DEF TimerInv
  <2> QED  BY <1>3, <2>3, <2>4, <2>5 DEF NoticeInv
<1>10. ASSUME NEW t \in Notifiers \ {"timer"},
              NEW l \in {"idle", "entered", "connected", "disconnected",
                         "transfer", "reverse", "charge"},
              Reach(t, l), UNCHANGED <<connected, lastFunc, unowned>>,
              reverseFlag' \in BOOLEAN
       PROVE  NoticeInv'
  <2>1. notifying'["timer"] = notifying["timer"]  BY <1>5, <1>7, <1>10
  <2>2. NoticeTypeOK'  BY <1>6, <1>8, <1>10
  <2>3. NoticeOwned'  BY <1>1, <1>4, <1>10, <2>1 DEF NoticeOwned
  <2>4. TimerInv'  BY <1>1, <1>10, <2>1 DEF TimerInv
  <2> QED  BY <1>3, <2>2, <2>3, <2>4 DEF NoticeInv
<1>11. CASE UserChangeProcess
  <2>1. /\ Reach("user", "entered") /\ UNCHANGED <<connected, lastFunc, unowned>>
        /\ reverseFlag' = (portRole = "source")
    BY <1>11 DEF UserChangeProcess, IsReverseCharge
  <2>2. "user" \in Notifiers \ {"timer"} /\ reverseFlag' \in BOOLEAN
    BY <1>7, <2>1
  <2> QED  BY <1>10, <2>1, <2>2
<1>12. ASSUME NEW t \in Notifiers, ReadConnected(t) PROVE NoticeInv'
  <2>1. /\ t # "timer"
        /\ Reach(t, IF connected THEN "connected" ELSE "disconnected")
        /\ UNCHANGED <<connected, reverseFlag, lastFunc, unowned>>
    BY <1>12 DEF ReadConnected
  <2> QED  BY <1>8, <1>10, <2>1
<1>13. ASSUME NEW t \in Notifiers, NEW transfer \in BOOLEAN,
              ProcessFunctionNotifier(t, transfer)
       PROVE  NoticeInv'
  <2> DEFINE l == IF transfer THEN "transfer" ELSE IF reverseFlag THEN "reverse" ELSE "charge"
  <2>1. /\ notifying[t] = "connected" /\ Reach(t, l)
        /\ UNCHANGED <<connected, reverseFlag, lastFunc, unowned>>
    BY <1>13 DEF ProcessFunctionNotifier
  <2>2. l \in {"transfer", "reverse", "charge"}  OBVIOUS
  <2> HIDE DEF l
  <2>3. CASE t # "timer"  BY <1>8, <1>10, <2>1, <2>2, <2>3
  <2>4. CASE t = "timer"
    <3>1. notifying'["timer"] = l  BY <1>5, <1>7, <2>1, <2>4
    <3>2. connected /\ connected'  BY <1>1, <2>1, <2>4 DEF TimerInv
    <3>3. NoticeTypeOK'  BY <1>6, <1>8, <2>1, <2>2
    <3>4. NoticeOwned'  BY <1>1, <1>4, <2>1, <3>2 DEF NoticeOwned
    <3>5. TimerInv'  BY <3>2 DEF TimerInv
    <3> QED  BY <1>3, <3>3, <3>4, <3>5 DEF NoticeInv
  <2> QED  BY <2>3, <2>4
<1>14. ASSUME NEW t \in Notifiers, GadgetSends(t) PROVE NoticeInv'
  <2>1. /\ notifying[t] \in {"transfer", "reverse", "charge"}
        /\ lastFunc' = notifying[t]
        /\ unowned' = (notifying[t] = "reverse" \/ (t # "timer" /\ ~connected))
        /\ Reach(t, "idle") /\ UNCHANGED <<connected, reverseFlag>>
    BY <1>14 DEF GadgetSends, SendNotification
  <2>2. unowned' \in BOOLEAN  BY <2>1
  <2>3. NoticeTypeOK'  BY <1>6, <1>8, <2>1, <2>2
  <2>4. ~unowned' => lastFunc' # "reverse" /\ connected'
    <3>1. t = "timer" => connected  BY <1>1, <2>1 DEF TimerInv
    <3> QED  BY <2>1, <3>1
  <2>5. NoticeOwned'  BY <2>4 DEF NoticeOwned
  <2>6. TimerInv'
    <3>1. notifying'["timer"] \in {"idle", notifying["timer"]}  BY <1>5, <1>7, <2>1
    <3> QED  BY <1>1, <2>1, <3>1 DEF TimerInv
  <2> QED  BY <1>3, <2>3, <2>5, <2>6 DEF NoticeInv
<1>15. ASSUME NEW t \in Notifiers, GadgetCancels(t) PROVE NoticeInv'
  <2>1. /\ CancelNotification(FALSE)
        /\ Reach(t, "idle") /\ UNCHANGED <<connected, reverseFlag>>
    BY <1>15 DEF GadgetCancels
  <2>2. /\ \/ lastFunc' = "" /\ unowned' = FALSE
           \/ UNCHANGED <<lastFunc, unowned>>
        /\ lastFunc' \in {"", "reverse"}
    BY <1>8, <2>1, NoticeChanges
  <2>3. NoticeTypeOK'
    <3>1. unowned' \in BOOLEAN /\ lastFunc' \in {"", "reverse", "charge", "transfer"}
      BY <1>8, <2>2
    <3> QED  BY <1>6, <1>8, <2>1, <3>1
  <2>4. NoticeOwned'
    <3>1. CASE lastFunc' = ""  BY <3>1 DEF NoticeOwned
    <3>2. CASE UNCHANGED <<lastFunc, unowned>>
      <4>1. lastFunc' \notin {"charge", "transfer"}  BY <2>2
      <4>2. ~unowned' /\ lastFunc' = "reverse" => HasOwner'
        BY <1>1, <1>4, <3>2 DEF NoticeOwned
      <4> QED  BY <4>1, <4>2 DEF NoticeOwned
    <3> QED  BY <2>2, <3>1, <3>2
  <2>5. TimerInv'
    <3>1. notifying'["timer"] \in {"idle", notifying["timer"]}  BY <1>5, <1>7, <2>1
    <3> QED  BY <1>1, <2>1, <3>1 DEF TimerInv
  <2> QED  BY <1>3, <2>3, <2>4, <2>5 DEF NoticeInv
<1> QED  BY <1>9, <1>11, <1>12, <1>13, <1>14, <1>15 DEF GadgetNext

(* Every step keeps the invariant.                                         *)
LEMMA PortNextInv == PortInv /\ [PortNext]_portVars => PortInv'
<1> SUFFICES ASSUME PortInv, [PortNext]_portVars PROVE PortInv'
  OBVIOUS
<1>1. MapInv /\ NoticeInv  BY DEF PortInv
<1>2. CASE UNCHANGED portVars
  <2>1. UNCHANGED mapVars /\ UNCHANGED noticeVars  BY <1>2 DEF portVars
  <2> QED  BY <1>1, <2>1, MapUnchanged, NoticeUnchanged DEF PortInv
<1>3. CASE MapNext  BY <1>3, MapSteps
<1>4. CASE HostNext \/ GadgetNext
  <2>1. UNCHANGED mapVars
    BY <1>4 DEF HostNext, HostArrives, HostAttached, HostPublish, HostDetached, Authorize,
                AuthorizePublish, AuthorizeWrite, GadgetNext, ConnectionTask,
                UserChangeProcess, ReadConnected, ProcessFunctionNotifier, GadgetSends,
                GadgetCancels
  <2> QED  BY <1>1, <1>4, <2>1, MapUnchanged, HostSteps, GadgetSteps DEF PortInv
<1> QED  BY <1>2, <1>3, <1>4 DEF PortNext

(* Every behaviour of the port manager satisfies the invariant.            *)
THEOREM PortInvariant == PortSpec => []PortInv
BY PortInitInv, PortNextInv, PTL DEF PortSpec

(* The map of ports tells what the driver knows, whenever no event is on   *)
(* its way: QueryPort and UpdatePort lose nothing but what overtakes Init. *)
THEOREM PortMapFollowsDriver == PortSpec => []PortMapCurrent
<1>1. PortInv => PortMapCurrent
  BY DEF PortInv, MapInv, MapTypeOK, FreshUnlessPending, QueryInv, PortMapCurrent,
         NoQuery
<1> QED  BY <1>1, PortInvariant, PTL

(* Whoever CancelNotification leaves a notice for is still connected: when *)
(* nothing is, no notice stays that an attached device or a connected host *)
(* has sent in time, whatever its threads and the policies do meanwhile.   *)
THEOREM NoticesTakenBack == PortSpec => []NoNoticeLeft
<1>1. ASSUME PortInv PROVE NoNoticeLeft
  <2> SUFFICES ASSUME NobodyConnected, ~unowned PROVE lastFunc = ""
    BY DEF NoNoticeLeft
  <2>1. NoticeTypeOK /\ NoticeOwned  BY <1>1 DEF PortInv, NoticeInv
  <2>2. ~HasOwner
    <3>1. \A p \in Policers : policing[p].step = "idle"
      BY DEF NobodyConnected, Unshared, NoTask
    <3>2. \A p \in Policers, d \in HostDevs : policing[p] # Task(d, "enabled", "write")
      BY <3>1 DEF Task
    <3> QED  BY <3>2 DEF HasOwner, Backed, NobodyConnected
  <2>3. ~connected /\ notifying["timer"] = "idle"
    BY DEF NobodyConnected, Notifiers
  <2> QED  BY <2>1, <2>2, <2>3 DEF NoticeOwned, NoticeTypeOK
<1> QED  BY <1>1, PortInvariant, PTL

(***************************************************************************)
(* The window.  Where the threads are.                                     *)
(***************************************************************************)
Places == CallerAt \union BootAt \union CheckAt

(* What is said of the threads, of the lock and of what they have found.   *)
ThreadPart ==
  /\ windowAction \in {"default", "show", "dismiss"}
  /\ pc \in [Threads -> Places]
  /\ pc["caller"] \in CallerAt /\ pc["boot"] \in BootAt /\ pc["check"] \in CheckAt
  /\ opMutex \in {"none", "caller", "boot"}
  /\ LockInv /\ FoundInv

(* A thread goes on to its next place and the others stay.                 *)
Moves(t, l) ==
  /\ pc' \in [Threads -> Places]
  /\ pc'[t] = l
  /\ \A u \in Threads \ {t} : pc'[u] = pc[u]

(* Goto moves one thread.                                                  *)
LEMMA GotoMoves ==
  ASSUME pc \in [Threads -> Places], NEW t \in Threads, NEW l \in Places, Goto(t, l)
  PROVE  Moves(t, l)
BY DEF Goto, Moves

(* The three threads are different.                                        *)
LEMMA ThreadsApart ==
  /\ "caller" \in Threads /\ "boot" \in Threads /\ "check" \in Threads
  /\ \A t \in Threads : t = "caller" \/ t = "boot" \/ t = "check"
BY DEF Threads

(* The install check.                                                      *)
LEMMA CheckThread ==
  ASSUME ThreadPart,
         \/ Query \/ CheckDialogInstallStatus \/ CheckBoot \/ SubscribeCommonEvent
         \/ OnReceiveEvent
  PROVE  ThreadPart'
<1> USE DEF ThreadPart, Opening, Closing, CallerAt, BootAt, CheckAt, Places
<1>1. CASE Query
  <2>1. PICK l \in {"action", "query", "idle", "subscribe"} :
           Goto("check", l) /\ (l = "action" => bundle)
    BY <1>1 DEF Query
  <2>2. Moves("check", l)  BY <2>1, GotoMoves, ThreadsApart
  <2>3. LockInv'  BY <1>1, <2>2, ThreadsApart DEF Query, LockInv, Moves
  <2>4. FoundInv'
    BY <1>1, <2>1, <2>2, ThreadsApart
       DEF Query, FoundInv, Moves, connVars, outsideVars, historyVars
  <2> QED  BY <1>1, <2>2, <2>3, <2>4, ThreadsApart DEF Query, Moves
<1>2. CASE CheckDialogInstallStatus
  <2>1. PICK l \in {"booted", "idle"} :
           Goto("check", l) /\ (l = "booted" => windowAction = "show")
    BY <1>2 DEF CheckDialogInstallStatus
  <2>2. Moves("check", l)  BY <2>1, GotoMoves, ThreadsApart
  <2>3. /\ pc["check"] = "action"
        /\ UNCHANGED <<windowAction, installed, connVars, opMutex, outsideVars, historyVars>>
    BY <1>2 DEF CheckDialogInstallStatus
  <2>4. LockInv'  BY <2>2, <2>3, ThreadsApart DEF LockInv, Moves
  <2>5. FoundInv'
    BY <2>1, <2>2, <2>3, ThreadsApart
       DEF FoundInv, Moves, connVars, outsideVars, historyVars
  <2> QED  BY <2>2, <2>3, <2>4, <2>5, ThreadsApart DEF Moves
<1>3. CASE CheckBoot
  <2>1. PICK l \in {"show", "idle"} : Goto("check", l) /\ (l = "show" => boot)
    BY <1>3 DEF CheckBoot
  <2>2. Moves("check", l)  BY <2>1, GotoMoves, ThreadsApart
  <2>3. /\ pc["check"] = "booted"
        /\ UNCHANGED <<windowAction, installed, connVars, opMutex, outsideVars, historyVars>>
    BY <1>3 DEF CheckBoot
  <2>4. LockInv'  BY <2>2, <2>3, ThreadsApart DEF LockInv, Moves
  <2>5. FoundInv'
    BY <2>1, <2>2, <2>3, ThreadsApart
       DEF FoundInv, Moves, connVars, outsideVars, historyVars
  <2> QED  BY <2>2, <2>3, <2>4, <2>5, ThreadsApart DEF Moves
<1>4. CASE SubscribeCommonEvent
  <2>2. Moves("check", "idle")  BY <1>4, GotoMoves, ThreadsApart DEF SubscribeCommonEvent
  <2>3. UNCHANGED <<windowAction, installed, connVars, opMutex, outsideVars, raced>>
    BY <1>4 DEF SubscribeCommonEvent
  <2>4. LockInv'  BY <2>2, <2>3, ThreadsApart DEF LockInv, Moves
  <2>5. FoundInv'
    BY <2>2, <2>3, ThreadsApart DEF FoundInv, Moves, connVars, outsideVars
  <2> QED  BY <2>2, <2>3, <2>4, <2>5, ThreadsApart DEF Moves
<1>5. CASE OnReceiveEvent
  <2>1. /\ bundle' = TRUE
        /\ UNCHANGED <<windowAction, installed, connVars, opMutex, boot, raced>>
    BY <1>5 DEF OnReceiveEvent, historyVars
  <2>2. Moves("check", "query") \/ UNCHANGED pc
    BY <1>5, GotoMoves, ThreadsApart DEF OnReceiveEvent
  <2>4. LockInv'  BY <2>1, <2>2, ThreadsApart DEF LockInv, Moves
  <2>5. FoundInv'  BY <2>1, <2>2, ThreadsApart DEF FoundInv, Moves, connVars
  <2> QED  BY <2>1, <2>2, <2>4, <2>5, ThreadsApart DEF Moves
<1> QED  BY <1>1, <1>2, <1>3, <1>4, <1>5

(* The device manager's threads and the boot callback.                     *)
LEMMA LockedThreads ==
  ASSUME ThreadPart,
         \/ PopUpFunctionSwitchWindow \/ PopUpBoot \/ WatchBoot
         \/ BootCompletes \/ ShowWindowIfConnected
         \/ DismissFunctionSwitchWindow \/ UnShowFunctionSwitchWindow
         \/ CloseDialog \/ DisconnectAbility
  PROVE  ThreadPart'
<1> USE DEF ThreadPart, Opening, Closing, CallerAt, BootAt, CheckAt, Places
<1>1. CASE PopUpFunctionSwitchWindow
  <2>1. Moves("caller", "booted")
    BY <1>1, GotoMoves, ThreadsApart DEF PopUpFunctionSwitchWindow
  <2>2. /\ pc["caller"] = "idle" /\ opMutex = "none" /\ opMutex' = "caller"
        /\ windowAction' = "show"
        /\ UNCHANGED <<installed, conn, boot, bundle, raced>>
    BY <1>1 DEF PopUpFunctionSwitchWindow, connVars, outsideVars
  <2> QED  BY <2>1, <2>2, ThreadsApart DEF Moves, LockInv, FoundInv
<1>2. CASE PopUpBoot
  <2>1. PICK l \in {"show", "watch"} : Moves("caller", l) /\ (l = "show" => boot)
    BY <1>2, GotoMoves, ThreadsApart DEF PopUpBoot
  <2>2. /\ pc["caller"] = "booted"
        /\ UNCHANGED <<windowAction, opMutex, installed, conn, boot, bundle, raced>>
    BY <1>2 DEF PopUpBoot, connVars, outsideVars, historyVars
  <2> QED  BY <2>1, <2>2, ThreadsApart DEF Moves, LockInv, FoundInv
<1>3. CASE WatchBoot
  <2>1. Moves("caller", "idle")  BY <1>3, GotoMoves, ThreadsApart DEF WatchBoot, Return
  <2>2. /\ pc["caller"] = "watch"
        /\ opMutex' = IF opMutex = "caller" THEN "none" ELSE opMutex
        /\ UNCHANGED <<windowAction, installed, conn, boot, bundle, raced>>
    BY <1>3 DEF WatchBoot, Return, connVars, outsideVars
  <2> QED  BY <2>1, <2>2, ThreadsApart DEF Moves, LockInv, FoundInv
<1>4. CASE BootCompletes
  <2>1. Moves("boot", "lock") \/ UNCHANGED pc
    BY <1>4, GotoMoves, ThreadsApart DEF BootCompletes
  <2>2. /\ ~boot /\ boot' = TRUE
        /\ UNCHANGED <<windowAction, opMutex, installed, conn, bundle, raced>>
    BY <1>4 DEF BootCompletes, connVars, historyVars
  <2> QED  BY <2>1, <2>2, ThreadsApart DEF Moves, LockInv, FoundInv
<1>5. CASE ShowWindowIfConnected
  <2>1. /\ pc["boot"] = "lock" /\ opMutex = "none"
        /\ UNCHANGED <<windowAction, installed, conn, boot, bundle, raced>>
    BY <1>5 DEF ShowWindowIfConnected, connVars, outsideVars, historyVars
  <2>2. \/ windowAction = "show" /\ Moves("boot", "show") /\ opMutex' = "boot"
        \/ Moves("boot", "idle") /\ UNCHANGED opMutex
    BY <1>5, GotoMoves, ThreadsApart DEF ShowWindowIfConnected
  <2> QED  BY <2>1, <2>2, ThreadsApart DEF Moves, LockInv, FoundInv
<1>6. CASE DismissFunctionSwitchWindow
  <2>1. Moves("caller", "close")
    BY <1>6, GotoMoves, ThreadsApart DEF DismissFunctionSwitchWindow
  <2>2. /\ pc["caller"] = "idle" /\ opMutex = "none" /\ opMutex' = "caller"
        /\ windowAction' = "dismiss"
        /\ raced' = (raced \/ pc["check"] \in UsesConn \union {"booted", "show"})
        /\ UNCHANGED <<installed, conn, boot, bundle>>
    BY <1>6 DEF DismissFunctionSwitchWindow, connVars, outsideVars
  <2>3. LockInv'  BY <2>1, <2>2, ThreadsApart DEF Moves, LockInv
  <2>4. raced' \/ \A t \in Threads : pc'[t] \notin {"booted", "show"} \union Opening
    BY <2>1, <2>2, ThreadsApart DEF Moves, LockInv, UsesConn
  <2>5. FoundInv'  BY <2>1, <2>2, <2>4, ThreadsApart DEF Moves, FoundInv
  <2> QED  BY <2>1, <2>2, <2>3, <2>5, ThreadsApart DEF Moves
<1>7. CASE UnShowFunctionSwitchWindow \/ CloseDialog \/ DisconnectAbility
  <2>1. /\ pc["caller"] \in Closing
        /\ UNCHANGED <<windowAction, installed, conn, boot, bundle, raced>>
    BY <1>7 DEF UnShowFunctionSwitchWindow, CloseDialog, DisconnectAbility, connVars,
                outsideVars, historyVars
  <2>2. \/ Moves("caller", "idle") /\ opMutex' = IF opMutex = "caller" THEN "none" ELSE opMutex
        \/ (Moves("caller", "send") \/ Moves("caller", "disconnect")) /\ UNCHANGED opMutex
        \/ UNCHANGED <<pc, opMutex>>
    BY <1>7, GotoMoves, ThreadsApart
       DEF UnShowFunctionSwitchWindow, CloseDialog, DisconnectAbility, Return
  <2>3. LockInv'  BY <2>1, <2>2, ThreadsApart DEF Moves, LockInv
  <2>4. FoundInv'  BY <2>1, <2>2, ThreadsApart DEF Moves, FoundInv
  <2> QED  BY <2>1, <2>2, <2>3, <2>4, ThreadsApart DEF Moves
<1> QED  BY <1>1, <1>2, <1>3, <1>4, <1>5, <1>6, <1>7

(* ShowFunctionSwitchWindow, on any thread.                                *)
LEMMA ShowThread ==
  ASSUME ThreadPart, NEW t \in Threads, Show(t)
  PROVE  ThreadPart'
<1> USE DEF ThreadPart, Opening, Closing, CallerAt, BootAt, CheckAt, Places
<1>1. pc[t] \in {"show"} \union Opening
  BY DEF Show, ShowFunctionSwitchWindow, TestConn, CreateConn, ReopenDialog,
         ConnectAbility, GiveUp
<1>2. /\ UNCHANGED <<windowAction, installed, boot, bundle>>
      /\ raced => raced'
      /\ conn' = conn \/ pc[t] \in Opening
  <2>1. CASE ShowFunctionSwitchWindow(t)
    <3>1. UNCHANGED <<windowAction, installed, boot, bundle, conn>>
      BY <2>1 DEF ShowFunctionSwitchWindow, connVars, outsideVars
    <3>2. raced => raced'  BY <2>1, Zenon DEF ShowFunctionSwitchWindow
    <3> QED  BY <3>1, <3>2
  <2>2. CASE TestConn(t) \/ CreateConn(t) \/ ReopenDialog(t) \/ ConnectAbility(t)
    BY <2>2 DEF TestConn, CreateConn, ReopenDialog, ConnectAbility, connVars,
                outsideVars, historyVars
  <2>3. CASE GiveUp(t)  BY <2>3 DEF GiveUp, outsideVars
  <2> QED  BY <2>1, <2>2, <2>3 DEF Show
<1>3. \/ Moves(t, "idle") /\ opMutex' = IF opMutex = t THEN "none" ELSE opMutex
      \/ /\ \E l \in Opening : Moves(t, l)
         /\ UNCHANGED opMutex
         /\ installed
      \/ UNCHANGED <<pc, opMutex>>
  <2>1. CASE ShowFunctionSwitchWindow(t)
    BY <2>1, GotoMoves DEF ShowFunctionSwitchWindow, Return
  <2>2. CASE TestConn(t) \/ CreateConn(t) \/ ReopenDialog(t)
    <3>1. installed  BY <2>2 DEF TestConn, CreateConn, ReopenDialog, FoundInv
    <3> QED  BY <2>2, <3>1, GotoMoves DEF TestConn, CreateConn, ReopenDialog
  <2>3. CASE ConnectAbility(t) \/ GiveUp(t)
    <3>1. installed  BY <2>3 DEF ConnectAbility, GiveUp, FoundInv
    <3> QED  BY <2>3, <3>1, GotoMoves DEF ConnectAbility, GiveUp, Return
  <2> QED  BY <2>1, <2>2, <2>3 DEF Show
<1>4. t = "caller" \/ t = "boot" \/ t = "check"  BY ThreadsApart
<1>5. pc'["caller"] \in CallerAt /\ pc'["boot"] \in BootAt /\ pc'["check"] \in CheckAt
  BY <1>3, <1>4, ThreadsApart DEF Moves
<1>6. LockInv' /\ opMutex' \in {"none", "caller", "boot"}
  BY <1>1, <1>3, <1>4, ThreadsApart DEF Moves, LockInv
<1>7. FoundInv'  BY <1>1, <1>2, <1>3, <1>4, ThreadsApart DEF Moves, FoundInv
<1> QED  BY <1>2, <1>3, <1>5, <1>6, <1>7 DEF Moves

(* No callback and nothing outside moves a thread.                         *)
LEMMA OutsideThread ==
  ASSUME ThreadPart,
         \/ \E c \in Conns : Callback(c) \/ UserAnswers(c)
         \/ HostDies \/ ConnRace \/ UNCHANGED vars
  PROVE  ThreadPart'
<1>1. UNCHANGED <<windowAction, pc, opMutex, installed, conn, boot, bundle, raced>>
  BY DEF Callback, OnAbilityConnectDone, AbortDialog, DisplayDialog, RecordRemote,
         OnAbilityDisconnectDone, UserAnswers, HostDies, ConnRace, vars, connVars,
         outsideVars, historyVars
<1> QED  BY <1>1 DEF ThreadPart, LockInv, FoundInv

(***************************************************************************)
(* The window.  Connection objects and the callbacks they wait for.        *)
(***************************************************************************)
Kinds == {"connect", "disconnect"}

ConnPart ==
  /\ used \in Nat /\ conn \in {Null} \union Conns /\ conn <= used
  /\ abort \in [Conns -> BOOLEAN] /\ remote \in [Conns -> BOOLEAN]
  /\ \A c \in Conns : abort[c] => c <= used
  /\ queue \in [Conns -> Seq(Kinds)]
  /\ callback \in [Conns -> {"idle", "abort", "display", "record"}]
  /\ shown \subseteq Conns

Has(q, w) == \E i \in 1 .. Len(q) : q[i] = w

(* No disconnection waits behind a connection.                             *)
Ordered(q) == \A i, j \in 1 .. Len(q) : q[i] = "connect" /\ q[j] = "disconnect" => j < i

(* A callback that is asked for is the last to come.                       *)
LEMMA CallbackAppended ==
  ASSUME NEW q \in Seq(Kinds), NEW m \in Kinds
  PROVE  /\ Append(q, m) \in Seq(Kinds)
         /\ \A w : Has(Append(q, m), w) <=> Has(q, w) \/ m = w
         /\ Ordered(q) /\ m = "connect" => Ordered(Append(q, m))
         /\ Ordered(q) /\ ~Has(q, "connect") => Ordered(Append(q, m))
<1>1. Append(q, m) \in Seq(Kinds) /\ Len(Append(q, m)) = Len(q) + 1 /\ Len(q) \in Nat
  OBVIOUS
<1>2. \A i \in 1 .. Len(q) : Append(q, m)[i] = q[i]
  OBVIOUS
<1>3. Append(q, m)[Len(q) + 1] = m
  OBVIOUS
<1>4. \A i \in 1 .. Len(q) + 1 : i \in 1 .. Len(q) \/ i = Len(q) + 1  BY <1>1
<1>5. \A i \in 1 .. Len(q) : i \in 1 .. Len(q) + 1 /\ i < Len(q) + 1  BY <1>1
<1>6. Len(q) + 1 \in 1 .. Len(q) + 1  BY <1>1
<1> DEFINE a == Append(q, m)
<1>7. \A w : Has(a, w) <=> Has(q, w) \/ m = w
  BY <1>1, <1>2, <1>3, <1>4, <1>5, <1>6 DEF Has
<1>8. ASSUME Ordered(q), m = "connect" PROVE Ordered(a)
  <2> SUFFICES ASSUME NEW i \in 1 .. Len(q) + 1, NEW j \in 1 .. Len(q) + 1,
                      a[i] = "connect", a[j] = "disconnect"
               PROVE  j < i
    BY <1>1 DEF Ordered
  <2>1. j \in 1 .. Len(q)  BY <1>3, <1>4, <1>8
  <2> QED  BY <1>2, <1>4, <1>5, <1>8, <2>1 DEF Ordered
<1>9. ASSUME Ordered(q), ~Has(q, "connect") PROVE Ordered(a)
  <2> SUFFICES ASSUME NEW i \in 1 .. Len(q) + 1, NEW j \in 1 .. Len(q) + 1,
                      a[i] = "connect", a[j] = "disconnect"
               PROVE  j < i
    BY <1>1 DEF Ordered
  <2>1. i = Len(q) + 1  BY <1>2, <1>4, <1>9 DEF Has
  <2>2. j # i
    OBVIOUS
  <2> QED  BY <1>4, <1>5, <2>1, <2>2
<1> QED  BY <1>1, <1>7, <1>8, <1>9

(* A callback that comes is the first that was asked for.                  *)
LEMMA CallbackComes ==
  ASSUME NEW q \in Seq(Kinds), q # <<>>
  PROVE  /\ Tail(q) \in Seq(Kinds)
         /\ \A w : Has(q, w) <=> Head(q) = w \/ Has(Tail(q), w)
         /\ Ordered(q) => Ordered(Tail(q))
         /\ Ordered(q) /\ Head(q) = "connect" => ~Has(q, "disconnect")
<1>1. Tail(q) \in Seq(Kinds) /\ Len(Tail(q)) = Len(q) - 1 /\ Len(q) \in Nat \ {0}
  OBVIOUS
<1>2. \A i \in 1 .. Len(Tail(q)) : Tail(q)[i] = q[i + 1] /\ i + 1 \in 1 .. Len(q)
  BY <1>1
<1>3. Head(q) = q[1] /\ 1 \in 1 .. Len(q)  BY <1>1
<1>4. \A i \in 1 .. Len(q) : i = 1 \/ (i - 1 \in 1 .. Len(Tail(q)) /\ Tail(q)[i - 1] = q[i])
  BY <1>1
<1>5. \A w : Has(q, w) <=> Head(q) = w \/ Has(Tail(q), w)
  BY <1>2, <1>3, <1>4 DEF Has
<1>6. ASSUME Ordered(q) PROVE Ordered(Tail(q))
  <2> SUFFICES ASSUME NEW i \in 1 .. Len(Tail(q)), NEW j \in 1 .. Len(Tail(q)),
                      Tail(q)[i] = "connect", Tail(q)[j] = "disconnect"
               PROVE  j < i
    BY DEF Ordered
  <2>1. j + 1 < i + 1  BY <1>2, <1>6 DEF Ordered
  <2> QED  BY <1>1, <2>1
<1>7. ASSUME Ordered(q), Head(q) = "connect", Has(q, "disconnect") PROVE FALSE
  <2>1. PICK j \in 1 .. Len(q) : q[j] = "disconnect"  BY <1>7 DEF Has
  <2>2. j < 1  BY <1>3, <1>7, <2>1 DEF Ordered
  <2> QED  BY <2>2
<1> QED  BY <1>1, <1>5, <1>6, <1>7

(* The types of the connection objects, step by step.                      *)
LEMMA ConnPartNext ==
  ASSUME ConnPart, Next
  PROVE  ConnPart'
<1>1. /\ used \in Nat /\ conn \in {Null} \union Conns /\ conn <= used
      /\ abort \in [Conns -> BOOLEAN] /\ remote \in [Conns -> BOOLEAN]
      /\ \A c \in Conns : abort[c] => c <= used
      /\ queue \in [Conns -> Seq(Kinds)]
      /\ callback \in [Conns -> {"idle", "abort", "display", "record"}]
      /\ shown \subseteq Conns
  BY DEF ConnPart
<1>2. ASSUME UNCHANGED <<connVars, queue>>,
             callback' \in [Conns -> {"idle", "abort", "display", "record"}],
             shown' \subseteq Conns
      PROVE  ConnPart'
  BY <1>1, <1>2 DEF ConnPart, connVars
<1>3. CASE \/ Query \/ CheckDialogInstallStatus \/ CheckBoot \/ SubscribeCommonEvent
           \/ OnReceiveEvent \/ PopUpFunctionSwitchWindow \/ PopUpBoot \/ WatchBoot
           \/ BootCompletes \/ ShowWindowIfConnected \/ DismissFunctionSwitchWindow
           \/ ConnRace \/ \E t \in Threads : ShowFunctionSwitchWindow(t) \/ TestConn(t)
  <2>1. UNCHANGED <<connVars, hostVars>>
    BY <1>3 DEF Query, CheckDialogInstallStatus, CheckBoot, SubscribeCommonEvent,
       OnReceiveEvent, PopUpFunctionSwitchWindow, PopUpBoot, WatchBoot, BootCompletes,
       ShowWindowIfConnected, DismissFunctionSwitchWindow, ConnRace,
       ShowFunctionSwitchWindow, TestConn
  <2> QED  BY <1>1, <1>2, <2>1 DEF hostVars
<1>4. ASSUME NEW t \in Threads, CreateConn(t) PROVE ConnPart'
  <2>1. /\ used < MaxConns /\ used' = used + 1 /\ conn' = used + 1
        /\ UNCHANGED <<abort, remote, hostVars>>
    BY <1>4 DEF CreateConn
  <2>2. used + 1 \in Conns /\ used + 1 \in Nat
    BY <1>1, <2>1, WindowAssumption DEF Conns
  <2>3. \A c \in Conns : abort[c] => c <= used + 1
    BY <1>1 DEF Conns
  <2> QED  BY <1>1, <2>1, <2>2, <2>3 DEF ConnPart, hostVars
<1>5. ASSUME NEW t \in Threads, ReopenDialog(t) PROVE ConnPart'
  <2>1. UNCHANGED <<conn, used, remote, hostVars>>  BY <1>5 DEF ReopenDialog
  <2>2. \/ UNCHANGED abort
        \/ conn # Null /\ abort' = [abort EXCEPT ![conn] = FALSE]
    BY <1>5 DEF ReopenDialog
  <2>3. abort' \in [Conns -> BOOLEAN]  BY <1>1, <2>2
  <2>4. \A c \in Conns : abort'[c] => c <= used  BY <1>1, <2>2
  <2> QED  BY <1>1, <2>1, <2>3, <2>4 DEF ConnPart, hostVars
<1>6. ASSUME NEW t \in Threads, ConnectAbility(t) PROVE ConnPart'
  <2>1. UNCHANGED <<connVars, callback, shown>>  BY <1>6 DEF ConnectAbility
  <2>2. \/ UNCHANGED queue
        \/ conn # Null /\ queue' = [queue EXCEPT ![conn] = Append(@, "connect")]
    BY <1>6 DEF ConnectAbility
  <2>3. queue' \in [Conns -> Seq(Kinds)]
    <3>1. "connect" \in Kinds  BY DEF Kinds
    <3>2. \A c \in Conns : Append(queue[c], "connect") \in Seq(Kinds)
      BY <1>1, <3>1, CallbackAppended
    <3> QED  BY <1>1, <2>2, <3>2
  <2> QED  BY <1>1, <2>1, <2>3 DEF ConnPart, connVars
<1>7. ASSUME NEW t \in Threads, GiveUp(t) PROVE ConnPart'
  <2>1. conn' = Null /\ UNCHANGED <<used, abort, remote, hostVars>>  BY <1>7 DEF GiveUp
  <2>2. Null <= used  BY <1>1 DEF Null
  <2> QED  BY <1>1, <2>1, <2>2 DEF ConnPart, hostVars
<1>8. CASE UnShowFunctionSwitchWindow
  <2>1. UNCHANGED <<conn, used, remote, hostVars>>  BY <1>8 DEF UnShowFunctionSwitchWindow
  <2>2. \/ UNCHANGED abort
        \/ conn # Null /\ abort' = [abort EXCEPT ![conn] = TRUE]
    BY <1>8 DEF UnShowFunctionSwitchWindow
  <2>3. abort' \in [Conns -> BOOLEAN]  BY <1>1, <2>2
  <2>4. \A c \in Conns : abort'[c] => c <= used  BY <1>1, <2>2
  <2> QED  BY <1>1, <2>1, <2>3, <2>4 DEF ConnPart, hostVars
<1>9. CASE CloseDialog \/ \E c \in Conns : UserAnswers(c)
  <2>1. UNCHANGED <<connVars, queue, callback>> /\ shown' \subseteq shown
    BY <1>9 DEF CloseDialog, UserAnswers
  <2> QED  BY <1>1, <1>2, <2>1
<1>10. CASE DisconnectAbility
  <2>1. UNCHANGED <<connVars, callback, shown>>  BY <1>10 DEF DisconnectAbility
  <2>2. \/ UNCHANGED queue
        \/ conn # Null /\ queue' = [queue EXCEPT ![conn] = Append(@, "disconnect")]
    BY <1>10 DEF DisconnectAbility
  <2>3. queue' \in [Conns -> Seq(Kinds)]
    <3>1. "disconnect" \in Kinds  BY DEF Kinds
    <3>2. \A c \in Conns : Append(queue[c], "disconnect") \in Seq(Kinds)
      BY <1>1, <3>1, CallbackAppended
    <3> QED  BY <1>1, <2>2, <3>2
  <2> QED  BY <1>1, <2>1, <2>3 DEF ConnPart, connVars
<1>11. ASSUME NEW c \in Conns, OnAbilityConnectDone(c) \/ OnAbilityDisconnectDone(c)
       PROVE  ConnPart'
  <2>1. /\ queue[c] # <<>> /\ queue' = [queue EXCEPT ![c] = Tail(@)]
        /\ UNCHANGED <<conn, used, abort, shown>>
    BY <1>11 DEF OnAbilityConnectDone, OnAbilityDisconnectDone, connVars
  <2>2. queue' \in [Conns -> Seq(Kinds)]  BY <1>1, <2>1, CallbackComes
  <2>3. callback' \in [Conns -> {"idle", "abort", "display", "record"}]
    BY <1>1, <1>11 DEF OnAbilityConnectDone, OnAbilityDisconnectDone
  <2>4. remote' \in [Conns -> BOOLEAN]
    BY <1>1, <1>11 DEF OnAbilityConnectDone, OnAbilityDisconnectDone, connVars
  <2> QED  BY <1>1, <2>1, <2>2, <2>3, <2>4 DEF ConnPart
<1>12. ASSUME NEW c \in Conns, AbortDialog(c) \/ DisplayDialog(c)
       PROVE  ConnPart'
  <2>1. UNCHANGED <<connVars, queue>> /\ shown' \subseteq Conns
    BY <1>1, <1>12 DEF AbortDialog, DisplayDialog
  <2>2. callback' \in [Conns -> {"idle", "abort", "display", "record"}]
    BY <1>1, <1>12 DEF AbortDialog, DisplayDialog
  <2> QED  BY <1>2, <2>1, <2>2
<1>13. ASSUME NEW c \in Conns, RecordRemote(c) PROVE ConnPart'
  <2>1. UNCHANGED <<conn, used, abort, queue, shown>>  BY <1>13 DEF RecordRemote
  <2>2. callback' \in [Conns -> {"idle", "abort", "display", "record"}]
    BY <1>1, <1>13 DEF RecordRemote
  <2>3. remote' \in [Conns -> BOOLEAN]  BY <1>1, <1>13 DEF RecordRemote
  <2> QED  BY <1>1, <2>1, <2>2, <2>3 DEF ConnPart
<1>14. CASE HostDies
  <2>1. /\ shown' = {} /\ UNCHANGED <<connVars, callback>>
        /\ queue' = [c \in Conns |-> IF c \in shown THEN Append(queue[c], "disconnect")
                                     ELSE queue[c]]
    BY <1>14 DEF HostDies
  <2>2. queue' \in [Conns -> Seq(Kinds)]
    BY <1>1, <2>1, CallbackAppended DEF Kinds
  <2> QED  BY <1>1, <2>1, <2>2 DEF ConnPart, connVars
<1> QED  BY <1>3, <1>4, <1>5, <1>6, <1>7, <1>8, <1>9, <1>10, <1>11, <1>12, <1>13, <1>14
            DEF Next, Show, Callback

(* What has happened has happened.                                         *)
LEMMA HistoryStays ==
  ASSUME Next
  PROVE  /\ raced => raced'
         /\ hurried => hurried'
         /\ orphaned => orphaned'
         /\ missed => missed'
<1> DEFINE Stays == /\ raced => raced'
                    /\ hurried => hurried'
                    /\ orphaned => orphaned'
                    /\ missed => missed'
<1>1. CASE UNCHANGED historyVars \/ UNCHANGED <<raced, hurried, orphaned, missed>>
  BY <1>1 DEF historyVars
<1>2. CASE SubscribeCommonEvent
  BY <1>2, Zenon DEF SubscribeCommonEvent
<1>3. CASE WatchBoot
  BY <1>3, Zenon DEF WatchBoot
<1>4. CASE DismissFunctionSwitchWindow
  BY <1>4, Zenon DEF DismissFunctionSwitchWindow
<1>5. ASSUME NEW t \in Threads, ShowFunctionSwitchWindow(t) PROVE Stays
  <2>1. missed' = missed /\ hurried' = hurried /\ orphaned' = orphaned
    BY <1>5 DEF ShowFunctionSwitchWindow
  <2>2. raced => raced'  BY <1>5, Zenon DEF ShowFunctionSwitchWindow
  <2> QED  BY <2>1, <2>2, Zenon
<1>6. ASSUME NEW t \in Threads, GiveUp(t) PROVE Stays
  BY <1>6, Zenon DEF GiveUp
<1>7. CASE \/ Query \/ CheckDialogInstallStatus \/ CheckBoot \/ OnReceiveEvent \/ PopUpBoot
           \/ BootCompletes \/ ShowWindowIfConnected \/ UnShowFunctionSwitchWindow
           \/ CloseDialog \/ DisconnectAbility \/ HostDies \/ ConnRace
  BY <1>1, <1>7 DEF Query, CheckDialogInstallStatus, CheckBoot, OnReceiveEvent, PopUpBoot,
     BootCompletes, ShowWindowIfConnected, UnShowFunctionSwitchWindow, CloseDialog,
     DisconnectAbility, HostDies, ConnRace
<1>8. CASE PopUpFunctionSwitchWindow  BY <1>1, <1>8 DEF PopUpFunctionSwitchWindow
<1>9. CASE \E t \in Threads : \/ TestConn(t) \/ CreateConn(t) \/ ReopenDialog(t)
                              \/ ConnectAbility(t)
  BY <1>1, <1>9 DEF TestConn, CreateConn, ReopenDialog, ConnectAbility
<1>10. CASE \E c \in Conns : Callback(c) \/ UserAnswers(c)
  BY <1>1, <1>10 DEF Callback, OnAbilityConnectDone, AbortDialog, DisplayDialog,
     RecordRemote, OnAbilityDisconnectDone, UserAnswers
<1> QED  BY <1>2, <1>3, <1>4, <1>5, <1>6, <1>7, <1>8, <1>9, <1>10 DEF Next, Show

(***************************************************************************)
(* The window.  The shared connection.                                     *)
(***************************************************************************)
(* Nobody who uses the connection moves, and it stays as it is.            *)
LEMMA ConnKept ==
  ASSUME ConnInv, UNCHANGED <<conn, abort>>, raced => raced',
         \A t \in Threads : pc'[t] \in UsesConn => pc'[t] = pc[t]
  PROVE  ConnInv'
BY DEF ConnInv, UsesConn

(* A thread moves on among those that use the connection, or leaves them.  *)
LEMMA ConnUserMoves ==
  ASSUME ConnInv, ~raced, NEW t \in Threads, pc[t] \in UsesConn, NEW l, Moves(t, l),
         \/ l \notin UsesConn
         \/ /\ l = "create" => conn' = Null
            /\ l \in {"reopen", "connect", "giveUp", "send", "disconnect"} => conn' # Null
            /\ l = "connect" => ~abort'[conn']
  PROVE  ConnInv'
<1>1. \A u \in Threads : u # t => pc'[u] = pc[u] /\ pc[u] \notin UsesConn
  BY DEF ConnInv, Moves
<1>2. \A u \in Threads : u # t => pc'[u] \notin UsesConn  BY <1>1
<1>3. pc'[t] = l  BY DEF Moves
<1> QED  BY <1>2, <1>3 DEF ConnInv, UsesConn

(* Every step leaves the connection to one thread at a time, or is a race. *)
LEMMA ConnInvNext ==
  ASSUME ThreadPart, ConnPart, ConnInv, Next
  PROVE  ConnInv'
<1>1. raced => raced'  BY HistoryStays
<1>2. /\ conn \in {Null} \union Conns /\ abort \in [Conns -> BOOLEAN]
      /\ pc \in [Threads -> Places]
  BY DEF ConnPart, ThreadPart
<1>3. SUFFICES ASSUME ~raced' PROVE ConnInv'
  BY DEF ConnInv
<1>4. ~raced  BY <1>1, <1>3
<1> USE DEF Places, CallerAt, BootAt, CheckAt, Opening, Closing
<1>5. CASE \/ Query \/ CheckDialogInstallStatus \/ CheckBoot \/ SubscribeCommonEvent
  <2>1. UNCHANGED <<conn, abort>>
    BY <1>5 DEF Query, CheckDialogInstallStatus, CheckBoot, SubscribeCommonEvent, connVars
  <2>2. PICK l \in {"idle", "query", "subscribe", "action", "booted", "show"} : Goto("check", l)
    BY <1>5 DEF Query, CheckDialogInstallStatus, CheckBoot, SubscribeCommonEvent
  <2>3. Moves("check", l)  BY <1>2, <2>2, GotoMoves, ThreadsApart
  <2> QED  BY <1>1, <2>1, <2>3, ConnKept DEF Moves, UsesConn
<1>6. CASE OnReceiveEvent
  <2>1. UNCHANGED <<conn, abort>>  BY <1>6 DEF OnReceiveEvent, connVars
  <2>2. Moves("check", "query") \/ UNCHANGED pc
    BY <1>2, <1>6, GotoMoves, ThreadsApart DEF OnReceiveEvent
  <2> QED  BY <1>1, <2>1, <2>2, ConnKept DEF Moves, UsesConn
<1>7. CASE PopUpFunctionSwitchWindow \/ PopUpBoot \/ WatchBoot
  <2>1. UNCHANGED <<conn, abort>>
    BY <1>7 DEF PopUpFunctionSwitchWindow, PopUpBoot, WatchBoot, connVars
  <2>2. PICK l \in {"idle", "booted", "show", "watch"} : Goto("caller", l)
    BY <1>7 DEF PopUpFunctionSwitchWindow, PopUpBoot, WatchBoot, Return
  <2>3. Moves("caller", l)  BY <1>2, <2>2, GotoMoves, ThreadsApart
  <2> QED  BY <1>1, <2>1, <2>3, ConnKept DEF Moves, UsesConn
<1>8. CASE BootCompletes \/ ShowWindowIfConnected
  <2>1. UNCHANGED <<conn, abort>>
    BY <1>8 DEF BootCompletes, ShowWindowIfConnected, connVars
  <2>2. Moves("boot", "lock") \/ Moves("boot", "show") \/ Moves("boot", "idle") \/ UNCHANGED pc
    BY <1>2, <1>8, GotoMoves, ThreadsApart DEF BootCompletes, ShowWindowIfConnected
  <2> QED  BY <1>1, <2>1, <2>2, ConnKept DEF Moves, UsesConn
<1>9. CASE DismissFunctionSwitchWindow
  <2>1. /\ raced' = (raced \/ pc["check"] \in UsesConn \union {"booted", "show"})
        /\ opMutex = "none" /\ UNCHANGED <<conn, abort>>
    BY <1>9 DEF DismissFunctionSwitchWindow, connVars
  <2>2. Moves("caller", "close")
    BY <1>2, <1>9, GotoMoves, ThreadsApart DEF DismissFunctionSwitchWindow
  <2>3. pc["check"] \notin UsesConn  BY <1>3, <2>1
  <2>4. pc["boot"] \notin UsesConn  BY <2>1 DEF ThreadPart, LockInv, UsesConn
  <2> QED  BY <2>2, <2>3, <2>4, ThreadsApart DEF Moves, ConnInv, UsesConn
<1>10. CASE UnShowFunctionSwitchWindow
  <2>1. /\ pc["caller"] = "close" /\ UNCHANGED conn
        /\ \/ Goto("caller", "idle")
           \/ conn # Null /\ Goto("caller", "send")
    BY <1>10 DEF UnShowFunctionSwitchWindow, Return
  <2>2. Moves("caller", "idle") \/ (conn # Null /\ Moves("caller", "send"))
    BY <1>2, <2>1, GotoMoves, ThreadsApart
  <2> QED  BY <1>4, <2>1, <2>2, ConnUserMoves, ThreadsApart DEF UsesConn
<1>11. CASE CloseDialog
  <2>1. /\ pc["caller"] = "send" /\ UNCHANGED <<conn, abort>>
        /\ Goto("caller", "disconnect") \/ UNCHANGED pc
    BY <1>11 DEF CloseDialog, connVars
  <2>2. conn # Null  BY <1>4, <2>1, ThreadsApart DEF ConnInv
  <2>3. Moves("caller", "disconnect") \/ UNCHANGED pc
    BY <1>2, <2>1, GotoMoves, ThreadsApart
  <2>4. CASE UNCHANGED pc  BY <1>1, <2>1, <2>4, ConnKept
  <2> QED  BY <1>4, <2>1, <2>2, <2>3, <2>4, ConnUserMoves, ThreadsApart DEF UsesConn
<1>12. CASE DisconnectAbility
  <2>1. pc["caller"] = "disconnect" /\ Goto("caller", "idle")
    BY <1>12 DEF DisconnectAbility, Return
  <2>2. Moves("caller", "idle")  BY <1>2, <2>1, GotoMoves, ThreadsApart
  <2> QED  BY <1>4, <2>1, <2>2, ConnUserMoves, ThreadsApart DEF UsesConn
<1>13. ASSUME NEW t \in Threads, Show(t) PROVE ConnInv'
  <2>1. CASE ShowFunctionSwitchWindow(t)
    <3>1. UNCHANGED <<conn, abort>>  BY <2>1 DEF ShowFunctionSwitchWindow, connVars
    <3>2. CASE ~installed
      <4>1. Moves(t, "idle")  BY <1>2, <2>1, <3>2, GotoMoves DEF ShowFunctionSwitchWindow, Return
      <4> QED  BY <1>1, <3>1, <4>1, ConnKept DEF Moves, UsesConn
    <3>3. CASE installed
      <4>1. Moves(t, "conn")  BY <1>2, <2>1, <3>3, GotoMoves DEF ShowFunctionSwitchWindow
      <4>2. ~Overlap(t)  BY <1>3, <2>1, <3>3 DEF ShowFunctionSwitchWindow
      <4>3. \A u \in Threads : u # t => pc'[u] \notin UsesConn
        BY <4>1, <4>2 DEF Overlap, Moves
      <4>4. pc'[t] = "conn"  BY <4>1 DEF Moves
      <4> QED  BY <4>3, <4>4 DEF ConnInv, UsesConn
    <3> QED  BY <3>2, <3>3
  <2>2. CASE TestConn(t)
    <3>1. pc[t] = "conn" /\ UNCHANGED conn  BY <2>2 DEF TestConn, connVars
    <3>2. \/ conn = Null /\ Moves(t, "create")
          \/ conn # Null /\ Moves(t, "reopen")
      BY <1>2, <2>2, GotoMoves DEF TestConn
    <3> QED  BY <1>4, <3>1, <3>2, ConnUserMoves DEF UsesConn
  <2>3. CASE CreateConn(t)
    <3>1. pc[t] = "create" /\ conn' = used + 1 /\ Moves(t, "reopen")
      BY <1>2, <2>3, GotoMoves DEF CreateConn
    <3>2. conn' # Null  BY <3>1 DEF Null, ConnPart
    <3> QED  BY <1>4, <3>1, <3>2, ConnUserMoves DEF UsesConn
  <2>4. CASE ReopenDialog(t)
    <3>1. pc[t] = "reopen" /\ UNCHANGED conn  BY <2>4 DEF ReopenDialog
    <3>2. conn # Null  BY <1>4, <3>1 DEF ConnInv
    <3>3. abort' = [abort EXCEPT ![conn] = FALSE] /\ Moves(t, "connect")
      BY <1>2, <2>4, <3>2, GotoMoves DEF ReopenDialog
    <3>4. ~abort'[conn']  BY <1>2, <3>1, <3>2, <3>3
    <3> QED  BY <1>4, <3>1, <3>2, <3>3, <3>4, ConnUserMoves DEF UsesConn
  <2>5. CASE ConnectAbility(t)
    <3>1. pc[t] = "connect" /\ UNCHANGED conn  BY <2>5 DEF ConnectAbility, connVars
    <3>2. conn # Null  BY <1>4, <3>1 DEF ConnInv
    <3>3. Moves(t, "idle") \/ Moves(t, "giveUp")
      BY <1>2, <2>5, GotoMoves DEF ConnectAbility, Return
    <3> QED  BY <1>4, <3>1, <3>2, <3>3, ConnUserMoves DEF UsesConn
  <2>6. CASE GiveUp(t)
    <3>1. pc[t] = "giveUp" /\ Moves(t, "idle")  BY <1>2, <2>6, GotoMoves DEF GiveUp, Return
    <3> QED  BY <1>4, <3>1, ConnUserMoves DEF UsesConn
  <2> QED  BY <1>13, <2>1, <2>2, <2>3, <2>4, <2>5, <2>6 DEF Show
<1>14. CASE \/ \E c \in Conns : Callback(c) \/ UserAnswers(c)
            \/ HostDies \/ ConnRace
  <2>1. UNCHANGED <<pc, conn, abort>>
    BY <1>14 DEF Callback, OnAbilityConnectDone, AbortDialog, DisplayDialog, RecordRemote,
       OnAbilityDisconnectDone, UserAnswers, HostDies, ConnRace, connVars
  <2> QED  BY <1>1, <2>1, ConnKept
<1> QED  BY <1>5, <1>6, <1>7, <1>8, <1>9, <1>10, <1>11, <1>12, <1>13, <1>14 DEF Next

(***************************************************************************)
(* The window.  Callbacks and aborts.                                      *)
(***************************************************************************)
(* What waits, in terms of the queue alone.                                *)
LEMMA WaitsIsHas ==
  \A c \in Conns :
    /\ \A w : Waits(c, w) <=> Has(queue[c], w)
    /\ \A w : Waits(c, w)' <=> Has(queue'[c], w)
    /\ Outstanding(c) <=> callback[c] # "idle" \/ Has(queue[c], "connect")
    /\ Outstanding(c)' <=> callback'[c] # "idle" \/ Has(queue'[c], "connect")
BY DEF Waits, Has, Outstanding

(* A request for a callback.                                               *)
LEMMA QueueGrows ==
  ASSUME ConnPart, NEW c \in Conns, NEW m \in Kinds,
         queue' = [queue EXCEPT ![c] = Append(@, m)]
  PROVE  /\ \A d \in Conns \ {c} : queue'[d] = queue[d]
         /\ \A w : Has(queue'[c], w) <=> Has(queue[c], w) \/ m = w
         /\ Ordered(queue[c]) /\ (m = "connect" \/ ~Has(queue[c], "connect"))
              => Ordered(queue'[c])
<1>1. queue[c] \in Seq(Kinds)  BY DEF ConnPart
<1>2. queue'[c] = Append(queue[c], m) /\ \A d \in Conns \ {c} : queue'[d] = queue[d]
  BY DEF ConnPart
<1> QED  BY <1>1, <1>2, CallbackAppended

(* A callback comes.                                                       *)
LEMMA QueueShrinks ==
  ASSUME ConnPart, NEW c \in Conns, queue[c] # <<>>,
         queue' = [queue EXCEPT ![c] = Tail(@)]
  PROVE  /\ \A d \in Conns \ {c} : queue'[d] = queue[d]
         /\ \A w : Has(queue[c], w) <=> Head(queue[c]) = w \/ Has(queue'[c], w)
         /\ Ordered(queue[c]) => Ordered(queue'[c])
         /\ Ordered(queue[c]) /\ Head(queue[c]) = "connect" => ~Has(queue[c], "disconnect")
<1>1. queue[c] \in Seq(Kinds)  BY DEF ConnPart
<1>2. queue'[c] = Tail(queue[c]) /\ \A d \in Conns \ {c} : queue'[d] = queue[d]
  BY DEF ConnPart
<1> QED  BY <1>1, <1>2, CallbackComes

(* The dialog host dies, and its windows will be disconnected.             *)
LEMMA QueuesGrow ==
  ASSUME ConnPart,
         queue' = [c \in Conns |-> IF c \in shown THEN Append(queue[c], "disconnect")
                                   ELSE queue[c]]
  PROVE  \A c \in Conns :
           /\ c \notin shown => queue'[c] = queue[c]
           /\ Has(queue'[c], "connect") <=> Has(queue[c], "connect")
           /\ Ordered(queue[c]) /\ ~Has(queue[c], "connect") => Ordered(queue'[c])
<1> SUFFICES ASSUME NEW c \in Conns
             PROVE  /\ c \notin shown => queue'[c] = queue[c]
                    /\ Has(queue'[c], "connect") <=> Has(queue[c], "connect")
                    /\ Ordered(queue[c]) /\ ~Has(queue[c], "connect") => Ordered(queue'[c])
  OBVIOUS
<1>1. queue[c] \in Seq(Kinds)  BY DEF ConnPart
<1>2. "disconnect" \in Kinds  BY DEF Kinds
<1>3. queue'[c] = IF c \in shown THEN Append(queue[c], "disconnect") ELSE queue[c]
  OBVIOUS
<1> QED  BY <1>1, <1>2, <1>3, CallbackAppended

(* No new callback, no new abort.                                          *)
LEMMA CallbackKept ==
  ASSUME CallbackInv, raced => raced', hurried => hurried',
         \A c \in Conns : /\ abort'[c] => abort[c]
                          /\ Outstanding(c)' => Outstanding(c)
                          /\ callback'[c] = "abort" => callback[c] = "abort",
         pc'["caller"] \in Closing => pc["caller"] \in Closing
  PROVE  CallbackInv'
BY DEF CallbackInv

(* The steps that change neither connection objects nor callbacks.         *)
Inert ==
  \/ Query \/ CheckDialogInstallStatus \/ CheckBoot \/ SubscribeCommonEvent
  \/ OnReceiveEvent \/ PopUpBoot \/ WatchBoot
  \/ BootCompletes \/ ShowWindowIfConnected
  \/ ConnRace \/ \E t \in Threads : ShowFunctionSwitchWindow(t) \/ TestConn(t)

(* They leave the caller outside Closing, if it is.                        *)
LEMMA InertSteps ==
  ASSUME ThreadPart, Inert
  PROVE  /\ UNCHANGED <<windowAction, conn, abort, remote, used, queue, callback, shown>>
         /\ pc'["caller"] \in Closing <=> pc["caller"] \in Closing
         /\ pc'["caller"] \in {"close", "send"} <=> pc["caller"] \in {"close", "send"}
<1>1. UNCHANGED <<windowAction, connVars, hostVars>>
  BY DEF Inert, Query, CheckDialogInstallStatus, CheckBoot, SubscribeCommonEvent,
     OnReceiveEvent, PopUpBoot, WatchBoot, BootCompletes, ShowWindowIfConnected, ConnRace,
     ShowFunctionSwitchWindow, TestConn
<1>2. pc \in [Threads -> Places]  BY DEF ThreadPart
<1>3. \/ UNCHANGED pc
      \/ \E t \in {"boot", "check"} : \E l : Goto(t, l)
      \/ pc["caller"] \notin Closing /\ \E l : Goto("caller", l) /\ l \notin Closing
  <2>1. CASE \/ Query \/ CheckDialogInstallStatus \/ CheckBoot \/ SubscribeCommonEvent
             \/ OnReceiveEvent \/ BootCompletes \/ ShowWindowIfConnected \/ ConnRace
    BY <2>1 DEF Query, CheckDialogInstallStatus, CheckBoot, SubscribeCommonEvent,
       OnReceiveEvent, BootCompletes, ShowWindowIfConnected, ConnRace
  <2>2. CASE PopUpBoot \/ WatchBoot
    BY <2>2 DEF PopUpBoot, WatchBoot, Return, Closing
  <2>3. ASSUME NEW t \in Threads, ShowFunctionSwitchWindow(t) \/ TestConn(t)
        PROVE  /\ pc[t] \notin Closing
               /\ \E l : Goto(t, l) /\ l \notin Closing
    BY <2>3 DEF ShowFunctionSwitchWindow, TestConn, Return, Closing
  <2> QED  BY <2>1, <2>2, <2>3, ThreadsApart DEF Inert
<1>4. \/ pc'["caller"] = pc["caller"]
      \/ pc["caller"] \notin Closing /\ pc'["caller"] \notin Closing
  BY <1>2, <1>3, ThreadsApart DEF Goto
<1> QED  BY <1>1, <1>4 DEF connVars, hostVars, Closing

(* A Dismiss that finds nothing outstanding is not overtaken.              *)
LEMMA CallbackInvNext ==
  ASSUME ThreadPart, ConnPart, ConnInv, CallbackInv, Next
  PROVE  CallbackInv'
<1>1. (raced => raced') /\ (hurried => hurried')  BY HistoryStays
<1>2. /\ conn \in {Null} \union Conns /\ abort \in [Conns -> BOOLEAN]
      /\ callback \in [Conns -> {"idle", "abort", "display", "record"}]
      /\ pc \in [Threads -> Places]
  BY DEF ConnPart, ThreadPart
<1>3. SUFFICES ASSUME ~raced', ~hurried' PROVE CallbackInv'
  BY DEF CallbackInv
<1>4. /\ ~raced /\ ~hurried
      /\ \A c \in Conns : abort[c] => ~Outstanding(c)
      /\ \A c \in Conns : callback[c] # "abort"
      /\ pc["caller"] \in Closing => \A c \in Conns : ~Outstanding(c)
  BY <1>1, <1>3 DEF CallbackInv
<1>5. ASSUME UNCHANGED <<queue, callback>>
      PROVE  \A c \in Conns : Outstanding(c)' <=> Outstanding(c)
  BY <1>5, WaitsIsHas
<1>6. CASE Inert
  BY <1>1, <1>5, <1>6, InertSteps, CallbackKept
<1>7. CASE PopUpFunctionSwitchWindow
  <2>1. UNCHANGED <<abort, queue, callback>> /\ Goto("caller", "booted")
    BY <1>7 DEF PopUpFunctionSwitchWindow, connVars, hostVars
  <2>2. pc'["caller"] \notin Closing  BY <1>2, <2>1, ThreadsApart DEF Goto, Closing
  <2> QED  BY <1>1, <1>5, <2>1, <2>2, CallbackKept
<1>8. CASE DismissFunctionSwitchWindow
  <2>1. /\ hurried' = (hurried \/ \E c \in Conns : Outstanding(c))
        /\ UNCHANGED <<abort, queue, callback>>
    BY <1>8 DEF DismissFunctionSwitchWindow, connVars, hostVars
  <2>2. \A c \in Conns : ~Outstanding(c)  BY <1>3, <2>1
  <2>3. \A c \in Conns : ~Outstanding(c)'  BY <1>5, <2>1, <2>2
  <2> QED  BY <1>4, <2>1, <2>3 DEF CallbackInv
<1>9. CASE UnShowFunctionSwitchWindow \/ CloseDialog
  <2>1. pc["caller"] \in Closing /\ UNCHANGED <<queue, callback>>
    BY <1>9 DEF UnShowFunctionSwitchWindow, CloseDialog, hostVars, Closing
  <2>2. \A c \in Conns : ~Outstanding(c)'  BY <1>4, <1>5, <2>1
  <2> QED  BY <1>4, <2>1, <2>2 DEF CallbackInv
<1>10. CASE DisconnectAbility
  <2>1. /\ pc["caller"] \in Closing /\ UNCHANGED <<abort, callback>>
        /\ \/ UNCHANGED queue
           \/ conn # Null /\ queue' = [queue EXCEPT ![conn] = Append(@, "disconnect")]
    BY <1>10 DEF DisconnectAbility, connVars, Closing
  <2>2. "disconnect" \in Kinds  BY DEF Kinds
  <2>3. \A c \in Conns : Has(queue'[c], "connect") <=> Has(queue[c], "connect")
    BY <1>2, <2>1, <2>2, QueueGrows
  <2>4. \A c \in Conns : ~Outstanding(c)'  BY <1>4, <2>1, <2>3, WaitsIsHas
  <2> QED  BY <1>4, <2>1, <2>4 DEF CallbackInv
<1>11. ASSUME NEW t \in Threads, CreateConn(t) \/ ReopenDialog(t) \/ GiveUp(t)
       PROVE  CallbackInv'
  <2>1. /\ UNCHANGED <<queue, callback>>
        /\ UNCHANGED abort \/ (conn # Null /\ abort' = [abort EXCEPT ![conn] = FALSE])
    BY <1>11 DEF CreateConn, ReopenDialog, GiveUp, hostVars
  <2>2. UNCHANGED pc \/ Goto(t, "reopen") \/ Goto(t, "connect") \/ Goto(t, "idle")
    BY <1>11 DEF CreateConn, ReopenDialog, GiveUp, Return
  <2>3. pc'["caller"] \in Closing => pc["caller"] \in Closing
    BY <1>2, <2>2, ThreadsApart DEF Goto, Closing
  <2>4. \A c \in Conns : abort'[c] => abort[c]  BY <1>2, <2>1
  <2> QED  BY <1>1, <1>5, <2>1, <2>3, <2>4, CallbackKept
<1>12. ASSUME NEW t \in Threads, ConnectAbility(t) PROVE CallbackInv'
  <2>1. /\ pc[t] = "connect" /\ UNCHANGED <<conn, abort, callback>>
        /\ \/ UNCHANGED queue
           \/ conn # Null /\ queue' = [queue EXCEPT ![conn] = Append(@, "connect")]
        /\ Goto(t, "idle") \/ Goto(t, "giveUp")
    BY <1>12 DEF ConnectAbility, Return, connVars
  <2>2. conn # Null /\ ~abort[conn]  BY <1>4, <2>1 DEF ConnInv
  <2>3. pc["caller"] \notin Closing
    BY <1>4, <2>1, ThreadsApart DEF ConnInv, UsesConn, Closing
  <2>4. pc'["caller"] \notin Closing  BY <1>2, <2>1, <2>3, ThreadsApart DEF Goto, Closing
  <2>5. "connect" \in Kinds  BY DEF Kinds
  <2>6. \A c \in Conns \ {conn} : queue'[c] = queue[c]
    BY <1>2, <2>1, <2>2, <2>5, QueueGrows
  <2>7. \A c \in Conns \ {conn} : Outstanding(c)' <=> Outstanding(c)
    BY <2>1, <2>6, WaitsIsHas
  <2> QED  BY <1>4, <2>1, <2>2, <2>4, <2>7 DEF CallbackInv
<1>13. ASSUME NEW c \in Conns, OnAbilityConnectDone(c) PROVE CallbackInv'
  <2>1. /\ queue[c] # <<>> /\ Head(queue[c]) = "connect"
        /\ queue' = [queue EXCEPT ![c] = Tail(@)]
        /\ UNCHANGED <<abort, pc>>
    BY <1>13 DEF OnAbilityConnectDone, connVars
  <2>2. /\ \A d \in Conns \ {c} : queue'[d] = queue[d]
        /\ Has(queue[c], "connect")
    BY <2>1, QueueShrinks
  <2>3. Outstanding(c)  BY <2>2, WaitsIsHas
  <2>4. ~abort[c]  BY <1>4, <2>3
  <2>5. UNCHANGED callback \/ callback' = [callback EXCEPT ![c] = "display"]
    BY <1>13, <2>4 DEF OnAbilityConnectDone
  <2>6. \A d \in Conns \ {c} : Outstanding(d)' <=> Outstanding(d)
    BY <1>2, <2>2, <2>5, WaitsIsHas
  <2>7. \A d \in Conns : callback'[d] = "abort" => callback[d] = "abort"
    BY <1>2, <2>5
  <2> QED  BY <1>1, <2>1, <2>3, <2>6, <2>7, CallbackKept
<1>14. ASSUME NEW c \in Conns, AbortDialog(c) PROVE CallbackInv'
  BY <1>4, <1>14 DEF AbortDialog
<1>15. ASSUME NEW c \in Conns, DisplayDialog(c) \/ RecordRemote(c) PROVE CallbackInv'
  <2>1. /\ callback[c] # "idle" /\ UNCHANGED <<abort, queue, pc>>
        /\ \E x \in {"idle", "record"} : callback' = [callback EXCEPT ![c] = x]
    BY <1>15 DEF DisplayDialog, RecordRemote, connVars
  <2>2. \A d \in Conns : /\ callback'[d] # "idle" => callback[d] # "idle"
                         /\ callback'[d] = "abort" => callback[d] = "abort"
    BY <1>2, <2>1
  <2>3. \A d \in Conns : Outstanding(d)' => Outstanding(d)
    BY <2>1, <2>2, WaitsIsHas
  <2> QED  BY <1>1, <2>1, <2>2, <2>3, CallbackKept
<1>16. ASSUME NEW c \in Conns, OnAbilityDisconnectDone(c) PROVE CallbackInv'
  <2>1. /\ queue[c] # <<>> /\ queue' = [queue EXCEPT ![c] = Tail(@)]
        /\ UNCHANGED <<abort, callback, pc>>
    BY <1>16 DEF OnAbilityDisconnectDone, connVars
  <2>2. \A d \in Conns : Has(queue'[d], "connect") => Has(queue[d], "connect")
    BY <2>1, QueueShrinks
  <2>3. \A d \in Conns : Outstanding(d)' => Outstanding(d)
    BY <2>1, <2>2, WaitsIsHas
  <2> QED  BY <1>1, <2>1, <2>3, CallbackKept
<1>17. CASE \E c \in Conns : UserAnswers(c)
  <2>1. UNCHANGED <<abort, queue, callback, pc>>  BY <1>17 DEF UserAnswers, connVars
  <2> QED  BY <1>1, <1>5, <2>1, CallbackKept
<1>18. CASE HostDies
  <2>1. /\ UNCHANGED <<abort, callback, pc>>
        /\ queue' = [c \in Conns |-> IF c \in shown THEN Append(queue[c], "disconnect")
                                     ELSE queue[c]]
    BY <1>18 DEF HostDies, connVars
  <2>2. \A d \in Conns : Outstanding(d)' => Outstanding(d)
    BY <2>1, QueuesGrow, WaitsIsHas
  <2> QED  BY <1>1, <2>1, <2>2, CallbackKept
<1> QED  BY <1>6, <1>7, <1>8, <1>9, <1>10, <1>11, <1>12, <1>13, <1>14, <1>15, <1>16,
            <1>17, <1>18 DEF Next, Inert, Show, Callback

(***************************************************************************)
(* The window.  What is displayed.                                         *)
(***************************************************************************)
(* ShownInv where it says something.                                       *)
ShownFacts ==
  /\ \A c \in Conns : c \in shown \/ Outstanding(c) => c = conn
  /\ \A c \in shown : remote[c] \/ callback[c] = "record"
  /\ \A c \in Conns : c \in shown \/ callback[c] # "idle" => ~Has(queue[c], "disconnect")
  /\ \A c \in Conns : Ordered(queue[c])
  /\ windowAction # "show" =>
       /\ \A c \in Conns : ~Outstanding(c)
       /\ pc["caller"] \notin {"close", "send"} => shown = {}

(* The same, of this state and of the next.                                *)
LEMMA ShownIsFacts ==
  /\ ShownInv <=> hurried \/ raced \/ orphaned \/ ShownFacts
  /\ ShownInv' <=> hurried' \/ raced' \/ orphaned' \/ ShownFacts'
<1>1. ShownInv <=> hurried \/ raced \/ orphaned \/ ShownFacts
  BY WaitsIsHas DEF ShownInv, ShownFacts, Ordered
<1>2. ShownInv' <=> hurried' \/ raced' \/ orphaned' \/ ShownFacts'
  BY WaitsIsHas DEF ShownInv, ShownFacts, Ordered
<1> QED  BY <1>1, <1>2

(* Windows may go, and nothing else changes.                               *)
LEMMA ShownKept ==
  ASSUME ShownFacts, UNCHANGED <<conn, remote, callback, queue>>, shown' \subseteq shown,
         \/ windowAction' = "show"
         \/ /\ windowAction # "show"
            /\ pc'["caller"] \notin {"close", "send"} =>
                 pc["caller"] \notin {"close", "send"} \/ shown' = {}
  PROVE  ShownFacts'
<1>1. \A c \in Conns : Outstanding(c)' <=> Outstanding(c)  BY WaitsIsHas
<1> QED  BY <1>1 DEF ShownFacts

(* Every step keeps the window with its connection.                        *)
LEMMA ShownInvNext ==
  ASSUME ThreadPart, ConnPart, ConnInv, CallbackInv, ShownInv, Next
  PROVE  ShownInv'
<1>1. (raced => raced') /\ (hurried => hurried') /\ (orphaned => orphaned')
  BY HistoryStays
<1>2. /\ conn \in {Null} \union Conns /\ Null \notin Conns
      /\ remote \in [Conns -> BOOLEAN] /\ shown \subseteq Conns
      /\ callback \in [Conns -> {"idle", "abort", "display", "record"}]
      /\ pc \in [Threads -> Places]
  BY DEF ConnPart, ThreadPart, Null, Conns
<1>3. SUFFICES ASSUME ~raced', ~hurried', ~orphaned' PROVE ShownFacts'
  BY ShownIsFacts
<1>4. ~raced /\ ~hurried /\ ~orphaned  BY <1>1, <1>3
<1>5. ShownFacts  BY <1>4, ShownIsFacts
<1>6. CASE Inert
  BY <1>5, <1>6, InertSteps, ShownKept
<1>7. CASE PopUpFunctionSwitchWindow
  <2>1. windowAction' = "show" /\ UNCHANGED <<conn, remote, queue, callback, shown>>
    BY <1>7 DEF PopUpFunctionSwitchWindow, connVars, hostVars
  <2> QED  BY <1>5, <2>1, ShownKept
<1>8. CASE DismissFunctionSwitchWindow
  <2>1. /\ hurried' = (hurried \/ \E c \in Conns : Outstanding(c))
        /\ Goto("caller", "close")
        /\ UNCHANGED <<conn, remote, queue, callback, shown>>
    BY <1>8 DEF DismissFunctionSwitchWindow, connVars, hostVars
  <2>2. \A c \in Conns : ~Outstanding(c)  BY <1>3, <2>1
  <2>3. \A c \in Conns : ~Outstanding(c)'  BY <2>1, <2>2, WaitsIsHas
  <2>4. pc'["caller"] = "close"  BY <1>2, <2>1, ThreadsApart DEF Goto
  <2> QED  BY <1>5, <2>1, <2>3, <2>4 DEF ShownFacts
<1>9. ASSUME pc["caller"] \in Closing
      PROVE  /\ windowAction = "dismiss"
             /\ \A c \in Conns : ~Outstanding(c) /\ callback[c] = "idle"
             /\ \A c \in shown : c = conn /\ remote[c]
             /\ pc["caller"] = "disconnect" => shown = {}
  <2>1. windowAction = "dismiss"  BY <1>9 DEF ThreadPart, FoundInv
  <2>2. \A c \in Conns : ~Outstanding(c) /\ callback[c] = "idle"
    BY <1>5, <2>1, WaitsIsHas DEF ShownFacts
  <2>3. \A c \in shown : c = conn /\ remote[c]
    BY <1>2, <1>5, <2>2 DEF ShownFacts
  <2> QED  BY <1>5, <2>1, <2>2, <2>3 DEF ShownFacts
<1>10. CASE UnShowFunctionSwitchWindow
  <2>1. /\ pc["caller"] = "close"
        /\ UNCHANGED <<windowAction, conn, remote, queue, callback, shown>>
        /\ conn = Null \/ Goto("caller", "send")
    BY <1>10 DEF UnShowFunctionSwitchWindow, hostVars
  <2>2. CASE conn = Null
    <3>1. shown = {}  BY <1>2, <1>9, <2>1, <2>2 DEF Closing
    <3> QED  BY <1>5, <1>9, <2>1, <3>1, ShownKept DEF Closing
  <2>3. CASE Goto("caller", "send")
    <3>1. pc'["caller"] = "send"  BY <1>2, <2>3, ThreadsApart DEF Goto
    <3> QED  BY <1>5, <1>9, <2>1, <3>1, ShownKept DEF Closing
  <2> QED  BY <2>1, <2>2, <2>3
<1>11. CASE CloseDialog
  <2>1. /\ pc["caller"] = "send"
        /\ UNCHANGED <<windowAction, conn, remote, queue, callback>>
    BY <1>11 DEF CloseDialog, connVars
  <2>2. conn # Null  BY <1>4, <2>1, ThreadsApart DEF ConnInv
  <2>3. shown' = IF remote[conn] THEN shown \ {conn} ELSE shown
    BY <1>3, <1>11, <2>2 DEF CloseDialog
  <2>4. shown' = {}  BY <1>9, <2>1, <2>3 DEF Closing
  <2> QED  BY <1>5, <1>9, <2>1, <2>4, ShownKept DEF Closing
<1>12. CASE DisconnectAbility
  <2>1. /\ pc["caller"] = "disconnect"
        /\ UNCHANGED <<windowAction, conn, remote, callback, shown>>
        /\ \/ UNCHANGED queue
           \/ conn # Null /\ queue' = [queue EXCEPT ![conn] = Append(@, "disconnect")]
        /\ Goto("caller", "idle")
    BY <1>12 DEF DisconnectAbility, Return, connVars
  <2>2. /\ windowAction = "dismiss" /\ shown = {}
        /\ \A c \in Conns : ~Outstanding(c) /\ callback[c] = "idle"
    BY <1>9, <2>1 DEF Closing
  <2>3. \A c \in Conns : ~Has(queue[c], "connect")  BY <2>2, WaitsIsHas
  <2>4. "disconnect" \in Kinds  BY DEF Kinds
  <2>5. \A c \in Conns : Ordered(queue[c])  BY <1>5 DEF ShownFacts
  <2>6. \A c \in Conns : ~Has(queue'[c], "connect") /\ Ordered(queue'[c])
    BY <1>2, <2>1, <2>3, <2>4, <2>5, QueueGrows
  <2>7. \A c \in Conns : ~Outstanding(c)'  BY <2>1, <2>2, <2>6, WaitsIsHas
  <2> QED  BY <2>1, <2>2, <2>6, <2>7 DEF ShownFacts
<1>13. ASSUME NEW t \in Threads, CreateConn(t) PROVE ShownFacts'
  <2>1. pc[t] = "create" /\ UNCHANGED <<windowAction, remote, queue, callback, shown>>
    BY <1>13 DEF CreateConn, hostVars
  <2>2. conn = Null  BY <1>4, <2>1 DEF ConnInv
  <2>3. shown = {} /\ \A c \in Conns : ~Outstanding(c)
    BY <1>2, <1>5, <2>2 DEF ShownFacts
  <2>4. \A c \in Conns : ~Outstanding(c)'  BY <2>1, <2>3, WaitsIsHas
  <2> QED  BY <1>5, <2>1, <2>3, <2>4 DEF ShownFacts
<1>14. ASSUME NEW t \in Threads, ReopenDialog(t) PROVE ShownFacts'
  <2>1. /\ pc[t] = "reopen"
        /\ UNCHANGED <<windowAction, conn, remote, queue, callback, shown>>
        /\ UNCHANGED pc \/ Goto(t, "connect")
    BY <1>14 DEF ReopenDialog, hostVars
  <2>2. pc'["caller"] \notin {"close", "send"} => pc["caller"] \notin {"close", "send"}
    BY <1>2, <2>1, ThreadsApart DEF Goto
  <2> QED  BY <1>5, <2>1, <2>2, ShownKept
<1>15. ASSUME NEW t \in Threads, GiveUp(t) PROVE ShownFacts'
  <2>1. /\ conn' = Null /\ pc[t] = "giveUp" /\ Goto(t, "idle")
        /\ orphaned' = (orphaned \/ (conn # Null /\ (conn \in shown \/ Outstanding(conn))))
        /\ UNCHANGED <<windowAction, remote, queue, callback, shown>>
    BY <1>15 DEF GiveUp, Return, hostVars
  <2>2. conn # Null  BY <1>4, <2>1 DEF ConnInv
  <2>3. conn \notin shown /\ ~Outstanding(conn)  BY <1>3, <2>1, <2>2
  <2>4. shown = {} /\ \A c \in Conns : ~Outstanding(c)
    BY <1>2, <1>5, <2>3 DEF ShownFacts
  <2>5. \A c \in Conns : ~Outstanding(c)'  BY <2>1, <2>4, WaitsIsHas
  <2> QED  BY <1>5, <2>1, <2>4, <2>5 DEF ShownFacts
<1>16. ASSUME NEW t \in Threads, ConnectAbility(t) PROVE ShownFacts'
  <2>1. /\ pc[t] = "connect"
        /\ UNCHANGED <<windowAction, conn, remote, callback, shown>>
        /\ \/ UNCHANGED queue
           \/ conn # Null /\ queue' = [queue EXCEPT ![conn] = Append(@, "connect")]
    BY <1>16 DEF ConnectAbility, connVars
  <2>2. windowAction = "show"
    BY <1>4, <2>1 DEF ThreadPart, FoundInv, Opening
  <2>3. CASE UNCHANGED queue
    BY <1>5, <2>1, <2>2, <2>3, ShownKept
  <2>4. CASE conn # Null /\ queue' = [queue EXCEPT ![conn] = Append(@, "connect")]
    <3>1. "connect" \in Kinds /\ "connect" # "disconnect"  BY DEF Kinds
    <3>2. conn \in Conns  BY <1>2, <2>4
    <3>3. /\ \A d \in Conns \ {conn} : queue'[d] = queue[d]
          /\ \A w : Has(queue'[conn], w) <=> Has(queue[conn], w) \/ "connect" = w
          /\ Ordered(queue[conn]) => Ordered(queue'[conn])
      BY <2>4, <3>1, <3>2, QueueGrows
    <3>4. \A c \in Conns : c # conn => (Outstanding(c)' <=> Outstanding(c))
      BY <2>1, <3>3, WaitsIsHas
    <3>5. \A c \in Conns : /\ Has(queue'[c], "disconnect") <=> Has(queue[c], "disconnect")
                           /\ Ordered(queue[c]) => Ordered(queue'[c])
      BY <3>1, <3>3
    <3> QED  BY <1>5, <2>1, <2>2, <3>4, <3>5 DEF ShownFacts
  <2> QED  BY <2>1, <2>3, <2>4
<1>17. ASSUME NEW c \in Conns, OnAbilityConnectDone(c) PROVE ShownFacts'
  <2>1. /\ callback[c] = "idle" /\ queue[c] # <<>> /\ Head(queue[c]) = "connect"
        /\ queue' = [queue EXCEPT ![c] = Tail(@)]
        /\ UNCHANGED <<windowAction, conn, remote, shown, pc>>
        /\ \/ UNCHANGED callback
           \/ \E x \in {"abort", "display"} : callback' = [callback EXCEPT ![c] = x]
    BY <1>17 DEF OnAbilityConnectDone, connVars
  <2>2. /\ \A d \in Conns \ {c} : queue'[d] = queue[d]
        /\ \A w : Has(queue[c], w) <=> Head(queue[c]) = w \/ Has(queue'[c], w)
        /\ Ordered(queue[c]) => Ordered(queue'[c])
        /\ Ordered(queue[c]) /\ Head(queue[c]) = "connect" => ~Has(queue[c], "disconnect")
    BY <2>1, QueueShrinks
  <2>3. Outstanding(c)  BY <2>1, <2>2, WaitsIsHas
  <2>4. c = conn /\ windowAction = "show"  BY <1>5, <2>3 DEF ShownFacts
  <2>5. Ordered(queue[c])  BY <1>5 DEF ShownFacts
  <2>6. ~Has(queue'[c], "disconnect") /\ Ordered(queue'[c])  BY <2>1, <2>2, <2>5
  <2>7. \A d \in Conns \ {c} : callback'[d] = callback[d] /\ (Outstanding(d)' <=> Outstanding(d))
    BY <1>2, <2>1, <2>2, WaitsIsHas
  <2>8. c \in shown => remote[c]  BY <1>5, <2>1 DEF ShownFacts
  <2>9. \A d \in Conns : d \in shown \/ Outstanding(d)' => d = conn
    BY <1>5, <2>4, <2>7 DEF ShownFacts
  <2>10. \A d \in shown : remote[d] \/ callback'[d] = "record"
    BY <1>2, <1>5, <2>7, <2>8 DEF ShownFacts
  <2>11. \A d \in Conns : /\ d \in shown \/ callback'[d] # "idle" => ~Has(queue'[d], "disconnect")
                          /\ Ordered(queue'[d])
    BY <1>5, <2>2, <2>6, <2>7 DEF ShownFacts
  <2> QED  BY <2>1, <2>4, <2>9, <2>10, <2>11 DEF ShownFacts
<1>18. ASSUME NEW c \in Conns, AbortDialog(c) PROVE ShownFacts'
  BY <1>4, <1>18 DEF AbortDialog, CallbackInv
<1>19. ASSUME NEW c \in Conns, DisplayDialog(c) PROVE ShownFacts'
  <2>1. /\ callback[c] = "display"
        /\ UNCHANGED <<windowAction, conn, remote, queue, pc>>
        /\ \/ shown' = shown \union {c} /\ callback' = [callback EXCEPT ![c] = "record"]
           \/ shown' = shown /\ callback' = [callback EXCEPT ![c] = "idle"]
    BY <1>19 DEF DisplayDialog, connVars
  <2>2. Outstanding(c)  BY <2>1, WaitsIsHas
  <2>3. c = conn /\ windowAction = "show" /\ ~Has(queue[c], "disconnect")
    BY <1>5, <2>1, <2>2 DEF ShownFacts
  <2>4. \A d \in Conns \ {c} : callback'[d] = callback[d] /\ (Outstanding(d)' <=> Outstanding(d))
    BY <1>2, <2>1, WaitsIsHas
  <2>5. c \in shown => remote[c]  BY <1>5, <2>1 DEF ShownFacts
  <2>6. \A d \in Conns : d \in shown' \/ Outstanding(d)' => d = conn
    BY <1>5, <2>1, <2>3, <2>4 DEF ShownFacts
  <2>7. \A d \in shown' : remote[d] \/ callback'[d] = "record"
    BY <1>2, <1>5, <2>1, <2>4, <2>5 DEF ShownFacts
  <2>8. \A d \in Conns : d \in shown' \/ callback'[d] # "idle" => ~Has(queue[d], "disconnect")
    BY <1>5, <2>1, <2>3, <2>4 DEF ShownFacts
  <2>9. \A d \in Conns : Ordered(queue[d])  BY <1>5 DEF ShownFacts
  <2> QED  BY <2>1, <2>3, <2>6, <2>7, <2>8, <2>9 DEF ShownFacts
<1>20. ASSUME NEW c \in Conns, RecordRemote(c) PROVE ShownFacts'
  <2>1. /\ callback[c] = "record"
        /\ remote' = [remote EXCEPT ![c] = TRUE]
        /\ callback' = [callback EXCEPT ![c] = "idle"]
        /\ UNCHANGED <<windowAction, conn, queue, shown, pc>>
    BY <1>20 DEF RecordRemote
  <2>2. \A d \in Conns : callback'[d] # "idle" => callback[d] # "idle"  BY <1>2, <2>1
  <2>3. \A d \in Conns : Outstanding(d)' => Outstanding(d)
    BY <2>1, <2>2, WaitsIsHas
  <2>4. remote'[c] /\ \A d \in Conns \ {c} : remote'[d] = remote[d] /\ callback'[d] = callback[d]
    BY <1>2, <2>1
  <2>5. \A d \in shown : remote'[d] \/ callback'[d] = "record"
    BY <1>2, <1>5, <2>4 DEF ShownFacts
  <2> QED  BY <1>5, <2>1, <2>2, <2>3, <2>5 DEF ShownFacts
<1>21. ASSUME NEW c \in Conns, OnAbilityDisconnectDone(c) PROVE ShownFacts'
  <2>1. /\ queue[c] # <<>> /\ Head(queue[c]) = "disconnect"
        /\ queue' = [queue EXCEPT ![c] = Tail(@)]
        /\ remote' = [remote EXCEPT ![c] = FALSE]
        /\ UNCHANGED <<windowAction, conn, callback, shown, pc>>
    BY <1>21 DEF OnAbilityDisconnectDone
  <2>2. /\ \A d \in Conns \ {c} : queue'[d] = queue[d]
        /\ \A w : Has(queue[c], w) <=> Head(queue[c]) = w \/ Has(queue'[c], w)
        /\ Ordered(queue[c]) => Ordered(queue'[c])
    BY <2>1, QueueShrinks
  <2>3. c \notin shown  BY <1>5, <2>1, <2>2 DEF ShownFacts
  <2>4. \A d \in Conns : /\ \A w : Has(queue'[d], w) => Has(queue[d], w)
                         /\ Ordered(queue[d]) => Ordered(queue'[d])
    BY <2>2
  <2>5. \A d \in Conns : Outstanding(d)' => Outstanding(d)  BY <2>1, <2>4, WaitsIsHas
  <2>6. \A d \in shown : remote'[d] = remote[d]  BY <1>2, <2>1, <2>3
  <2> QED  BY <1>5, <2>1, <2>4, <2>5, <2>6 DEF ShownFacts
<1>22. CASE \E c \in Conns : UserAnswers(c)
  <2>1. /\ UNCHANGED <<windowAction, conn, remote, queue, callback, pc>>
        /\ shown' \subseteq shown
    BY <1>22 DEF UserAnswers, connVars
  <2>2. windowAction # "show" /\ pc["caller"] \notin {"close", "send"} => shown = {}
    BY <1>5 DEF ShownFacts
  <2> QED  BY <1>5, <2>1, <2>2, ShownKept
<1>23. CASE HostDies
  <2>1. /\ \A c \in shown : ~Outstanding(c)
        /\ shown' = {} /\ UNCHANGED <<windowAction, conn, remote, callback, pc>>
        /\ queue' = [c \in Conns |-> IF c \in shown THEN Append(queue[c], "disconnect")
                                     ELSE queue[c]]
    BY <1>23 DEF HostDies, connVars
  <2>2. \A c \in Conns :
           /\ c \notin shown => queue'[c] = queue[c]
           /\ Has(queue'[c], "connect") <=> Has(queue[c], "connect")
           /\ Ordered(queue[c]) /\ ~Has(queue[c], "connect") => Ordered(queue'[c])
    BY <2>1, QueuesGrow
  <2>3. \A c \in Conns : Outstanding(c)' => Outstanding(c)  BY <2>1, <2>2, WaitsIsHas
  <2>4. \A c \in shown : callback[c] = "idle" /\ ~Has(queue[c], "connect")
    BY <1>2, <2>1, WaitsIsHas
  <2>5. \A c \in Conns : Ordered(queue'[c])
    BY <1>5, <2>2, <2>4 DEF ShownFacts
  <2>6. \A c \in Conns : callback[c] # "idle" => ~Has(queue'[c], "disconnect")
    BY <1>5, <2>2, <2>4 DEF ShownFacts
  <2> QED  BY <1>5, <2>1, <2>3, <2>5, <2>6 DEF ShownFacts
<1> QED  BY <1>6, <1>7, <1>8, <1>10, <1>11, <1>12, <1>13, <1>14, <1>15, <1>16, <1>17,
            <1>18, <1>19, <1>20, <1>21, <1>22, <1>23 DEF Next, Inert, Show, Callback

(***************************************************************************)
(* The window.  What still has to come.                                    *)
(***************************************************************************)
(* Nothing that is awaited is taken away.                                  *)
LEMMA AwaitedKept ==
  ASSUME AwaitedInv, missed => missed',
         UNCHANGED <<windowAction, installed, bundle, watch, subscribed>>,
         \/ boot' \/ windowAction # "show"
         \/ /\ boot' = boot
            /\ pc["caller"] \in {"booted", "watch"} => pc'["caller"] \in {"booted", "watch"},
         installed \/ pc'["check"] = pc["check"]
  PROVE  AwaitedInv'
BY DEF AwaitedInv

(* The boot and the installation are awaited until they come.              *)
LEMMA AwaitedInvNext ==
  ASSUME ThreadPart, AwaitedInv, Next
  PROVE  AwaitedInv'
<1>1. missed => missed'  BY HistoryStays
<1>2. /\ pc \in [Threads -> Places]
      /\ installed => bundle
      /\ pc["check"] \in {"action", "booted", "show"} \union Opening => installed
      /\ \A t \in Threads : pc[t] \in {"show"} \union Opening => boot
      /\ pc["caller"] \in Closing => windowAction = "dismiss"
  BY ThreadsApart DEF ThreadPart, FoundInv
<1>3. SUFFICES ASSUME ~missed' PROVE AwaitedInv'
  BY DEF AwaitedInv
<1>4. /\ ~missed
      /\ windowAction = "show" /\ ~boot => watch \/ pc["caller"] \in {"booted", "watch"}
      /\ ~installed => pc["check"] \in {"query", "subscribe"} \/ (subscribed /\ ~bundle)
  BY <1>1, <1>3 DEF AwaitedInv
<1>5. CASE Query
  <2>1. /\ installed' = bundle
        /\ Goto("check", IF bundle THEN "action"
                         ELSE IF tries + 1 < MaxRetry THEN "query"
                         ELSE IF subscribed THEN "idle" ELSE "subscribe")
        /\ UNCHANGED <<windowAction, boot, bundle, watch, subscribed>>
    BY <1>5 DEF Query, outsideVars, eventVars
  <2>2. pc'["caller"] = pc["caller"]  BY <1>2, <2>1, ThreadsApart DEF Goto
  <2>3. ~bundle => pc'["check"] \in {"query", "subscribe"} \/ subscribed
    BY <1>2, <2>1, ThreadsApart DEF Goto
  <2> QED  BY <1>4, <2>1, <2>2, <2>3 DEF AwaitedInv
<1>6. CASE CheckDialogInstallStatus \/ CheckBoot
  <2>1. /\ pc["check"] \in {"action", "booted"}
        /\ UNCHANGED <<windowAction, installed, boot, bundle, watch, subscribed>>
        /\ \E l : Goto("check", l)
    BY <1>6 DEF CheckDialogInstallStatus, CheckBoot, outsideVars, eventVars
  <2>2. pc'["caller"] = pc["caller"] /\ installed
    BY <1>2, <2>1, ThreadsApart DEF Goto
  <2> QED  BY <1>1, <2>1, <2>2, AwaitedKept
<1>7. CASE SubscribeCommonEvent
  <2>1. /\ missed' = (missed \/ bundle \/ ~subscribed') /\ Goto("check", "idle")
        /\ UNCHANGED <<windowAction, installed, boot, bundle, watch>>
    BY <1>7 DEF SubscribeCommonEvent, outsideVars
  <2>2. pc'["caller"] = pc["caller"]  BY <1>2, <2>1, ThreadsApart DEF Goto
  <2>3. ~bundle /\ subscribed'  BY <1>3, <2>1
  <2> QED  BY <1>4, <2>1, <2>2, <2>3 DEF AwaitedInv
<1>8. CASE OnReceiveEvent
  <2>1. /\ UNCHANGED <<windowAction, installed, boot, watch, subscribed>>
        /\ \/ subscribed /\ Goto("check", "query")
           \/ ~subscribed /\ UNCHANGED pc
    BY <1>8 DEF OnReceiveEvent, eventVars
  <2>2. pc'["caller"] = pc["caller"]  BY <1>2, <2>1, ThreadsApart DEF Goto
  <2>3. ~installed => pc'["check"] \in {"query", "subscribe"}
    BY <1>2, <1>4, <2>1, ThreadsApart DEF Goto
  <2> QED  BY <1>4, <2>1, <2>2, <2>3 DEF AwaitedInv
<1>9. CASE PopUpFunctionSwitchWindow
  <2>1. /\ Goto("caller", "booted")
        /\ UNCHANGED <<installed, boot, bundle, watch, subscribed>>
    BY <1>9 DEF PopUpFunctionSwitchWindow, outsideVars, eventVars
  <2>2. pc'["caller"] = "booted" /\ pc'["check"] = pc["check"]
    BY <1>2, <2>1, ThreadsApart DEF Goto
  <2> QED  BY <1>4, <2>1, <2>2 DEF AwaitedInv
<1>10. CASE PopUpBoot
  <2>1. /\ Goto("caller", IF boot THEN "show" ELSE "watch")
        /\ UNCHANGED <<windowAction, installed, boot, bundle, watch, subscribed>>
    BY <1>10 DEF PopUpBoot, outsideVars, eventVars
  <2>2. /\ ~boot => pc'["caller"] = "watch"
        /\ pc'["check"] = pc["check"]
    BY <1>2, <2>1, ThreadsApart DEF Goto
  <2> QED  BY <1>1, <2>1, <2>2, AwaitedKept
<1>11. CASE WatchBoot
  <2>1. PICK ok \in BOOLEAN : watch' = (watch \/ ok) /\ missed' = (missed \/ boot \/ ~ok)
    BY <1>11 DEF WatchBoot
  <2>2. Goto("caller", "idle") /\ UNCHANGED <<windowAction, installed, boot, bundle, subscribed>>
    BY <1>11 DEF WatchBoot, Return, outsideVars
  <2>3. pc'["check"] = pc["check"]  BY <1>2, <2>2, ThreadsApart DEF Goto
  <2>4. watch'  BY <1>3, <2>1
  <2> QED  BY <1>4, <2>2, <2>3, <2>4 DEF AwaitedInv
<1>12. CASE BootCompletes \/ ShowWindowIfConnected
  <2>1. /\ UNCHANGED <<windowAction, installed, bundle, watch, subscribed>>
        /\ boot' = TRUE \/ boot' = boot
        /\ UNCHANGED pc \/ \E l : Goto("boot", l)
    BY <1>12 DEF BootCompletes, ShowWindowIfConnected, outsideVars, eventVars
  <2>2. pc'["caller"] = pc["caller"] /\ pc'["check"] = pc["check"]
    BY <1>2, <2>1, ThreadsApart DEF Goto
  <2> QED  BY <1>1, <2>1, <2>2, AwaitedKept
<1>13. CASE DismissFunctionSwitchWindow
  <2>1. /\ windowAction' = "dismiss" /\ Goto("caller", "close")
        /\ UNCHANGED <<installed, boot, bundle, watch, subscribed>>
    BY <1>13 DEF DismissFunctionSwitchWindow, outsideVars, eventVars
  <2>2. pc'["check"] = pc["check"]  BY <1>2, <2>1, ThreadsApart DEF Goto
  <2> QED  BY <1>4, <2>1, <2>2 DEF AwaitedInv
<1>14. CASE UnShowFunctionSwitchWindow \/ CloseDialog \/ DisconnectAbility
  <2>1. /\ pc["caller"] \in Closing
        /\ UNCHANGED <<windowAction, installed, boot, bundle, watch, subscribed>>
        /\ UNCHANGED pc \/ \E l : Goto("caller", l)
    BY <1>14 DEF UnShowFunctionSwitchWindow, CloseDialog, DisconnectAbility, Return,
                 Closing, outsideVars, eventVars
  <2>2. pc'["check"] = pc["check"] /\ windowAction # "show"
    BY <1>2, <2>1, ThreadsApart DEF Goto
  <2> QED  BY <1>1, <2>1, <2>2, AwaitedKept
<1>15. ASSUME NEW t \in Threads, Show(t) PROVE AwaitedInv'
  <2>1. /\ pc[t] \in {"show"} \union Opening
        /\ UNCHANGED <<windowAction, installed, boot, bundle, watch, subscribed>>
        /\ UNCHANGED pc \/ \E l : Goto(t, l)
    BY <1>15 DEF Show, ShowFunctionSwitchWindow, TestConn, CreateConn, ReopenDialog,
       ConnectAbility, GiveUp, Return, Opening, outsideVars, eventVars
  <2>2. boot' = boot /\ boot  BY <1>2, <2>1
  <2>3. installed \/ pc'["check"] = pc["check"]
    BY <1>2, <2>1, ThreadsApart DEF Goto
  <2> QED  BY <1>1, <2>1, <2>2, <2>3, AwaitedKept
<1>16. CASE \/ \E c \in Conns : Callback(c) \/ UserAnswers(c)
            \/ HostDies \/ ConnRace
  <2>1. UNCHANGED <<windowAction, installed, boot, bundle, watch, subscribed, pc>>
    BY <1>16 DEF Callback, OnAbilityConnectDone, AbortDialog, DisplayDialog, RecordRemote,
       OnAbilityDisconnectDone, UserAnswers, HostDies, ConnRace, outsideVars, eventVars
  <2> QED  BY <1>1, <2>1, AwaitedKept
<1> QED  BY <1>5, <1>6, <1>7, <1>8, <1>9, <1>10, <1>11, <1>12, <1>13, <1>14, <1>15, <1>16
            DEF Next

(* A null or freed pointer is only used after a hurry or a race.           *)
LEMMA CrashNext ==
  ASSUME ConnPart, ConnInv, CallbackInv, CrashOnlyHurried, Next
  PROVE  CrashOnlyHurried'
<1>1. (raced => raced') /\ (hurried => hurried') /\ ~crashed
  BY HistoryStays DEF Next
<1>2. SUFFICES ASSUME ~raced', ~hurried' PROVE ~crashed'
  BY DEF CrashOnlyHurried
<1>3. ~raced /\ ~hurried  BY <1>1, <1>2
<1>4. ASSUME NEW t \in Threads, ReopenDialog(t) PROVE ~crashed'
  <2>1. conn # Null  BY <1>3, <1>4 DEF ReopenDialog, ConnInv
  <2> QED  BY <1>1, <1>4, <2>1 DEF ReopenDialog
<1>5. CASE CloseDialog
  <2>1. conn # Null  BY <1>3, <1>5, ThreadsApart DEF CloseDialog, ConnInv
  <2> QED  BY <1>1, <1>5, <2>1 DEF CloseDialog
<1>6. ASSUME NEW c \in Conns, AbortDialog(c) PROVE FALSE
  BY <1>3, <1>6 DEF AbortDialog, CallbackInv
<1>7. CASE ConnRace
  <2>1. PICK t \in Threads : pc[t] \in UsesConn /\ Overlap(t)  BY <1>7 DEF ConnRace
  <2> QED  BY <1>3, <2>1 DEF Overlap, ConnInv
<1>8. CASE UNCHANGED crashed  BY <1>1, <1>8
<1>9. ASSUME NEW t \in Threads, Show(t) PROVE ~crashed'
  BY <1>4, <1>8, <1>9 DEF Show, ShowFunctionSwitchWindow, TestConn, CreateConn,
     ConnectAbility, GiveUp
<1>10. ASSUME NEW c \in Conns, Callback(c) \/ UserAnswers(c) PROVE ~crashed'
  BY <1>6, <1>8, <1>10 DEF Callback, OnAbilityConnectDone, DisplayDialog, RecordRemote,
     OnAbilityDisconnectDone, UserAnswers
<1> QED
  BY <1>5, <1>7, <1>8, <1>9, <1>10 DEF Next, Query, CheckDialogInstallStatus, CheckBoot,
     SubscribeCommonEvent, OnReceiveEvent, PopUpFunctionSwitchWindow, PopUpBoot, WatchBoot,
     BootCompletes, ShowWindowIfConnected, DismissFunctionSwitchWindow,
     UnShowFunctionSwitchWindow, DisconnectAbility, HostDies

(***************************************************************************)
(* The window.  An earlier abort, and the way to the display.              *)
(***************************************************************************)
(* Where the caller is while the abort of an earlier Dismiss may stand.    *)
Reopening == {"booted", "show", "conn", "create", "reopen"}

(* Nobody connects before the abort is taken back.                         *)
LEMMA ReopenInvNext ==
  ASSUME ThreadPart, ConnPart, ReopenInv, Next
  PROVE  ReopenInv'
<1>1. /\ pc \in [Threads -> Places]
      /\ conn # Null => boot /\ installed
      /\ pc["caller"] \in Closing => windowAction = "dismiss"
      /\ conn \in {Null} \union Conns /\ abort \in [Conns -> BOOLEAN]
      /\ used \in Nat /\ \A c \in Conns : abort[c] => c <= used
  BY DEF ThreadPart, FoundInv, ConnPart
<1>2. windowAction = "show" /\ conn # Null /\ abort[conn] => pc["caller"] \in Reopening
  BY DEF ReopenInv, Reopening
<1>3. ASSUME UNCHANGED <<windowAction, conn, abort>>,
             conn # Null /\ pc["caller"] \in Reopening => pc'["caller"] \in Reopening
      PROVE  ReopenInv'
  BY <1>2, <1>3 DEF ReopenInv, Reopening
<1>4. CASE \/ Query \/ CheckDialogInstallStatus \/ CheckBoot \/ SubscribeCommonEvent
           \/ OnReceiveEvent \/ BootCompletes \/ ShowWindowIfConnected
  <2>1. /\ UNCHANGED <<windowAction, conn, abort>>
        /\ UNCHANGED pc \/ \E t \in {"boot", "check"} : \E l : Goto(t, l)
    BY <1>4 DEF Query, CheckDialogInstallStatus, CheckBoot, SubscribeCommonEvent,
       OnReceiveEvent, BootCompletes, ShowWindowIfConnected, connVars
  <2>2. pc'["caller"] = pc["caller"]  BY <1>1, <2>1, ThreadsApart DEF Goto
  <2> QED  BY <1>3, <2>1, <2>2
<1>5. CASE PopUpFunctionSwitchWindow
  <2>1. pc'["caller"] = "booted"
    BY <1>1, <1>5, ThreadsApart DEF PopUpFunctionSwitchWindow, Goto
  <2> QED  BY <2>1 DEF ReopenInv
<1>6. CASE PopUpBoot
  <2>1. /\ UNCHANGED <<windowAction, conn, abort>>
        /\ Goto("caller", IF boot THEN "show" ELSE "watch")
    BY <1>6 DEF PopUpBoot, connVars
  <2>2. conn # Null => pc'["caller"] = "show"  BY <1>1, <2>1, ThreadsApart DEF Goto
  <2> QED  BY <1>3, <2>1, <2>2 DEF Reopening
<1>7. CASE WatchBoot
  <2>1. UNCHANGED <<windowAction, conn, abort>> /\ pc["caller"] = "watch"
    BY <1>7 DEF WatchBoot, connVars
  <2> QED  BY <1>3, <2>1 DEF Reopening
<1>8. CASE DismissFunctionSwitchWindow
  BY <1>8 DEF DismissFunctionSwitchWindow, ReopenInv
<1>9. CASE UnShowFunctionSwitchWindow \/ CloseDialog \/ DisconnectAbility
  <2>1. pc["caller"] \in Closing /\ UNCHANGED windowAction
    BY <1>9 DEF UnShowFunctionSwitchWindow, CloseDialog, DisconnectAbility, Closing
  <2> QED  BY <1>1, <2>1 DEF ReopenInv
<1>10. ASSUME NEW t \in Threads, ShowFunctionSwitchWindow(t) \/ TestConn(t)
       PROVE  ReopenInv'
  <2>1. /\ UNCHANGED <<windowAction, conn, abort>>
        /\ \E l : Goto(t, l) /\ (installed => l \in Reopening)
    BY <1>10 DEF ShowFunctionSwitchWindow, TestConn, Return, connVars, Reopening
  <2>2. conn # Null /\ pc["caller"] \in Reopening => pc'["caller"] \in Reopening
    BY <1>1, <2>1, ThreadsApart DEF Goto
  <2> QED  BY <1>3, <2>1, <2>2
<1>11. ASSUME NEW t \in Threads, CreateConn(t) PROVE ReopenInv'
  <2>1. conn' = used + 1 /\ used < MaxConns /\ UNCHANGED abort  BY <1>11 DEF CreateConn
  <2>2. used + 1 \in Conns /\ ~(used + 1 <= used)
    BY <1>1, <2>1, WindowAssumption DEF Conns
  <2>3. ~abort'[conn']  BY <1>1, <2>1, <2>2
  <2> QED  BY <2>3 DEF ReopenInv
<1>12. ASSUME NEW t \in Threads, ReopenDialog(t) PROVE ReopenInv'
  <2>1. UNCHANGED conn /\ (conn # Null => abort' = [abort EXCEPT ![conn] = FALSE])
    BY <1>12 DEF ReopenDialog
  <2>2. conn # Null => ~abort'[conn]  BY <1>1, <2>1
  <2> QED  BY <2>1, <2>2 DEF ReopenInv
<1>13. ASSUME NEW t \in Threads, ConnectAbility(t) PROVE ReopenInv'
  <2>1. /\ pc[t] = "connect" /\ UNCHANGED <<windowAction, conn, abort>>
        /\ \E l : Goto(t, l)
    BY <1>13 DEF ConnectAbility, Return, connVars
  <2>2. pc["caller"] \in Reopening => t # "caller"  BY <2>1 DEF Reopening
  <2>3. pc["caller"] \in Reopening => pc'["caller"] = pc["caller"]
    BY <1>1, <2>1, <2>2, ThreadsApart DEF Goto
  <2> QED  BY <1>3, <2>1, <2>3
<1>14. ASSUME NEW t \in Threads, GiveUp(t) PROVE ReopenInv'
  BY <1>14 DEF GiveUp, ReopenInv
<1>15. CASE \/ \E c \in Conns : Callback(c) \/ UserAnswers(c)
            \/ HostDies \/ ConnRace
  <2>1. UNCHANGED <<windowAction, conn, abort, pc>>
    BY <1>15 DEF Callback, OnAbilityConnectDone, AbortDialog, DisplayDialog, RecordRemote,
       OnAbilityDisconnectDone, UserAnswers, HostDies, ConnRace, connVars
  <2> QED  BY <1>3, <2>1
<1> QED  BY <1>4, <1>5, <1>6, <1>7, <1>8, <1>9, <1>10, <1>11, <1>12, <1>13, <1>14, <1>15
            DEF Next, Show

(* A callback that will display.                                           *)
Coming(c) == callback[c] = "display" \/ (Has(queue[c], "connect") /\ ~abort[c])

(* A place from which the thread goes on to the window.                    *)
Walking(t) ==
  \/ pc[t] \in {"booted", "show"} \union Opening
  \/ t = "caller" /\ pc[t] = "watch"
  \/ t = "boot"  /\ pc[t] = "lock"
  \/ t = "check" /\ pc[t] = "action"

(* The way to the window, in these terms.                                  *)
LEMMA WayIs ==
  /\ OnTheWay <=> (\E c \in Conns : Coming(c)) \/ (\E t \in Threads : Walking(t))
  /\ OnTheWay' <=> (\E c \in Conns : Coming(c)') \/ (\E t \in Threads : Walking(t)')
<1>1. OnTheWay <=> (\E c \in Conns : Coming(c)) \/ (\E t \in Threads : Walking(t))
  BY WaitsIsHas, ThreadsApart DEF OnTheWay, Coming, Walking
<1>2. OnTheWay' <=> (\E c \in Conns : Coming(c)') \/ (\E t \in Threads : Walking(t)')
  BY WaitsIsHas, ThreadsApart DEF OnTheWay, Coming, Walking
<1> QED  BY <1>1, <1>2

(* Whoever is on the way arrives, or is refused.                           *)
LEMMA PromptInvNext ==
  ASSUME ThreadPart, ConnPart, AwaitedInv, ReopenInv, PromptInv, Next
  PROVE  PromptInv'
<1>1. (missed => missed') /\ ~crashed  BY HistoryStays DEF Next
<1>2. /\ pc \in [Threads -> Places]
      /\ installed => bundle
      /\ pc["caller"] \in Closing => windowAction = "dismiss"
      /\ conn \in {Null} \union Conns
      /\ callback \in [Conns -> {"idle", "abort", "display", "record"}]
  BY DEF ThreadPart, FoundInv, ConnPart
<1>3. SUFFICES ASSUME windowAction' = "show", boot', installed', ~refused', ~missed',
                      ~crashed', ~prompted'
               PROVE  OnTheWay'
  BY DEF PromptInv
<1>4. ~missed  BY <1>1, <1>3
<1>5. ASSUME windowAction = "show", boot, installed, ~refused, ~prompted
      PROVE  (\E c \in Conns : Coming(c)) \/ (\E t \in Threads : Walking(t))
  BY <1>1, <1>4, <1>5, WayIs DEF PromptInv
<1>6. CASE Query
  <2>1. installed' = bundle /\ Goto("check", IF bundle THEN "action"
                                             ELSE IF tries + 1 < MaxRetry THEN "query"
                                             ELSE IF subscribed THEN "idle" ELSE "subscribe")
    BY <1>6 DEF Query
  <2>2. pc'["check"] = "action"  BY <1>2, <1>3, <2>1, ThreadsApart DEF Goto
  <2> QED  BY <2>2 DEF OnTheWay
<1>7. CASE CheckDialogInstallStatus \/ CheckBoot
  <2>1. \/ Goto("check", IF windowAction = "show" THEN "booted" ELSE "idle")
        \/ Goto("check", IF boot THEN "show" ELSE "idle")
    BY <1>7 DEF CheckDialogInstallStatus, CheckBoot
  <2>2. windowAction = "show" /\ boot
    BY <1>3, <1>7 DEF CheckDialogInstallStatus, CheckBoot, outsideVars
  <2>3. pc'["check"] \in {"booted", "show"}  BY <1>2, <2>1, <2>2, ThreadsApart DEF Goto
  <2> QED  BY <2>3, ThreadsApart DEF OnTheWay
<1>8. CASE SubscribeCommonEvent
  <2>1. /\ pc["check"] = "subscribe" /\ Goto("check", "idle")
        /\ UNCHANGED <<windowAction, boot, installed, refused, prompted, queue, callback, abort>>
    BY <1>8 DEF SubscribeCommonEvent, connVars, hostVars, outsideVars
  <2>2. \A t \in Threads : Walking(t) => pc'[t] = pc[t]
    BY <1>2, <2>1, ThreadsApart DEF Goto, Walking, Opening
  <2>3. \A t \in Threads : Walking(t) => Walking(t)'  BY <2>2 DEF Walking
  <2>4. \A c \in Conns : Coming(c) => Coming(c)'  BY <2>1 DEF Coming
  <2> QED  BY <1>3, <1>5, <2>1, <2>3, <2>4, WayIs
<1>9. CASE OnReceiveEvent
  BY <1>2, <1>3, <1>9 DEF OnReceiveEvent
<1>10. CASE PopUpFunctionSwitchWindow \/ PopUpBoot
  <2>1. PICK l \in {"booted", "show", "watch"} : Goto("caller", l)
    BY <1>10 DEF PopUpFunctionSwitchWindow, PopUpBoot
  <2>2. pc'["caller"] \in {"booted", "show", "watch"}  BY <1>2, <2>1, ThreadsApart DEF Goto
  <2> QED  BY <2>2, ThreadsApart DEF OnTheWay
<1>11. CASE WatchBoot
  <2>1. PICK ok \in BOOLEAN : missed' = (missed \/ boot \/ ~ok)  BY <1>11 DEF WatchBoot
  <2>2. boot' = boot  BY <1>11 DEF WatchBoot, outsideVars
  <2> QED  BY <1>3, <2>1, <2>2
<1>12. CASE BootCompletes
  <2>1. /\ ~boot /\ UNCHANGED windowAction
        /\ IF watch THEN Goto("boot", "lock") ELSE UNCHANGED pc
    BY <1>12 DEF BootCompletes
  <2>2. watch \/ pc["caller"] \in {"booted", "watch"}
    BY <1>3, <1>4, <2>1 DEF AwaitedInv
  <2>3. pc'["boot"] = "lock" \/ pc'["caller"] \in {"booted", "watch"}
    BY <1>2, <2>1, <2>2, ThreadsApart DEF Goto
  <2> QED  BY <2>3, ThreadsApart DEF OnTheWay
<1>13. CASE ShowWindowIfConnected
  <2>1. windowAction = "show" /\ Goto("boot", "show")
    BY <1>3, <1>13 DEF ShowWindowIfConnected
  <2>2. pc'["boot"] = "show"  BY <1>2, <2>1, ThreadsApart DEF Goto
  <2> QED  BY <2>2, ThreadsApart DEF OnTheWay
<1>14. CASE DismissFunctionSwitchWindow
  BY <1>3, <1>14 DEF DismissFunctionSwitchWindow
<1>15. CASE UnShowFunctionSwitchWindow \/ CloseDialog \/ DisconnectAbility
  <2>1. pc["caller"] \in Closing /\ UNCHANGED windowAction
    BY <1>15 DEF UnShowFunctionSwitchWindow, CloseDialog, DisconnectAbility, Closing
  <2> QED  BY <1>2, <1>3, <2>1
<1>16. ASSUME NEW t \in Threads,
              \/ ShowFunctionSwitchWindow(t) \/ TestConn(t) \/ CreateConn(t) \/ ReopenDialog(t)
       PROVE  OnTheWay'
  <2>1. PICK l \in Opening : Goto(t, l)
    <3>1. CASE ShowFunctionSwitchWindow(t)
      BY <1>3, <3>1 DEF ShowFunctionSwitchWindow, Opening
    <3>2. CASE ReopenDialog(t)  BY <1>3, <3>2 DEF ReopenDialog, Opening
    <3>3. CASE TestConn(t) \/ CreateConn(t)  BY <3>3 DEF TestConn, CreateConn, Opening
    <3> QED  BY <1>16, <3>1, <3>2, <3>3
  <2>2. pc'[t] \in Opening  BY <1>2, <2>1 DEF Goto
  <2> QED  BY <2>2 DEF OnTheWay
<1>17. ASSUME NEW t \in Threads, ConnectAbility(t) PROVE OnTheWay'
  <2>1. CASE Goto(t, "giveUp")
    <3>1. pc'[t] = "giveUp"  BY <1>2, <2>1 DEF Goto
    <3> QED  BY <3>1 DEF OnTheWay, Opening
  <2>2. CASE conn # Null /\ queue' = [queue EXCEPT ![conn] = Append(@, "connect")]
    <3>1. /\ pc[t] = "connect" /\ UNCHANGED <<windowAction, conn, abort>>
          /\ \E l : Goto(t, l)
      BY <1>17 DEF ConnectAbility, Return, connVars
    <3>2. conn \in Conns /\ "connect" \in Kinds  BY <1>2, <2>2 DEF Kinds
    <3>3. Has(queue'[conn], "connect")  BY <2>2, <3>2, QueueGrows
    <3>4. CASE ~abort[conn]
      <4>1. Coming(conn)'  BY <3>1, <3>3, <3>4 DEF Coming
      <4> QED  BY <3>1, <3>2, <4>1, WayIs
    <3>5. CASE abort[conn]
      <4>1. pc["caller"] \in Reopening
        BY <1>3, <2>2, <3>1, <3>5 DEF ReopenInv, Reopening
      <4>2. t # "caller"  BY <3>1, <4>1 DEF Reopening
      <4>3. pc'["caller"] = pc["caller"]  BY <1>2, <3>1, <4>2, ThreadsApart DEF Goto
      <4> QED  BY <4>1, <4>3, ThreadsApart DEF OnTheWay, Reopening, Opening
    <3> QED  BY <3>4, <3>5
  <2> QED  BY <1>17, <2>1, <2>2 DEF ConnectAbility
<1>18. ASSUME NEW t \in Threads, GiveUp(t) PROVE OnTheWay'
  BY <1>3, <1>18 DEF GiveUp
<1>19. ASSUME UNCHANGED <<windowAction, boot, installed, refused, prompted, pc>>,
              \A c \in Conns : Coming(c) => Coming(c)'
       PROVE  OnTheWay'
  <2>1. \A t \in Threads : Walking(t) => Walking(t)'  BY <1>19 DEF Walking
  <2> QED  BY <1>3, <1>5, <1>19, <2>1, WayIs
<1>20. ASSUME NEW c \in Conns, OnAbilityConnectDone(c) PROVE OnTheWay'
  <2>1. /\ callback[c] = "idle" /\ queue[c] # <<>>
        /\ queue' = [queue EXCEPT ![c] = Tail(@)]
        /\ callback' = [callback EXCEPT ![c] = IF abort[c] THEN "abort" ELSE "display"]
        /\ UNCHANGED <<windowAction, boot, installed, refused, prompted, pc, abort>>
    BY <1>3, <1>20 DEF OnAbilityConnectDone, connVars, outsideVars
  <2>2. \A d \in Conns \ {c} : queue'[d] = queue[d] /\ callback'[d] = callback[d]
    BY <1>2, <2>1, QueueShrinks
  <2>3. \A d \in Conns \ {c} : Coming(d) => Coming(d)'  BY <2>1, <2>2 DEF Coming
  <2>4. callback'[c] = IF abort[c] THEN "abort" ELSE "display"  BY <1>2, <2>1
  <2>5. Coming(c) => Coming(c)'  BY <2>1, <2>4 DEF Coming
  <2> QED  BY <1>19, <2>1, <2>3, <2>5
<1>21. ASSUME NEW c \in Conns, AbortDialog(c) \/ RecordRemote(c) PROVE OnTheWay'
  <2>1. /\ callback[c] \in {"abort", "record"} /\ callback' = [callback EXCEPT ![c] = "idle"]
        /\ UNCHANGED <<windowAction, boot, installed, refused, prompted, pc, abort, queue>>
    BY <1>21 DEF AbortDialog, RecordRemote, connVars, outsideVars, historyVars
  <2>2. \A d \in Conns : callback[d] = "display" => callback'[d] = "display"  BY <1>2, <2>1
  <2>3. \A d \in Conns : Coming(d) => Coming(d)'  BY <2>1, <2>2 DEF Coming
  <2> QED  BY <1>19, <2>1, <2>3
<1>22. ASSUME NEW c \in Conns, DisplayDialog(c) PROVE OnTheWay'
  BY <1>3, <1>22 DEF DisplayDialog
<1>23. ASSUME NEW c \in Conns, OnAbilityDisconnectDone(c) PROVE OnTheWay'
  <2>1. /\ queue[c] # <<>> /\ Head(queue[c]) = "disconnect"
        /\ queue' = [queue EXCEPT ![c] = Tail(@)]
        /\ UNCHANGED <<windowAction, boot, installed, refused, prompted, pc, abort, callback>>
    BY <1>23 DEF OnAbilityDisconnectDone, outsideVars, historyVars
  <2>2. \A d \in Conns : Has(queue[d], "connect") => Has(queue'[d], "connect")
    BY <2>1, QueueShrinks
  <2>3. \A d \in Conns : Coming(d) => Coming(d)'  BY <2>1, <2>2 DEF Coming
  <2> QED  BY <1>19, <2>1, <2>3
<1>24. CASE \E c \in Conns : UserAnswers(c)
  <2>1. UNCHANGED <<windowAction, boot, installed, refused, prompted, pc, abort, queue, callback>>
    BY <1>24 DEF UserAnswers, connVars, outsideVars, historyVars
  <2>2. \A d \in Conns : Coming(d) => Coming(d)'  BY <2>1 DEF Coming
  <2> QED  BY <1>19, <2>1, <2>2
<1>25. CASE HostDies
  <2>1. /\ queue' = [c \in Conns |-> IF c \in shown THEN Append(queue[c], "disconnect")
                                     ELSE queue[c]]
        /\ UNCHANGED <<windowAction, boot, installed, refused, prompted, pc, abort, callback>>
    BY <1>25 DEF HostDies, connVars, outsideVars, historyVars
  <2>2. \A d \in Conns : Has(queue[d], "connect") => Has(queue'[d], "connect")
    BY <2>1, QueuesGrow
  <2>3. \A d \in Conns : Coming(d) => Coming(d)'  BY <2>1, <2>2 DEF Coming
  <2> QED  BY <1>19, <2>1, <2>3
<1>26. CASE ConnRace  BY <1>3, <1>26 DEF ConnRace
<1> QED  BY <1>6, <1>7, <1>8, <1>9, <1>10, <1>11, <1>12, <1>13, <1>14, <1>15, <1>16, <1>17,
            <1>18, <1>20, <1>21, <1>22, <1>23, <1>24, <1>25, <1>26 DEF Next, Show, Callback

(***************************************************************************)
(* The window.  The invariant and what follows from it.                    *)
(***************************************************************************)
(* The parts in which the steps are proved.                                *)
LEMMA WindowParts ==
  /\ WindowInv <=> /\ ThreadPart /\ ConnPart /\ ConnInv /\ CallbackInv /\ ShownInv
                   /\ AwaitedInv /\ ReopenInv /\ PromptInv /\ CrashOnlyHurried
  /\ WindowInv' <=> /\ ThreadPart' /\ ConnPart' /\ ConnInv' /\ CallbackInv' /\ ShownInv'
                    /\ AwaitedInv' /\ ReopenInv' /\ PromptInv' /\ CrashOnlyHurried'
<1>1. WindowInv <=> /\ ThreadPart /\ ConnPart /\ ConnInv /\ CallbackInv /\ ShownInv
                    /\ AwaitedInv /\ ReopenInv /\ PromptInv /\ CrashOnlyHurried
  BY DEF WindowInv, WindowTypeOK, ThreadPart, ConnPart, Places, Kinds
<1>2. WindowInv' <=> /\ ThreadPart' /\ ConnPart' /\ ConnInv' /\ CallbackInv' /\ ShownInv'
                     /\ AwaitedInv' /\ ReopenInv' /\ PromptInv' /\ CrashOnlyHurried'
  BY DEF WindowInv, WindowTypeOK, ThreadPart, ConnPart, Places, Kinds
<1> QED  BY <1>1, <1>2

(* The service starts in the invariant.                                    *)
LEMMA WindowInvInit ==
  ASSUME Init
  PROVE  WindowInv
<1> USE DEF Init
<1>1. pc["caller"] = "idle" /\ pc["boot"] = "idle" /\ pc["check"] = "query"
  OBVIOUS
<1>2. \A t \in Threads : pc[t] \in {"idle", "query"}  BY <1>1, ThreadsApart
<1>3. ThreadPart
  <2>1. pc \in [Threads -> Places]
    BY DEF Threads, Places, CallerAt, BootAt, CheckAt
  <2>2. LockInv  BY <1>1 DEF LockInv
  <2>3. FoundInv  BY <1>1, <1>2 DEF FoundInv, Opening, Closing
  <2> QED  BY <1>1, <2>1, <2>2, <2>3 DEF ThreadPart, CallerAt, BootAt, CheckAt
<1>4. ConnPart
  <2>1. <<>> \in Seq(Kinds)
    OBVIOUS
  <2> QED  BY <2>1 DEF ConnPart, Null
<1>5. \A c \in Conns : /\ ~abort[c] /\ callback[c] = "idle" /\ queue[c] = <<>>
                       /\ ~Has(queue[c], "connect") /\ ~Outstanding(c)
  BY WaitsIsHas DEF Has
<1>6. ConnInv  BY <1>2 DEF ConnInv, UsesConn
<1>7. CallbackInv  BY <1>5 DEF CallbackInv
<1>8. ShownInv
  <2>1. \A c \in Conns : Ordered(queue[c])  BY <1>5 DEF Ordered
  <2> QED  BY <1>5, <2>1, ShownIsFacts DEF ShownFacts
<1>9. AwaitedInv /\ ReopenInv /\ PromptInv /\ CrashOnlyHurried
  BY <1>1 DEF AwaitedInv, ReopenInv, PromptInv, CrashOnlyHurried
<1> QED  BY <1>3, <1>4, <1>6, <1>7, <1>8, <1>9, WindowParts

(* Every step stays in it.                                                 *)
LEMMA WindowInvNext ==
  ASSUME WindowInv, [Next]_vars
  PROVE  WindowInv'
<1>1. /\ ThreadPart /\ ConnPart /\ ConnInv /\ CallbackInv /\ ShownInv
      /\ AwaitedInv /\ ReopenInv /\ PromptInv /\ CrashOnlyHurried
  BY WindowParts
<1>2. CASE Next
  <2>1. ThreadPart'
    BY <1>1, <1>2, CheckThread, LockedThreads, ShowThread, OutsideThread DEF Next
  <2>2. ConnPart'  BY <1>1, <1>2, ConnPartNext
  <2>3. ConnInv'  BY <1>1, <1>2, ConnInvNext
  <2>4. CallbackInv'  BY <1>1, <1>2, CallbackInvNext
  <2>5. ShownInv'  BY <1>1, <1>2, ShownInvNext
  <2>6. AwaitedInv'  BY <1>1, <1>2, AwaitedInvNext
  <2>7. ReopenInv'  BY <1>1, <1>2, ReopenInvNext
  <2>8. PromptInv'  BY <1>1, <1>2, PromptInvNext
  <2>9. CrashOnlyHurried'  BY <1>1, <1>2, CrashNext
  <2> QED  BY <2>1, <2>2, <2>3, <2>4, <2>5, <2>6, <2>7, <2>8, <2>9, WindowParts
<1>3. CASE UNCHANGED vars
  <2> USE <1>1, <1>3 DEF vars, connVars, hostVars, outsideVars, eventVars, historyVars
  <2>1. ThreadPart'  BY OutsideThread
  <2>2. ConnPart'  BY DEF ConnPart
  <2>3. ConnInv'  BY DEF ConnInv
  <2>4. \A c \in Conns : Outstanding(c)' <=> Outstanding(c)  BY WaitsIsHas
  <2>5. CallbackInv'  BY <2>4 DEF CallbackInv
  <2>6. ShownInv'
    <3>1. ASSUME ShownFacts PROVE ShownFacts'  BY <2>4, <3>1 DEF ShownFacts
    <3> QED  BY <3>1, ShownIsFacts
  <2>7. AwaitedInv'  BY DEF AwaitedInv
  <2>8. ReopenInv'  BY DEF ReopenInv
  <2>9. PromptInv'  BY DEF PromptInv, OnTheWay, Waits
  <2>10. CrashOnlyHurried'  BY DEF CrashOnlyHurried
  <2> QED  BY <2>1, <2>2, <2>3, <2>5, <2>6, <2>7, <2>8, <2>9, <2>10, WindowParts
<1> QED  BY <1>2, <1>3

(* The strengthened invariant of the window holds for any number of calls, *)
(* connection objects and retries.                                         *)
THEOREM WindowInvariant == Spec => []WindowInv
<1>1. Init => WindowInv  BY WindowInvInit
<1>2. WindowInv /\ [Next]_vars => WindowInv'  BY WindowInvNext
<1> QED  BY <1>1, <1>2, PTL DEF Spec

(* UnShowFunctionSwitchWindow, ReopenDialog and OnAbilityConnectDone use a *)
(* null or freed pointer only when a Dismiss came before the connect       *)
(* callback or the unlocked install check met a holder of opMutex_.        *)
THEOREM CrashNeedsHurry == Spec => []CrashOnlyHurried
<1>1. WindowInv => CrashOnlyHurried  BY DEF WindowInv
<1> QED  BY <1>1, WindowInvariant, PTL

(* When everything is quiet, a window is still displayed only if it was    *)
(* asked for last, and it belongs to the connection Dismiss will find.     *)
THEOREM NoWindowIsLeft == Spec => []NoWindowLeft
<1>1. ASSUME WindowInv PROVE NoWindowLeft
  <2> SUFFICES ASSUME Quiet, shown # {}, ~hurried, ~raced, ~orphaned
               PROVE  windowAction = "show" /\ shown = {conn}
    BY DEF NoWindowLeft
  <2>1. ShownFacts  BY <1>1, ShownIsFacts DEF WindowInv
  <2>2. shown \subseteq Conns  BY <1>1 DEF WindowInv, WindowTypeOK
  <2>3. pc["caller"] = "idle"  BY ThreadsApart DEF Quiet
  <2>4. windowAction = "show"  BY <2>1, <2>3 DEF ShownFacts
  <2>5. \A c \in shown : c = conn  BY <2>1, <2>2 DEF ShownFacts
  <2> QED  BY <2>4, <2>5
<1> QED  BY <1>1, WindowInvariant, PTL

(* The request, the installation and the end of the boot may come in any   *)
(* order: once everything is quiet the requested window was displayed,     *)
(* unless somebody refused or an event was missed.                         *)
THEOREM PromptIsNotLost == Spec => []PromptNotLost
<1>1. ASSUME WindowInv PROVE PromptNotLost
  <2> SUFFICES ASSUME Quiet, windowAction = "show", boot, bundle, ~refused, ~missed
               PROVE  prompted
    BY DEF PromptNotLost
  <2>1. /\ ~crashed
        /\ \A t \in Threads : pc[t] = "idle"
        /\ \A c \in Conns : queue[c] = <<>> /\ callback[c] = "idle"
    BY DEF Quiet
  <2>2. installed  BY <1>1, <2>1, ThreadsApart DEF WindowInv, AwaitedInv
  <2>3. \A c \in Conns : ~Waits(c, "connect")  BY <2>1 DEF Waits
  <2>4. ~OnTheWay  BY <2>1, <2>3, ThreadsApart DEF OnTheWay, Opening
  <2> QED  BY <1>1, <2>1, <2>2, <2>4 DEF WindowInv, PromptInv
<1> QED  BY <1>1, WindowInvariant, PTL
=============================================================================
