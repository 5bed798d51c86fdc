----------------------------- MODULE UsbRightDb -----------------------------
(***************************************************************************)
(* The records of granted rights and their clean-up: UsbRightDbHelper      *)
(* (usb_right_db_helper.cpp) and the CleanUp and TidyUp functions of       *)
(* UsbRightManager (usb_right_manager.cpp), with the entry points of       *)
(* UsbService that grant, look up and remove a right.                      *)
(*                                                                         *)
(* databaseMutex_ and a transaction make every access to the table one     *)
(* step; what is read in one step and used in the next may be old by then. *)
(* A grant runs on an IPC thread, TidyUpRight on the thread that handles a *)
(* detach, the clean-up after an uninstall on the common event thread.     *)
(*                                                                         *)
(* The access token of an application is new with every installation.      *)
(* Every record is written with the period USB_RIGHT_VALID_PERIOD_SET, so  *)
(* that the branches for temporary and for unlimited records, and          *)
(* CleanUpRightTemporaryExpired, never find a record.                      *)
(***************************************************************************)
EXTENDS Naturals, Sequences, FiniteSets

CONSTANTS
  Users,        \* accounts
  Apps,         \* bundle names
  Devices,      \* devices, by vendor, product and serial number
  Period,       \* USB_RIGHT_VALID_PERIOD_SET
  Scenarios,    \* what may fail, which applications there are, and bounds
  MaxTime,      \* largest bound on the clock
  MaxInstalls,  \* largest bound on the number of installations
  MaxEvents     \* bound on the events not yet delivered

FaultNames ==
  {"db",         \* a transaction may fail
   "lookup",     \* the bundle or the account manager may fail
   "clock",      \* the system time may be set back
   "restart",    \* the service may be unloaded: work and events are lost
   "notInstalled"}  \* AddRight may name an application that is not installed

ASSUME RightDbAssumption ==
  /\ Period \in Nat \ {0}
  /\ MaxTime \in Nat /\ MaxInstalls \in Nat /\ MaxEvents \in Nat
  /\ Scenarios \subseteq [faults : SUBSET FaultNames, apps : SUBSET Apps,
                         time : 0 .. MaxTime, installs : 0 .. MaxInstalls]

VARIABLES
  now,      \* the system time
  users,    \* accounts that exist (external)
  inst,     \* installation of (user, app) there is now, or 0 (external)
  since,    \* its installTime (external)
  installs, \* number of installations so far (external)
  ended,    \* (user, app) pairs that were uninstalled before (external)
  rows,     \* usbRightInfoTable
  events,   \* common events published and not yet received
  grant,    \* the record AddDeviceRight is about to write, or Idle
  tidy,     \* progress of TidyUpRight, or Idle
  scenario  \* the scenario, fixed from the start

bundleVars == <<users, inst, since, installs, ended>>
dbVars == <<now, bundleVars, rows, events, grant, tidy, scenario>>

Faults == scenario.faults

Idle == [pc |-> "idle"]
Default == 0  \* USB_DEFAULT_TOKEN; an installation's own token is its number

DbInit ==
  /\ now = 0
  /\ users = Users
  /\ inst = [p \in Users \X Apps |-> 0]
  /\ since = [p \in Users \X Apps |-> 0]
  /\ installs = 0
  /\ ended = {}
  /\ rows = {}
  /\ events = <<>>
  /\ grant = Idle
  /\ tidy = Idle
  /\ scenario \in Scenarios

SameKey(r, s) == /\ r.user = s.user /\ r.app = s.app
                 /\ r.dev = s.dev /\ r.tok = s.tok

Pkg(r) == <<r.user, r.app>>

(***************************************************************************)
(* The table                                                               *)
(***************************************************************************)
IsRecordExpired(r) == now < r.request \/ now - r.request >= Period

(* Mutant: the clamp at zero is missing and the comparison is not strict.  *)
NormalExpiredMutant(r) == r.request + Period <= now + 1

(* The WHERE clause of DeleteNormalExpiredRightRecord.                     *)
NormalExpired(r) == r.request < (IF now <= Period THEN 0 ELSE now - Period)

(* A transaction is committed, or rolled back with the table as it was.    *)
Commit(rs) == rows' = rs \/ ("db" \in Faults /\ UNCHANGED rows)

DeleteNormalExpiredRightRecord(u) ==
  Commit({r \in rows : ~(r.user = u /\ NormalExpired(r))})

DeleteAppsRightRecord(u, as) ==
  Commit({r \in rows : ~(r.user = u /\ r.app \in as)})

DeleteUidRightRecord(us) == Commit({r \in rows : r.user \notin us})

RecordApps(u) == {r.app : r \in {s \in rows : s.user = u}}

HasRecord(u, a, d, t) ==
  \E r \in rows : /\ r.user = u /\ r.app = a /\ r.dev = d /\ r.tok = t
                  /\ ~IsRecordExpired(r)

(* UsbService::HasRight: the caller's own token, then the default one.     *)
HasRight(u, a, d) ==
  HasRecord(u, a, d, inst[<<u, a>>]) \/ HasRecord(u, a, d, Default)

(* HasRight tidies up the caller's expired records first.                  *)
HasRightTidies(u) ==
  /\ DeleteNormalExpiredRightRecord(u)
  /\ UNCHANGED <<now, bundleVars, events, grant, tidy>>

(***************************************************************************)
(* Granting and removing                                                   *)
(***************************************************************************)
(* AddDeviceRight reads the installation time; if that fails it takes the  *)
(* current time instead.                                                   *)
AddDeviceRight(u, a, d, t) ==
  /\ grant = Idle
  /\ u \in users
  /\ \E i \in (IF inst[<<u, a>>] # 0 THEN {since[<<u, a>>]} ELSE {})
               \union (IF inst[<<u, a>>] = 0 \/ "lookup" \in Faults THEN {now}
                       ELSE {}) :
        grant' = [pc |-> "write", user |-> u, app |-> a, dev |-> d, tok |-> t,
                  install |-> i, request |-> now, for |-> inst[<<u, a>>]]
  /\ UNCHANGED <<now, bundleVars, rows, events, tidy>>

(* The dialog grants to the token of an installed application.             *)
AddAccessRight(u, a, d) ==
  inst[<<u, a>>] # 0 /\ AddDeviceRight(u, a, d, inst[<<u, a>>])

(* A system application grants by bundle name, with the default token.     *)
AddRight(u, a, d) ==
  /\ inst[<<u, a>>] # 0 \/ "notInstalled" \in Faults
  /\ AddDeviceRight(u, a, d, Default)

(* A record has its key, the time of the installation and of the request;  *)
(* for and late are history: the installation the grant was made for, and  *)
(* whether it was over when the record was written.                        *)
NewRow ==
  [user |-> grant.user, app |-> grant.app, dev |-> grant.dev,
   tok |-> grant.tok, install |-> grant.install, request |-> grant.request,
   for |-> grant.for, late |-> (grant.for # inst[<<grant.user, grant.app>>])]

(* An UPDATE of the record with this key, or an INSERT if there is none.   *)
AddOrUpdateRightRecord ==
  /\ grant # Idle
  /\ Commit({r \in rows : ~SameKey(r, grant)} \union {NewRow})
  /\ grant' = Idle
  /\ UNCHANGED <<now, bundleVars, events, tidy>>

(* The record of the caller's own token is removed; only if there is none  *)
(* (or that fails) the one of the default token.                           *)
RemoveRight(u, a, d) ==
  /\ inst[<<u, a>>] # 0
  /\ LET Key(t) == {r \in rows : /\ r.user = u /\ r.app = a
                                 /\ r.dev = d /\ r.tok = t}
     IN  \/ Key(inst[<<u, a>>]) # {} /\ rows' = rows \ Key(inst[<<u, a>>])
         \/ /\ Key(inst[<<u, a>>]) = {} \/ "db" \in Faults
            /\ Commit(rows \ Key(Default))
  /\ UNCHANGED <<now, bundleVars, events, grant, tidy>>

(***************************************************************************)
(* Clean-up                                                                *)
(***************************************************************************)
(* Accounts that are gone; one that cannot be looked up is left for later. *)
CleanUpRightUserDeleted ==
  \E us \in SUBSET (Users \ users) :
     /\ us = Users \ users \/ "lookup" \in Faults
     /\ DeleteUidRightRecord(us)

(* Mutant: a removal event that arrives after the application was          *)
(* installed again is ignored.                                             *)
OnReceiveEventKeepsMutant ==
  /\ events # <<>>
  /\ LET e == Head(events)
     IN  \/ e.kind = "removed" /\ inst[<<e.user, e.app>>] = 0
            /\ DeleteAppsRightRecord(e.user, {e.app})
         \/ e.kind = "removed" /\ inst[<<e.user, e.app>>] # 0 /\ UNCHANGED rows
         \/ e.kind = "userRemoved" /\ CleanUpRightUserDeleted
         \/ e.kind = "userStopped" /\ DeleteUidRightRecord({e.user})
  /\ events' = Tail(events)
  /\ UNCHANGED <<now, bundleVars, grant, tidy>>

(* RightSubscriber, on the common event thread.                            *)
OnReceiveEvent ==
  /\ events # <<>>
  /\ LET e == Head(events)
     IN  \/ e.kind = "removed" /\ DeleteAppsRightRecord(e.user, {e.app})
         \/ e.kind = "userRemoved" /\ CleanUpRightUserDeleted
         \/ e.kind = "userStopped" /\ DeleteUidRightRecord({e.user})
  /\ events' = Tail(events)
  /\ UNCHANGED <<now, bundleVars, grant, tidy>>

(* QueryRightRecordApps; a query that fails finds nothing.                 *)
Queried(u) == {RecordApps(u)} \union (IF "db" \in Faults THEN {{}} ELSE {})

(* TidyUpRight for the account of the thread that handles a detach.        *)
TidyUpRight(u) ==
  /\ tidy = Idle
  /\ \E as \in Queried(u) :
        tidy' = [pc |-> "uninstalled", user |-> u, apps |-> as, doomed |-> {}]
  /\ UNCHANGED <<now, bundleVars, rows, events, grant>>

IsAppInstalled(u, a) == inst[<<u, a>>] # 0

(* CleanUpRightAppUninstalled: one application is looked up; a lookup that *)
(* fails counts as "not installed".                                        *)
CleanUpLooksUp ==
  /\ tidy.pc = "uninstalled" /\ tidy.doomed = {}
  /\ \E a \in tidy.apps :
        \/ /\ IsAppInstalled(tidy.user, a)
           /\ tidy' = [tidy EXCEPT !.apps = @ \ {a}]
        \/ /\ ~IsAppInstalled(tidy.user, a) \/ "lookup" \in Faults
           /\ tidy' = [tidy EXCEPT !.apps = @ \ {a}, !.doomed = {a}]
  /\ UNCHANGED <<now, bundleVars, rows, events, grant>>

(* DeleteAppRightRecord; after the reinstall check DeleteAppsRightRecord.  *)
CleanUpDeletes ==
  /\ tidy # Idle
  /\ tidy.doomed # {} /\ (tidy.pc = "uninstalled" \/ tidy.apps = {})
  /\ DeleteAppsRightRecord(tidy.user, tidy.doomed)
  /\ tidy' = IF tidy.pc = "reinstalled" THEN Idle
             ELSE [tidy EXCEPT !.doomed = {}]
  /\ UNCHANGED <<now, bundleVars, events, grant>>

TidyUsers ==
  /\ tidy.pc = "uninstalled" /\ tidy.apps = {} /\ tidy.doomed = {}
  /\ CleanUpRightUserDeleted
  /\ tidy' = [tidy EXCEPT !.pc = "expired"]
  /\ UNCHANGED <<now, bundleVars, events, grant>>

CleanUpRightNormalExpired ==
  /\ tidy.pc = "expired"
  /\ DeleteNormalExpiredRightRecord(tidy.user)
  /\ tidy' = [tidy EXCEPT !.pc = "query"]
  /\ UNCHANGED <<now, bundleVars, events, grant>>

CleanUpRightAppReinstalled ==
  /\ tidy.pc = "query"
  /\ \E as \in Queried(tidy.user) :
        tidy' = IF as = {} THEN Idle
                ELSE [tidy EXCEPT !.pc = "reinstalled", !.apps = as]
  /\ UNCHANGED <<now, bundleVars, rows, events, grant>>

(* Mutant: compares the installation with the time of the request.         *)
ReinstalledMutant(u, a) ==
  \E r \in rows : Pkg(r) = <<u, a>> /\ r.request # since[<<u, a>>]

(* The application has a record made under another installation time.      *)
Reinstalled(u, a) ==
  \E r \in rows : Pkg(r) = <<u, a>> /\ r.install # since[<<u, a>>]

(* The loop of CleanUpRightAppReinstalled, one application at a time; a    *)
(* query or a lookup that fails ends it and nothing is deleted.            *)
ReinstalledLooksUp ==
  /\ tidy.pc = "reinstalled"
  /\ \E a \in tidy.apps :
        \/ /\ inst[<<tidy.user, a>>] # 0
           /\ LET left == tidy.apps \ {a}
                  gone == IF Reinstalled(tidy.user, a) THEN {a} ELSE {}
                  next == [tidy EXCEPT !.apps = left, !.doomed = @ \union gone]
              IN  tidy' = IF left = {} /\ next.doomed = {} THEN Idle ELSE next
        \/ /\ inst[<<tidy.user, a>>] = 0 \/ Faults \cap {"db", "lookup"} # {}
           /\ tidy' = Idle
  /\ UNCHANGED <<now, bundleVars, rows, events, grant>>

(* The service is unloaded, started again and cleans up (InitUsbRight).    *)
Restart(u) ==
  /\ "restart" \in Faults
  /\ DeleteNormalExpiredRightRecord(u)
  /\ events' = <<>>
  /\ grant' = Idle
  /\ tidy' = Idle
  /\ UNCHANGED <<now, bundleVars>>

(***************************************************************************)
(* The rest of the system (external)                                       *)
(***************************************************************************)
Tick ==
  /\ now < scenario.time
  /\ now' = now + 1
  /\ UNCHANGED <<bundleVars, rows, events, grant, tidy>>

SetClockBack ==
  /\ "clock" \in Faults
  /\ \E t \in 0 .. now : now' = t
  /\ UNCHANGED <<bundleVars, rows, events, grant, tidy>>

Publish(e) == Len(events) < MaxEvents /\ events' = Append(events, e)

Install(u, a) ==
  /\ u \in users
  /\ inst[<<u, a>>] = 0
  /\ installs < scenario.installs
  /\ installs' = installs + 1
  /\ inst' = [inst EXCEPT ![<<u, a>>] = installs + 1]
  /\ since' = [since EXCEPT ![<<u, a>>] = now]
  /\ UNCHANGED <<now, users, ended, rows, events, grant, tidy>>

Uninstall(u, a) ==
  /\ inst[<<u, a>>] # 0
  /\ inst' = [inst EXCEPT ![<<u, a>>] = 0]
  /\ ended' = ended \union {<<u, a>>}
  /\ Publish([kind |-> "removed", user |-> u, app |-> a])
  /\ UNCHANGED <<now, users, since, installs, rows, grant, tidy>>

StopUser(u) ==
  /\ u \in users
  /\ Publish([kind |-> "userStopped", user |-> u])
  /\ UNCHANGED <<now, bundleVars, rows, grant, tidy>>

RemoveUser(u) ==
  /\ u \in users
  /\ users' = users \ {u}
  /\ inst' = [p \in Users \X Apps |-> IF p[1] = u THEN 0 ELSE inst[p]]
  /\ Publish([kind |-> "userRemoved", user |-> u])
  /\ UNCHANGED <<now, since, installs, ended, rows, grant, tidy>>

(***************************************************************************)
(* The specification                                                       *)
(***************************************************************************)
Tidying ==
  \/ CleanUpLooksUp \/ CleanUpDeletes \/ TidyUsers
  \/ CleanUpRightNormalExpired \/ CleanUpRightAppReinstalled
  \/ ReinstalledLooksUp

DbNext ==
  /\ \/ \E u \in Users, a \in scenario.apps, d \in Devices :
           AddAccessRight(u, a, d) \/ AddRight(u, a, d) \/ RemoveRight(u, a, d)
     \/ AddOrUpdateRightRecord
     \/ \E u \in Users : HasRightTidies(u) \/ TidyUpRight(u) \/ Restart(u)
     \/ OnReceiveEvent
     \/ Tidying
     \/ Tick \/ SetClockBack
     \/ \E u \in Users, a \in scenario.apps : Install(u, a) \/ Uninstall(u, a)
     \/ \E u \in Users : StopUser(u) \/ RemoveUser(u)
  /\ UNCHANGED scenario

(* Events are delivered and what has begun goes on; nobody has to install, *)
(* grant or detach.                                                        *)
DbFairness == /\ WF_dbVars(OnReceiveEvent /\ UNCHANGED scenario)
              /\ WF_dbVars(AddOrUpdateRightRecord /\ UNCHANGED scenario)
              /\ WF_dbVars(Tidying /\ UNCHANGED scenario)

DbSpec == DbInit /\ [][DbNext]_dbVars /\ DbFairness

(***************************************************************************)
(* Properties.  The last three are about a world without faults.           *)
(***************************************************************************)
(* The two ways to decide that a record has expired, the comparison in     *)
(* IsRecordExpired and the WHERE clause of the clean-up, agree but for the *)
(* instant in between: clean-up never takes a record that is still valid.  *)
CleanUpSparesValid ==
  \A r \in rows :
     /\ NormalExpired(r) => IsRecordExpired(r)
     /\ now >= r.request /\ IsRecordExpired(r) =>
           NormalExpired(r) \/ now = r.request + Period

(* The end of an installation is known to the event thread.                *)
RemovalPending(r) ==
  \E i \in 1 .. Len(events) :
     /\ events[i].user = r.user
     /\ \/ events[i].kind = "removed" /\ events[i].app = r.app
        \/ events[i].kind = "userRemoved"

(* No record outlives the installation it was granted to, so that nobody   *)
(* inherits a right by installing an application of that name: unless the  *)
(* removal event is still on its way, or the grant itself was so slow that *)
(* its installation was over when it was written.                          *)
EndsWithInstallation ==
  Faults = {} =>
     \A r \in rows : r.for # inst[Pkg(r)] => r.late \/ RemovalPending(r)

Taken(r) ==
  \/ RemoveRight(r.user, r.app, r.dev)
  \/ /\ events # <<>> /\ events' = Tail(events)
     /\ Head(events).kind = "userStopped" /\ Head(events).user = r.user

(* An application that was never uninstalled keeps its valid rights        *)
(* through every clean-up, whatever else is installed, uninstalled,        *)
(* granted or tidied meanwhile; only RemoveRight and the end of its user's *)
(* session take one.                                                       *)
LoyalKeepsRight ==
  [][Faults = {} => \A r \in rows :
        /\ ~IsRecordExpired(r)
        /\ Pkg(r) \notin ended /\ inst[Pkg(r)] # 0
        /\ ~\E s \in rows' : SameKey(s, r)
        => Taken(r)]_dbVars

(* What was granted to an installation is eventually forgotten after its   *)
(* end.                                                                    *)
Forgotten ==
  \A g \in 1 .. MaxInstalls :
     Faults = {} /\ g <= installs /\ (\A p \in Users \X Apps : inst[p] # g) ~>
        \A r \in rows : r.for = g => r.late

(* After a RemoveRight that found a record and removed it, HasRight is     *)
(* false.                                                                  *)
RemovedRightIsGone ==
  [][\A u \in Users, a \in Apps, d \in Devices :
        RemoveRight(u, a, d) /\ rows' # rows => ~HasRight(u, a, d)']_dbVars

(***************************************************************************)
(* The strengthening that makes EndsWithInstallation inductive and implies *)
(* CleanUpSparesValid and every step of LoyalKeepsRight.                   *)
(***************************************************************************)
Row == [user : Users, app : Apps, dev : Devices, tok : Nat, install : Nat,
        request : Nat, for : Nat, late : BOOLEAN]

Grant == [pc : {"write"}, user : Users, app : Apps, dev : Devices, tok : Nat,
          install : Nat, request : Nat, for : Nat]

Event == [kind : {"removed"}, user : Users, app : Apps]
           \union [kind : {"userRemoved", "userStopped"}, user : Users]

Tidy == [pc : {"uninstalled", "expired", "query", "reinstalled"}, user : Users,
         apps : SUBSET Apps, doomed : SUBSET Apps]

DbTypeOK ==
  /\ now \in Nat /\ installs \in Nat
  /\ users \subseteq Users
  /\ inst \in [Users \X Apps -> Nat] /\ since \in [Users \X Apps -> Nat]
  /\ ended \subseteq Users \X Apps
  /\ rows \subseteq Row
  /\ events \in Seq(Event)
  /\ grant \in Grant \union {Idle}
  /\ tidy \in Tidy \union {Idle}
  /\ scenario \in Scenarios

(* Only an account that exists has applications, and an event tells what   *)
(* has happened: an account does not come back, and ended remembers.       *)
BundleInv ==
  /\ \A u \in Users, a \in Apps : inst[<<u, a>>] # 0 => u \in users
  /\ \A i \in 1 .. Len(events) :
       /\ events[i].kind = "removed" =>
            <<events[i].user, events[i].app>> \in ended
       /\ events[i].kind = "userRemoved" => events[i].user \notin users

(* The application was uninstalled, or its account removed.                *)
Over(u, a) == <<u, a>> \in ended \/ u \notin users

(* What was learnt about an application at a grant stays true until it is  *)
(* over: it is installed, since the time that was recorded.                *)
Settled(r) ==
  Over(r.user, r.app) \/ (inst[Pkg(r)] # 0 /\ r.install = since[Pkg(r)])

RowsSettled  == \A r \in rows : r.for # 0 /\ Settled(r)
GrantSettled == grant # Idle => grant.for # 0 /\ Settled(grant)

TidySettled ==
  tidy # Idle =>
     /\ \A a \in tidy.apps : Over(tidy.user, a) \/ inst[<<tidy.user, a>>] # 0
     /\ \A a \in tidy.doomed : Over(tidy.user, a)

(* Without faults every record and every grant is of an application that   *)
(* was installed, and TidyUpRight dooms only one that is over.             *)
GrantInv == Faults = {} => RowsSettled /\ GrantSettled /\ TidySettled

DbInv == DbTypeOK /\ BundleInv /\ GrantInv /\ EndsWithInstallation
=============================================================================
