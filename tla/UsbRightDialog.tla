--------------------------- MODULE UsbRightDialog ---------------------------
(***************************************************************************)
(* Asking the user for a right: UsbRightManager::RequestRight and the      *)
(* dialog behind it (usb_right_manager.cpp, UsbDialog.ets).                *)
(*                                                                         *)
(* A RequestRight call blocks an IPC thread of the service: it takes       *)
(* dialogRunning_, publishes the dialog's parameters, connects the dialog  *)
(* host and sleeps on waitDialogDisappear_ until the host's connection has *)
(* gone.  The callbacks, the dialog's own AddAccessRight and the detach of *)
(* a device arrive on other IPC threads of the same pool.                  *)
(*                                                                         *)
(* The ability manager, the dialog host and the user are external: a       *)
(* connection gives at most one connect callback and then one disconnect   *)
(* callback, in that order and one at a time, and a dialog is displayed no *)
(* longer than its connection lives.                                       *)
(***************************************************************************)
EXTENDS Naturals, FiniteSets

CONSTANTS
  Requests,   \* RequestRight calls; each is made once
  Keys,       \* (user, device, bundle, token) a right record is about
  KeyOf,      \* the record a call asks for
  None,       \* no call
  PoolSize,   \* IPC threads of the service
  DialogFaults  \* some of "refused", "notShown", "addFails"

ASSUME DialogAssumption ==
  /\ KeyOf \in [Requests -> Keys]
  /\ None \notin Requests
  /\ PoolSize \in Nat
  /\ DialogFaults \subseteq {"refused", "notShown", "addFails"}

VARIABLES
  pc,             \* progress of each call
  dialogRunning,  \* the call that holds the mutex dialogRunning_, or None
  params,         \* the call usbDialogParams_ was filled in for, or None
  sem,            \* value of the semaphore waitDialogDisappear_
  conn,           \* usbAbilityConn_ is not null
  remote,         \* remoteObject_ is not null
  detach,         \* progress of DelDevice in UnShowUsbDialog
  session,        \* the ability manager's connection record (external)
  dialog,         \* the call whose dialog is displayed, or None (external)
  granting,       \* calls whose Allow is on its way to AddAccessRight
  answered,       \* calls whose dialog is about to terminate itself
  right,          \* keys with a valid right record
  agreed,         \* history: calls whose dialog the user allowed
  disturbed       \* history: calls whose right or dialog others took away

callVars    == <<pc, dialogRunning, params>>
connVars    == <<conn, remote, session, dialog>>
userVars    == <<granting, answered, agreed>>
vars == <<callVars, connVars, userVars, sem, detach, right, disturbed>>

Waiting == {"lock", "connect", "wait", "check"}

Init ==
  /\ pc = [r \in Requests |-> "idle"]
  /\ dialogRunning = None
  /\ params = None
  /\ sem = 0
  /\ conn = FALSE
  /\ remote = FALSE
  /\ detach = "idle"
  /\ session = "none"
  /\ dialog = None
  /\ granting = {}
  /\ answered = {}
  /\ right = {}
  /\ agreed = {}
  /\ disturbed = {}

(* A thread of the pool is free to take the next incoming call.            *)
ThreadFree ==
  Cardinality({r \in Requests : pc[r] \in Waiting})
     + (IF detach = "idle" THEN 0 ELSE 1) < PoolSize

AsksFor(keys) == {r \in Requests : KeyOf[r] \in keys}

(* TidyUpRight removes whatever has expired, then the record is looked up. *)
DialogHasRight(r, yes, no) ==
  \E expired \in SUBSET right :
     /\ right' = right \ expired
     /\ disturbed' = disturbed \union AsksFor(expired)
     /\ IF KeyOf[r] \in right' THEN yes ELSE no

Goto(r, l) == pc' = [pc EXCEPT ![r] = l]

(***************************************************************************)
(* The call: a right that exists is not asked for again.                   *)
(***************************************************************************)
RequestRight(r) ==
  /\ pc[r] = "idle"
  /\ ThreadFree
  /\ DialogHasRight(r, Goto(r, "granted"), Goto(r, "lock"))
  /\ UNCHANGED <<dialogRunning, params, connVars, userVars, sem, detach>>

(* Takes the mutex, fills in usbDialogParams_ and resets the semaphore.    *)
GetUserAgreementByDiag(r) ==
  /\ pc[r] = "lock"
  /\ dialogRunning = None
  /\ dialogRunning' = r
  /\ params' = r
  /\ sem' = 0
  /\ Goto(r, "connect")
  /\ UNCHANGED <<connVars, userVars, detach, right, disturbed>>

ConnectAbility(r) ==
  /\ pc[r] = "connect"
  /\ \/ /\ conn' = TRUE
        /\ session' = "connecting"
        /\ Goto(r, "wait")
        /\ UNCHANGED dialogRunning
     \/ /\ "refused" \in DialogFaults
        /\ conn' \in BOOLEAN       \* reset, unless there is no manager at all
        /\ Goto(r, "denied")
        /\ dialogRunning' = None
        /\ UNCHANGED session
  /\ UNCHANGED <<params, remote, dialog, userVars, sem, detach, right,
                 disturbed>>

(* sem_wait returns.                                                       *)
DialogDisappeared(r) ==
  /\ pc[r] = "wait"
  /\ sem > 0
  /\ sem' = sem - 1
  /\ Goto(r, "check")
  /\ UNCHANGED <<dialogRunning, params, connVars, userVars, detach, right,
                 disturbed>>

(* What the user said is in the database; the mutex is released.           *)
CheckAgreement(r) ==
  /\ pc[r] = "check"
  /\ DialogHasRight(r, Goto(r, "granted"), Goto(r, "denied"))
  /\ dialogRunning' = None
  /\ UNCHANGED <<params, connVars, userVars, sem, detach>>

(***************************************************************************)
(* Callbacks of the connection.                                            *)
(***************************************************************************)
(* The host shows the dialog for what usbDialogParams_ says now.  Without  *)
(* a remote object, or if the host answers with an error, the callback     *)
(* just returns.                                                           *)
OnAbilityConnectDone ==
  /\ session = "connecting"
  /\ ThreadFree
  /\ session' = "connected"
  /\ \/ /\ dialog' = params
        /\ remote' = TRUE
     \/ /\ "notShown" \in DialogFaults
        /\ UNCHANGED <<dialog, remote>>
  /\ UNCHANGED <<callVars, conn, userVars, sem, detach, right, disturbed>>

(* Mutant: the waiter is not woken.                                        *)
OnAbilityDisconnectDoneMutant ==
  /\ session = "closing"
  /\ ThreadFree
  /\ session' = "none"
  /\ remote' = FALSE
  /\ UNCHANGED <<callVars, conn, dialog, userVars, sem, detach, right,
                 disturbed>>

OnAbilityDisconnectDone ==
  /\ session = "closing"
  /\ ThreadFree
  /\ session' = "none"
  /\ sem' = sem + 1
  /\ remote' = FALSE
  /\ UNCHANGED <<callVars, conn, dialog, userVars, detach, right, disturbed>>

(***************************************************************************)
(* The dialog (UsbDialog.ets) and the user.                                *)
(***************************************************************************)
Unanswered(r) == dialog = r /\ r \notin granting \union answered

(* Mutant: the dialog terminates without waiting for the call it made.     *)
ClickAllowMutant(r) ==
  /\ Unanswered(r)
  /\ granting' = granting \union {r}
  /\ answered' = answered \union {r}
  /\ agreed' = agreed \union {r}
  /\ UNCHANGED <<callVars, connVars, sem, detach, right, disturbed>>

ClickAllow(r) ==
  /\ Unanswered(r)
  /\ granting' = granting \union {r}
  /\ agreed' = agreed \union {r}
  /\ UNCHANGED <<callVars, connVars, answered, sem, detach, right, disturbed>>

ClickNotAllow(r) ==
  /\ Unanswered(r)
  /\ answered' = answered \union {r}
  /\ UNCHANGED <<callVars, connVars, granting, agreed, sem, detach, right,
                 disturbed>>

(* The dialog's synchronous call into the service; its failure is caught.  *)
DialogAddAccessRight(r) ==
  /\ r \in granting
  /\ ThreadFree
  /\ granting' = granting \ {r}
  /\ answered' = answered \union {r}
  /\ \/ /\ right' = right \union {KeyOf[r]}
        /\ UNCHANGED disturbed
     \/ /\ "addFails" \in DialogFaults
        /\ disturbed' = disturbed \union {r}
        /\ UNCHANGED right
  /\ UNCHANGED <<callVars, connVars, agreed, sem, detach>>

(* terminateDialog: the host lets the connection go.  If terminateSelf     *)
(* fails the dialog stays and can be answered again; that it succeeds in   *)
(* the end is part of Fairness.                                            *)
TerminateDialog(r) ==
  /\ dialog = r
  /\ r \in answered
  /\ dialog' = None
  /\ session' = "closing"
  /\ UNCHANGED <<callVars, conn, remote, userVars, sem, detach, right,
                 disturbed>>

(* The connection ends, and the dialog with it, before the user answered.  *)
DropConnection ==
  /\ session' = "closing"
  /\ dialog' = None
  /\ disturbed' = disturbed \union ({dialogRunning} \ {None})

HostDied ==
  /\ session \in {"connecting", "connected"}
  /\ DropConnection
  /\ UNCHANGED <<callVars, conn, remote, userVars, sem, detach, right>>

(***************************************************************************)
(* Others.                                                                 *)
(***************************************************************************)
DialogRemoveRight(k) ==
  /\ k \in right
  /\ ThreadFree
  /\ right' = right \ {k}
  /\ disturbed' = disturbed \union AsksFor({k})
  /\ UNCHANGED <<callVars, connVars, userVars, sem, detach>>

(* DelDevice of any device: the records are tidied up, and whatever dialog *)
(* there is is taken down, without any lock on usbAbilityConn_.            *)
RemoveDeviceAllRight ==
  /\ detach = "idle"
  /\ ThreadFree
  /\ \E tidied \in SUBSET right :
        /\ right' = right \ tidied
        /\ disturbed' = disturbed \union AsksFor(tidied)
  /\ detach' = IF conn THEN "close" ELSE "idle"
  /\ UNCHANGED <<callVars, connVars, userVars, sem>>

(* The host may fail to close the dialog; the answer is not looked at.     *)
CloseDialog ==
  /\ detach = "close"
  /\ dialog' \in (IF remote THEN {dialog, None} ELSE {dialog})
  /\ disturbed' = disturbed \union ({dialog} \ {dialog', None})
  /\ detach' = "disconnect"
  /\ UNCHANGED <<callVars, conn, remote, session, userVars, sem, right>>

(* Mutant: the waiter is woken here as well.                               *)
DisconnectAbilityMutant ==
  /\ detach = "disconnect"
  /\ detach' = "idle"
  /\ sem' = sem + 1
  /\ IF session \in {"connecting", "connected"} THEN DropConnection
     ELSE UNCHANGED <<session, dialog, disturbed>>
  /\ UNCHANGED <<callVars, conn, remote, userVars, right>>

(* The manager answers with an error where there is no connection.         *)
DisconnectAbility ==
  /\ detach = "disconnect"
  /\ detach' = "idle"
  /\ IF session \in {"connecting", "connected"} THEN DropConnection
     ELSE UNCHANGED <<session, dialog, disturbed>>
  /\ UNCHANGED <<callVars, conn, remote, userVars, sem, right>>

(***************************************************************************)
(* The specification                                                       *)
(***************************************************************************)
CallStep(r) ==
  \/ GetUserAgreementByDiag(r) \/ ConnectAbility(r)
  \/ DialogDisappeared(r) \/ CheckAgreement(r)

Callback == OnAbilityConnectDone \/ OnAbilityDisconnectDone

Answer(r) == ClickAllow(r) \/ ClickNotAllow(r)

UnShow == CloseDialog \/ DisconnectAbility

Next ==
  \/ \E r \in Requests :
        \/ RequestRight(r) \/ CallStep(r)
        \/ Answer(r) \/ DialogAddAccessRight(r) \/ TerminateDialog(r)
  \/ Callback
  \/ HostDied
  \/ \E k \in Keys : DialogRemoveRight(k)
  \/ RemoveDeviceAllRight
  \/ UnShow

(* Threads run, callbacks are delivered, a dialog that is displayed is     *)
(* answered and can be closed in the end.  No device has to be detached,   *)
(* no host has to die, nobody has to take a right away.                    *)
Fairness ==
  /\ \A r \in Requests : /\ WF_vars(CallStep(r))
                         /\ WF_vars(Answer(r))
                         /\ WF_vars(DialogAddAccessRight(r))
                         /\ WF_vars(TerminateDialog(r))
  /\ WF_vars(Callback)
  /\ WF_vars(UnShow)

Spec == Init /\ [][Next]_vars /\ Fairness

(***************************************************************************)
(* Properties                                                              *)
(***************************************************************************)
TypeOK ==
  /\ pc \in [Requests -> Waiting \union {"idle", "granted", "denied"}]
  /\ dialogRunning \in Requests \union {None}
  /\ params \in Requests \union {None}
  /\ sem \in 0 .. 1
  /\ conn \in BOOLEAN
  /\ remote \in BOOLEAN
  /\ detach \in {"idle", "close", "disconnect"}
  /\ session \in {"none", "connecting", "connected", "closing"}
  /\ dialog \in Requests \union {None}
  /\ granting \subseteq Requests
  /\ answered \subseteq Requests
  /\ right \subseteq Keys
  /\ agreed \subseteq Requests
  /\ disturbed \subseteq Requests

(* "There can only be one dialog at a time": a displayed dialog is about   *)
(* the one call that holds dialogRunning_ and sleeps, and usbDialogParams_ *)
(* still describes that call, whatever callbacks and detaches come between.*)
OneDialog ==
  dialog # None =>
     /\ dialogRunning = dialog
     /\ params = dialog
     /\ pc[dialog] = "wait"

(* A call woken from sem_wait was woken by the end of its own connection:  *)
(* no dialog of it is still displayed, no callback of it is still to come  *)
(* to wake the next call early.                                            *)
WokenByOwnDialog ==
  \A r \in Requests :
     pc[r] \in {"connect", "check"} =>
        session = "none" /\ dialog = None /\ sem = 0

(* No lost wakeup: a call asleep in sem_wait has a connection whose end    *)
(* will post the semaphore, or the post has been made.                     *)
NoLostWakeup ==
  \A r \in Requests : pc[r] = "wait" => session # "none" \/ sem > 0

(* A user's Allow reaches the caller: a call whose dialog was allowed is   *)
(* not denied, unless a detach, the host's death, a failed AddAccessRight  *)
(* or a removed record came between.                                       *)
AgreementHonoured ==
  \A r \in Requests :
     pc[r] = "denied" /\ r \in agreed => r \in disturbed

(* Where a call is for the user it asks: its question is put when its      *)
(* connection comes up, or never will be when the connection ended before. *)
consentPhase ==
  [r \in Requests |->
     CASE pc[r] = "idle" -> "new"
       [] pc[r] = "lock" -> "queued"
       [] pc[r] = "connect" \/ (pc[r] = "wait" /\ session = "connecting") -> "served"
       [] (pc[r] = "wait" /\ session # "connecting") \/ pc[r] = "check" -> "asked"
       [] OTHER -> pc[r]]

Consent == INSTANCE UserConsent WITH
             phase <- consentPhase, shown <- dialog,
             allowed <- agreed, excused <- disturbed

(* RequestRight serves one call at a time: under dialogRunning_ it asks    *)
(* the user once and about that call only, returns when the dialog is gone *)
(* and tells the caller what the user allowed, whatever callbacks, detaches*)
(* and removals come between.                                              *)
ImplementsConsent == Consent!Spec

(* Every RequestRight call that goes on to ask the user returns.           *)
EveryRequestReturns ==
  \A r \in Requests : pc[r] = "lock" ~> pc[r] \in {"granted", "denied"}

(* A connection without a dialog.                                          *)
Silent == session = "connected" /\ dialog = None

(* Every RequestRight call that goes on to ask the user returns, refused   *)
(* connections, dying hosts and detaches included, unless a connection     *)
(* stays open for ever that displays no dialog, which is what a failed     *)
(* connect callback leaves behind.                                         *)
RequestReturns == EveryRequestReturns \/ <>[]Silent

(***************************************************************************)
(* The strengthening that makes the invariants above inductive.            *)
(***************************************************************************)
(* dialogRunning_ is held by the call between its two ends, and by no other *)
MutexInv ==
  \A r \in Requests : pc[r] \in {"connect", "wait", "check"} <=> dialogRunning = r

(* The parameters, the connection and the post belong to the holder.       *)
HolderInv ==
  /\ dialogRunning # None => params = dialogRunning
  /\ session # "none" \/ sem > 0 =>
        dialogRunning # None /\ pc[dialogRunning] = "wait"
  /\ session # "none" => sem = 0
  /\ dialog # None => session = "connected" /\ dialog = dialogRunning

(* Where an undisturbed Allow is: on its way, with the dialog still up, or *)
(* in the database.                                                        *)
AgreedInv ==
  /\ granting \intersect answered = {}
  /\ \A r \in agreed : pc[r] \notin {"idle", "lock", "connect"}
  /\ \A r \in agreed \ disturbed :
        \/ r \in granting /\ dialog = r
        \/ r \notin granting /\ KeyOf[r] \in right

DialogInv ==
  TypeOK /\ MutexInv /\ HolderInv /\ NoLostWakeup /\ AgreedInv /\ AgreementHonoured
=============================================================================
