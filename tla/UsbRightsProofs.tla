--------------------------- MODULE UsbRightsProofs ---------------------------
(***************************************************************************)
(* Proofs about rights: how one is asked for (UsbRightDialog), for any     *)
(* number of calls, records and IPC threads and with every fault of the    *)
(* dialog host; and how long one lives (UsbRightDb), for any accounts,     *)
(* applications, devices and validity period.  The two share no state.     *)
(*                                                                         *)
(* DbInv is inductive: without faults a record or a grant is of an         *)
(* application that was installed, at the time that was recorded, until it *)
(* is over; so TidyUpRight, however old its query and its lookups are,     *)
(* dooms only what is over.                                                *)
(***************************************************************************)
EXTENDS UsbRightDialog, UsbRightDb, TLAPS

(***************************************************************************)
(* Asking for a right.                                                     *)
(***************************************************************************)
(* Before the first call nothing is held, connected, displayed or agreed.  *)
LEMMA DialogInvInit == Init => DialogInv
<1> SUFFICES ASSUME Init PROVE DialogInv
  OBVIOUS
<1> USE DialogAssumption DEF Init
<1>0. sem \in 0 .. 1
  OBVIOUS
<1>1. TypeOK
  BY <1>0, Zenon DEF TypeOK, Waiting
<1>2. MutexInv /\ HolderInv /\ NoLostWakeup
  BY DEF MutexInv, HolderInv, NoLostWakeup
<1>3. AgreedInv /\ AgreementHonoured
  BY DEF AgreedInv, AgreementHonoured
<1> QED
  BY <1>1, <1>2, <1>3 DEF DialogInv

(* Every step of a call, the callbacks, the dialog and the detach keeps    *)
(* the inductive invariant.                                                *)
LEMMA DialogInvStep == DialogInv /\ [Next]_vars => DialogInv'
<1> SUFFICES ASSUME DialogInv, [Next]_vars
             PROVE  DialogInv'
  OBVIOUS
<1> USE DialogAssumption DEF DialogInv, callVars, connVars, userVars
<1>1. ASSUME NEW r \in Requests, RequestRight(r)
      PROVE  DialogInv'
  <2>1. TypeOK'
    BY <1>1 DEF RequestRight, DialogHasRight, Goto, AsksFor, TypeOK, Waiting
  <2>2. MutexInv'
    BY <1>1 DEF RequestRight, DialogHasRight, Goto, AsksFor, MutexInv, TypeOK
  <2>3. HolderInv'
    BY <1>1 DEF RequestRight, DialogHasRight, Goto, AsksFor, HolderInv, TypeOK
  <2>4. NoLostWakeup'
    BY <1>1 DEF RequestRight, DialogHasRight, Goto, AsksFor, NoLostWakeup, TypeOK
  <2>5. AgreedInv'
    BY <1>1 DEF RequestRight, DialogHasRight, Goto, AsksFor, AgreedInv, TypeOK
  <2>6. AgreementHonoured'
    BY <1>1 DEF RequestRight, DialogHasRight, Goto, AsksFor, AgreementHonoured,
       TypeOK
  <2> QED
    BY <2>1, <2>2, <2>3, <2>4, <2>5, <2>6
<1>2. ASSUME NEW r \in Requests, GetUserAgreementByDiag(r)
      PROVE  DialogInv'
  <2>1. TypeOK'
    BY <1>2 DEF GetUserAgreementByDiag, Goto, TypeOK, Waiting
  <2>2. HolderInv' /\ AgreedInv' /\ AgreementHonoured'
    BY <1>2 DEF GetUserAgreementByDiag, Goto, HolderInv, AgreedInv,
       AgreementHonoured
  <2>3. MutexInv'
    BY <1>2 DEF GetUserAgreementByDiag, Goto, MutexInv, TypeOK
  <2>4. NoLostWakeup'
    BY <1>2 DEF GetUserAgreementByDiag, Goto, NoLostWakeup, MutexInv
  <2> QED
    BY <2>1, <2>2, <2>3, <2>4
<1>3. ASSUME NEW r \in Requests, ConnectAbility(r)
      PROVE  DialogInv'
  <2>1. TypeOK'
    BY <1>3 DEF ConnectAbility, Goto, TypeOK, Waiting
  <2>2. MutexInv'
    BY <1>3 DEF ConnectAbility, Goto, MutexInv, TypeOK
  <2>3. NoLostWakeup'
    BY <1>3 DEF ConnectAbility, Goto, NoLostWakeup, TypeOK
  <2>4. AgreedInv'
    BY <1>3 DEF ConnectAbility, Goto, AgreedInv, TypeOK
  <2>5. HolderInv'
    BY <1>3 DEF ConnectAbility, Goto, HolderInv, TypeOK, MutexInv
  <2>6. AgreementHonoured'
    BY <1>3 DEF ConnectAbility, Goto, AgreementHonoured, TypeOK, AgreedInv
  <2> QED
    BY <2>1, <2>2, <2>3, <2>4, <2>5, <2>6
<1>4. ASSUME NEW r \in Requests, DialogDisappeared(r)
      PROVE  DialogInv'
  <2>1. TypeOK'
    BY <1>4 DEF DialogDisappeared, Goto, TypeOK, Waiting
  <2>2. MutexInv' /\ AgreedInv' /\ AgreementHonoured'
    BY <1>4 DEF DialogDisappeared, Goto, MutexInv, AgreedInv, AgreementHonoured
  <2>3. HolderInv'
    BY <1>4 DEF DialogDisappeared, Goto, HolderInv, TypeOK
  <2>4. NoLostWakeup'
    BY <1>4 DEF DialogDisappeared, Goto, NoLostWakeup, TypeOK, MutexInv
  <2> QED
    BY <2>1, <2>2, <2>3, <2>4
<1>5. ASSUME NEW r \in Requests, CheckAgreement(r)
      PROVE  DialogInv'
  <2>1. TypeOK'
    BY <1>5 DEF CheckAgreement, DialogHasRight, Goto, AsksFor, TypeOK, Waiting
  <2>2. MutexInv'
    BY <1>5 DEF CheckAgreement, DialogHasRight, Goto, AsksFor, MutexInv, TypeOK
  <2>3. NoLostWakeup'
    BY <1>5 DEF CheckAgreement, DialogHasRight, Goto, AsksFor, NoLostWakeup, TypeOK
  <2>4. AgreedInv'
    BY <1>5 DEF CheckAgreement, DialogHasRight, Goto, AsksFor, AgreedInv, TypeOK
  <2>5. HolderInv'
    BY <1>5 DEF CheckAgreement, DialogHasRight, Goto, AsksFor, HolderInv, MutexInv
  <2>6. AgreementHonoured'
    BY <1>5 DEF CheckAgreement, DialogHasRight, Goto, AsksFor, AgreementHonoured,
       TypeOK, HolderInv, AgreedInv
  <2> QED
    BY <2>1, <2>2, <2>3, <2>4, <2>5, <2>6
<1>6. ASSUME NEW r \in Requests, ClickAllow(r)
      PROVE  DialogInv'
  <2>1. TypeOK'
    BY <1>6 DEF ClickAllow, Unanswered, TypeOK, Waiting
  <2>2. MutexInv' /\ HolderInv' /\ NoLostWakeup'
    BY <1>6 DEF ClickAllow, Unanswered, MutexInv, HolderInv, NoLostWakeup
  <2>3. AgreedInv'
    BY <1>6 DEF ClickAllow, Unanswered, AgreedInv, HolderInv
  <2>4. AgreementHonoured'
    BY <1>6 DEF ClickAllow, Unanswered, AgreementHonoured, HolderInv
  <2> QED
    BY <2>1, <2>2, <2>3, <2>4
<1>7. ASSUME NEW r \in Requests, ClickNotAllow(r)
      PROVE  DialogInv'
  <2>1. TypeOK'
    BY <1>7 DEF ClickNotAllow, Unanswered, TypeOK, Waiting
  <2>2. MutexInv' /\ HolderInv' /\ NoLostWakeup' /\ AgreedInv' /\ AgreementHonoured'
    BY <1>7 DEF ClickNotAllow, Unanswered, MutexInv, HolderInv, NoLostWakeup,
       AgreedInv, AgreementHonoured
  <2> QED
    BY <2>1, <2>2
<1>8. ASSUME NEW r \in Requests, DialogAddAccessRight(r)
      PROVE  DialogInv'
  <2>1. TypeOK'
    BY <1>8 DEF DialogAddAccessRight, TypeOK, Waiting
  <2>2. MutexInv' /\ HolderInv' /\ NoLostWakeup' /\ AgreedInv' /\ AgreementHonoured'
    BY <1>8 DEF DialogAddAccessRight, MutexInv, HolderInv, NoLostWakeup, AgreedInv,
       AgreementHonoured
  <2> QED
    BY <2>1, <2>2
<1>9. ASSUME NEW r \in Requests, TerminateDialog(r)
      PROVE  DialogInv'
  <2>1. TypeOK'
    BY <1>9 DEF TerminateDialog, TypeOK, Waiting
  <2>2. MutexInv' /\ HolderInv' /\ NoLostWakeup' /\ AgreedInv' /\ AgreementHonoured'
    BY <1>9 DEF TerminateDialog, MutexInv, HolderInv, NoLostWakeup, AgreedInv,
       AgreementHonoured
  <2> QED
    BY <2>1, <2>2
<1>10. CASE OnAbilityConnectDone
  <2>1. TypeOK'
    BY <1>10 DEF OnAbilityConnectDone, TypeOK, Waiting
  <2>2. MutexInv' /\ HolderInv' /\ NoLostWakeup' /\ AgreementHonoured'
    BY <1>10 DEF OnAbilityConnectDone, MutexInv, HolderInv, NoLostWakeup,
       AgreementHonoured
  <2>3. AgreedInv'
    BY <1>10 DEF OnAbilityConnectDone, AgreedInv, TypeOK, HolderInv
  <2> QED
    BY <2>1, <2>2, <2>3
<1>11. CASE OnAbilityDisconnectDone
  <2>1. sem = 0
    BY <1>11 DEF OnAbilityDisconnectDone, HolderInv
  <2>2. sem' \in 0 .. 1
    BY <1>11, <2>1 DEF OnAbilityDisconnectDone
  <2>3. TypeOK'
    BY <1>11, <2>2, Zenon DEF OnAbilityDisconnectDone, TypeOK
  <2>4. MutexInv' /\ HolderInv' /\ AgreedInv' /\ AgreementHonoured'
    BY <1>11 DEF OnAbilityDisconnectDone, MutexInv, HolderInv, AgreedInv,
       AgreementHonoured
  <2>5. NoLostWakeup'
    BY <1>11 DEF OnAbilityDisconnectDone, NoLostWakeup, TypeOK
  <2> QED
    BY <2>3, <2>4, <2>5
<1>12. CASE HostDied
  <2>1. TypeOK'
    BY <1>12 DEF HostDied, DropConnection, TypeOK, Waiting
  <2>2. MutexInv' /\ HolderInv' /\ NoLostWakeup' /\ AgreementHonoured'
    BY <1>12 DEF HostDied, DropConnection, MutexInv, HolderInv, NoLostWakeup,
       AgreementHonoured
  <2>3. AgreedInv'
    BY <1>12 DEF HostDied, DropConnection, AgreedInv, HolderInv
  <2> QED
    BY <2>1, <2>2, <2>3
<1>13. ASSUME NEW k \in Keys, DialogRemoveRight(k)
      PROVE  DialogInv'
  <2>1. TypeOK'
    BY <1>13 DEF DialogRemoveRight, AsksFor, TypeOK, Waiting
  <2>2. MutexInv' /\ HolderInv' /\ NoLostWakeup' /\ AgreementHonoured'
    BY <1>13 DEF DialogRemoveRight, AsksFor, MutexInv, HolderInv, NoLostWakeup,
       AgreementHonoured
  <2>3. AgreedInv'
    BY <1>13 DEF DialogRemoveRight, AsksFor, AgreedInv, TypeOK
  <2> QED
    BY <2>1, <2>2, <2>3
<1>14. CASE RemoveDeviceAllRight
  <2>1. TypeOK'
    BY <1>14 DEF RemoveDeviceAllRight, AsksFor, TypeOK, Waiting
  <2>2. MutexInv' /\ HolderInv' /\ NoLostWakeup' /\ AgreementHonoured'
    BY <1>14 DEF RemoveDeviceAllRight, AsksFor, MutexInv, HolderInv,
       NoLostWakeup, AgreementHonoured
  <2>3. AgreedInv'
    BY <1>14 DEF RemoveDeviceAllRight, AsksFor, AgreedInv, TypeOK
  <2> QED
    BY <2>1, <2>2, <2>3
<1>15. CASE CloseDialog
  <2>1. TypeOK'
    BY <1>15 DEF CloseDialog, TypeOK, Waiting
  <2>2. MutexInv' /\ HolderInv' /\ NoLostWakeup' /\ AgreedInv' /\ AgreementHonoured'
    BY <1>15 DEF CloseDialog, MutexInv, HolderInv, NoLostWakeup, AgreedInv,
       AgreementHonoured
  <2> QED
    BY <2>1, <2>2
<1>16. CASE DisconnectAbility
  <2>1. TypeOK'
    BY <1>16 DEF DisconnectAbility, DropConnection, TypeOK, Waiting
  <2>2. MutexInv' /\ HolderInv' /\ NoLostWakeup' /\ AgreementHonoured'
    BY <1>16 DEF DisconnectAbility, DropConnection, MutexInv, HolderInv,
       NoLostWakeup, AgreementHonoured
  <2>3. AgreedInv'
    BY <1>16 DEF DisconnectAbility, DropConnection, AgreedInv, HolderInv
  <2> QED
    BY <2>1, <2>2, <2>3
<1>17. CASE UNCHANGED vars
  BY <1>17 DEF vars, TypeOK, MutexInv, HolderInv, NoLostWakeup, AgreedInv,
     AgreementHonoured
<1> QED
  BY <1>1, <1>2, <1>3, <1>4, <1>5, <1>6, <1>7, <1>8, <1>9, <1>10, <1>11, <1>12,
     <1>13, <1>14, <1>15, <1>16, <1>17 DEF Next, CallStep, Callback, Answer,
     UnShow

(* The invariant holds in every behaviour.                                 *)
LEMMA DialogInvAlways == Spec => []DialogInv
  BY DialogInvInit, DialogInvStep, PTL DEF Spec

(* The semaphore never counts beyond one post, and all state keeps its     *)
(* type, with any number of RequestRight calls.                            *)
THEOREM DialogTypeCorrect == Spec => []TypeOK
  BY DialogInvAlways, PTL DEF DialogInv

(* One dialog at a time, and it asks about the call that sleeps in         *)
(* sem_wait: callbacks and detaches never mix up two calls' parameters.    *)
THEOREM OneDialogAtATime == Spec => []OneDialog
<1>1. DialogInv => OneDialog
  BY DialogAssumption DEF DialogInv, HolderInv, OneDialog, TypeOK
<1> QED
  BY <1>1, DialogInvAlways, PTL

(* A RequestRight call is woken by the end of its own connection only.     *)
THEOREM NoForeignWakeup == Spec => []WokenByOwnDialog
<1>1. DialogInv => WokenByOwnDialog
  <2> SUFFICES ASSUME DialogInv, NEW r \in Requests,
                      pc[r] \in {"connect", "check"}
               PROVE  session = "none" /\ dialog = None /\ sem = 0
    BY DEF WokenByOwnDialog
  <2>1. dialogRunning = r /\ pc[dialogRunning] # "wait"
    BY DEF DialogInv, MutexInv
  <2>2. session = "none" /\ ~(sem > 0)
    BY <2>1 DEF DialogInv, HolderInv
  <2>3. sem = 0
    BY <2>2 DEF DialogInv, TypeOK
  <2> QED
    BY <2>2, <2>3 DEF DialogInv, HolderInv
<1> QED
  BY <1>1, DialogInvAlways, PTL

(* A sleeping RequestRight call always has a connection left to wake it,   *)
(* or has been woken.                                                      *)
THEOREM WakeupNotLost == Spec => []NoLostWakeup
  BY DialogInvAlways, PTL DEF DialogInv

(* The user's Allow is what the caller is told, unless a detach, a dead    *)
(* host, a failed AddAccessRight or a removed record came between.         *)
THEOREM AllowIsHonoured == Spec => []AgreementHonoured
  BY DialogInvAlways, PTL DEF DialogInv

(***************************************************************************)
(* RequestRight as a server that asks the user (UserConsent).              *)
(***************************************************************************)
(* The phase of a call moves with its own progress and with the connection *)
(* of the call that sleeps.                                                *)
LEMMA PhaseOf ==
  ASSUME NEW r \in Requests
  PROVE  /\ pc[r] = "idle" => consentPhase[r] = "new"
         /\ pc[r] = "lock" => consentPhase[r] = "queued"
         /\ pc[r] = "connect" => consentPhase[r] = "served"
         /\ pc[r] = "wait" /\ session = "connecting" => consentPhase[r] = "served"
         /\ pc[r] = "wait" /\ session # "connecting" => consentPhase[r] = "asked"
         /\ pc[r] = "check" => consentPhase[r] = "asked"
         /\ pc[r] \in {"granted", "denied"} => consentPhase[r] = pc[r]
  BY DEF consentPhase

(* A step that moves one call and the connection of no sleeping call moves *)
(* one phase.                                                              *)
LEMMA PhaseMoves ==
  ASSUME TypeOK, TypeOK', NEW r \in Requests,
         \A q \in Requests \ {r} : pc'[q] = pc[q],
         \A q \in Requests \ {r} : pc[q] = "wait" =>
            (session = "connecting" <=> session' = "connecting")
  PROVE  consentPhase' = [consentPhase EXCEPT ![r] = consentPhase'[r]]
  <1>1. \A q \in Requests \ {r} : consentPhase'[q] = consentPhase[q]
    BY DEF consentPhase
  <1>2. /\ DOMAIN consentPhase = Requests /\ DOMAIN consentPhase' = Requests
        /\ consentPhase = [q \in Requests |-> consentPhase[q]]
        /\ consentPhase' = [q \in Requests |-> consentPhase'[q]]
    BY DEF consentPhase
  <1>3. QED
    BY <1>1, <1>2

(* The phases stay where they are when no call moves and the connection of *)
(* the call that sleeps comes up in no step.                               *)
LEMMA PhaseStays ==
  ASSUME pc' = pc,
         \A q \in Requests : pc[q] = "wait" =>
            (session = "connecting" <=> session' = "connecting")
  PROVE  consentPhase' = consentPhase
  <1>1. \A q \in Requests : consentPhase'[q] = consentPhase[q]
    BY DEF consentPhase
  <1>2. /\ consentPhase = [q \in Requests |-> consentPhase[q]]
        /\ consentPhase' = [q \in Requests |-> consentPhase'[q]]
    BY DEF consentPhase
  <1>3. QED
    BY <1>1, <1>2

(* A call asleep is the holder of dialogRunning_, and no other sleeps.     *)
LEMMA OneSleeper ==
  ASSUME DialogInv, NEW q \in Requests, NEW r \in Requests,
         pc[q] \in {"connect", "wait", "check"}, pc[r] \in {"connect", "wait", "check"}
  PROVE  q = r
  BY DEF DialogInv, MutexInv

(* No step takes an excuse back.                                           *)
LEMMA ExcusesGrow ==
  ASSUME DialogInv, DialogInv', Next
  PROVE  Consent!Excusing
  <1>1. disturbed \subseteq disturbed'
    BY DEF Next, CallStep, Answer, Callback, UnShow, RequestRight, DialogHasRight,
           GetUserAgreementByDiag, ConnectAbility, DialogDisappeared, CheckAgreement,
           OnAbilityConnectDone, OnAbilityDisconnectDone, ClickAllow, ClickNotAllow,
           DialogAddAccessRight, TerminateDialog, HostDied, DropConnection,
           DialogRemoveRight, RemoveDeviceAllRight, CloseDialog, DisconnectAbility
  <1>2. disturbed' \subseteq Requests
    BY DEF DialogInv, TypeOK
  <1>3. QED
    BY <1>1, <1>2 DEF Consent!Excusing

(* A call's own steps are the server's: at once or in the queue, served,   *)
(* refused, woken, finished.                                               *)
LEMMA ConsentCall ==
  ASSUME DialogInv, DialogInv', Consent!Excusing, NEW r \in Requests,
         RequestRight(r) \/ CallStep(r)
  PROVE  [Consent!Next]_(Consent!consentVars)
  <1>0. /\ TypeOK /\ TypeOK' /\ MutexInv /\ HolderInv /\ AgreedInv /\ AgreementHonoured'
    BY DEF DialogInv
  <1>1. CASE RequestRight(r)
    <2>1. /\ pc[r] = "idle" /\ UNCHANGED <<dialog, agreed, session>>
          /\ \A q \in Requests \ {r} : pc'[q] = pc[q]
          /\ pc'[r] \in {"granted", "lock"}
      BY <1>0, <1>1 DEF RequestRight, DialogHasRight, Goto, connVars, userVars, TypeOK
    <2>2. consentPhase' = [consentPhase EXCEPT ![r] = consentPhase'[r]]
      BY <1>0, <2>1, PhaseMoves
    <2>3. consentPhase[r] = "new"
      BY <2>1, PhaseOf
    <2>4. consentPhase'[r] = IF pc'[r] = "granted" THEN "granted" ELSE "queued"
      BY <2>1 DEF consentPhase
    <2>5. Consent!AtOnce(r) \/ Consent!Queue(r)
      BY <2>1, <2>2, <2>3, <2>4 DEF Consent!AtOnce, Consent!Queue, Consent!Move
    <2>6. QED
      BY <2>5 DEF Consent!Next
  <1>2. CASE GetUserAgreementByDiag(r)
    <2>1. /\ pc[r] = "lock" /\ dialogRunning = None /\ UNCHANGED <<dialog, agreed, session>>
          /\ \A q \in Requests \ {r} : pc'[q] = pc[q]
          /\ pc'[r] = "connect"
      BY <1>0, <1>2 DEF GetUserAgreementByDiag, Goto, connVars, userVars, TypeOK
    <2>2. consentPhase' = [consentPhase EXCEPT ![r] = consentPhase'[r]]
      BY <1>0, <2>1, PhaseMoves
    <2>3. consentPhase[r] = "queued"
      BY <2>1, PhaseOf
    <2>4. consentPhase'[r] = "served"
      BY <2>1 DEF consentPhase
    <2>5. ASSUME NEW q \in Requests PROVE ~Consent!InService(q)
      <3>1. pc[q] \in {"idle", "lock", "granted", "denied"}
        BY <1>0, <2>1, DialogAssumption DEF MutexInv, TypeOK, Waiting
      <3>2. QED
        BY <3>1, PhaseOf DEF Consent!InService
    <2>6. Consent!Serve(r)
      BY <2>1, <2>2, <2>3, <2>4, <2>5 DEF Consent!Serve, Consent!Move
    <2>7. QED
      BY <2>6 DEF Consent!Next
  <1>3. CASE ConnectAbility(r)
    <2>1. /\ pc[r] = "connect" /\ UNCHANGED <<dialog, agreed>>
          /\ \A q \in Requests \ {r} : pc'[q] = pc[q]
          /\ \/ pc'[r] = "wait" /\ session' = "connecting"
             \/ pc'[r] = "denied" /\ session' = session
      BY <1>0, <1>3 DEF ConnectAbility, Goto, userVars, TypeOK
    <2>2. \A q \in Requests \ {r} : pc[q] # "wait"
      BY <2>1, OneSleeper
    <2>3. consentPhase' = [consentPhase EXCEPT ![r] = consentPhase'[r]]
      BY <1>0, <2>1, <2>2, PhaseMoves
    <2>4. consentPhase[r] = "served"
      BY <2>1, PhaseOf
    <2>5. CASE pc'[r] = "wait" /\ session' = "connecting"
      <3>1. consentPhase'[r] = "served"
        BY <2>5 DEF consentPhase
      <3>2. consentPhase' = consentPhase
        BY <2>3, <2>4, <3>1 DEF consentPhase
      <3>3. QED
        BY <2>1, <3>2 DEF Consent!Next, Consent!Excuse
    <2>6. CASE pc'[r] = "denied" /\ session' = session
      <3>1. consentPhase'[r] = "denied"
        BY <2>6 DEF consentPhase
      <3>2. dialog = None
        <4>1. dialogRunning = r
          BY <1>0, <2>1 DEF MutexInv
        <4>2. session = "none"
          BY <1>0, <2>1, <4>1 DEF HolderInv
        <4>3. QED
          BY <1>0, <4>2 DEF HolderInv
      <3>3. r \notin agreed
        BY <1>0, <2>1 DEF AgreedInv
      <3>4. Consent!Finish(r, "denied")
        BY <2>1, <2>3, <2>4, <3>1, <3>2, <3>3 DEF Consent!Finish, Consent!Move
      <3>5. QED
        BY <3>4 DEF Consent!Next
    <2>7. QED
      BY <2>1, <2>5, <2>6
  <1>4. CASE DialogDisappeared(r)
    <2>1. /\ pc[r] = "wait" /\ sem > 0 /\ UNCHANGED <<dialog, agreed, session>>
          /\ \A q \in Requests \ {r} : pc'[q] = pc[q]
          /\ pc'[r] = "check"
      BY <1>0, <1>4 DEF DialogDisappeared, Goto, connVars, userVars, TypeOK
    <2>2. consentPhase' = [consentPhase EXCEPT ![r] = consentPhase'[r]]
      BY <1>0, <2>1, PhaseMoves
    <2>3. session = "none"
      BY <1>0, <2>1 DEF HolderInv, TypeOK
    <2>4. consentPhase[r] = "asked"
      BY <2>1, <2>3, PhaseOf
    <2>5. consentPhase'[r] = "asked"
      BY <2>1 DEF consentPhase
    <2>6. consentPhase' = consentPhase
      BY <2>2, <2>4, <2>5 DEF consentPhase
    <2>7. QED
      BY <2>1, <2>6 DEF Consent!Next, Consent!Excuse
  <1>5. CASE CheckAgreement(r)
    <2>1. /\ pc[r] = "check" /\ UNCHANGED <<dialog, agreed, session>>
          /\ \A q \in Requests \ {r} : pc'[q] = pc[q]
          /\ pc'[r] \in {"granted", "denied"}
      BY <1>0, <1>5 DEF CheckAgreement, DialogHasRight, Goto, connVars, userVars, TypeOK
    <2>2. consentPhase' = [consentPhase EXCEPT ![r] = consentPhase'[r]]
      BY <1>0, <2>1, PhaseMoves
    <2>3. consentPhase[r] = "asked"
      BY <2>1, PhaseOf
    <2>4. consentPhase'[r] = pc'[r]
      BY <2>1 DEF consentPhase
    <2>5. dialog = None
      <3>1. dialogRunning = r
        BY <1>0, <2>1 DEF MutexInv
      <3>2. session = "none"
        BY <1>0, <2>1, <3>1 DEF HolderInv
      <3>3. QED
        BY <1>0, <3>2 DEF HolderInv
    <2>6. pc'[r] = "denied" /\ r \in agreed => r \in disturbed'
      BY <1>0, <2>1 DEF AgreementHonoured
    <2>7. Consent!Finish(r, pc'[r])
      BY <2>1, <2>2, <2>3, <2>4, <2>5, <2>6 DEF Consent!Finish, Consent!Move
    <2>8. QED
      BY <2>1, <2>7 DEF Consent!Next
  <1>6. QED
    BY <1>1, <1>2, <1>3, <1>4, <1>5 DEF CallStep

(* The connection comes up, or ends before it did: the question is put, or *)
(* never will be; an end after that hides it.                              *)
LEMMA ConsentConnection ==
  ASSUME DialogInv, DialogInv', Consent!Excusing,
         OnAbilityConnectDone \/ HostDied \/ DisconnectAbility
  PROVE  [Consent!Next]_(Consent!consentVars)
  <1>0. /\ TypeOK /\ TypeOK' /\ MutexInv /\ HolderInv
        /\ pc' = pc /\ agreed' = agreed
    BY DEF DialogInv, OnAbilityConnectDone, HostDied, DisconnectAbility, callVars, userVars
  <1>1. ASSUME session = "connecting", session' \in {"connected", "closing"},
               dialog' \in {params, None}
        PROVE  [Consent!Next]_(Consent!consentVars)
    <2>1. PICK r \in Requests : dialogRunning = r /\ params = r /\ pc[r] = "wait"
      BY <1>0, <1>1 DEF HolderInv, TypeOK
    <2>2. \A q \in Requests \ {r} : pc[q] # "wait"
      BY <2>1, OneSleeper
    <2>3. consentPhase' = [consentPhase EXCEPT ![r] = consentPhase'[r]]
      BY <1>0, <2>2, PhaseMoves
    <2>4. consentPhase[r] = "served"
      BY <1>1, <2>1, PhaseOf
    <2>5. consentPhase'[r] = "asked"
      BY <1>0, <1>1, <2>1 DEF consentPhase
    <2>6. Consent!Ask(r)
      BY <1>0, <1>1, <2>1, <2>3, <2>4, <2>5 DEF Consent!Ask, Consent!Move
    <2>7. QED
      BY <2>6 DEF Consent!Next
  <1>2. ASSUME session # "connecting", session' # "connecting", dialog' \in {dialog, None}
        PROVE  [Consent!Next]_(Consent!consentVars)
    <2>1. consentPhase' = consentPhase
      BY <1>0, <1>2, PhaseStays
    <2>2. Consent!Hide \/ Consent!Excuse
      BY <1>0, <1>2, <2>1 DEF Consent!Hide, Consent!Excuse
    <2>3. QED
      BY <2>2 DEF Consent!Next
  <1>3. CASE OnAbilityConnectDone
    <2>1. dialog = None
      BY <1>0, <1>3 DEF OnAbilityConnectDone, HolderInv
    <2>2. QED
      BY <1>1, <1>3, <2>1 DEF OnAbilityConnectDone
  <1>4. CASE session \in {"connecting", "connected"} /\ DropConnection
    BY <1>1, <1>2, <1>4 DEF DropConnection
  <1>5. CASE session \notin {"connecting", "connected"} /\ UNCHANGED <<session, dialog>>
    BY <1>2, <1>5
  <1>6. QED
    BY <1>3, <1>4, <1>5 DEF HostDied, DisconnectAbility

(* What the user does, the end of a dialog and the removals put, allow,    *)
(* hide or excuse, and move no call.                                       *)
LEMMA ConsentRest ==
  ASSUME DialogInv, DialogInv', Consent!Excusing, pc' = pc,
         session' # session => session = "closing" \/ (dialog # None /\ session' = "closing"),
         session' # "connecting" \/ session' = session,
         \/ UNCHANGED <<dialog, agreed>>
         \/ dialog' = None /\ agreed' = agreed
         \/ \E r \in Requests : dialog = r /\ dialog' = dialog /\ agreed' = agreed \union {r}
  PROVE  [Consent!Next]_(Consent!consentVars)
  <1>1. dialog # None => session = "connected"
    BY DEF DialogInv, HolderInv
  <1>2. session = "connecting" <=> session' = "connecting"
    BY <1>1
  <1>3. consentPhase' = consentPhase
    BY <1>2, PhaseStays
  <1>4. Consent!Excuse \/ Consent!Hide \/ \E r \in Requests : Consent!Allow(r)
    BY <1>3 DEF Consent!Excuse, Consent!Hide, Consent!Allow
  <1>5. QED
    BY <1>4 DEF Consent!Next

(* Every step of RequestRight, of the callbacks, of the dialog and of a    *)
(* detach is a step of the server or none.                                 *)
LEMMA ConsentStep == DialogInv /\ DialogInv' /\ [Next]_vars => [Consent!Next]_(Consent!consentVars)
  <1> SUFFICES ASSUME DialogInv, DialogInv', [Next]_vars
               PROVE  [Consent!Next]_(Consent!consentVars)
    OBVIOUS
  <1>1. CASE UNCHANGED vars
    <2>1. pc' = pc /\ UNCHANGED <<session, dialog, agreed, disturbed>>
      BY <1>1 DEF vars, callVars, connVars, userVars
    <2>2. consentPhase' = consentPhase
      BY <2>1, PhaseStays
    <2>3. QED
      BY <2>1, <2>2 DEF Consent!consentVars
  <1>2. CASE Next
    <2>1. Consent!Excusing
      BY <1>2, ExcusesGrow
    <2>2. CASE \E r \in Requests : RequestRight(r) \/ CallStep(r)
      BY <2>1, <2>2, ConsentCall
    <2>3. CASE OnAbilityConnectDone \/ HostDied \/ DisconnectAbility
      BY <2>1, <2>3, ConsentConnection
    <2>4. CASE OnAbilityDisconnectDone
      BY <2>1, <2>4, ConsentRest DEF OnAbilityDisconnectDone, callVars, userVars
    <2>5. CASE \E r \in Requests : Answer(r)
      BY <2>1, <2>5, ConsentRest
         DEF Answer, ClickAllow, ClickNotAllow, Unanswered, callVars, connVars
    <2>6. CASE \E r \in Requests : DialogAddAccessRight(r)
      BY <2>1, <2>6, ConsentRest DEF DialogAddAccessRight, callVars, connVars
    <2>7. CASE \E r \in Requests : TerminateDialog(r)
      BY <2>1, <2>7, ConsentRest, DialogAssumption DEF TerminateDialog, callVars, userVars
    <2>8. CASE \E k \in Keys : DialogRemoveRight(k)
      BY <2>1, <2>8, ConsentRest DEF DialogRemoveRight, callVars, connVars, userVars
    <2>9. CASE RemoveDeviceAllRight
      BY <2>1, <2>9, ConsentRest DEF RemoveDeviceAllRight, callVars, connVars, userVars
    <2>10. CASE CloseDialog
      BY <2>1, <2>10, ConsentRest DEF CloseDialog, callVars, userVars
    <2>11. QED
      BY <1>2, <2>2, <2>3, <2>4, <2>5, <2>6, <2>7, <2>8, <2>9, <2>10
         DEF Next, Callback, UnShow
  <1>3. QED
    BY <1>1, <1>2

(* RequestRight implements the server that asks the user, for any number   *)
(* of calls, records and threads and with every fault of the dialog host:  *)
(* calls one at a time, each asked about at most once, none answered under *)
(* its dialog, and no undisturbed Allow turned into a denial.              *)
THEOREM DialogImplementsConsent == Spec => ImplementsConsent
  <1>1. Init => Consent!Init
    BY DEF Init, Consent!Init, consentPhase
  <1>2. DialogInv /\ [Next]_vars => DialogInv'
    BY DialogInvStep
  <1>3. DialogInv /\ DialogInv' /\ [Next]_vars => [Consent!Next]_(Consent!consentVars)
    BY ConsentStep
  <1>4. QED
    BY <1>1, <1>2, <1>3, DialogInvInit, PTL DEF Spec, ImplementsConsent, Consent!Spec

(* The server's own steps keep one call in service and its word.           *)
LEMMA ConsentKeepsWord ==
  ASSUME Consent!OneInService, Consent!AllowedNotDenied,
         [Consent!Next]_(Consent!consentVars)
  PROVE  (Consent!OneInService /\ Consent!AllowedNotDenied)'
  <1>1. DOMAIN consentPhase = Requests
    BY DEF consentPhase
  <1>2. ASSUME NEW r \in Requests, NEW from, NEW to, Consent!Move(r, from, to)
        PROVE  /\ consentPhase[r] \in from /\ consentPhase'[r] = to
               /\ \A q \in Requests \ {r} : consentPhase'[q] = consentPhase[q]
    BY <1>1, <1>2 DEF Consent!Move
  <1>3. ASSUME NEW r \in Requests, Consent!AtOnce(r) \/ Consent!Queue(r)
        PROVE  (Consent!OneInService /\ Consent!AllowedNotDenied)'
    <2>1. /\ consentPhase[r] = "new" /\ consentPhase'[r] \in {"granted", "queued"}
          /\ \A q \in Requests \ {r} : consentPhase'[q] = consentPhase[q]
      BY <1>2, <1>3 DEF Consent!AtOnce, Consent!Queue
    <2>2. UNCHANGED <<dialog, agreed>> /\ disturbed \subseteq disturbed'
      BY <1>3 DEF Consent!AtOnce, Consent!Queue, Consent!Excusing
    <2>3. QED
      BY <2>1, <2>2 DEF Consent!OneInService, Consent!InService, Consent!AllowedNotDenied
  <1>4. ASSUME NEW r \in Requests, Consent!Serve(r)
        PROVE  (Consent!OneInService /\ Consent!AllowedNotDenied)'
    <2>1. /\ consentPhase[r] = "queued" /\ consentPhase'[r] = "served"
          /\ \A q \in Requests \ {r} : consentPhase'[q] = consentPhase[q]
          /\ \A q \in Requests : consentPhase[q] \notin {"served", "asked"}
      BY <1>2, <1>4 DEF Consent!Serve, Consent!InService
    <2>2. UNCHANGED <<dialog, agreed>> /\ disturbed \subseteq disturbed'
      BY <1>4 DEF Consent!Serve, Consent!Excusing
    <2>3. QED
      BY <2>1, <2>2 DEF Consent!OneInService, Consent!InService, Consent!AllowedNotDenied
  <1>5. ASSUME NEW r \in Requests, Consent!Ask(r)
        PROVE  (Consent!OneInService /\ Consent!AllowedNotDenied)'
    <2>1. /\ consentPhase[r] = "served" /\ consentPhase'[r] = "asked"
          /\ \A q \in Requests \ {r} : consentPhase'[q] = consentPhase[q]
      BY <1>2, <1>5 DEF Consent!Ask
    <2>2. dialog' \in {r, None} /\ agreed' = agreed /\ disturbed \subseteq disturbed'
      BY <1>5 DEF Consent!Ask, Consent!Excusing
    <2>3. QED
      BY <2>1, <2>2 DEF Consent!OneInService, Consent!InService, Consent!AllowedNotDenied
  <1>6. ASSUME NEW r \in Requests, Consent!Allow(r)
        PROVE  (Consent!OneInService /\ Consent!AllowedNotDenied)'
    <2>1. /\ dialog = r /\ r # None /\ agreed' = agreed \union {r}
          /\ UNCHANGED <<consentPhase, dialog>> /\ disturbed \subseteq disturbed'
      BY <1>6, DialogAssumption DEF Consent!Allow, Consent!Excusing
    <2>2. QED
      BY <2>1 DEF Consent!OneInService, Consent!InService, Consent!AllowedNotDenied
  <1>7. ASSUME NEW r \in Requests, NEW v \in {"granted", "denied"}, Consent!Finish(r, v)
        PROVE  (Consent!OneInService /\ Consent!AllowedNotDenied)'
    <2>1. /\ consentPhase[r] \in {"served", "asked"} /\ consentPhase'[r] = v
          /\ \A q \in Requests \ {r} : consentPhase'[q] = consentPhase[q]
      BY <1>2, <1>7 DEF Consent!Finish
    <2>2. /\ dialog = None /\ UNCHANGED <<dialog, agreed>> /\ disturbed \subseteq disturbed'
          /\ v = "denied" /\ r \in agreed => r \in disturbed'
      BY <1>7 DEF Consent!Finish, Consent!Excusing
    <2>3. QED
      BY <2>1, <2>2 DEF Consent!OneInService, Consent!InService, Consent!AllowedNotDenied
  <1>8. CASE Consent!Hide \/ Consent!Excuse \/ UNCHANGED (Consent!consentVars)
    <2>1. /\ UNCHANGED <<consentPhase, agreed>> /\ dialog' \in {dialog, None}
          /\ disturbed \subseteq disturbed'
      BY <1>8 DEF Consent!Hide, Consent!Excuse, Consent!Excusing, Consent!consentVars
    <2>2. QED
      BY <2>1 DEF Consent!OneInService, Consent!InService, Consent!AllowedNotDenied
  <1>9. QED
    BY <1>3, <1>4, <1>5, <1>6, <1>7, <1>8 DEF Consent!Next

(* What the server is for, from its own steps alone: one call in service,  *)
(* the one the user is asked about, and no allowed call denied.            *)
THEOREM ConsentIsKept ==
  ImplementsConsent => [](Consent!OneInService /\ Consent!AllowedNotDenied)
  <1>1. Consent!Init => Consent!OneInService /\ Consent!AllowedNotDenied
    BY DEF Consent!Init, Consent!OneInService, Consent!InService, Consent!AllowedNotDenied
  <1>2. /\ Consent!OneInService /\ Consent!AllowedNotDenied
        /\ [Consent!Next]_(Consent!consentVars)
        => (Consent!OneInService /\ Consent!AllowedNotDenied)'
    BY ConsentKeepsWord
  <1>3. QED
    BY <1>1, <1>2, PTL DEF ImplementsConsent, Consent!Spec

(***************************************************************************)
(* The records of rights.                                                  *)
(***************************************************************************)
(* A transaction is committed or changes nothing; it always succeeds when  *)
(* nothing may fail.                                                       *)
LEMMA CommitRows ==
  ASSUME NEW rs, Commit(rs)
  PROVE  /\ rows' = rs \/ rows' = rows
         /\ Faults = {} => rows' = rs
BY DEF Commit

(* The steps that only delete records.                                     *)
Deletes ==
  \/ \E u \in Users, a \in Apps, d \in Devices : RemoveRight(u, a, d)
  \/ \E u \in Users : HasRightTidies(u) \/ Restart(u)
  \/ OnReceiveEvent \/ CleanUpDeletes \/ TidyUsers \/ CleanUpRightNormalExpired

(* The steps that look something up and remember it.                       *)
Looks ==
  \/ \E u \in Users, a \in Apps, d \in Devices : AddAccessRight(u, a, d) \/ AddRight(u, a, d)
  \/ \E u \in Users : TidyUpRight(u)
  \/ CleanUpLooksUp \/ CleanUpRightAppReinstalled \/ ReinstalledLooksUp

(* The steps of the bundle manager and of the account manager.             *)
World ==
  \/ \E u \in Users, a \in Apps : Install(u, a) \/ Uninstall(u, a)
  \/ \E u \in Users : StopUser(u) \/ RemoveUser(u)

(* Every step is one of these, or writes a record, or moves the clock.     *)
LEMMA DbSteps ==
  ASSUME DbTypeOK, DbNext
  PROVE  /\ scenario' = scenario
         /\ Deletes \/ Looks \/ World \/ AddOrUpdateRightRecord \/ Tick \/ SetClockBack
<1>1. scenario.apps \subseteq Apps  BY RightDbAssumption DEF DbTypeOK
<1> QED  BY <1>1 DEF DbNext, Deletes, Looks, World, Tidying

(* What the steps leave alone.                                             *)
LEMMA DeletesKeep ==
  ASSUME Deletes
  PROVE  rows' \subseteq rows /\ UNCHANGED <<now, users, inst, since, installs, ended>>
<1>1. UNCHANGED <<now, users, inst, since, installs, ended>>
  BY DEF Deletes, RemoveRight, HasRightTidies, Restart, OnReceiveEvent, CleanUpDeletes,
     TidyUsers, CleanUpRightNormalExpired, bundleVars
<1> USE DEF Commit, DeleteNormalExpiredRightRecord, DeleteAppsRightRecord, DeleteUidRightRecord,
            CleanUpRightUserDeleted
<1>2. ASSUME NEW u \in Users, NEW a \in Apps, NEW d \in Devices, RemoveRight(u, a, d)
      PROVE  rows' \subseteq rows
  BY <1>2 DEF RemoveRight
<1>3. ASSUME NEW u \in Users, HasRightTidies(u) \/ Restart(u) PROVE rows' \subseteq rows
  BY <1>3 DEF HasRightTidies, Restart
<1>4. CASE OnReceiveEvent  BY <1>1, <1>4 DEF OnReceiveEvent
<1>5. CASE CleanUpDeletes  BY <1>1, <1>5 DEF CleanUpDeletes
<1>6. CASE TidyUsers  BY <1>1, <1>6 DEF TidyUsers
<1>7. CASE CleanUpRightNormalExpired  BY <1>1, <1>7 DEF CleanUpRightNormalExpired
<1> QED  BY <1>1, <1>2, <1>3, <1>4, <1>5, <1>6, <1>7 DEF Deletes

(* What lookups leave alone.                                               *)
LEMMA LooksKeep ==
  ASSUME Looks
  PROVE  UNCHANGED <<now, users, inst, since, installs, ended, rows, events>>
BY DEF Looks, AddAccessRight, AddRight, AddDeviceRight, TidyUpRight, CleanUpLooksUp,
   CleanUpRightAppReinstalled, ReinstalledLooksUp, bundleVars

(* What the world leaves alone.                                            *)
LEMMA WorldKeeps ==
  ASSUME World
  PROVE  UNCHANGED <<now, rows, grant, tidy>>
BY DEF World, Install, Uninstall, StopUser, RemoveUser, bundleVars

(* An event is delivered: the others move up.                              *)
LEMMA EventDelivered ==
  ASSUME NEW q \in Seq(Event), q # <<>>
  PROVE  /\ Tail(q) \in Seq(Event) /\ Head(q) \in Event /\ Head(q) = q[1]
         /\ 1 \in 1 .. Len(q)
         /\ \A i \in 1 .. Len(Tail(q)) : i + 1 \in 1 .. Len(q) /\ Tail(q)[i] = q[i + 1]
         /\ \A i \in 1 .. Len(q) :
              i = 1 \/ (i - 1 \in 1 .. Len(Tail(q)) /\ Tail(q)[i - 1] = q[i])
<1>1. Tail(q) \in Seq(Event) /\ Len(Tail(q)) = Len(q) - 1 /\ Len(q) \in Nat \ {0}
  OBVIOUS
<1>2. Head(q) = q[1] /\ Head(q) \in Event
  OBVIOUS
<1> QED  BY <1>1, <1>2

(* An event is published behind the others.                                *)
LEMMA EventPublished ==
  ASSUME NEW q \in Seq(Event), NEW e \in Event
  PROVE  /\ Append(q, e) \in Seq(Event)
         /\ Len(q) + 1 \in 1 .. Len(Append(q, e)) /\ Append(q, e)[Len(q) + 1] = e
         /\ \A i \in 1 .. Len(q) : i \in 1 .. Len(Append(q, e)) /\ Append(q, e)[i] = q[i]
         /\ \A i \in 1 .. Len(Append(q, e)) : i \in 1 .. Len(q) \/ i = Len(q) + 1
<1>1. Append(q, e) \in Seq(Event) /\ Len(Append(q, e)) = Len(q) + 1 /\ Len(q) \in Nat
  OBVIOUS
<1>2. \A i \in 1 .. Len(q) : Append(q, e)[i] = q[i]
  OBVIOUS
<1>3. Append(q, e)[Len(q) + 1] = e
  OBVIOUS
<1> QED  BY <1>1, <1>2, <1>3

(* The types of what lookups remember.                                     *)
LEMMA LooksTypes ==
  ASSUME DbTypeOK, Looks
  PROVE  grant' \in Grant \union {Idle} /\ tidy' \in Tidy \union {Idle}
<1>1. /\ now \in Nat /\ inst \in [Users \X Apps -> Nat] /\ since \in [Users \X Apps -> Nat]
      /\ grant \in Grant \union {Idle} /\ tidy \in Tidy \union {Idle} /\ rows \subseteq Row
  BY DEF DbTypeOK
<1>2. ASSUME NEW u \in Users, NEW a \in Apps, NEW d \in Devices, NEW t \in Nat,
             AddDeviceRight(u, a, d, t)
      PROVE  grant' \in Grant /\ tidy' = tidy
  <2>1. inst[<<u, a>>] \in Nat /\ since[<<u, a>>] \in Nat  BY <1>1
  <2>2. PICK i \in (IF inst[<<u, a>>] # 0 THEN {since[<<u, a>>]} ELSE {})
                     \union (IF inst[<<u, a>>] = 0 \/ "lookup" \in Faults THEN {now} ELSE {}) :
           grant' = [pc |-> "write", user |-> u, app |-> a, dev |-> d, tok |-> t,
                     install |-> i, request |-> now, for |-> inst[<<u, a>>]]
    BY <1>2 DEF AddDeviceRight
  <2>3. i \in Nat  BY <1>1, <2>1
  <2>4. tidy' = tidy  BY <1>2 DEF AddDeviceRight
  <2> QED  BY <1>1, <2>1, <2>2, <2>3, <2>4 DEF Grant
<1>3. ASSUME NEW u \in Users, NEW a \in Apps, NEW d \in Devices,
             AddAccessRight(u, a, d) \/ AddRight(u, a, d)
      PROVE  grant' \in Grant /\ tidy' = tidy
  <2>1. inst[<<u, a>>] \in Nat /\ Default \in Nat  BY <1>1 DEF Default
  <2> QED  BY <1>2, <1>3, <2>1 DEF AddAccessRight, AddRight
<1>4. \A u \in Users : \A as \in Queried(u) : as \in SUBSET Apps
  <2>1. \A u \in Users : RecordApps(u) \in SUBSET Apps  BY <1>1 DEF RecordApps, Row
  <2>2. {} \in SUBSET Apps
    OBVIOUS
  <2> QED  BY <2>1, <2>2 DEF Queried
<1>5. ASSUME NEW u \in Users, TidyUpRight(u) PROVE tidy' \in Tidy /\ grant' = grant
  <2>1. PICK as \in Queried(u) :
           tidy' = [pc |-> "uninstalled", user |-> u, apps |-> as, doomed |-> {}]
    BY <1>5 DEF TidyUpRight
  <2>2. as \in SUBSET Apps /\ {} \in SUBSET Apps  BY <1>4, <2>1
  <2>3. grant' = grant  BY <1>5 DEF TidyUpRight
  <2> QED  BY <2>1, <2>2, <2>3 DEF Tidy
<1>6. CASE CleanUpLooksUp
  <2>1. tidy \in Tidy  BY <1>1, <1>6 DEF CleanUpLooksUp, Idle
  <2>2. PICK a \in tidy.apps : \/ tidy' = [tidy EXCEPT !.apps = @ \ {a}]
                               \/ tidy' = [tidy EXCEPT !.apps = @ \ {a}, !.doomed = {a}]
    BY <1>6 DEF CleanUpLooksUp
  <2>3. grant' = grant  BY <1>6 DEF CleanUpLooksUp
  <2>4. tidy.apps \ {a} \in SUBSET Apps /\ {a} \in SUBSET Apps  BY <2>1, <2>2 DEF Tidy
  <2> QED  BY <1>1, <2>1, <2>2, <2>3, <2>4 DEF Tidy
<1>7. CASE CleanUpRightAppReinstalled
  <2>1. tidy \in Tidy  BY <1>1, <1>7 DEF CleanUpRightAppReinstalled, Idle
  <2>2. tidy.user \in Users  BY <2>1 DEF Tidy
  <2>3. PICK as \in SUBSET Apps : tidy' = IF as = {} THEN Idle
                ELSE [tidy EXCEPT !.pc = "reinstalled", !.apps = as]
    BY <1>4, <1>7, <2>2 DEF CleanUpRightAppReinstalled
  <2>4. grant' = grant  BY <1>7 DEF CleanUpRightAppReinstalled
  <2> QED  BY <1>1, <2>1, <2>3, <2>4 DEF Tidy
<1>8. CASE ReinstalledLooksUp
  <2>1. tidy \in Tidy  BY <1>1, <1>8 DEF ReinstalledLooksUp, Idle
  <2>2. PICK a \in tidy.apps :
           \/ tidy' = Idle
           \/ \E gone \in SUBSET {a} :
                tidy' = [tidy EXCEPT !.apps = tidy.apps \ {a}, !.doomed = @ \union gone]
    BY <1>8 DEF ReinstalledLooksUp
  <2>3. grant' = grant  BY <1>8 DEF ReinstalledLooksUp
  <2>4. ASSUME NEW gone \in SUBSET {a},
               tidy' = [tidy EXCEPT !.apps = tidy.apps \ {a}, !.doomed = @ \union gone]
        PROVE  tidy' \in Tidy
    <3>1. tidy.apps \ {a} \in SUBSET Apps /\ tidy.doomed \union gone \in SUBSET Apps
      BY <2>1, <2>2 DEF Tidy
    <3> QED  BY <2>1, <2>4, <3>1 DEF Tidy
  <2> QED  BY <1>1, <2>2, <2>3, <2>4
<1> QED  BY <1>1, <1>3, <1>5, <1>6, <1>7, <1>8 DEF Looks

(* The record that is written.                                             *)
LEMMA NewRowType ==
  ASSUME DbTypeOK, AddOrUpdateRightRecord
  PROVE  grant \in Grant /\ NewRow \in Row
<1>1. grant \in Grant  BY DEF DbTypeOK, AddOrUpdateRightRecord
<1> QED  BY <1>1 DEF NewRow, Grant, Row

(* Every step keeps the types.                                             *)
LEMMA DbTypeNext ==
  ASSUME DbTypeOK, DbNext
  PROVE  DbTypeOK'
<1>1. /\ now \in Nat /\ installs \in Nat /\ users \subseteq Users
      /\ inst \in [Users \X Apps -> Nat] /\ since \in [Users \X Apps -> Nat]
      /\ ended \subseteq Users \X Apps /\ rows \subseteq Row /\ events \in Seq(Event)
      /\ grant \in Grant \union {Idle} /\ tidy \in Tidy \union {Idle}
      /\ scenario \in Scenarios
  BY DEF DbTypeOK
<1>2. scenario' = scenario  BY DbSteps
<1>3. CASE Deletes
  <2>1. /\ rows' \subseteq rows /\ UNCHANGED <<now, users, inst, since, installs, ended>>
    BY <1>3, DeletesKeep
  <2>2. events' \in Seq(Event)
    <3>1. events' \in {events, <<>>} \/ (events # <<>> /\ events' = Tail(events))
      BY <1>3 DEF Deletes, RemoveRight, HasRightTidies, Restart, OnReceiveEvent,
         CleanUpDeletes, TidyUsers, CleanUpRightNormalExpired
    <3>2. <<>> \in Seq(Event)
      OBVIOUS
    <3> QED  BY <1>1, <3>1, <3>2, EventDelivered
  <2>3. grant' \in Grant \union {Idle}
    BY <1>1, <1>3 DEF Deletes, RemoveRight, HasRightTidies, Restart, OnReceiveEvent,
       CleanUpDeletes, TidyUsers, CleanUpRightNormalExpired
  <2>4. tidy' \in Tidy \union {Idle}
    <3>1. CASE \/ \E u \in Users, a \in Apps, d \in Devices : RemoveRight(u, a, d)
               \/ \E u \in Users : HasRightTidies(u) \/ Restart(u)
               \/ OnReceiveEvent
      BY <1>1, <3>1 DEF RemoveRight, HasRightTidies, Restart, OnReceiveEvent
    <3>2. CASE CleanUpDeletes \/ TidyUsers \/ CleanUpRightNormalExpired
      <4>1. tidy \in Tidy
        BY <1>1, <3>2 DEF CleanUpDeletes, TidyUsers, CleanUpRightNormalExpired, Idle
      <4> QED  BY <3>2, <4>1 DEF CleanUpDeletes, TidyUsers, CleanUpRightNormalExpired, Tidy
    <3> QED  BY <1>3, <3>1, <3>2 DEF Deletes
  <2> QED  BY <1>1, <1>2, <2>1, <2>2, <2>3, <2>4 DEF DbTypeOK
<1>4. CASE Looks
  BY <1>1, <1>2, <1>4, LooksKeep, LooksTypes DEF DbTypeOK
<1>5. CASE World
  <2>1. UNCHANGED <<now, rows, grant, tidy>>  BY <1>5, WorldKeeps
  <2>2. events' \in Seq(Event)
    <3>1. ASSUME NEW e \in Event, Publish(e) PROVE events' \in Seq(Event)
      BY <1>1, <3>1, EventPublished DEF Publish
    <3>2. ASSUME NEW u \in Users, NEW a \in Apps, Uninstall(u, a) PROVE events' \in Seq(Event)
      <4>1. [kind |-> "removed", user |-> u, app |-> a] \in Event  BY DEF Event
      <4> QED  BY <3>1, <3>2, <4>1 DEF Uninstall
    <3>3. ASSUME NEW u \in Users, StopUser(u) \/ RemoveUser(u) PROVE events' \in Seq(Event)
      <4>1. /\ [kind |-> "userStopped", user |-> u] \in Event
            /\ [kind |-> "userRemoved", user |-> u] \in Event
        BY DEF Event
      <4> QED  BY <3>1, <3>3, <4>1 DEF StopUser, RemoveUser
    <3>4. ASSUME NEW u \in Users, NEW a \in Apps, Install(u, a) PROVE events' \in Seq(Event)
      BY <1>1, <3>4 DEF Install
    <3> QED  BY <1>5, <3>2, <3>3, <3>4 DEF World
  <2> DEFINE Typed == /\ users' \subseteq Users /\ installs' \in Nat
                      /\ ended' \subseteq Users \X Apps
                      /\ inst' \in [Users \X Apps -> Nat] /\ since' \in [Users \X Apps -> Nat]
  <2>3. Typed
    <3>1. ASSUME NEW u \in Users, NEW a \in Apps, Install(u, a) PROVE Typed
      <4>1. installs + 1 \in Nat  BY <1>1
      <4> QED  BY <1>1, <3>1, <4>1 DEF Install
    <3>2. ASSUME NEW u \in Users, NEW a \in Apps, Uninstall(u, a) PROVE Typed
      BY <1>1, <3>2 DEF Uninstall
    <3>3. ASSUME NEW u \in Users, StopUser(u) \/ RemoveUser(u) PROVE Typed
      <4>1. CASE StopUser(u)  BY <1>1, <4>1 DEF StopUser, bundleVars
      <4>2. CASE RemoveUser(u)
        <5>1. /\ users' = users \ {u} /\ UNCHANGED <<since, installs, ended>>
              /\ inst' = [p \in Users \X Apps |-> IF p[1] = u THEN 0 ELSE inst[p]]
          BY <4>2 DEF RemoveUser
        <5>2. inst' \in [Users \X Apps -> Nat]  BY <1>1, <5>1
        <5> QED  BY <1>1, <5>1, <5>2
      <4> QED  BY <3>3, <4>1, <4>2
    <3> QED  BY <1>5, <3>1, <3>2, <3>3 DEF World
  <2> QED  BY <1>1, <1>2, <2>1, <2>2, <2>3 DEF DbTypeOK
<1>6. CASE AddOrUpdateRightRecord
  <2>1. rows' \subseteq Row
    BY <1>1, <1>6, NewRowType DEF AddOrUpdateRightRecord, Commit
  <2> QED  BY <1>1, <1>2, <1>6, <2>1 DEF AddOrUpdateRightRecord, bundleVars, DbTypeOK
<1>7. CASE Tick \/ SetClockBack
  <2>1. now' \in Nat  BY <1>1, <1>7 DEF Tick, SetClockBack
  <2> QED  BY <1>1, <1>2, <1>7, <2>1 DEF Tick, SetClockBack, bundleVars, DbTypeOK
<1> QED  BY <1>3, <1>4, <1>5, <1>6, <1>7, DbSteps

(* What is over stays over.                                                *)
LEMMA OverStays ==
  ASSUME DbTypeOK, DbNext
  PROVE  ended \subseteq ended' /\ users' \subseteq users
<1>1. CASE Deletes  BY <1>1, DeletesKeep
<1>2. CASE Looks  BY <1>2, LooksKeep
<1>3. CASE World
  BY <1>3 DEF World, Install, Uninstall, StopUser, RemoveUser, bundleVars
<1>4. CASE AddOrUpdateRightRecord \/ Tick \/ SetClockBack
  BY <1>4 DEF AddOrUpdateRightRecord, Tick, SetClockBack, bundleVars
<1> QED  BY <1>1, <1>2, <1>3, <1>4, DbSteps

(* What an event says has happened.                                        *)
Tells(e, gone, alive) ==
  /\ e.kind = "removed" => <<e.user, e.app>> \in gone
  /\ e.kind = "userRemoved" => e.user \notin alive

(* Events tell what has happened, and accounts that are gone have nothing. *)
LEMMA BundleNext ==
  ASSUME DbTypeOK, BundleInv, DbNext
  PROVE  BundleInv'
<1>1. /\ inst \in [Users \X Apps -> Nat] /\ events \in Seq(Event)
      /\ \A u \in Users, a \in Apps : inst[<<u, a>>] # 0 => u \in users
      /\ \A i \in 1 .. Len(events) : Tells(events[i], ended, users)
  BY DEF DbTypeOK, BundleInv, Tells
<1>2. ended \subseteq ended' /\ users' \subseteq users  BY OverStays
<1>3. SUFFICES /\ \A u \in Users, a \in Apps : inst'[<<u, a>>] # 0 => u \in users'
               /\ \A i \in 1 .. Len(events') : Tells(events'[i], ended', users')
  BY DEF BundleInv, Tells
<1>4. ASSUME NEW e, Tells(e, ended, users) PROVE Tells(e, ended', users')  BY <1>2, <1>4 DEF Tells
<1>5. ASSUME \/ events' = events \/ events' = <<>>
             \/ events # <<>> /\ events' = Tail(events)
             \/ \E e \in Event : Tells(e, ended', users') /\ events' = Append(events, e)
      PROVE  \A i \in 1 .. Len(events') : Tells(events'[i], ended', users')
  <2>1. \A i \in 1 .. Len(events) : Tells(events[i], ended', users')  BY <1>1, <1>4
  <2>2. CASE events' = events  BY <2>1, <2>2
  <2>3. CASE events' = <<>>  BY <2>3
  <2>4. CASE events # <<>> /\ events' = Tail(events)
    <3>1. \A i \in 1 .. Len(Tail(events)) :
             i + 1 \in 1 .. Len(events) /\ Tail(events)[i] = events[i + 1]
      BY <1>1, <2>4, EventDelivered
    <3> QED  BY <2>1, <2>4, <3>1
  <2>5. ASSUME NEW e \in Event, Tells(e, ended', users'), events' = Append(events, e)
        PROVE  \A i \in 1 .. Len(events') : Tells(events'[i], ended', users')
    <3>1. /\ Append(events, e)[Len(events) + 1] = e
          /\ \A i \in 1 .. Len(events) : Append(events, e)[i] = events[i]
          /\ \A i \in 1 .. Len(Append(events, e)) : i \in 1 .. Len(events) \/ i = Len(events) + 1
      BY <1>1, EventPublished
    <3> QED  BY <2>1, <2>5, <3>1
  <2> QED  BY <1>5, <2>2, <2>3, <2>4, <2>5
<1>6. CASE Deletes \/ Looks \/ AddOrUpdateRightRecord \/ Tick \/ SetClockBack
  <2>1. UNCHANGED <<users, inst>>
    BY <1>6, DeletesKeep, LooksKeep DEF AddOrUpdateRightRecord, Tick, SetClockBack, bundleVars
  <2>2. \/ events' = events \/ events' = <<>>
        \/ events # <<>> /\ events' = Tail(events)
    <3>1. CASE Deletes
      BY <3>1 DEF Deletes, RemoveRight, HasRightTidies, Restart, OnReceiveEvent,
         CleanUpDeletes, TidyUsers, CleanUpRightNormalExpired
    <3>2. CASE Looks  BY <3>2, LooksKeep
    <3>3. CASE AddOrUpdateRightRecord \/ Tick \/ SetClockBack
      BY <3>3 DEF AddOrUpdateRightRecord, Tick, SetClockBack
    <3> QED  BY <1>6, <3>1, <3>2, <3>3
  <2> QED  BY <1>1, <1>5, <2>1, <2>2
<1> DEFINE Kept == /\ \A u \in Users, a \in Apps : inst'[<<u, a>>] # 0 => u \in users'
                   /\ \A i \in 1 .. Len(events') : Tells(events'[i], ended', users')
<1>7. ASSUME NEW u \in Users, NEW a \in Apps, Install(u, a) PROVE Kept
  <2>1. /\ u \in users /\ inst' = [inst EXCEPT ![<<u, a>>] = installs + 1]
        /\ UNCHANGED <<users, events>>
    BY <1>7 DEF Install
  <2>2. \A v \in Users, b \in Apps : <<v, b>> # <<u, a>> => inst'[<<v, b>>] = inst[<<v, b>>]
    BY <1>1, <2>1
  <2>3. \A v \in Users, b \in Apps : inst'[<<v, b>>] # 0 => v \in users'
    BY <1>1, <2>1, <2>2
  <2> QED  BY <1>5, <2>1, <2>3
<1>8. ASSUME NEW u \in Users, NEW a \in Apps, Uninstall(u, a) PROVE Kept
  <2> DEFINE e == [kind |-> "removed", user |-> u, app |-> a]
  <2>1. /\ inst' = [inst EXCEPT ![<<u, a>>] = 0] /\ users' = users
        /\ ended' = ended \union {<<u, a>>}
        /\ events' = Append(events, e)
    BY <1>8 DEF Uninstall, Publish
  <2>2. e \in Event /\ Tells(e, ended', users')  BY <2>1 DEF Event, Tells
  <2>3. \A v \in Users, b \in Apps : inst'[<<v, b>>] # 0 => v \in users'
    BY <1>1, <2>1
  <2> QED  BY <1>5, <2>1, <2>2, <2>3
<1>9. ASSUME NEW u \in Users, StopUser(u) PROVE Kept
  <2> DEFINE e == [kind |-> "userStopped", user |-> u]
  <2>1. UNCHANGED <<inst, users>> /\ events' = Append(events, e)
    BY <1>9 DEF StopUser, Publish, bundleVars
  <2>2. e \in Event /\ Tells(e, ended', users')  BY DEF Event, Tells
  <2> QED  BY <1>1, <1>5, <2>1, <2>2
<1>10. ASSUME NEW u \in Users, RemoveUser(u) PROVE Kept
  <2> DEFINE e == [kind |-> "userRemoved", user |-> u]
  <2>1. /\ users' = users \ {u} /\ events' = Append(events, e)
        /\ inst' = [p \in Users \X Apps |-> IF p[1] = u THEN 0 ELSE inst[p]]
    BY <1>10 DEF RemoveUser, Publish
  <2>2. e \in Event /\ Tells(e, ended', users')  BY <2>1 DEF Event, Tells
  <2>3. \A v \in Users, b \in Apps : inst'[<<v, b>>] = IF v = u THEN 0 ELSE inst[<<v, b>>]
    BY <2>1
  <2>4. \A v \in Users, b \in Apps : inst'[<<v, b>>] # 0 => v \in users'
    BY <1>1, <2>1, <2>3
  <2> QED  BY <1>5, <2>1, <2>2, <2>4
<1> QED  BY <1>6, <1>7, <1>8, <1>9, <1>10, DbSteps DEF World

(* An application that is installed stays as it is until it is over.       *)
LEMMA InstalledUntilOver ==
  ASSUME DbTypeOK, BundleInv, DbNext, NEW u \in Users, NEW a \in Apps,
         Over(u, a) \/ inst[<<u, a>>] # 0
  PROVE  \/ Over(u, a)'
         \/ /\ inst[<<u, a>>] # 0 /\ inst'[<<u, a>>] = inst[<<u, a>>]
            /\ since'[<<u, a>>] = since[<<u, a>>]
<1>1. Over(u, a) => Over(u, a)'  BY OverStays DEF Over
<1>2. SUFFICES ASSUME inst[<<u, a>>] # 0
               PROVE  \/ Over(u, a)'
                      \/ /\ inst'[<<u, a>>] = inst[<<u, a>>]
                         /\ since'[<<u, a>>] = since[<<u, a>>]
  BY <1>1
<1>3. /\ inst \in [Users \X Apps -> Nat] /\ since \in [Users \X Apps -> Nat]
      /\ <<u, a>> \in Users \X Apps
  BY DEF DbTypeOK
<1>4. CASE Deletes \/ Looks \/ AddOrUpdateRightRecord \/ Tick \/ SetClockBack
  BY <1>4, DeletesKeep, LooksKeep DEF AddOrUpdateRightRecord, Tick, SetClockBack, bundleVars
<1> DEFINE Stays == \/ Over(u, a)'
                    \/ /\ inst'[<<u, a>>] = inst[<<u, a>>]
                       /\ since'[<<u, a>>] = since[<<u, a>>]
<1>5. ASSUME NEW v \in Users, NEW b \in Apps, Install(v, b) PROVE Stays
  <2>1. /\ inst[<<v, b>>] = 0 /\ inst' = [inst EXCEPT ![<<v, b>>] = installs + 1]
        /\ since' = [since EXCEPT ![<<v, b>>] = now]
    BY <1>5 DEF Install
  <2>2. <<v, b>> # <<u, a>>  BY <1>2, <2>1
  <2> QED  BY <1>3, <2>1, <2>2
<1>6. ASSUME NEW v \in Users, NEW b \in Apps, Uninstall(v, b) PROVE Stays
  <2>1. /\ inst' = [inst EXCEPT ![<<v, b>>] = 0] /\ since' = since
        /\ ended' = ended \union {<<v, b>>}
    BY <1>6 DEF Uninstall
  <2> QED  BY <1>3, <2>1 DEF Over
<1>7. ASSUME NEW v \in Users, StopUser(v) PROVE Stays
  BY <1>7 DEF StopUser, bundleVars
<1>8. ASSUME NEW v \in Users, RemoveUser(v) PROVE Stays
  <2>1. /\ users' = users \ {v} /\ since' = since
        /\ inst' = [p \in Users \X Apps |-> IF p[1] = v THEN 0 ELSE inst[p]]
    BY <1>8 DEF RemoveUser
  <2>2. inst'[<<u, a>>] = IF u = v THEN 0 ELSE inst[<<u, a>>]  BY <1>3, <2>1
  <2> QED  BY <2>1, <2>2 DEF Over
<1> QED  BY <1>4, <1>5, <1>6, <1>7, <1>8, DbSteps DEF World

(* What was settled stays settled.                                         *)
LEMMA SettledStays ==
  ASSUME DbTypeOK, BundleInv, DbNext, NEW r, r.user \in Users, r.app \in Apps, Settled(r)
  PROVE  Settled(r)'
<1>1. Over(r.user, r.app) \/ inst[<<r.user, r.app>>] # 0  BY DEF Settled, Pkg
<1>2. \/ Over(r.user, r.app)'
      \/ /\ inst[<<r.user, r.app>>] # 0
         /\ inst'[<<r.user, r.app>>] = inst[<<r.user, r.app>>]
         /\ since'[<<r.user, r.app>>] = since[<<r.user, r.app>>]
  BY <1>1, InstalledUntilOver
<1>3. Over(r.user, r.app) => Over(r.user, r.app)'  BY OverStays DEF Over
<1> QED  BY <1>2, <1>3 DEF Settled, Pkg

(* Who is looked up has records, and those are settled.                    *)
LEMMA QueriedAreSettled ==
  ASSUME DbTypeOK, \A r \in rows : Settled(r), NEW u \in Users, NEW as \in Queried(u),
         NEW a \in as
  PROVE  a \in Apps /\ (Over(u, a) \/ inst[<<u, a>>] # 0)
<1>1. as = RecordApps(u)  BY DEF Queried
<1>2. PICK r \in rows : r.user = u /\ r.app = a  BY <1>1 DEF RecordApps
<1>3. Settled(r) /\ r \in Row  BY DEF DbTypeOK
<1> QED  BY <1>2, <1>3 DEF Settled, Pkg, Row

(* Only what is over is doomed, and only what is settled is granted.       *)
LEMMA GrantNext ==
  ASSUME DbTypeOK, BundleInv, GrantInv, DbNext
  PROVE  GrantInv'
<1>1. scenario' = scenario  BY DbSteps
<1>2. SUFFICES ASSUME Faults = {} PROVE RowsSettled' /\ GrantSettled' /\ TidySettled'
  BY <1>1 DEF GrantInv, Faults
<1>3. RowsSettled /\ GrantSettled /\ TidySettled  BY <1>2 DEF GrantInv
<1>4. /\ rows \subseteq Row /\ inst \in [Users \X Apps -> Nat]
      /\ grant \in Grant \union {Idle} /\ tidy \in Tidy \union {Idle}
  BY DEF DbTypeOK
<1>5. \A r \in rows : r.for # 0 /\ Settled(r) /\ Settled(r)'
  BY <1>3, <1>4, SettledStays DEF Row, RowsSettled
<1>6. ASSUME grant' = grant PROVE GrantSettled'
  <2>1. CASE grant = Idle  BY <1>6, <2>1 DEF GrantSettled
  <2>2. CASE grant \in Grant
    <3>1. grant # Idle => grant.for # 0 /\ Settled(grant)  BY <1>3 DEF GrantSettled
    <3>2. ASSUME NEW r \in Grant, Settled(r) PROVE Settled(r)'
      BY <3>2, SettledStays DEF Grant
    <3>3. \A r \in Grant : grant = r /\ grant # Idle => r.for # 0 /\ Settled(r)'
      BY <3>1, <3>2
    <3> QED  BY <1>6, <2>2, <3>3 DEF GrantSettled, Settled, Pkg, Over
  <2> QED  BY <1>4, <2>1, <2>2
<1>7. ASSUME tidy' = tidy PROVE TidySettled'
  <2>1. ASSUME tidy # Idle PROVE TidySettled'
    <3>1. tidy.user \in Users /\ tidy.apps \subseteq Apps /\ tidy.doomed \subseteq Apps
      BY <1>4, <2>1 DEF Tidy
    <3>2. \A a \in tidy.apps : Over(tidy.user, a) \/ inst[<<tidy.user, a>>] # 0
      BY <1>3, <2>1 DEF TidySettled
    <3>3. \A a \in tidy.doomed : Over(tidy.user, a)  BY <1>3, <2>1 DEF TidySettled
    <3>4. ASSUME NEW u \in Users, NEW a \in Apps, Over(u, a) \/ inst[<<u, a>>] # 0
          PROVE  Over(u, a)' \/ inst'[<<u, a>>] # 0
      BY <3>4, InstalledUntilOver
    <3>5. ended \subseteq ended' /\ users' \subseteq users  BY OverStays
    <3>6. \A a \in tidy.apps : \/ <<tidy.user, a>> \in ended' \/ tidy.user \notin users'
                               \/ inst'[<<tidy.user, a>>] # 0
      BY <3>1, <3>2, <3>4 DEF Over
    <3>7. \A a \in tidy.doomed : <<tidy.user, a>> \in ended' \/ tidy.user \notin users'
      BY <3>3, <3>5 DEF Over
    <3> QED  BY <1>7, <3>6, <3>7 DEF TidySettled, Over
  <2> QED  BY <1>7, <2>1 DEF TidySettled
<1>8. CASE World
  <2>1. UNCHANGED <<rows, grant, tidy>>  BY <1>8, WorldKeeps
  <2> QED  BY <1>5, <1>6, <1>7, <2>1 DEF RowsSettled
<1>9. CASE Tick \/ SetClockBack
  <2>1. UNCHANGED <<rows, grant, tidy>>  BY <1>9 DEF Tick, SetClockBack
  <2> QED  BY <1>5, <1>6, <1>7, <2>1 DEF RowsSettled
<1>10. CASE AddOrUpdateRightRecord
  <2>1. grant \in Grant /\ NewRow \in Row  BY <1>10, NewRowType
  <2>2. /\ grant # Idle /\ grant' = Idle /\ tidy' = tidy
        /\ UNCHANGED <<users, inst, since, ended>>
    BY <1>10 DEF AddOrUpdateRightRecord, bundleVars
  <2>3. rows' \subseteq rows \union {NewRow}
    BY <1>10 DEF AddOrUpdateRightRecord, Commit
  <2>4. grant.for # 0 /\ Settled(grant)  BY <1>3, <2>2 DEF GrantSettled
  <2>5. /\ NewRow.for = grant.for /\ NewRow.user = grant.user /\ NewRow.app = grant.app
        /\ NewRow.install = grant.install
    BY DEF NewRow
  <2>6. NewRow.for # 0 /\ Settled(NewRow)  BY <2>4, <2>5 DEF Settled, Over, Pkg
  <2>7. ASSUME NEW r, Settled(r) PROVE Settled(r)'
    BY <2>2, <2>7 DEF Settled, Over, Pkg
  <2>8. \A r : r = NewRow => r.for # 0 /\ Settled(r)'  BY <2>6, <2>7
  <2>9. RowsSettled'  BY <1>5, <2>3, <2>8 DEF RowsSettled
  <2> QED  BY <1>7, <2>2, <2>9 DEF GrantSettled
<1>11. CASE Deletes
  <2>1. rows' \subseteq rows /\ UNCHANGED <<users, inst, since, ended>>  BY <1>11, DeletesKeep
  <2>2. RowsSettled'  BY <1>5, <2>1 DEF RowsSettled
  <2>3. grant' = grant \/ grant' = Idle
    BY <1>11 DEF Deletes, RemoveRight, HasRightTidies, Restart, OnReceiveEvent,
       CleanUpDeletes, TidyUsers, CleanUpRightNormalExpired
  <2>4. GrantSettled'  BY <1>6, <2>3 DEF GrantSettled
  <2>5. TidySettled'
    <3>1. CASE CleanUpDeletes
      <4>1. tidy # Idle /\ (tidy' = Idle \/ tidy' = [tidy EXCEPT !.doomed = {}])
        BY <3>1 DEF CleanUpDeletes
      <4>2. CASE tidy' = Idle  BY <4>2 DEF TidySettled
      <4>3. CASE tidy' = [tidy EXCEPT !.doomed = {}]
        <5>1. tidy'.user = tidy.user /\ tidy'.apps = tidy.apps /\ tidy'.doomed = {}
          BY <1>4, <4>1, <4>3 DEF Tidy
        <5> QED  BY <1>3, <2>1, <4>1, <5>1 DEF TidySettled, Over
      <4> QED  BY <4>1, <4>2, <4>3
    <3>2. CASE TidyUsers \/ CleanUpRightNormalExpired
      <4>1. tidy \in Tidy /\ tidy # Idle
        BY <1>4, <3>2 DEF TidyUsers, CleanUpRightNormalExpired, Idle
      <4>2. tidy'.user = tidy.user /\ tidy'.apps = tidy.apps /\ tidy'.doomed = tidy.doomed
        BY <3>2, <4>1 DEF TidyUsers, CleanUpRightNormalExpired, Tidy
      <4> QED  BY <1>3, <2>1, <4>1, <4>2 DEF TidySettled, Over
    <3>3. CASE tidy' = tidy  BY <1>7, <3>3
    <3>4. CASE tidy' = Idle  BY <3>4 DEF TidySettled
    <3> QED  BY <1>11, <3>1, <3>2, <3>3, <3>4
             DEF Deletes, RemoveRight, HasRightTidies, Restart, OnReceiveEvent
  <2> QED  BY <2>2, <2>4, <2>5
<1>12. CASE Looks
  <2>1. UNCHANGED <<users, inst, since, ended, rows>>  BY <1>12, LooksKeep
  <2>2. RowsSettled'  BY <1>5, <2>1 DEF RowsSettled
  <2>3. ASSUME NEW u \in Users, NEW a \in Apps, NEW d \in Devices,
               AddAccessRight(u, a, d) \/ AddRight(u, a, d)
        PROVE  GrantSettled' /\ TidySettled'
    <3>1. PICK t : inst[<<u, a>>] # 0 /\ AddDeviceRight(u, a, d, t)
      BY <1>2, <2>3 DEF AddAccessRight, AddRight
    <3>2. /\ grant' = [pc |-> "write", user |-> u, app |-> a, dev |-> d, tok |-> t,
                       install |-> since[<<u, a>>], request |-> now, for |-> inst[<<u, a>>]]
          /\ tidy' = tidy
      BY <1>2, <3>1 DEF AddDeviceRight
    <3>3. /\ grant'.user = u /\ grant'.app = a /\ grant'.for = inst[<<u, a>>]
          /\ grant'.install = since[<<u, a>>]
      BY <3>2
    <3> QED  BY <1>7, <2>1, <3>1, <3>2, <3>3 DEF GrantSettled, Settled, Over, Pkg
  <2>4. CASE ~\E u \in Users, a \in Apps, d \in Devices :
                AddAccessRight(u, a, d) \/ AddRight(u, a, d)
    <3>1. GrantSettled'
      BY <1>6, <1>12, <2>4 DEF Looks, TidyUpRight, CleanUpLooksUp,
         CleanUpRightAppReinstalled, ReinstalledLooksUp
    <3>2. \A u \in Users : \A as \in Queried(u) : \A a \in as : Over(u, a) \/ inst[<<u, a>>] # 0
      BY <1>5, QueriedAreSettled
    <3>3. ASSUME NEW u \in Users, TidyUpRight(u) PROVE TidySettled'
      <4>1. PICK as \in Queried(u) :
               tidy' = [pc |-> "uninstalled", user |-> u, apps |-> as, doomed |-> {}]
        BY <3>3 DEF TidyUpRight
      <4>2. tidy'.user = u /\ tidy'.apps = as /\ tidy'.doomed = {}  BY <4>1
      <4> QED  BY <2>1, <3>2, <4>2 DEF TidySettled, Over
    <3>4. CASE CleanUpLooksUp
      <4>1. tidy \in Tidy /\ tidy # Idle  BY <1>4, <3>4 DEF CleanUpLooksUp, Idle
      <4>2. PICK a \in tidy.apps :
               \/ tidy' = [tidy EXCEPT !.apps = @ \ {a}]
               \/ /\ inst[<<tidy.user, a>>] = 0
                  /\ tidy' = [tidy EXCEPT !.apps = @ \ {a}, !.doomed = {a}]
        BY <1>2, <3>4 DEF CleanUpLooksUp, IsAppInstalled
      <4>3. /\ tidy'.user = tidy.user /\ tidy'.apps \subseteq tidy.apps
            /\ \/ tidy'.doomed = tidy.doomed
               \/ inst[<<tidy.user, a>>] = 0 /\ tidy'.doomed = {a}
        BY <4>1, <4>2 DEF Tidy
      <4> QED  BY <2>2, <3>1, <1>3, <2>1, <4>1, <4>2, <4>3 DEF TidySettled, Over
    <3>5. CASE CleanUpRightAppReinstalled
      <4>1. tidy \in Tidy /\ tidy # Idle /\ tidy.user \in Users
        BY <1>4, <3>5 DEF CleanUpRightAppReinstalled, Idle, Tidy
      <4>2. PICK as \in Queried(tidy.user) :
               \/ tidy' = Idle
               \/ tidy' = [tidy EXCEPT !.pc = "reinstalled", !.apps = as]
        BY <3>5 DEF CleanUpRightAppReinstalled
      <4>3. \/ tidy' = Idle
            \/ tidy'.user = tidy.user /\ tidy'.apps = as /\ tidy'.doomed = tidy.doomed
        BY <4>1, <4>2 DEF Tidy
      <4> QED  BY <2>2, <3>1, <1>3, <2>1, <3>2, <4>1, <4>3 DEF TidySettled, Over
    <3>6. CASE ReinstalledLooksUp
      <4>1. tidy \in Tidy /\ tidy # Idle /\ tidy.user \in Users
        BY <1>4, <3>6 DEF ReinstalledLooksUp, Idle, Tidy
      <4>2. PICK a \in tidy.apps :
               \/ tidy' = Idle
               \/ tidy' = [tidy EXCEPT !.apps = tidy.apps \ {a}, !.doomed = @ \union
                             (IF Reinstalled(tidy.user, a) THEN {a} ELSE {})]
        BY <3>6 DEF ReinstalledLooksUp
      <4>3. Reinstalled(tidy.user, a) => Over(tidy.user, a)
        BY <1>5 DEF Reinstalled, Settled, Pkg
      <4>4. \/ tidy' = Idle
            \/ /\ tidy'.user = tidy.user /\ tidy'.apps = tidy.apps \ {a}
               /\ tidy'.doomed = tidy.doomed \union
                                   (IF Reinstalled(tidy.user, a) THEN {a} ELSE {})
        BY <4>1, <4>2 DEF Tidy
      <4> QED  BY <2>2, <3>1, <1>3, <2>1, <4>1, <4>3, <4>4 DEF TidySettled, Over
    <3> QED  BY <1>12, <2>2, <2>4, <3>1, <3>3, <3>4, <3>5, <3>6 DEF Looks
  <2> QED  BY <2>2, <2>3, <2>4
<1> QED  BY <1>8, <1>9, <1>10, <1>11, <1>12, DbSteps

(* An event that says that the installation of a record is over.           *)
Ends(e, r) ==
  e.user = r.user /\ ((e.kind = "removed" /\ e.app = r.app) \/ e.kind = "userRemoved")

(* A pending removal is forgotten only when its own event is delivered.    *)
LEMMA PendingStays ==
  ASSUME DbTypeOK, NEW r, RemovalPending(r),
         \/ events' = events
         \/ \E e \in Event : events' = Append(events, e)
         \/ events # <<>> /\ events' = Tail(events) /\ ~Ends(Head(events), r)
  PROVE  RemovalPending(r)'
<1>1. events \in Seq(Event)  BY DEF DbTypeOK
<1>2. PICK i \in 1 .. Len(events) : Ends(events[i], r)  BY DEF RemovalPending, Ends
<1>3. SUFFICES \E j \in 1 .. Len(events') : Ends(events'[j], r)
  BY DEF RemovalPending, Ends
<1>4. CASE events' = events  BY <1>2, <1>4
<1>5. ASSUME NEW e \in Event, events' = Append(events, e)
      PROVE  \E j \in 1 .. Len(events') : Ends(events'[j], r)
  <2>1. i \in 1 .. Len(Append(events, e)) /\ Append(events, e)[i] = events[i]
    BY <1>1, EventPublished
  <2> QED  BY <1>2, <1>5, <2>1
<1>6. CASE events # <<>> /\ events' = Tail(events) /\ ~Ends(Head(events), r)
  <2>1. /\ Head(events) = events[1]
        /\ i = 1 \/ (i - 1 \in 1 .. Len(Tail(events)) /\ Tail(events)[i - 1] = events[i])
    BY <1>1, <1>6, EventDelivered
  <2>2. i # 1  BY <1>2, <1>6, <2>1
  <2> QED  BY <1>2, <1>6, <2>1, <2>2
<1> QED  BY <1>4, <1>5, <1>6

(* A removal is pending from the moment it is published.                   *)
LEMMA PendingFromNow ==
  ASSUME DbTypeOK, NEW r, NEW e \in Event, Ends(e, r), events' = Append(events, e)
  PROVE  RemovalPending(r)'
<1>1. events \in Seq(Event)  BY DEF DbTypeOK
<1>2. /\ Len(events) + 1 \in 1 .. Len(Append(events, e))
      /\ Append(events, e)[Len(events) + 1] = e
  BY <1>1, EventPublished
<1>3. \E j \in 1 .. Len(events') : Ends(events'[j], r)  BY <1>2
<1> QED  BY <1>3 DEF RemovalPending, Ends

(* No step leaves a record behind without a removal that is pending.       *)
LEMMA EndsNext ==
  ASSUME DbTypeOK, BundleInv, GrantInv, EndsWithInstallation, DbNext
  PROVE  EndsWithInstallation'
<1>1. scenario' = scenario  BY DbSteps
<1>2. SUFFICES ASSUME Faults = {}, NEW r \in rows', r.for # inst'[Pkg(r)], ~r.late
               PROVE  RemovalPending(r)'
  BY <1>1 DEF EndsWithInstallation, Faults, Pkg
<1>3. RowsSettled /\ \A s \in rows : s.for # inst[Pkg(s)] => s.late \/ RemovalPending(s)
  BY <1>2 DEF GrantInv, EndsWithInstallation
<1>4. /\ rows \subseteq Row /\ inst \in [Users \X Apps -> Nat] /\ events \in Seq(Event)
  BY DEF DbTypeOK
<1>5. ASSUME NEW s \in rows PROVE s.user \in Users /\ s.app \in Apps /\ Pkg(s) = <<s.user, s.app>>
  BY <1>4 DEF Row, Pkg
<1>6. CASE Looks \/ Tick \/ SetClockBack
  <2>1. UNCHANGED <<inst, rows, events>>
    BY <1>6, LooksKeep DEF Tick, SetClockBack, bundleVars
  <2> QED  BY <1>2, <1>3, <2>1, PendingStays
<1>7. CASE AddOrUpdateRightRecord
  <2>1. rows' \subseteq rows \union {NewRow} /\ UNCHANGED <<inst, events>>
    BY <1>7 DEF AddOrUpdateRightRecord, Commit, bundleVars
  <2>2. NewRow.late = (NewRow.for # inst[Pkg(NewRow)])
    BY DEF NewRow, Pkg
  <2>3. r # NewRow  BY <1>2, <2>1, <2>2
  <2>4. r \in rows  BY <1>2, <2>1, <2>3
  <2> QED  BY <1>2, <1>3, <2>1, <2>4, PendingStays
<1>8. CASE Deletes
  <2>1. rows' \subseteq rows /\ UNCHANGED <<users, inst>>  BY <1>8, DeletesKeep
  <2>2. RemovalPending(r) /\ r \in rows  BY <1>2, <1>3, <2>1
  <2>3. CASE OnReceiveEvent
    <3> DEFINE e == Head(events)
    <3>1. events # <<>> /\ events' = Tail(events)  BY <2>3 DEF OnReceiveEvent
    <3>2. e \in Event /\ e = events[1] /\ 1 \in 1 .. Len(events)
      BY <1>4, <3>1, EventDelivered
    <3>3. e.kind = "userRemoved" => e.user \notin users
      BY <3>2 DEF BundleInv
    <3>4. \/ e.kind = "removed" /\ rows' = {s \in rows : ~(s.user = e.user /\ s.app \in {e.app})}
          \/ e.kind = "userRemoved" /\ rows' = {s \in rows : s.user \notin Users \ users}
          \/ e.kind = "userStopped"
      BY <1>2, <2>3 DEF OnReceiveEvent, DeleteAppsRightRecord, CleanUpRightUserDeleted,
         DeleteUidRightRecord, Commit
    <3>5. ~Ends(e, r)  BY <1>2, <1>5, <2>2, <3>3, <3>4 DEF Ends
    <3> QED  BY <2>2, <3>1, <3>5, PendingStays
  <2>4. CASE ~OnReceiveEvent
    <3>1. events' = events
      BY <1>2, <1>8, <2>4 DEF Deletes, RemoveRight, HasRightTidies, Restart,
         CleanUpDeletes, TidyUsers, CleanUpRightNormalExpired
    <3> QED  BY <2>2, <3>1, PendingStays
  <2> QED  BY <2>3, <2>4
<1>9. CASE World
  <2>1. r \in rows /\ r.for # 0  BY <1>2, <1>3, <1>9, WorldKeeps DEF RowsSettled
  <2>2. /\ r.user \in Users /\ r.app \in Apps /\ Pkg(r) = <<r.user, r.app>>
        /\ Pkg(r) \in Users \X Apps
    BY <1>5, <2>1
  <2>3. ASSUME NEW u \in Users, NEW a \in Apps, Install(u, a) PROVE RemovalPending(r)'
    <3>1. /\ inst[<<u, a>>] = 0 /\ inst' = [inst EXCEPT ![<<u, a>>] = installs + 1]
          /\ events' = events
      BY <2>3 DEF Install
    <3>2. r.for # inst[Pkg(r)]  BY <1>2, <1>4, <2>1, <2>2, <3>1
    <3> QED  BY <1>2, <1>3, <2>1, <3>1, <3>2, PendingStays
  <2>4. ASSUME NEW u \in Users, NEW a \in Apps, Uninstall(u, a) PROVE RemovalPending(r)'
    <3> DEFINE e == [kind |-> "removed", user |-> u, app |-> a]
    <3>1. inst' = [inst EXCEPT ![<<u, a>>] = 0] /\ events' = Append(events, e) /\ e \in Event
      BY <2>4 DEF Uninstall, Publish, Event
    <3>2. CASE Pkg(r) = <<u, a>>
      <4>1. Ends(e, r)  BY <2>2, <3>2 DEF Ends
      <4> QED  BY <3>1, <4>1, PendingFromNow
    <3>3. CASE Pkg(r) # <<u, a>>
      <4>1. r.for # inst[Pkg(r)]  BY <1>2, <1>4, <2>2, <3>1, <3>3
      <4>2. RemovalPending(r)  BY <1>2, <1>3, <2>1, <4>1
      <4> QED  BY <3>1, <4>2, PendingStays
    <3> QED  BY <3>2, <3>3
  <2>5. ASSUME NEW u \in Users, StopUser(u) PROVE RemovalPending(r)'
    <3> DEFINE e == [kind |-> "userStopped", user |-> u]
    <3>1. inst' = inst /\ events' = Append(events, e) /\ e \in Event
      BY <2>5 DEF StopUser, Publish, Event, bundleVars
    <3>2. RemovalPending(r)  BY <1>2, <1>3, <2>1, <3>1
    <3> QED  BY <3>1, <3>2, PendingStays
  <2>6. ASSUME NEW u \in Users, RemoveUser(u) PROVE RemovalPending(r)'
    <3> DEFINE e == [kind |-> "userRemoved", user |-> u]
    <3>1. /\ inst' = [p \in Users \X Apps |-> IF p[1] = u THEN 0 ELSE inst[p]]
          /\ events' = Append(events, e) /\ e \in Event
      BY <2>6 DEF RemoveUser, Publish, Event
    <3>2. CASE r.user = u
      <4>1. Ends(e, r)  BY <3>2 DEF Ends
      <4> QED  BY <3>1, <4>1, PendingFromNow
    <3>3. CASE r.user # u
      <4>1. inst'[Pkg(r)] = inst[Pkg(r)]  BY <2>2, <3>1, <3>3
      <4>2. RemovalPending(r)  BY <1>2, <1>3, <2>1, <4>1
      <4> QED  BY <3>1, <4>2, PendingStays
    <3> QED  BY <3>2, <3>3
  <2> QED  BY <1>9, <2>3, <2>4, <2>5, <2>6 DEF World
<1> QED  BY <1>6, <1>7, <1>8, <1>9, DbSteps

(* The clean-up's clause and IsRecordExpired agree, but for one instant.   *)
LEMMA ExpiryAgrees ==
  ASSUME DbTypeOK, NEW r \in rows
  PROVE  /\ NormalExpired(r) => IsRecordExpired(r)
         /\ now >= r.request /\ IsRecordExpired(r) =>
               NormalExpired(r) \/ now = r.request + Period
<1>1. now \in Nat /\ r.request \in Nat /\ Period \in Nat \ {0}
  BY RightDbAssumption DEF DbTypeOK, Row
<1> QED  BY <1>1 DEF NormalExpired, IsRecordExpired

(* An empty database satisfies the invariant.                              *)
LEMMA DbInvInit ==
  ASSUME DbInit
  PROVE  DbInv
<1>1. DbTypeOK
  <2>1. <<>> \in Seq(Event)
    OBVIOUS
  <2> QED  BY <2>1 DEF DbInit, DbTypeOK
<1>2. BundleInv  BY DEF DbInit, BundleInv
<1>3. GrantInv  BY DEF DbInit, GrantInv, RowsSettled, GrantSettled, TidySettled
<1>4. EndsWithInstallation  BY DEF DbInit, EndsWithInstallation
<1> QED  BY <1>1, <1>2, <1>3, <1>4 DEF DbInv

(* Every step stays in it.                                                 *)
LEMMA DbInvNext ==
  ASSUME DbInv, [DbNext]_dbVars
  PROVE  DbInv'
<1>1. CASE DbNext
  BY <1>1, DbTypeNext, BundleNext, GrantNext, EndsNext DEF DbInv
<1>2. CASE UNCHANGED dbVars
  <2> USE <1>2 DEF dbVars, bundleVars
  <2>1. DbTypeOK'  BY DEF DbInv, DbTypeOK
  <2>2. BundleInv'  BY DEF DbInv, BundleInv
  <2>3. Faults' = Faults  BY DEF Faults
  <2>4. GrantInv'
    BY <2>3 DEF DbInv, GrantInv, RowsSettled, GrantSettled, TidySettled, Settled, Over, Pkg
  <2>5. EndsWithInstallation'
    BY <2>3 DEF DbInv, EndsWithInstallation, RemovalPending, Pkg
  <2> QED  BY <2>1, <2>2, <2>4, <2>5 DEF DbInv
<1> QED  BY <1>1, <1>2

(* The strengthened invariant of the records holds for any accounts,       *)
(* applications, devices, validity period and faults.                      *)
THEOREM RightDbInvariant == DbSpec => []DbInv
<1>1. DbInit => DbInv  BY DbInvInit
<1>2. DbInv /\ [DbNext]_dbVars => DbInv'  BY DbInvNext
<1> QED  BY <1>1, <1>2, PTL DEF DbSpec

(* DeleteNormalExpiredRightRecord never takes a record that                *)
(* IsRecordExpired still calls valid, and leaves an expired one only at    *)
(* the very instant of its expiry; whatever the period and the clock.      *)
THEOREM ValidRecordsSpared == DbSpec => []CleanUpSparesValid
<1>1. DbInv => CleanUpSparesValid  BY ExpiryAgrees DEF DbInv, CleanUpSparesValid
<1> QED  BY <1>1, RightDbInvariant, PTL

(* When nothing fails, no record outlives the installation it was granted  *)
(* to, unless the removal event is on its way or the grant itself was too  *)
(* slow.                                                                   *)
THEOREM RightsEndWithInstallation == DbSpec => []EndsWithInstallation
<1>1. DbInv => EndsWithInstallation  BY DEF DbInv
<1> QED  BY <1>1, RightDbInvariant, PTL

(* When nothing fails, a step that takes a valid record of an application  *)
(* that was never uninstalled is RemoveRight or the end of the session.    *)
LEMMA LoyalStep ==
  ASSUME DbInv, DbNext, Faults = {}, NEW r \in rows,
         ~IsRecordExpired(r), Pkg(r) \notin ended, inst[Pkg(r)] # 0,
         ~\E s \in rows' : SameKey(s, r)
  PROVE  Taken(r)
<1>1. DbTypeOK /\ BundleInv /\ TidySettled  BY DEF DbInv, GrantInv
<1>2. r \in Row /\ r.user \in Users /\ r.app \in Apps /\ Pkg(r) = <<r.user, r.app>>
  BY <1>1 DEF DbTypeOK, Row, Pkg
<1>3. r.user \in users  BY <1>1, <1>2 DEF BundleInv
<1>4. ~Over(r.user, r.app)  BY <1>2, <1>3 DEF Over
<1>5. r \notin rows'  BY DEF SameKey
<1>6. ~NormalExpired(r)  BY <1>1, ExpiryAgrees
<1>7. CASE Looks \/ World \/ Tick \/ SetClockBack
  BY <1>5, <1>7, LooksKeep, WorldKeeps DEF Tick, SetClockBack
<1>8. CASE AddOrUpdateRightRecord
  <2>1. rows' = {s \in rows : ~SameKey(s, grant)} \union {NewRow}
    BY <1>8 DEF AddOrUpdateRightRecord, Commit
  <2>2. SameKey(r, grant)  BY <1>5, <2>1
  <2>3. SameKey(NewRow, r)  BY <2>2 DEF SameKey, NewRow
  <2> QED  BY <2>1, <2>3
<1>9. ASSUME NEW u \in Users, NEW a \in Apps, NEW d \in Devices, RemoveRight(u, a, d)
      PROVE  Taken(r)
  <2>1. r.user = u /\ r.app = a /\ r.dev = d
    BY <1>5, <1>9 DEF RemoveRight, Commit
  <2>2. RemoveRight(r.user, r.app, r.dev)  BY <1>9, <2>1, Zenon
  <2> QED  BY <2>2, Zenon DEF Taken
<1>10. ASSUME NEW u \in Users, HasRightTidies(u) \/ Restart(u) PROVE FALSE
  BY <1>5, <1>6, <1>10
     DEF HasRightTidies, Restart, DeleteNormalExpiredRightRecord, Commit
<1>11. CASE CleanUpRightNormalExpired
  BY <1>5, <1>6, <1>11
     DEF CleanUpRightNormalExpired, DeleteNormalExpiredRightRecord, Commit
<1>12. CASE TidyUsers
  BY <1>3, <1>5, <1>12 DEF TidyUsers, CleanUpRightUserDeleted, DeleteUidRightRecord, Commit
<1>13. CASE CleanUpDeletes
  <2>1. tidy # Idle /\ rows' = {s \in rows : ~(s.user = tidy.user /\ s.app \in tidy.doomed)}
    BY <1>13 DEF CleanUpDeletes, DeleteAppsRightRecord, Commit
  <2>2. r.user = tidy.user /\ r.app \in tidy.doomed  BY <1>5, <2>1
  <2> QED  BY <1>1, <1>4, <2>1, <2>2 DEF TidySettled
<1>14. CASE OnReceiveEvent
  <2> DEFINE e == Head(events)
  <2>1. events # <<>> /\ events' = Tail(events)  BY <1>14 DEF OnReceiveEvent
  <2>2. e = events[1] /\ 1 \in 1 .. Len(events)
    BY <1>1, <2>1, EventDelivered DEF DbTypeOK
  <2>3. e.kind = "removed" => <<e.user, e.app>> \in ended
    BY <1>1, <2>2 DEF BundleInv
  <2>4. \/ e.kind = "removed" /\ rows' = {s \in rows : ~(s.user = e.user /\ s.app \in {e.app})}
        \/ e.kind = "userRemoved" /\ rows' = {s \in rows : s.user \notin Users \ users}
        \/ e.kind = "userStopped" /\ rows' = {s \in rows : s.user \notin {e.user}}
    BY <1>14 DEF OnReceiveEvent, DeleteAppsRightRecord, CleanUpRightUserDeleted,
       DeleteUidRightRecord, Commit
  <2>5. e.kind = "userStopped" /\ e.user = r.user  BY <1>2, <1>3, <1>5, <2>3, <2>4
  <2> QED  BY <2>1, <2>5, Zenon DEF Taken
<1> QED  BY <1>1, <1>7, <1>8, <1>9, <1>10, <1>11, <1>12, <1>13, <1>14, DbSteps DEF Deletes

(* TidyUpRight, which decides with an earlier query and an earlier lookup, *)
(* and the event thread never take the valid right of an application that  *)
(* was never uninstalled: only RemoveRight and the end of the session do.  *)
THEOREM LoyalKeepsItsRight == DbSpec => LoyalKeepsRight
<1>1. DbInv /\ [DbNext]_dbVars =>
        [Faults = {} => \A r \in rows :
           /\ ~IsRecordExpired(r)
           /\ Pkg(r) \notin ended /\ inst[Pkg(r)] # 0
           /\ ~\E s \in rows' : SameKey(s, r)
           => Taken(r)]_dbVars
  BY LoyalStep
<1> QED  BY <1>1, RightDbInvariant, PTL DEF DbSpec, LoyalKeepsRight
=============================================================================
