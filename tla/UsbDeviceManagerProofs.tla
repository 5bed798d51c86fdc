----------------------- MODULE UsbDeviceManagerProofs -----------------------
(***************************************************************************)
(* Proofs about UsbDeviceManager for any set of gadget functions and any   *)
(* choices of clients and of the accessory manager.                        *)
(***************************************************************************)
EXTENDS UsbDeviceManager, TLAPS

DeviceInv == TypeOK /\ PendingIsLast /\ Settled /\ DebounceInv /\ TurnInv

(* The service starts unplugged, with nothing registered and nothing told. *)
LEMMA DeviceInvInit == Init => DeviceInv
<1> SUFFICES ASSUME Init PROVE DeviceInv
  OBVIOUS
<1>1. TypeOK
  BY DeviceAssumption DEF Init, TypeOK, Status, Accessory, Idle
<1>2. PendingIsLast /\ Settled /\ DebounceInv
  BY DEF Init, PendingIsLast, Settled, DebounceInv
<1>3. TurnInv
  BY DEF Init, TurnInv, Reporting, Told, SetIdle, UserIdle, Idle
<1> QED
  BY <1>1, <1>2, <1>3 DEF DeviceInv

(* Every step of the four threads and of the accessory manager keeps it.   *)
LEMMA DeviceInvStep == DeviceInv /\ [Next]_vars => DeviceInv'
<1> SUFFICES ASSUME DeviceInv, [Next]_vars
             PROVE  DeviceInv'
  OBVIOUS
<1> USE DeviceAssumption DEF DeviceInv, deviceVars, reportVars, threadVars,
        historyVars
<1>1. ASSUME NEW s \in Status, ProcessStatus(s)
      PROVE  DeviceInv'
  <2>1. TypeOK'
    <3>1. gadgetConnected' \in BOOLEAN
      BY <1>1 DEF ProcessStatus, TypeOK
    <3>2. disableDialog' \in BOOLEAN
      BY <1>1 DEF ProcessStatus, TypeOK
    <3>3. window' \in BOOLEAN
      BY <1>1 DEF ProcessStatus, TypeOK
    <3>4. event' \in Status /\ lastEvent' \in Status /\ timer' = "none"
      BY <1>1 DEF ProcessStatus, TypeOK
    <3>5. UNCHANGED <<connected, functions, hdcNotifier, sticky, task, set,
                      user, hdi, overlapped, mixed>>
      BY <1>1 DEF ProcessStatus
    <3> QED
      BY <3>1, <3>2, <3>3, <3>4, <3>5 DEF TypeOK
  <2>2. PendingIsLast'
    BY <1>1 DEF ProcessStatus, PendingIsLast
  <2>3. Settled'
    BY <1>1 DEF ProcessStatus, Settled, TypeOK, TaskIdle, Expired, Status,
       Accessory, Idle, Transfer
  <2>4. DebounceInv'
    BY <1>1 DEF ProcessStatus, DebounceInv, Expired, TaskIdle, Status,
       Accessory
  <2>5. TurnInv'
    BY <1>1 DEF ProcessStatus, TurnInv, Reporting, SetIdle, UserIdle,
       TaskIdle, Told, Idle
  <2> QED
    BY <2>1, <2>2, <2>3, <2>4, <2>5
<1>2. CASE HandleEvent
  <2>1. TypeOK'
    <3>1. timer' \in {"none", "connect", "disconnect"}
      BY <1>2 DEF HandleEvent, TypeOK
    <3>2. overlapped' \in BOOLEAN
      BY <1>2 DEF HandleEvent, TypeOK, Expired
    <3>3. event' = "none"
      BY <1>2 DEF HandleEvent, TypeOK
    <3>4. UNCHANGED <<gadgetConnected, connected, disableDialog, functions,
                      hdcNotifier, window, sticky, task, set, user, hdi,
                      lastEvent, mixed>>
      BY <1>2 DEF HandleEvent
    <3> QED
      BY <3>1, <3>2, <3>3, <3>4 DEF TypeOK
  <2>2. PendingIsLast'
    BY <1>2 DEF HandleEvent, PendingIsLast, TypeOK, DebounceInv, Status,
       Accessory, Idle, Transfer, Expired, TaskIdle
  <2>3. Settled'
    BY <1>2 DEF HandleEvent, Settled, TypeOK, DebounceInv, TaskIdle, Expired,
       Status, Accessory, Idle, Transfer
  <2>4. DebounceInv'
    BY <1>2 DEF HandleEvent, DebounceInv, Expired, TaskIdle, Status,
       Accessory
  <2>5. TurnInv'
    BY <1>2 DEF HandleEvent, TurnInv, Reporting, SetIdle, UserIdle, TaskIdle,
       Told, Idle
  <2> QED
    BY <2>1, <2>2, <2>3, <2>4, <2>5
<1>3. CASE TimerExpires
  <2>1. TypeOK'
    <3>1. task' \in {"idle", "connect", "disconnect", "get", "set", "report"}
      BY <1>3 DEF TimerExpires, TypeOK
    <3>2. timer' \in {"none", "connect", "disconnect"} /\ overlapped' \in BOOLEAN
      BY <1>3 DEF TimerExpires, TypeOK
    <3>3. UNCHANGED <<gadgetConnected, connected, disableDialog, functions,
                      hdcNotifier, window, sticky, event, set, user, hdi,
                      lastEvent, mixed>>
      BY <1>3 DEF TimerExpires
    <3> QED
      BY <3>1, <3>2, <3>3 DEF TypeOK
  <2>2. PendingIsLast'
    BY <1>3 DEF TimerExpires, PendingIsLast
  <2>3. Settled'
    BY <1>3 DEF TimerExpires, Settled, TypeOK, TaskIdle, Expired, Status,
       Accessory, Idle, Transfer
  <2>4. DebounceInv'
    BY <1>3 DEF TimerExpires, DebounceInv, TypeOK, PendingIsLast, Expired,
       TaskIdle, Status, Accessory, Idle, Transfer
  <2>5. TurnInv'
    BY <1>3 DEF TimerExpires, TurnInv, TypeOK, Reporting, SetIdle, UserIdle,
       TaskIdle, Told, Idle, Status, Accessory, Transfer
  <2> QED
    BY <2>1, <2>2, <2>3, <2>4, <2>5
<1>4. CASE ConnectTask
  <2>1. TypeOK'
    BY <1>4 DEF ConnectTask, TypeOK, Status, Accessory, Idle, Transfer
  <2>2. PendingIsLast'
    BY <1>4 DEF ConnectTask, PendingIsLast
  <2>3. Settled'
    BY <1>4 DEF ConnectTask, Settled, TypeOK, DebounceInv, TaskIdle, Expired,
       Status, Accessory, Idle, Transfer
  <2>4. DebounceInv'
    BY <1>4 DEF ConnectTask, DebounceInv, Expired, TaskIdle, Status,
       Accessory
  <2>5. TurnInv'
    BY <1>4 DEF ConnectTask, TurnInv, Reporting, SetIdle, UserIdle, TaskIdle,
       Told, Idle
  <2> QED
    BY <2>1, <2>2, <2>3, <2>4, <2>5
<1>5. CASE DisconnectTask
  <2>1. TypeOK'
    <3>1. functions' \subseteq Functions
      BY <1>5 DEF DisconnectTask, StripTransfer, TypeOK
    <3>2. task' \in {"idle", "connect", "disconnect", "get", "set", "report"}
      BY <1>5 DEF DisconnectTask, StripTransfer, TypeOK
    <3>3. mixed' \in BOOLEAN
      BY <1>5 DEF DisconnectTask, StripTransfer, TypeOK
    <3>4. connected' \in BOOLEAN /\ disableDialog' \in BOOLEAN
      BY <1>5 DEF DisconnectTask, StripTransfer, TypeOK
    <3>5. UNCHANGED <<gadgetConnected, hdcNotifier, window, sticky, timer,
                      event, set, user, hdi, lastEvent, overlapped>>
      BY <1>5 DEF DisconnectTask, StripTransfer
    <3> QED
      BY <3>1, <3>2, <3>3, <3>4, <3>5 DEF TypeOK
  <2>2. PendingIsLast'
    BY <1>5 DEF DisconnectTask, StripTransfer, PendingIsLast
  <2>3. Settled'
    BY <1>5 DEF DisconnectTask, StripTransfer, Settled, TypeOK, DebounceInv,
       TaskIdle, Expired, Status, Accessory, Idle, Transfer
  <2>4. DebounceInv'
    BY <1>5 DEF DisconnectTask, StripTransfer, DebounceInv, Expired,
       TaskIdle, Status, Accessory
  <2>5. TurnInv'
    BY <1>5 DEF DisconnectTask, StripTransfer, TurnInv, Reporting, SetIdle,
       UserIdle, TaskIdle, Told, Idle
  <2> QED
    BY <2>1, <2>2, <2>3, <2>4, <2>5
<1>6. CASE TaskGetFunctions
  <2>1. TypeOK'
    <3>1. functions' \subseteq Functions
      BY <1>6 DEF TaskGetFunctions, TypeOK
    <3>2. mixed' \in BOOLEAN
      BY <1>6 DEF TaskGetFunctions, TypeOK
    <3>3. task' = "report"
      BY <1>6 DEF TaskGetFunctions, TypeOK
    <3>4. UNCHANGED <<gadgetConnected, connected, disableDialog, hdcNotifier,
                      window, sticky, timer, event, set, user, hdi,
                      lastEvent, overlapped>>
      BY <1>6 DEF TaskGetFunctions
    <3> QED
      BY <3>1, <3>2, <3>3, <3>4 DEF TypeOK
  <2>2. PendingIsLast'
    BY <1>6 DEF TaskGetFunctions, PendingIsLast
  <2>3. Settled'
    BY <1>6 DEF TaskGetFunctions, Settled, TaskIdle, Expired
  <2>4. DebounceInv'
    BY <1>6 DEF TaskGetFunctions, DebounceInv, Expired, TaskIdle, Status,
       Accessory
  <2>5. TurnInv'
    BY <1>6 DEF TaskGetFunctions, TurnInv, Reporting, SetIdle, UserIdle,
       TaskIdle, Told, Idle
  <2> QED
    BY <2>1, <2>2, <2>3, <2>4, <2>5
<1>7. CASE TaskSetFunctions
  <2>1. TypeOK'
    <3>1. hdi' \subseteq Functions
      BY <1>7 DEF TaskSetFunctions, TypeOK
    <3>2. mixed' \in BOOLEAN
      BY <1>7 DEF TaskSetFunctions, TypeOK
    <3>3. task' = "report"
      BY <1>7 DEF TaskSetFunctions, TypeOK
    <3>4. UNCHANGED <<gadgetConnected, connected, disableDialog, functions,
                      hdcNotifier, window, sticky, timer, event, set, user,
                      lastEvent, overlapped>>
      BY <1>7 DEF TaskSetFunctions
    <3> QED
      BY <3>1, <3>2, <3>3, <3>4 DEF TypeOK
  <2>2. PendingIsLast'
    BY <1>7 DEF TaskSetFunctions, PendingIsLast
  <2>3. Settled'
    BY <1>7 DEF TaskSetFunctions, Settled, TaskIdle, Expired
  <2>4. DebounceInv'
    BY <1>7 DEF TaskSetFunctions, DebounceInv, Expired, TaskIdle, Status,
       Accessory
  <2>5. TurnInv'
    BY <1>7 DEF TaskSetFunctions, TurnInv, Reporting, SetIdle, UserIdle,
       TaskIdle, Told, Idle
  <2> QED
    BY <2>1, <2>2, <2>3, <2>4, <2>5
<1>8. CASE TaskReport
  <2>1. TypeOK'
    BY <1>8 DEF TaskReport, ProcessFuncChange, BroadcastFuncChange,
       ProcessFunctionNotifier, TypeOK, Status, Accessory, Idle, Transfer
  <2>2. PendingIsLast'
    BY <1>8 DEF TaskReport, ProcessFuncChange, BroadcastFuncChange,
       ProcessFunctionNotifier, PendingIsLast
  <2>3. Settled'
    BY <1>8 DEF TaskReport, ProcessFuncChange, BroadcastFuncChange,
       ProcessFunctionNotifier, Settled, TaskIdle, Expired
  <2>4. DebounceInv'
    BY <1>8 DEF TaskReport, ProcessFuncChange, BroadcastFuncChange,
       ProcessFunctionNotifier, DebounceInv, Expired, TaskIdle, Status,
       Accessory
  <2>5. TurnInv'
    BY <1>8 DEF TaskReport, ProcessFuncChange, BroadcastFuncChange,
       ProcessFunctionNotifier, TurnInv, Reporting, SetIdle, UserIdle,
       TaskIdle, Told, Idle
  <2> QED
    BY <2>1, <2>2, <2>3, <2>4, <2>5
<1>9. ASSUME NEW f \in Choices, SetCurrentFunctions(f)
      PROVE  DeviceInv'
  <2>1. TypeOK'
    BY <1>9 DEF SetCurrentFunctions, At, TypeOK, Status, Accessory, Idle,
       Transfer
  <2>2. PendingIsLast'
    BY <1>9 DEF SetCurrentFunctions, At, PendingIsLast
  <2>3. Settled'
    BY <1>9 DEF SetCurrentFunctions, At, Settled, TaskIdle, Expired
  <2>4. DebounceInv'
    BY <1>9 DEF SetCurrentFunctions, At, DebounceInv, Expired, TaskIdle,
       Status, Accessory
  <2>5. TurnInv'
    BY <1>9 DEF SetCurrentFunctions, At, TurnInv, Reporting, SetIdle,
       UserIdle, TaskIdle, Told, Idle
  <2> QED
    BY <2>1, <2>2, <2>3, <2>4, <2>5
<1>10. ASSUME NEW f \in Choices, AccessorySetFunctions(f)
      PROVE  DeviceInv'
  <2>1. TypeOK'
    BY <1>10 DEF AccessorySetFunctions, TypeOK, Status, Accessory, Idle,
       Transfer
  <2>2. PendingIsLast'
    BY <1>10 DEF AccessorySetFunctions, PendingIsLast
  <2>3. Settled'
    BY <1>10 DEF AccessorySetFunctions, Settled, TaskIdle, Expired
  <2>4. DebounceInv'
    BY <1>10 DEF AccessorySetFunctions, DebounceInv, Expired, TaskIdle,
       Status, Accessory
  <2>5. TurnInv'
    BY <1>10 DEF AccessorySetFunctions, TurnInv, Reporting, SetIdle,
       UserIdle, TaskIdle, Told, Idle
  <2> QED
    BY <2>1, <2>2, <2>3, <2>4, <2>5
<1>11. CASE UpdateFunctions
  <2>1. TypeOK'
    <3>1. set.func \in SUBSET Functions
      BY <1>11 DEF UpdateFunctions, BroadcastFuncChange,
         ProcessFunctionNotifier, TypeOK, Idle
    <3>2. functions' \subseteq Functions
      BY <1>11, <3>1 DEF UpdateFunctions, BroadcastFuncChange,
         ProcessFunctionNotifier, TypeOK
    <3>3. hdcNotifier' \in BOOLEAN
      BY <1>11 DEF UpdateFunctions, BroadcastFuncChange,
         ProcessFunctionNotifier, TypeOK
    <3>4. sticky' \in [connected : BOOLEAN, functions : SUBSET Functions]
      BY <1>11, <3>1 DEF UpdateFunctions, BroadcastFuncChange,
         ProcessFunctionNotifier, TypeOK
    <3>5. set' = Idle
      BY <1>11 DEF UpdateFunctions, BroadcastFuncChange,
         ProcessFunctionNotifier, TypeOK
    <3>6. UNCHANGED <<gadgetConnected, connected, disableDialog, window,
                      timer, event, task, user, hdi, lastEvent, overlapped,
                      mixed>>
      BY <1>11 DEF UpdateFunctions, BroadcastFuncChange,
         ProcessFunctionNotifier
    <3> QED
      BY <3>1, <3>2, <3>3, <3>4, <3>5, <3>6 DEF TypeOK
  <2>2. PendingIsLast'
    BY <1>11 DEF UpdateFunctions, BroadcastFuncChange,
       ProcessFunctionNotifier, PendingIsLast
  <2>3. Settled'
    BY <1>11 DEF UpdateFunctions, BroadcastFuncChange,
       ProcessFunctionNotifier, Settled, TaskIdle, Expired
  <2>4. DebounceInv'
    BY <1>11 DEF UpdateFunctions, BroadcastFuncChange,
       ProcessFunctionNotifier, DebounceInv, Expired, TaskIdle, Status,
       Accessory
  <2>5. TurnInv'
    BY <1>11 DEF UpdateFunctions, BroadcastFuncChange,
       ProcessFunctionNotifier, TurnInv, Reporting, SetIdle, UserIdle,
       TaskIdle, Told, Idle
  <2> QED
    BY <2>1, <2>2, <2>3, <2>4, <2>5
<1>12. CASE UserChangeProcess
  <2>1. TypeOK'
    BY <1>12 DEF UserChangeProcess, StripTransfer, At, TypeOK, Status,
       Accessory, Idle, Transfer
  <2>2. PendingIsLast'
    BY <1>12 DEF UserChangeProcess, StripTransfer, At, PendingIsLast
  <2>3. Settled'
    BY <1>12 DEF UserChangeProcess, StripTransfer, At, Settled, TaskIdle,
       Expired
  <2>4. DebounceInv'
    BY <1>12 DEF UserChangeProcess, StripTransfer, At, DebounceInv, Expired,
       TaskIdle, Status, Accessory
  <2>5. TurnInv'
    <3> DEFINE g == StripTransfer(functions)
    <3>1. \/ hdi' = g /\ user' = [pc |-> "update", func |-> g]
          \/ hdi' = hdi /\ user' = [pc |-> "notify", func |-> functions]
      BY <1>12 DEF UserChangeProcess, At
    <3>2. /\ UserIdle
          /\ mixed' = (mixed \/ ~(TaskIdle /\ SetIdle))
          /\ UNCHANGED <<deviceVars, reportVars, task, set>>
      BY <1>12 DEF UserChangeProcess
    <3> HIDE DEF g
    <3>3. CASE mixed'
      BY <3>3 DEF TurnInv
    <3>4. CASE ~mixed'
      <4>1. ~mixed /\ ~Reporting /\ ~Reporting' /\ SetIdle /\ SetIdle'
        BY <3>2, <3>4 DEF Reporting, SetIdle, TaskIdle
      <4>2. Told /\ Told' /\ hdi = functions /\ task' # "report"
        BY <3>2, <4>1 DEF TurnInv, Told, Reporting
      <4>3. hdi' = IF user'.pc = "update" THEN user'.func ELSE functions'
        BY <3>1, <3>2, <4>2
      <4>4. ~UserIdle'
        BY <3>1 DEF UserIdle
      <4> QED
        BY <4>1, <4>2, <4>3, <4>4 DEF TurnInv
    <3> QED
      BY <3>3, <3>4
  <2> QED
    BY <2>1, <2>2, <2>3, <2>4, <2>5
<1>13. CASE UserChangeDone
  <2>1. TypeOK'
    BY <1>13 DEF UserChangeDone, BroadcastFuncChange,
       ProcessFunctionNotifier, TypeOK, Status, Accessory, Idle, Transfer
  <2>2. PendingIsLast'
    BY <1>13 DEF UserChangeDone, BroadcastFuncChange,
       ProcessFunctionNotifier, PendingIsLast
  <2>3. Settled'
    BY <1>13 DEF UserChangeDone, BroadcastFuncChange,
       ProcessFunctionNotifier, Settled, TaskIdle, Expired
  <2>4. DebounceInv'
    BY <1>13 DEF UserChangeDone, BroadcastFuncChange,
       ProcessFunctionNotifier, DebounceInv, Expired, TaskIdle, Status,
       Accessory
  <2>5. TurnInv'
    BY <1>13 DEF UserChangeDone, BroadcastFuncChange,
       ProcessFunctionNotifier, TurnInv, Reporting, SetIdle, UserIdle,
       TaskIdle, Told, Idle
  <2> QED
    BY <2>1, <2>2, <2>3, <2>4, <2>5
<1>14. CASE UNCHANGED vars
  BY <1>14 DEF vars, TypeOK, PendingIsLast, Settled, DebounceInv, TurnInv,
     Status, Accessory, Idle, Transfer, TaskIdle, Expired, Reporting,
     SetIdle, UserIdle, Told
<1> QED
  BY <1>1, <1>2, <1>3, <1>4, <1>5, <1>6, <1>7,
     <1>8, <1>9, <1>10, <1>11, <1>12, <1>13, <1>14 DEF Next, TaskStep

(* The inductive invariant holds in every reachable state.                 *)
LEMMA DeviceInvAlways == Spec => []DeviceInv
  BY DeviceInvInit, DeviceInvStep, PTL DEF Spec

(* The state of the device manager keeps its type.                         *)
THEOREM DeviceTypeCorrect == Spec => []TypeOK
<1>1. DeviceInv => TypeOK
  BY DEF DeviceInv
<1> QED
  BY <1>1, DeviceInvAlways, PTL

(* The timer never holds a task that a later event has overruled.          *)
THEOREM TimerNotStale == Spec => []PendingIsLast
<1>1. DeviceInv => PendingIsLast
  BY DEF DeviceInv
<1> QED
  BY <1>1, DeviceInvAlways, PTL

(* Whatever the order of events, expiries and tasks, when nothing is       *)
(* pending connected_ is the last event's, but for the race that           *)
(* overlapped records.                                                     *)
THEOREM DebounceSettles == Spec => []Settled
<1>1. DeviceInv => Settled
  BY DEF DeviceInv
<1> QED
  BY <1>1, DeviceInvAlways, PTL

(* As long as the threads that change functions do not overlap, driver,    *)
(* current functions, sticky event and HDC notice agree.                   *)
THEOREM ReportsAreTrue == Spec => []ReportedTruth
<1>1. DeviceInv => ReportedTruth
  BY DEF DeviceInv, TurnInv, ReportedTruth, Told, Reporting, TaskIdle
<1> QED
  BY <1>1, DeviceInvAlways, PTL
=============================================================================
