--------------------- MODULE UsbAccessoryManagerProofs ---------------------
(***************************************************************************)
(* Proofs about UsbAccessoryManager for any function sets that clients may *)
(* choose.                                                                 *)
(***************************************************************************)
EXTENDS UsbAccessoryManager, TLAPS

(* A debouncing task that waits for the lock holds a status.               *)
LEMMA WaitingStatus == TypeOK /\ task.pc = "shake" => task.status \in Status
  BY DEF TypeOK, TaskStates

(* The service starts with no session; accessory functions it finds in the *)
(* driver are nobody's.                                                    *)
LEMMA AccessoryInvInit == Init => AccessoryInv
<1> SUFFICES ASSUME Init PROVE AccessoryInv
  OBVIOUS
<1>1. TypeOK
  <2>1. handler \in HandlerStates /\ task \in TaskStates
    BY DEF Init, HandlerStates, TaskStates, Idle
  <2>2. disturbed \in BOOLEAN
    BY DEF Init, IsAccessory
  <2> QED
    BY <2>1, <2>2 DEF Init, TypeOK, AnyFunc, Modes, Status, Debounced
<1>2. ~disturbed => SessionInv
  BY DEF Init, SessionInv, InSession, Starting, Delaying, LockFree, Idle
<1>3. EventInv /\ HeededInv /\ (Starting => ~delayTimer)
  BY DEF Init, EventInv, HeededInv, Starting, Idle
<1> QED
  BY <1>1, <1>2, <1>3 DEF AccessoryInv

(* Every step of the driver's thread, of the timer thread and of the       *)
(* device manager keeps it.                                                *)
LEMMA AccessoryInvStep == AccessoryInv /\ [Next]_vars => AccessoryInv'
<1> SUFFICES ASSUME AccessoryInv, [Next]_vars
             PROVE  AccessoryInv'
  OBVIOUS
<1> USE DEF AccessoryInv, managerVars, timerVars, historyVars
<1>1. ASSUME NEW s \in Status, HandleEvent(s)
      PROVE  AccessoryInv'
  <2>1. CASE s \in Debounced
    <3>1. TypeOK'
      <4>1. handler' \in HandlerStates
        BY <1>1, <2>1 DEF HandleEvent, TypeOK, HandlerStates, Idle, At
      <4>2. task' \in TaskStates
        BY <1>1, <2>1 DEF HandleEvent, TypeOK, TaskStates, EventInv,
           Idle, At
      <4>3. /\ disturbed' \in BOOLEAN /\ overlapped' \in BOOLEAN
             /\ shakeTimer' \in BOOLEAN
        BY <1>1, <2>1 DEF HandleEvent, TypeOK, Shaking, Delaying,
           Debounced
      <4> QED
        BY <1>1, <2>1, <4>1, <4>2, <4>3 DEF HandleEvent, TypeOK, AnyFunc,
           Modes
    <3>2. (Starting => ~delayTimer)'
      BY <1>1, <2>1 DEF HandleEvent, Starting, Idle, At
    <3>3. (~disturbed => SessionInv)'
      BY <1>1, <2>1 DEF HandleEvent, TypeOK, Modes,
         HandlerStates, SessionInv, InSession, Starting, Delaying, LockFree,
         IsAccessory, Acc, Idle, At
    <3>4. EventInv'
      BY <1>1, <2>1 DEF HandleEvent, TypeOK, EventInv, Starting, Shaking,
         Idle, At, Status, Debounced, Downs, LockFree
    <3>5. HeededInv'
      BY <1>1, <2>1 DEF HandleEvent, TypeOK, Modes, HeededInv, EventInv,
         SessionInv, Starting, Shaking, Idle, At, Status, Debounced, Downs,
         LockFree, IsAccessory, Acc, InSession
    <3> QED
      BY <3>1, <3>2, <3>3, <3>4, <3>5
  <2>2. ASSUME NEW w \in {"CONFIGURING", "START"},
               s \notin Debounced, WantStart(s, w, task)
        PROVE  AccessoryInv'
    <3>1. TypeOK'
      <4>1. handler' \in HandlerStates
        BY <1>1, <2>2 DEF HandleEvent, WantStart, TypeOK, HandlerStates,
           Idle, At
      <4>2. task' \in TaskStates
        BY <1>1, <2>2 DEF HandleEvent, WantStart, TypeOK, TaskStates,
           EventInv, Idle, At
      <4>3. /\ disturbed' \in BOOLEAN /\ overlapped' \in BOOLEAN
             /\ shakeTimer' \in BOOLEAN
        BY <1>1, <2>2 DEF HandleEvent, WantStart, TypeOK, Shaking,
           Delaying, Debounced
      <4> QED
        BY <1>1, <2>2, <4>1, <4>2, <4>3 DEF HandleEvent, WantStart,
           TypeOK, AnyFunc, Modes
    <3>2. (Starting => ~delayTimer)'
      BY <1>1, <2>2 DEF HandleEvent, WantStart, Starting, Idle, At
    <3>3. (~disturbed => SessionInv)'
      BY <1>1, <2>2 DEF HandleEvent, WantStart,
         TypeOK, Modes, HandlerStates, SessionInv, InSession, Starting,
         Delaying, LockFree, IsAccessory, Acc, Idle, At
    <3>4. EventInv'
      BY <1>1, <2>2 DEF HandleEvent, WantStart, TypeOK, EventInv,
         Starting, Shaking, Idle, At, Status, Debounced, Downs, LockFree
    <3>5. HeededInv'
      BY <1>1, <2>2 DEF HandleEvent, WantStart, TypeOK, Modes, HeededInv,
         EventInv, SessionInv, Starting, Shaking, Idle, At, Status,
         Debounced, Downs, LockFree, IsAccessory, Acc, InSession
    <3> QED
      BY <3>1, <3>2, <3>3, <3>4, <3>5
  <2>3. CASE s \notin Debounced /\ WantStop(s, task)
    <3>1. TypeOK'
      <4>1. handler' \in HandlerStates
        BY <1>1, <2>3 DEF HandleEvent, WantStop, TypeOK, HandlerStates,
           Idle, At
      <4>2. task' \in TaskStates
        BY <1>1, <2>3 DEF HandleEvent, WantStop, TypeOK, TaskStates,
           EventInv, Idle, At
      <4>3. /\ disturbed' \in BOOLEAN /\ overlapped' \in BOOLEAN
             /\ shakeTimer' \in BOOLEAN
        BY <1>1, <2>3 DEF HandleEvent, WantStop, TypeOK, Shaking,
           Delaying, Debounced
      <4> QED
        BY <1>1, <2>3, <4>1, <4>2, <4>3 DEF HandleEvent, WantStop,
           TypeOK, AnyFunc, Modes
    <3>2. (Starting => ~delayTimer)'
      BY <1>1, <2>3 DEF HandleEvent, WantStop, Starting, Idle, At
    <3>3. (~disturbed => SessionInv)'
      BY <1>1, <2>3 DEF HandleEvent, WantStop,
         TypeOK, Modes, HandlerStates, SessionInv, InSession, Starting,
         Delaying, LockFree, IsAccessory, Acc, Idle, At
    <3>4. EventInv'
      BY <1>1, <2>3 DEF HandleEvent, WantStop, TypeOK, EventInv,
         Starting, Shaking, Idle, At, Status, Debounced, Downs, LockFree
    <3>5. HeededInv'
      BY <1>1, <2>3 DEF HandleEvent, WantStop, TypeOK, Modes, HeededInv,
         EventInv, SessionInv, Starting, Shaking, Idle, At, Status,
         Debounced, Downs, LockFree, IsAccessory, Acc, InSession
    <3> QED
      BY <3>1, <3>2, <3>3, <3>4, <3>5
  <2>4. CASE s \notin Debounced /\ WantSend(s, task)
    <3>1. TypeOK'
      <4>1. handler' \in HandlerStates
        BY <1>1, <2>4 DEF HandleEvent, WantSend, TypeOK, HandlerStates,
           Idle, At
      <4>2. task' \in TaskStates
        BY <1>1, <2>4 DEF HandleEvent, WantSend, TypeOK, TaskStates,
           EventInv, Idle, At
      <4>3. /\ disturbed' \in BOOLEAN /\ overlapped' \in BOOLEAN
             /\ shakeTimer' \in BOOLEAN
        BY <1>1, <2>4 DEF HandleEvent, WantSend, TypeOK, Shaking,
           Delaying, Debounced
      <4> QED
        BY <1>1, <2>4, <4>1, <4>2, <4>3 DEF HandleEvent, WantSend,
           TypeOK, AnyFunc, Modes
    <3>2. (Starting => ~delayTimer)'
      BY <1>1, <2>4 DEF HandleEvent, WantSend, Starting, Idle, At
    <3>3. (~disturbed => SessionInv)'
      BY <1>1, <2>4 DEF HandleEvent, WantSend,
         TypeOK, Modes, HandlerStates, SessionInv, InSession, Starting,
         Delaying, LockFree, IsAccessory, Acc, Idle, At
    <3>4. EventInv'
      BY <1>1, <2>4 DEF HandleEvent, WantSend, TypeOK, EventInv,
         Starting, Shaking, Idle, At, Status, Debounced, Downs, LockFree
    <3>5. HeededInv'
      BY <1>1, <2>4 DEF HandleEvent, WantSend, TypeOK, Modes, HeededInv,
         EventInv, SessionInv, Starting, Shaking, Idle, At, Status,
         Debounced, Downs, LockFree, IsAccessory, Acc, InSession
    <3> QED
      BY <3>1, <3>2, <3>3, <3>4, <3>5
  <2>5. CASE s \notin Debounced /\ NotNecessary(s, task)
    <3>1. TypeOK'
      <4>1. handler' \in HandlerStates
        BY <1>1, <2>5 DEF HandleEvent, NotNecessary, TypeOK,
           HandlerStates, Idle, At
      <4>2. task' \in TaskStates
        BY <1>1, <2>5 DEF HandleEvent, NotNecessary, TypeOK, TaskStates,
           EventInv, Idle, At
      <4>3. /\ disturbed' \in BOOLEAN /\ overlapped' \in BOOLEAN
             /\ shakeTimer' \in BOOLEAN
        BY <1>1, <2>5 DEF HandleEvent, NotNecessary, TypeOK, Shaking,
           Delaying, Debounced
      <4> QED
        BY <1>1, <2>5, <4>1, <4>2, <4>3 DEF HandleEvent, NotNecessary,
           TypeOK, AnyFunc, Modes
    <3>2. (Starting => ~delayTimer)'
      BY <1>1, <2>5 DEF HandleEvent, NotNecessary, Starting, Idle, At
    <3>3. (~disturbed => SessionInv)'
      BY <1>1, <2>5 DEF HandleEvent, NotNecessary,
         TypeOK, Modes, HandlerStates, SessionInv, InSession, Starting,
         Delaying, LockFree, IsAccessory, Acc, Idle, At
    <3>4. EventInv'
      BY <1>1, <2>5 DEF HandleEvent, NotNecessary, TypeOK, EventInv,
         Starting, Shaking, Idle, At, Status, Debounced, Downs, LockFree
    <3>5. HeededInv'
      BY <1>1, <2>5 DEF HandleEvent, NotNecessary, TypeOK, Modes,
         HeededInv, EventInv, SessionInv, Starting, Shaking, Idle, At,
         Status, Debounced, Downs, LockFree, IsAccessory, Acc, InSession
    <3> QED
      BY <3>1, <3>2, <3>3, <3>4, <3>5
  <2> QED
    BY <1>1, <2>1, <2>2, <2>3, <2>4, <2>5 DEF HandleEvent, ProcessHandle
<1>2. CASE ShakeHandles
  <2>1. ASSUME NEW w \in {"CONFIGURING", "START"},
               WantStart(task.status, w, [pc |-> "handling"])
        PROVE  AccessoryInv'
    <3>1. TypeOK'
      <4>1. handler' \in HandlerStates
        BY <1>2, <2>1 DEF ShakeHandles, WantStart, TypeOK, HandlerStates,
           Idle, At
      <4>2. task' \in TaskStates
        BY <1>2, <2>1 DEF ShakeHandles, WantStart, TypeOK, TaskStates,
           EventInv, Idle, At
      <4>3. /\ disturbed' \in BOOLEAN /\ overlapped' \in BOOLEAN
             /\ shakeTimer' \in BOOLEAN
        BY <1>2, <2>1 DEF ShakeHandles, WantStart, TypeOK, Shaking,
           Delaying, Debounced
      <4> QED
        BY <1>2, <2>1, <4>1, <4>2, <4>3, WaitingStatus DEF ShakeHandles,
           WantStart, TypeOK, AnyFunc, Modes
    <3>2. (Starting => ~delayTimer)'
      BY <1>2, <2>1 DEF ShakeHandles, WantStart, Starting, Idle, At
    <3>3. (~disturbed => SessionInv)'
      BY <1>2, <2>1 DEF ShakeHandles, WantStart,
         TypeOK, Modes, HandlerStates, SessionInv, InSession, Starting,
         Delaying, LockFree, IsAccessory, Acc, Idle, At
    <3>4. EventInv'
      BY <1>2, <2>1 DEF ShakeHandles, WantStart, TypeOK, EventInv,
         Starting, Shaking, Idle, At, Status, Debounced, Downs, LockFree
    <3>5. HeededInv'
      BY <1>2, <2>1 DEF ShakeHandles, WantStart, TypeOK, Modes,
         HeededInv, EventInv, SessionInv, Starting, Shaking, Idle, At,
         Status, Debounced, Downs, LockFree, IsAccessory, Acc, InSession
    <3> QED
      BY <3>1, <3>2, <3>3, <3>4, <3>5
  <2>2. CASE WantStop(task.status, [pc |-> "handling"])
    <3>1. TypeOK'
      <4>1. handler' \in HandlerStates
        BY <1>2, <2>2 DEF ShakeHandles, WantStop, TypeOK, HandlerStates,
           Idle, At
      <4>2. task' \in TaskStates
        BY <1>2, <2>2 DEF ShakeHandles, WantStop, TypeOK, TaskStates,
           EventInv, Idle, At
      <4>3. /\ disturbed' \in BOOLEAN /\ overlapped' \in BOOLEAN
             /\ shakeTimer' \in BOOLEAN
        BY <1>2, <2>2 DEF ShakeHandles, WantStop, TypeOK, Shaking,
           Delaying, Debounced
      <4> QED
        BY <1>2, <2>2, <4>1, <4>2, <4>3, WaitingStatus DEF ShakeHandles,
           WantStop, TypeOK, AnyFunc, Modes
    <3>2. (Starting => ~delayTimer)'
      BY <1>2, <2>2 DEF ShakeHandles, WantStop, Starting, Idle, At
    <3>3. (~disturbed => SessionInv)'
      BY <1>2, <2>2 DEF ShakeHandles, WantStop,
         TypeOK, Modes, HandlerStates, SessionInv, InSession, Starting,
         Delaying, LockFree, IsAccessory, Acc, Idle, At
    <3>4. EventInv'
      BY <1>2, <2>2 DEF ShakeHandles, WantStop, TypeOK, EventInv,
         Starting, Shaking, Idle, At, Status, Debounced, Downs, LockFree
    <3>5. HeededInv'
      BY <1>2, <2>2 DEF ShakeHandles, WantStop, TypeOK, Modes, HeededInv,
         EventInv, SessionInv, Starting, Shaking, Idle, At, Status,
         Debounced, Downs, LockFree, IsAccessory, Acc, InSession
    <3> QED
      BY <3>1, <3>2, <3>3, <3>4, <3>5
  <2>3. CASE WantSend(task.status, Idle)
    <3>1. TypeOK'
      <4>1. handler' \in HandlerStates
        BY <1>2, <2>3 DEF ShakeHandles, WantSend, TypeOK, HandlerStates,
           Idle, At
      <4>2. task' \in TaskStates
        BY <1>2, <2>3 DEF ShakeHandles, WantSend, TypeOK, TaskStates,
           EventInv, Idle, At
      <4>3. /\ disturbed' \in BOOLEAN /\ overlapped' \in BOOLEAN
             /\ shakeTimer' \in BOOLEAN
        BY <1>2, <2>3 DEF ShakeHandles, WantSend, TypeOK, Shaking,
           Delaying, Debounced
      <4> QED
        BY <1>2, <2>3, <4>1, <4>2, <4>3, WaitingStatus DEF ShakeHandles,
           WantSend, TypeOK, AnyFunc, Modes
    <3>2. (Starting => ~delayTimer)'
      BY <1>2, <2>3 DEF ShakeHandles, WantSend, Starting, Idle, At
    <3>3. (~disturbed => SessionInv)'
      BY <1>2, <2>3 DEF ShakeHandles, WantSend,
         TypeOK, Modes, HandlerStates, SessionInv, InSession, Starting,
         Delaying, LockFree, IsAccessory, Acc, Idle, At
    <3>4. EventInv'
      BY <1>2, <2>3 DEF ShakeHandles, WantSend, TypeOK, EventInv,
         Starting, Shaking, Idle, At, Status, Debounced, Downs, LockFree
    <3>5. HeededInv'
      BY <1>2, <2>3 DEF ShakeHandles, WantSend, TypeOK, Modes, HeededInv,
         EventInv, SessionInv, Starting, Shaking, Idle, At, Status,
         Debounced, Downs, LockFree, IsAccessory, Acc, InSession
    <3> QED
      BY <3>1, <3>2, <3>3, <3>4, <3>5
  <2>4. CASE NotNecessary(task.status, Idle)
    <3>1. TypeOK'
      <4>1. handler' \in HandlerStates
        BY <1>2, <2>4 DEF ShakeHandles, NotNecessary, TypeOK,
           HandlerStates, Idle, At
      <4>2. task' \in TaskStates
        BY <1>2, <2>4 DEF ShakeHandles, NotNecessary, TypeOK, TaskStates,
           EventInv, Idle, At
      <4>3. /\ disturbed' \in BOOLEAN /\ overlapped' \in BOOLEAN
             /\ shakeTimer' \in BOOLEAN
        BY <1>2, <2>4 DEF ShakeHandles, NotNecessary, TypeOK, Shaking,
           Delaying, Debounced
      <4> QED
        BY <1>2, <2>4, <4>1, <4>2, <4>3, WaitingStatus DEF ShakeHandles,
           NotNecessary, TypeOK, AnyFunc, Modes
    <3>2. (Starting => ~delayTimer)'
      BY <1>2, <2>4 DEF ShakeHandles, NotNecessary, Starting, Idle, At
    <3>3. (~disturbed => SessionInv)'
      BY <1>2, <2>4 DEF ShakeHandles, NotNecessary,
         TypeOK, Modes, HandlerStates, SessionInv, InSession, Starting,
         Delaying, LockFree, IsAccessory, Acc, Idle, At
    <3>4. EventInv'
      BY <1>2, <2>4 DEF ShakeHandles, NotNecessary, TypeOK, EventInv,
         Starting, Shaking, Idle, At, Status, Debounced, Downs, LockFree
    <3>5. HeededInv'
      BY <1>2, <2>4 DEF ShakeHandles, NotNecessary, TypeOK, Modes,
         HeededInv, EventInv, SessionInv, Starting, Shaking, Idle, At,
         Status, Debounced, Downs, LockFree, IsAccessory, Acc, InSession
    <3> QED
      BY <3>1, <3>2, <3>3, <3>4, <3>5
  <2> QED
    BY <1>2, <2>1, <2>2, <2>3, <2>4 DEF ShakeHandles, ProcessHandle
<1>3. CASE ShakeExpires
  <2>1. TypeOK'
    <3>1. handler' \in HandlerStates
      BY <1>3 DEF ShakeExpires, TypeOK, HandlerStates, Idle, At
    <3>2. task' \in TaskStates
      BY <1>3 DEF ShakeExpires, TypeOK, TaskStates, EventInv, Idle, At
    <3>3. /\ disturbed' \in BOOLEAN /\ overlapped' \in BOOLEAN
           /\ shakeTimer' \in BOOLEAN
      BY <1>3 DEF ShakeExpires, TypeOK, Shaking, Delaying, Debounced
    <3> QED
      BY <1>3, <3>1, <3>2, <3>3 DEF ShakeExpires, TypeOK, AnyFunc, Modes
  <2>2. (Starting => ~delayTimer)'
    BY <1>3 DEF ShakeExpires, Starting, Idle, At
  <2>3. (~disturbed => SessionInv)'
    BY <1>3 DEF ShakeExpires, TypeOK, Modes,
       HandlerStates, SessionInv, InSession, Starting, Delaying, LockFree,
       IsAccessory, Acc, Idle, At
  <2>4. EventInv'
    BY <1>3 DEF ShakeExpires, TypeOK, EventInv, Starting, Shaking, Idle,
       At, Status, Debounced, Downs, LockFree
  <2>5. HeededInv'
    BY <1>3 DEF ShakeExpires, TypeOK, Modes, HeededInv, EventInv,
       SessionInv, Starting, Shaking, Idle, At, Status, Debounced, Downs,
       LockFree, IsAccessory, Acc, InSession
  <2> QED
    BY <2>1, <2>2, <2>3, <2>4, <2>5
<1>4. CASE ShakeReads
  <2>1. TypeOK'
    <3>1. handler' \in HandlerStates
      BY <1>4 DEF ShakeReads, TypeOK, HandlerStates, Idle, At
    <3>2. task' \in TaskStates
      BY <1>4 DEF ShakeReads, TypeOK, TaskStates, EventInv, Idle, At
    <3>3. /\ disturbed' \in BOOLEAN /\ overlapped' \in BOOLEAN
           /\ shakeTimer' \in BOOLEAN
      BY <1>4 DEF ShakeReads, TypeOK, Shaking, Delaying, Debounced
    <3> QED
      BY <1>4, <3>1, <3>2, <3>3, WaitingStatus DEF ShakeReads, TypeOK,
         AnyFunc, Modes
  <2>2. (Starting => ~delayTimer)'
    BY <1>4 DEF ShakeReads, Starting, Idle, At
  <2>3. (~disturbed => SessionInv)'
    BY <1>4 DEF ShakeReads, TypeOK, Modes,
       HandlerStates, SessionInv, InSession, Starting, Delaying, LockFree,
       IsAccessory, Acc, Idle, At
  <2>4. EventInv'
    BY <1>4 DEF ShakeReads, TypeOK, EventInv, Starting, Shaking, Idle,
       At, Status, Debounced, Downs, LockFree
  <2>5. HeededInv'
    BY <1>4 DEF ShakeReads, TypeOK, Modes, HeededInv, EventInv,
       SessionInv, Starting, Shaking, Idle, At, Status, Debounced, Downs,
       LockFree, IsAccessory, Acc, InSession
  <2> QED
    BY <2>1, <2>2, <2>3, <2>4, <2>5
<1>5. CASE GetCurrentFunctions
  <2>1. TypeOK'
    <3>1. handler' \in HandlerStates
      BY <1>5 DEF GetCurrentFunctions, Return, TypeOK, HandlerStates,
         Idle, At
    <3>2. task' \in TaskStates
      BY <1>5 DEF GetCurrentFunctions, Return, TypeOK, TaskStates,
         EventInv, Idle, At
    <3>3. /\ disturbed' \in BOOLEAN /\ overlapped' \in BOOLEAN
           /\ shakeTimer' \in BOOLEAN
      BY <1>5 DEF GetCurrentFunctions, Return, TypeOK, Shaking, Delaying,
         Debounced
    <3> QED
      BY <1>5, <3>1, <3>2, <3>3 DEF GetCurrentFunctions, Return, TypeOK,
         AnyFunc, Modes
  <2>2. (Starting => ~delayTimer)'
    BY <1>5 DEF GetCurrentFunctions, Return, Starting, Idle, At
  <2>3. (~disturbed => SessionInv)'
    BY <1>5 DEF GetCurrentFunctions, Return, TypeOK,
       Modes, HandlerStates, SessionInv, InSession, Starting, Delaying,
       LockFree, IsAccessory, Acc, Idle, At
  <2>4. EventInv'
    BY <1>5 DEF GetCurrentFunctions, Return, TypeOK, EventInv, Starting,
       Shaking, Idle, At, Status, Debounced, Downs, LockFree
  <2>5. HeededInv'
    BY <1>5 DEF GetCurrentFunctions, Return, TypeOK, Modes, HeededInv,
       EventInv, SessionInv, Starting, Shaking, Idle, At, Status, Debounced,
       Downs, LockFree, IsAccessory, Acc, InSession
  <2> QED
    BY <2>1, <2>2, <2>3, <2>4, <2>5
<1>6. CASE StartAccessory
  <2>1. TypeOK'
    <3>1. handler' \in HandlerStates
      BY <1>6 DEF StartAccessory, Return, TypeOK, HandlerStates, Idle, At
    <3>2. task' \in TaskStates
      BY <1>6 DEF StartAccessory, Return, TypeOK, TaskStates, EventInv,
         Idle, At
    <3>3. /\ disturbed' \in BOOLEAN /\ overlapped' \in BOOLEAN
           /\ shakeTimer' \in BOOLEAN
      BY <1>6 DEF StartAccessory, Return, TypeOK, Shaking, Delaying,
         Debounced
    <3> QED
      BY <1>6, <3>1, <3>2, <3>3 DEF StartAccessory, Return, TypeOK,
         AnyFunc, Modes
  <2>2. (Starting => ~delayTimer)'
    BY <1>6 DEF StartAccessory, Return, Starting, Idle, At
  <2>3. (~disturbed => SessionInv)'
    BY <1>6 DEF StartAccessory, Return, TypeOK,
       Modes, HandlerStates, SessionInv, InSession, Starting, Delaying,
       LockFree, IsAccessory, Acc, Idle, At
  <2>4. EventInv'
    BY <1>6 DEF StartAccessory, Return, TypeOK, EventInv, Starting,
       Shaking, Idle, At, Status, Debounced, Downs, LockFree
  <2>5. HeededInv'
    BY <1>6 DEF StartAccessory, Return, TypeOK, Modes, HeededInv,
       EventInv, SessionInv, Starting, Shaking, Idle, At, Status, Debounced,
       Downs, LockFree, IsAccessory, Acc, InSession
  <2> QED
    BY <2>1, <2>2, <2>3, <2>4, <2>5
<1>7. CASE SetAccessory
  <2>1. TypeOK'
    <3>1. handler' \in HandlerStates
      BY <1>7 DEF SetAccessory, Return, TypeOK, HandlerStates, Idle, At
    <3>2. task' \in TaskStates
      BY <1>7 DEF SetAccessory, Return, TypeOK, TaskStates, EventInv,
         Idle, At
    <3>3. /\ disturbed' \in BOOLEAN /\ overlapped' \in BOOLEAN
           /\ shakeTimer' \in BOOLEAN
      BY <1>7 DEF SetAccessory, Return, TypeOK, Shaking, Delaying,
         Debounced
    <3> QED
      BY <1>7, <3>1, <3>2, <3>3 DEF SetAccessory, Return, TypeOK,
         AnyFunc, Modes
  <2>2. (Starting => ~delayTimer)'
    BY <1>7 DEF SetAccessory, Return, Starting, Idle, At
  <2>3. (~disturbed => SessionInv)'
    BY <1>7 DEF SetAccessory, Return, TypeOK, Modes,
       HandlerStates, SessionInv, InSession, Starting, Delaying, LockFree,
       IsAccessory, Acc, Idle, At
  <2>4. EventInv'
    BY <1>7 DEF SetAccessory, Return, TypeOK, EventInv, Starting,
       Shaking, Idle, At, Status, Debounced, Downs, LockFree
  <2>5. HeededInv'
    BY <1>7 DEF SetAccessory, Return, TypeOK, Modes, HeededInv, EventInv,
       SessionInv, Starting, Shaking, Idle, At, Status, Debounced, Downs,
       LockFree, IsAccessory, Acc, InSession
  <2> QED
    BY <2>1, <2>2, <2>3, <2>4, <2>5
<1>8. CASE ArmDelay
  <2>1. TypeOK'
    <3>1. handler' \in HandlerStates
      BY <1>8 DEF ArmDelay, Return, TypeOK, HandlerStates, Idle, At
    <3>2. task' \in TaskStates
      BY <1>8 DEF ArmDelay, Return, TypeOK, TaskStates, EventInv, Idle,
         At
    <3>3. /\ disturbed' \in BOOLEAN /\ overlapped' \in BOOLEAN
           /\ shakeTimer' \in BOOLEAN
      BY <1>8 DEF ArmDelay, Return, TypeOK, Shaking, Delaying, Debounced
    <3> QED
      BY <1>8, <3>1, <3>2, <3>3 DEF ArmDelay, Return, TypeOK, AnyFunc,
         Modes
  <2>2. (Starting => ~delayTimer)'
    BY <1>8 DEF ArmDelay, Return, Starting, Idle, At
  <2>3. (~disturbed => SessionInv)'
    BY <1>8 DEF ArmDelay, Return, TypeOK, Modes,
       HandlerStates, SessionInv, InSession, Starting, Delaying, LockFree,
       IsAccessory, Acc, Idle, At
  <2>4. EventInv'
    BY <1>8 DEF ArmDelay, Return, TypeOK, EventInv, Starting, Shaking,
       Idle, At, Status, Debounced, Downs, LockFree
  <2>5. HeededInv'
    BY <1>8 DEF ArmDelay, Return, TypeOK, Modes, HeededInv, EventInv,
       SessionInv, Starting, Shaking, Idle, At, Status, Debounced, Downs,
       LockFree, IsAccessory, Acc, InSession
  <2> QED
    BY <2>1, <2>2, <2>3, <2>4, <2>5
<1>9. CASE StartNotNecessary
  <2>1. TypeOK'
    <3>1. handler' \in HandlerStates
      BY <1>9 DEF StartNotNecessary, Return, TypeOK, HandlerStates, Idle,
         At
    <3>2. task' \in TaskStates
      BY <1>9 DEF StartNotNecessary, Return, TypeOK, TaskStates,
         EventInv, Idle, At
    <3>3. /\ disturbed' \in BOOLEAN /\ overlapped' \in BOOLEAN
           /\ shakeTimer' \in BOOLEAN
      BY <1>9 DEF StartNotNecessary, Return, TypeOK, Shaking, Delaying,
         Debounced
    <3> QED
      BY <1>9, <3>1, <3>2, <3>3 DEF StartNotNecessary, Return, TypeOK,
         AnyFunc, Modes
  <2>2. (Starting => ~delayTimer)'
    BY <1>9 DEF StartNotNecessary, Return, Starting, Idle, At
  <2>3. (~disturbed => SessionInv)'
    BY <1>9 DEF StartNotNecessary, Return, TypeOK,
       Modes, HandlerStates, SessionInv, InSession, Starting, Delaying,
       LockFree, IsAccessory, Acc, Idle, At
  <2>4. EventInv'
    BY <1>9 DEF StartNotNecessary, Return, TypeOK, EventInv, Starting,
       Shaking, Idle, At, Status, Debounced, Downs, LockFree
  <2>5. HeededInv'
    BY <1>9 DEF StartNotNecessary, Return, TypeOK, Modes, HeededInv,
       EventInv, SessionInv, Starting, Shaking, Idle, At, Status, Debounced,
       Downs, LockFree, IsAccessory, Acc, InSession
  <2> QED
    BY <2>1, <2>2, <2>3, <2>4, <2>5
<1>10. CASE StopAccessory
  <2>1. TypeOK'
    <3>1. handler' \in HandlerStates
      BY <1>10 DEF StopAccessory, Return, TypeOK, HandlerStates, Idle, At
    <3>2. task' \in TaskStates
      BY <1>10 DEF StopAccessory, Return, TypeOK, TaskStates, EventInv,
         Idle, At
    <3>3. /\ disturbed' \in BOOLEAN /\ overlapped' \in BOOLEAN
           /\ shakeTimer' \in BOOLEAN
      BY <1>10 DEF StopAccessory, Return, TypeOK, Shaking, Delaying,
         Debounced
    <3> QED
      BY <1>10, <3>1, <3>2, <3>3 DEF StopAccessory, Return, TypeOK,
         AnyFunc, Modes
  <2>2. (Starting => ~delayTimer)'
    BY <1>10 DEF StopAccessory, Return, Starting, Idle, At
  <2>3. (~disturbed => SessionInv)'
    BY <1>10 DEF StopAccessory, Return, TypeOK,
       Modes, HandlerStates, SessionInv, InSession, Starting, Delaying,
       LockFree, IsAccessory, Acc, Idle, At
  <2>4. EventInv'
    BY <1>10 DEF StopAccessory, Return, TypeOK, EventInv, Starting,
       Shaking, Idle, At, Status, Debounced, Downs, LockFree
  <2>5. HeededInv'
    BY <1>10 DEF StopAccessory, Return, TypeOK, Modes, HeededInv,
       EventInv, SessionInv, Starting, Shaking, Idle, At, Status, Debounced,
       Downs, LockFree, IsAccessory, Acc, InSession
  <2> QED
    BY <2>1, <2>2, <2>3, <2>4, <2>5
<1>11. CASE DelayExpires
  <2>1. TypeOK'
    <3>1. handler' \in HandlerStates
      BY <1>11 DEF DelayExpires, TypeOK, HandlerStates, Idle, At
    <3>2. task' \in TaskStates
      BY <1>11 DEF DelayExpires, TypeOK, TaskStates, EventInv, Idle, At
    <3>3. /\ disturbed' \in BOOLEAN /\ overlapped' \in BOOLEAN
           /\ shakeTimer' \in BOOLEAN
      BY <1>11 DEF DelayExpires, TypeOK, Shaking, Delaying, Debounced
    <3> QED
      BY <1>11, <3>1, <3>2, <3>3 DEF DelayExpires, TypeOK, AnyFunc, Modes
  <2>2. (Starting => ~delayTimer)'
    BY <1>11 DEF DelayExpires, Starting, Idle, At
  <2>3. (~disturbed => SessionInv)'
    BY <1>11 DEF DelayExpires, TypeOK, Modes,
       HandlerStates, SessionInv, InSession, Starting, Delaying, LockFree,
       IsAccessory, Acc, Idle, At
  <2>4. EventInv'
    BY <1>11 DEF DelayExpires, TypeOK, EventInv, Starting, Shaking, Idle,
       At, Status, Debounced, Downs, LockFree
  <2>5. HeededInv'
    BY <1>11 DEF DelayExpires, TypeOK, Modes, HeededInv, EventInv,
       SessionInv, Starting, Shaking, Idle, At, Status, Debounced, Downs,
       LockFree, IsAccessory, Acc, InSession
  <2> QED
    BY <2>1, <2>2, <2>3, <2>4, <2>5
<1>12. CASE DelayStops
  <2>1. TypeOK'
    <3>1. handler' \in HandlerStates
      BY <1>12 DEF DelayStops, TypeOK, HandlerStates, Idle, At
    <3>2. task' \in TaskStates
      BY <1>12 DEF DelayStops, TypeOK, TaskStates, EventInv, Idle, At
    <3>3. /\ disturbed' \in BOOLEAN /\ overlapped' \in BOOLEAN
           /\ shakeTimer' \in BOOLEAN
      BY <1>12 DEF DelayStops, TypeOK, Shaking, Delaying, Debounced
    <3> QED
      BY <1>12, <3>1, <3>2, <3>3 DEF DelayStops, TypeOK, AnyFunc, Modes
  <2>2. (Starting => ~delayTimer)'
    BY <1>12 DEF DelayStops, Starting, Idle, At
  <2>3. (~disturbed => SessionInv)'
    BY <1>12 DEF DelayStops, TypeOK, Modes,
       HandlerStates, SessionInv, InSession, Starting, Delaying, LockFree,
       IsAccessory, Acc, Idle, At
  <2>4. EventInv'
    BY <1>12 DEF DelayStops, TypeOK, EventInv, Starting, Shaking, Idle,
       At, Status, Debounced, Downs, LockFree
  <2>5. HeededInv'
    BY <1>12 DEF DelayStops, TypeOK, Modes, HeededInv, EventInv,
       SessionInv, Starting, Shaking, Idle, At, Status, Debounced, Downs,
       LockFree, IsAccessory, Acc, InSession
  <2> QED
    BY <2>1, <2>2, <2>3, <2>4, <2>5
<1>13. CASE DelayRestores
  <2>1. TypeOK'
    <3>1. handler' \in HandlerStates
      BY <1>13 DEF DelayRestores, TypeOK, HandlerStates, Idle, At
    <3>2. task' \in TaskStates
      BY <1>13 DEF DelayRestores, TypeOK, TaskStates, EventInv, Idle, At
    <3>3. /\ disturbed' \in BOOLEAN /\ overlapped' \in BOOLEAN
           /\ shakeTimer' \in BOOLEAN
      BY <1>13 DEF DelayRestores, TypeOK, Shaking, Delaying, Debounced
    <3> QED
      BY <1>13, <3>1, <3>2, <3>3 DEF DelayRestores, TypeOK, AnyFunc,
         Modes
  <2>2. (Starting => ~delayTimer)'
    BY <1>13 DEF DelayRestores, Starting, Idle, At
  <2>3. (~disturbed => SessionInv)'
    BY <1>13 DEF DelayRestores, TypeOK, Modes,
       HandlerStates, SessionInv, InSession, Starting, Delaying, LockFree,
       IsAccessory, Acc, Idle, At
  <2>4. EventInv'
    BY <1>13 DEF DelayRestores, TypeOK, EventInv, Starting, Shaking,
       Idle, At, Status, Debounced, Downs, LockFree
  <2>5. HeededInv'
    BY <1>13 DEF DelayRestores, TypeOK, Modes, HeededInv, EventInv,
       SessionInv, Starting, Shaking, Idle, At, Status, Debounced, Downs,
       LockFree, IsAccessory, Acc, InSession
  <2> QED
    BY <2>1, <2>2, <2>3, <2>4, <2>5
<1>14. ASSUME NEW f \in Choices, DeviceSetFunctions(f)
      PROVE  AccessoryInv'
  <2>1. TypeOK'
    <3>1. handler' \in HandlerStates
      BY <1>14 DEF DeviceSetFunctions, TypeOK, HandlerStates, Idle, At
    <3>2. task' \in TaskStates
      BY <1>14 DEF DeviceSetFunctions, TypeOK, TaskStates, EventInv,
         Idle, At
    <3>3. /\ disturbed' \in BOOLEAN /\ overlapped' \in BOOLEAN
           /\ shakeTimer' \in BOOLEAN
      BY <1>14 DEF DeviceSetFunctions, TypeOK, Shaking, Delaying,
         Debounced
    <3> QED
      BY <1>14, <3>1, <3>2, <3>3 DEF DeviceSetFunctions, TypeOK, AnyFunc,
         Modes
  <2>2. (Starting => ~delayTimer)'
    BY <1>14 DEF DeviceSetFunctions, Starting, Idle, At
  <2>3. (~disturbed => SessionInv)'
    BY <1>14 DEF DeviceSetFunctions, TypeOK, Modes,
       HandlerStates, SessionInv, InSession, Starting, Delaying, LockFree,
       IsAccessory, Acc, Idle, At
  <2>4. EventInv'
    BY <1>14 DEF DeviceSetFunctions, TypeOK, EventInv, Starting, Shaking,
       Idle, At, Status, Debounced, Downs, LockFree
  <2>5. HeededInv'
    BY <1>14 DEF DeviceSetFunctions, TypeOK, Modes, HeededInv, EventInv,
       SessionInv, Starting, Shaking, Idle, At, Status, Debounced, Downs,
       LockFree, IsAccessory, Acc, InSession
  <2> QED
    BY <2>1, <2>2, <2>3, <2>4, <2>5
<1>15. CASE UNCHANGED vars
  <2>1. TypeOK'
    <3>1. handler' \in HandlerStates
      BY <1>15 DEF vars, TypeOK, HandlerStates, Idle, At
    <3>2. task' \in TaskStates
      BY <1>15 DEF vars, TypeOK, TaskStates, EventInv, Idle, At
    <3>3. /\ disturbed' \in BOOLEAN /\ overlapped' \in BOOLEAN
           /\ shakeTimer' \in BOOLEAN
      BY <1>15 DEF vars, TypeOK, Shaking, Delaying, Debounced
    <3> QED
      BY <1>15, <3>1, <3>2, <3>3 DEF vars, TypeOK, AnyFunc, Modes
  <2>2. (Starting => ~delayTimer)'
    BY <1>15 DEF vars, Starting, Idle, At
  <2>3. (~disturbed => SessionInv)'
    BY <1>15 DEF vars, TypeOK, Modes, HandlerStates,
       SessionInv, InSession, Starting, Delaying, LockFree, IsAccessory,
       Acc, Idle, At
  <2>4. EventInv'
    BY <1>15 DEF vars, TypeOK, EventInv, Starting, Shaking, Idle, At,
       Status, Debounced, Downs, LockFree
  <2>5. HeededInv'
    BY <1>15 DEF vars, TypeOK, Modes, HeededInv, EventInv, SessionInv,
       Starting, Shaking, Idle, At, Status, Debounced, Downs, LockFree,
       IsAccessory, Acc, InSession
  <2> QED
    BY <2>1, <2>2, <2>3, <2>4, <2>5
<1> QED
  BY <1>1, <1>2, <1>3, <1>4, <1>5, <1>6, <1>7, <1>8, <1>9, <1>10, <1>11,
     <1>12, <1>13, <1>14, <1>15 DEF Next, HandlerStep, TaskStep

(* The inductive invariant holds in every reachable state.                 *)
LEMMA AccessoryInvAlways == Spec => []AccessoryInv
  BY AccessoryInvInit, AccessoryInvStep, PTL DEF Spec

(* The state of the accessory manager keeps its type.                      *)
THEOREM AccessoryTypeCorrect == Spec => []TypeOK
<1>1. AccessoryInv => TypeOK
  BY DEF AccessoryInv
<1> QED
  BY <1>1, AccessoryInvAlways, PTL

(* For any choice of functions, the broadcasts agree with accStatus_ in    *)
(* every undisturbed session.                                              *)
THEOREM BroadcastsAreTrue == Spec => []AnnouncedIsStarted
<1>1. AccessoryInv => AnnouncedIsStarted
  BY DEF AccessoryInv, AnnouncedIsStarted, SessionInv, LockFree
<1> QED
  BY <1>1, AccessoryInvAlways, PTL

(* The ten second task is never lost while the host is awaited.            *)
THEOREM TenSecondTaskNotLost == Spec => []AwaitedIsTimed
<1>1. AccessoryInv => AwaitedIsTimed
  BY DEF AccessoryInv, AwaitedIsTimed, SessionInv, LockFree
<1> QED
  BY <1>1, AccessoryInvAlways, PTL

(* Whichever way a session ends, the driver gets back exactly the          *)
(* functions the session replaced.                                         *)
THEOREM FunctionsRestored == Spec => []ReplacedComesBack
<1>1. AccessoryInv => ReplacedComesBack
  BY DEF AccessoryInv, ReplacedComesBack, SessionInv, InSession, LockFree
<1> QED
  BY <1>1, AccessoryInvAlways, PTL

(* An unplugged accessory does not stay started, but for the race that     *)
(* overlapped records.                                                     *)
THEOREM UnpluggingIsHeeded == Spec => []UnpluggedIsStopped
<1>1. AccessoryInv => UnpluggedIsStopped
  BY DEF AccessoryInv, UnpluggedIsStopped, HeededInv, Shaking, Idle
<1> QED
  BY <1>1, AccessoryInvAlways, PTL
=============================================================================
