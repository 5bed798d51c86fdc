------------------------- MODULE UsbSrvClientProofs -------------------------
(***************************************************************************)
(* Proofs about the life of the service and of a client's connection.      *)
(* ClientInv is inductive, for any number of attempts to bind and whatever *)
(* the surroundings do: it speaks of the two halves, the unloading timer   *)
(* and the proxy, which share nothing but the state of the service.        *)
(***************************************************************************)
EXTENDS UsbSrvClient, TLAPS

ServiceStates == {"down", "binding", "publishing", "unpublished", "ready", "stopping"}

Places == Connecting \union {"idle", "lock", "test", "use", "served", "kept", "done"}

CallStates == [pc : Places,
               how : {"none", "check", "tested", "force"}]

(* What is said of the service and of the unloading ...                    *)
UnloadHalf ==
  /\ known \in [Drivers -> States]
  /\ eval \in [Evaluators -> {"idle", "unload", "register"}]
  /\ UnloadInv

(* ... and of the connection.                                              *)
ConnectionHalf ==
  /\ sa \in ServiceStates
  /\ instance \in Nat /\ proxy \in Nat
  /\ watched \subseteq Nat /\ notices \subseteq Nat /\ unlinked \subseteq Nat
  /\ objectless \subseteq Nat
  /\ call \in [Locals -> CallStates]
  /\ mutex \in Locals \union {"free"}
  /\ MutexInv /\ InstanceInv /\ ProxyWatched

(* The two halves are the invariant.                                       *)
LEMMA TwoHalves == ClientInv <=> UnloadHalf /\ ConnectionHalf
BY DEF ClientInv, TypeOK, UnloadHalf, ConnectionHalf, ServiceStates, CallStates,
       Places

(***************************************************************************)
(* The unloading.                                                          *)
(***************************************************************************)
(* A step that neither changes a device nor looks at one.                  *)
LEMMA UnloadKept ==
  ASSUME UnloadHalf, UNCHANGED <<known, eval, timer, stale>>
  PROVE  UnloadHalf'
BY DEF UnloadHalf, UnloadInv, InUse

(* Steps that make a thread look again, or take note that none will.       *)
LEMMA UnloadChanges ==
  ASSUME UnloadHalf,
         \/ Publish \/ ManagePolicy \/ TimerExpires
         \/ \E d \in Drivers : DeviceEvent(d)
  PROVE  UnloadHalf'
<1>1. /\ known \in [Drivers -> States]
      /\ eval \in [Evaluators -> {"idle", "unload", "register"}]
      /\ UnloadInv
  BY DEF UnloadHalf
<1>2. CASE Publish
  <2>1. /\ UNCHANGED <<known, timer, stale>>
        /\ eval' = [eval EXCEPT !["start"] = "unload"] \/ UNCHANGED eval
    BY <1>2 DEF Publish, portVars
  <2>2. CASE eval' = [eval EXCEPT !["start"] = "unload"]
    <3>1. "start" \in Evaluators  BY DEF Evaluators
    <3>2. eval' \in [Evaluators -> {"idle", "unload", "register"}]  BY <1>1, <2>2
    <3>3. eval'["start"] = "unload"  BY <1>1, <2>2, <3>1
    <3>4. UnloadInv'  BY <3>1, <3>3 DEF UnloadInv
    <3> QED  BY <1>1, <2>1, <3>2, <3>4 DEF UnloadHalf
  <2> QED  BY <2>1, <2>2, UnloadKept
<1>3. CASE ManagePolicy
  <2>1. known' \in [Drivers -> States]
    BY <1>1, <1>3 DEF ManagePolicy, Drivers, States
  <2>2. stale' = TRUE /\ UNCHANGED eval  BY <1>3 DEF ManagePolicy
  <2>3. UnloadInv'  BY <2>2 DEF UnloadInv
  <2> QED  BY <1>1, <2>1, <2>2, <2>3 DEF UnloadHalf
<1>4. CASE TimerExpires
  <2>1. timer' = FALSE /\ UNCHANGED <<known, eval, stale>>
    BY <1>4 DEF TimerExpires, portVars
  <2>2. UnloadInv'  BY <1>1, <2>1 DEF UnloadInv, InUse
  <2> QED  BY <1>1, <2>1, <2>2 DEF UnloadHalf
<1>5. ASSUME NEW d \in Drivers, DeviceEvent(d) PROVE UnloadHalf'
  <2>1. PICK s \in States : known' = [known EXCEPT ![d] = s]
    BY <1>5 DEF DeviceEvent, AddDevice, States
  <2>2. eval' = [eval EXCEPT ![d] = "unload"]  BY <1>5 DEF DeviceEvent
  <2>3. d \in Evaluators  BY DEF Evaluators
  <2>4. known' \in [Drivers -> States]  BY <1>1, <2>1
  <2>5. eval' \in [Evaluators -> {"idle", "unload", "register"}]  BY <1>1, <2>2
  <2>6. eval'[d] = "unload"  BY <1>1, <2>2, <2>3
  <2>7. UnloadInv'  BY <2>3, <2>6 DEF UnloadInv
  <2> QED  BY <2>4, <2>5, <2>7 DEF UnloadHalf
<1> QED  BY <1>2, <1>3, <1>4, <1>5

(* UnLoadSelf looks while nobody else is between its look and the          *)
(* registration, and registers what it has seen.                           *)
LEMMA UnloadLooks ==
  ASSUME UnloadHalf, NEW e \in Evaluators, Evaluate(e)
  PROVE  UnloadHalf'
<1>1. /\ known \in [Drivers -> States]
      /\ eval \in [Evaluators -> {"idle", "unload", "register"}]
      /\ UnloadInv
  BY DEF UnloadHalf
<1>2. CASE UnLoadSelf(e)
  <2>1. /\ \A f \in Evaluators : eval[f] # "register"
        /\ timer' = FALSE
        /\ eval' = [eval EXCEPT ![e] = IF IsNotNeedUnload THEN "idle" ELSE "register"]
        /\ UNCHANGED known
    BY <1>2 DEF UnLoadSelf, TimerMutexFree, portVars
  <2>2. eval' \in [Evaluators -> {"idle", "unload", "register"}]  BY <1>1, <2>1
  <2>3. CASE IsNotNeedUnload
    <3>1. \A f \in Evaluators : eval'[f] # "register"  BY <1>1, <2>1, <2>3
    <3>2. UnloadInv'  BY <2>1, <3>1 DEF UnloadInv
    <3> QED  BY <1>1, <2>1, <2>2, <3>2 DEF UnloadHalf
  <2>4. CASE ~IsNotNeedUnload
    <3>1. ~InUse'  BY <2>1, <2>4 DEF IsNotNeedUnload, InUse
    <3>2. UnloadInv'  BY <3>1 DEF UnloadInv
    <3> QED  BY <1>1, <2>1, <2>2, <3>2 DEF UnloadHalf
  <2> QED  BY <2>3, <2>4
<1>3. CASE Register(e)
  <2>1. /\ eval[e] = "register" /\ eval' = [eval EXCEPT ![e] = "idle"]
        /\ UNCHANGED <<known, stale>>
    BY <1>3 DEF Register, portVars
  <2>2. eval' \in [Evaluators -> {"idle", "unload", "register"}]  BY <1>1, <2>1
  <2>3. ~InUse \/ stale \/ \E f \in Evaluators : eval[f] = "unload"
    BY <1>1, <2>1 DEF UnloadInv
  <2>4. \A f \in Evaluators : eval[f] = "unload" => eval'[f] = "unload"
    BY <1>1, <2>1
  <2>5. ~InUse' \/ stale' \/ \E f \in Evaluators : eval'[f] = "unload"
    BY <2>1, <2>3, <2>4 DEF InUse
  <2>6. UnloadInv'  BY <2>5 DEF UnloadInv
  <2> QED  BY <1>1, <2>1, <2>2, <2>6 DEF UnloadHalf
<1> QED  BY <1>2, <1>3 DEF Evaluate

(***************************************************************************)
(* The connection.                                                         *)
(***************************************************************************)
(* The service moves between its living states.                            *)
LEMMA ConnectionKept ==
  ASSUME ConnectionHalf, UNCHANGED <<clientVars, instance>>,
         sa' \in ServiceStates, sa' = "down" <=> sa = "down"
  PROVE  ConnectionHalf'
<1>1. UNCHANGED <<proxy, mutex, call, watched, notices, unlinked, objectless>>  BY DEF clientVars
<1>2. MutexInv'  BY <1>1 DEF ConnectionHalf, MutexInv
<1>3. InstanceInv'  BY <1>1 DEF ConnectionHalf, InstanceInv, Alive
<1>4. ProxyWatched'  BY <1>1 DEF ConnectionHalf, ProxyWatched
<1> QED  BY <1>1, <1>2, <1>3, <1>4 DEF ConnectionHalf

(* A new process gets a number that no proxy has.                          *)
LEMMA ConnectionStart ==
  ASSUME ConnectionHalf, OnStart
  PROVE  ConnectionHalf'
<1>1. /\ sa = "down" /\ sa' = "binding" /\ instance' = instance + 1
      /\ UNCHANGED <<proxy, mutex, call, watched, notices, unlinked, objectless>>
  BY DEF OnStart, clientVars
<1>2. /\ instance \in Nat /\ proxy \in Nat
      /\ watched \subseteq Nat /\ notices \subseteq Nat /\ unlinked \subseteq Nat
      /\ MutexInv /\ InstanceInv /\ ProxyWatched
  BY DEF ConnectionHalf
<1>3. MutexInv'  BY <1>1, <1>2 DEF MutexInv
<1>4. InstanceInv'  BY <1>1, <1>2 DEF InstanceInv, Alive
<1>5. ProxyWatched'  BY <1>1, <1>2 DEF ProxyWatched
<1>6. sa' \in ServiceStates /\ instance' \in Nat  BY <1>1, <1>2 DEF ServiceStates
<1> QED  BY <1>1, <1>3, <1>4, <1>5, <1>6 DEF ConnectionHalf

(* The process that ends tells everyone who watches it.                    *)
LEMMA ConnectionEnds ==
  ASSUME ConnectionHalf, UnloadHalf, Gone
  PROVE  ConnectionHalf' /\ UnloadHalf'
<1>1. /\ sa' = "down"
      /\ notices' = notices \union watched /\ watched' = {}
      /\ call' = [t \in Locals |-> IF call[t].pc \in {"served", "kept"}
                                   THEN After(t, call[t]) ELSE call[t]]
      /\ UNCHANGED <<instance, proxy, mutex, unlinked, objectless>>
  BY DEF Gone
<1>2. /\ instance \in Nat /\ proxy \in Nat
      /\ watched \subseteq Nat /\ notices \subseteq Nat /\ unlinked \subseteq Nat
      /\ call \in [Locals -> CallStates]
      /\ MutexInv /\ InstanceInv /\ ProxyWatched
  BY DEF ConnectionHalf
<1>a. \A t \in Locals : After(t, call[t]) \in CallStates
                          /\ After(t, call[t]).pc \in {"idle", "done"}
  BY <1>2 DEF After, CallStates, Places, Idle
<1>b. \A t \in Locals : call'[t] = IF call[t].pc \in {"served", "kept"}
                                    THEN After(t, call[t]) ELSE call[t]
  BY <1>1
<1>c. \A t \in Locals : call'[t] \in CallStates  BY <1>2, <1>a, <1>b
<1>d. \A t \in Locals :
         \/ call'[t] = call[t]
         \/ call[t].pc \notin Connecting \union {"link"}
              /\ call'[t].pc \notin Connecting \union {"link"}
  <2> TAKE t \in Locals
  <2>1. CASE call[t].pc \in {"served", "kept"}
    <3>1. call'[t] = After(t, call[t])  BY <1>b, <2>1
    <3>2. call'[t].pc \in {"idle", "done"}  BY <1>a, <3>1
    <3> QED  BY <2>1, <3>2 DEF Connecting
  <2>2. CASE call[t].pc \notin {"served", "kept"}
    <3>1. call'[t] = call[t]  BY <1>b, <2>2
    <3> QED  BY <3>1
  <2> QED  BY <2>1, <2>2
<1>e. call' \in [Locals -> CallStates]
  <2>1. call' = [t \in Locals |-> call'[t]]  BY <1>1
  <2> QED  BY <1>c, <2>1
<1>3. MutexInv'
  <2>1. mutex' = mutex  BY <1>1
  <2>2. \A t \in Locals : call[t].pc \in Connecting <=> mutex = t  BY <1>2 DEF MutexInv
  <2>3. \A t \in Locals : call'[t].pc \in Connecting <=> mutex' = t
    <3> TAKE t \in Locals
    <3>1. CASE call'[t] = call[t]  BY <2>1, <2>2, <3>1
    <3>2. CASE call[t].pc \notin Connecting /\ call'[t].pc \notin Connecting
      BY <2>1, <2>2, <3>2
    <3> QED  BY <1>d, <3>1, <3>2
  <2> QED  BY <2>3 DEF MutexInv
<1>4. InstanceInv'  BY <1>1, <1>2 DEF InstanceInv, Alive
<1>5. ProxyWatched'  BY <1>1, <1>2, <1>d DEF ProxyWatched
<1>6. sa' \in ServiceStates /\ notices' \subseteq Nat /\ watched' \subseteq Nat
  BY <1>1, <1>2 DEF ServiceStates
<1>7. ConnectionHalf'  BY <1>1, <1>3, <1>4, <1>5, <1>6, <1>e DEF ConnectionHalf
<1>8. known' = Nothing /\ eval' = AllIdle /\ timer' = FALSE  BY DEF Gone
<1>9. /\ known' \in [Drivers -> States]
      /\ eval' \in [Evaluators -> {"idle", "unload", "register"}]
      /\ UnloadInv'
  BY <1>8 DEF Nothing, AllIdle, States, UnloadInv
<1> QED  BY <1>7, <1>9 DEF UnloadHalf

(* A thread moves without touching the proxy.  One that is between the     *)
(* proxy and its death recipient does not.                                 *)
LEMMA CallMoves ==
  ASSUME ConnectionHalf, NEW t \in Locals, NEW x \in CallStates,
         call' = [call EXCEPT ![t] = x],
         call[t].pc # "link", x.pc # "link",
         \/ x.pc \notin Connecting /\ call[t].pc \notin Connecting /\ mutex' = mutex
         \/ x.pc \in Connecting /\ mutex \in {"free", t} /\ mutex' = t
         \/ x.pc \notin Connecting /\ mutex = t /\ mutex' = "free",
         UNCHANGED <<sa, instance, proxy, watched, notices, unlinked, objectless>>
  PROVE  ConnectionHalf'
<1>1. /\ call \in [Locals -> CallStates] /\ mutex \in Locals \union {"free"}
      /\ MutexInv /\ InstanceInv /\ ProxyWatched
  BY DEF ConnectionHalf
<1>2. \A u \in Locals : call'[u] = IF u = t THEN x ELSE call[u]  BY <1>1
<1>3. call' \in [Locals -> CallStates]  BY <1>1
<1>4. "free" \notin Locals  BY DEF Locals, Callers
<1>5. MutexInv' /\ mutex' \in Locals \union {"free"}
  BY <1>1, <1>2, <1>4 DEF MutexInv
<1>6. InstanceInv'  BY <1>1 DEF InstanceInv, Alive
<1>7. ProxyWatched'  BY <1>1, <1>2 DEF ProxyWatched
<1> QED  BY <1>3, <1>5, <1>6, <1>7 DEF ConnectionHalf

(* What Step and Return make of a thread's state.                          *)
LEMMA CallShapes ==
  ASSUME NEW x \in CallStates,
         NEW l \in Places
  PROVE  /\ [pc |-> l, how |-> x.how] \in CallStates
         /\ [pc |-> l, how |-> x.how].pc = l
         /\ [x EXCEPT !.pc = l] \in CallStates
         /\ [x EXCEPT !.pc = l].pc = l
         /\ Idle \in CallStates /\ Idle.pc = "idle"
BY DEF CallStates, Places, Idle

(* A method begins.                                                        *)
LEMMA MethodBegins ==
  ASSUME ConnectionHalf, NEW t \in Callers, NEW h \in {"check", "tested", "force"},
         Begin(t, h)
  PROVE  ConnectionHalf'
<1> DEFINE x == [pc |-> IF h = "tested" THEN "test" ELSE "lock", how |-> h]
<1>1. /\ call[t] = Idle /\ call' = [call EXCEPT ![t] = x]
      /\ UNCHANGED <<sa, instance, proxy, mutex, watched, notices, unlinked, objectless>>
  BY DEF Begin, serviceVars
<1>2. x \in CallStates /\ x.pc \notin Connecting /\ x.pc # "link"
  BY DEF CallStates, Places, Connecting
<1>3. t \in Locals  BY DEF Locals
<1>4. call[t].pc \notin Connecting /\ call[t].pc # "link"  BY <1>1 DEF Idle, Connecting
<1> HIDE DEF x
<1> QED  BY <1>1, <1>2, <1>3, <1>4, CallMoves

(* Connect, the test of the proxy, the call itself and the end of a        *)
(* promise: moves of one thread.                                           *)
LEMMA PlainMoves ==
  ASSUME ConnectionHalf, NEW t \in Locals,
         \/ Connect(t) \/ LoadSystemAbility(t) \/ ConnectFails(t)
         \/ TestProxy(t) \/ UseProxy(t) \/ (t = "worker" /\ Complete)
         \/ Answered(t, "served") \/ Answered(t, "kept")
  PROVE  ConnectionHalf'
<1>1. /\ call[t] \in CallStates
      /\ call[t].pc \in Connecting <=> mutex = t
  BY DEF ConnectionHalf, MutexInv
<1>2. UNCHANGED <<sa, instance, proxy, watched, notices, unlinked, objectless>>
  BY DEF Connect, LoadSystemAbility, ConnectFails, TestProxy, UseProxy, Answered,
         Complete, serviceVars
<1>3. ASSUME NEW l \in {"use", "connect", "load", "served", "kept"}, Step(t, l)
      PROVE  \E x \in CallStates : x.pc = l /\ call' = [call EXCEPT ![t] = x]
  BY <1>1, <1>3, CallShapes DEF Step, Places, Connecting
<1>4. ASSUME Return(t)
      PROVE  \E x \in CallStates : x.pc \in {"idle", "done"} /\ call' = [call EXCEPT ![t] = x]
  <2>1. call' = [call EXCEPT ![t] = After(t, call[t])]  BY <1>4 DEF Return
  <2>2. After(t, call[t]) \in CallStates /\ After(t, call[t]).pc \in {"idle", "done"}
    BY <1>1, CallShapes DEF After, Places
  <2> QED  BY <2>1, <2>2
<1>5. CASE Connect(t) /\ proxy # 0
  <2>1. call[t].pc = "lock" /\ Step(t, "use") /\ UNCHANGED mutex  BY <1>5 DEF Connect
  <2> QED  BY <1>2, <1>3, <2>1, CallMoves DEF Connecting
<1>6. CASE Connect(t) /\ proxy = 0
  <2>1. /\ call[t].pc = "lock" /\ Step(t, "connect") /\ mutex = "free" /\ mutex' = t
    BY <1>6 DEF Connect
  <2> QED  BY <1>2, <1>3, <2>1, CallMoves DEF Connecting
<1>7. CASE LoadSystemAbility(t)
  <2>1. call[t].pc = "connect" /\ Step(t, "load") /\ UNCHANGED mutex
    BY <1>7 DEF LoadSystemAbility
  <2>2. mutex = t  BY <1>1, <2>1 DEF Connecting
  <2> QED  BY <1>2, <1>3, <2>1, <2>2, CallMoves DEF Connecting
<1>8. CASE ConnectFails(t)
  <2>1. call[t].pc \in {"connect", "load"} /\ Return(t) /\ mutex' = "free"
    BY <1>8 DEF ConnectFails
  <2>2. mutex = t  BY <1>1, <2>1 DEF Connecting
  <2> QED  BY <1>2, <1>4, <2>1, <2>2, CallMoves DEF Connecting
<1>9. CASE TestProxy(t)
  <2>1. call[t].pc = "test" /\ (Return(t) \/ Step(t, "use")) /\ UNCHANGED mutex
    BY <1>9 DEF TestProxy
  <2> QED  BY <1>2, <1>3, <1>4, <2>1, CallMoves DEF Connecting
<1>10. CASE UseProxy(t) /\ proxy # 0
  <2>1. /\ call[t].pc = "use" /\ UNCHANGED mutex
        /\ Return(t) \/ Step(t, "served") \/ Step(t, "kept")
    BY <1>10 DEF UseProxy
  <2> QED  BY <1>2, <1>3, <1>4, <2>1, CallMoves DEF Connecting
<1>11. CASE UseProxy(t) /\ proxy = 0
  <2>1. UNCHANGED <<call, mutex>>  BY <1>11 DEF UseProxy
  <2>2. MutexInv' /\ InstanceInv' /\ ProxyWatched'
    BY <1>2, <2>1 DEF ConnectionHalf, MutexInv, InstanceInv, ProxyWatched, Alive
  <2> QED  BY <1>2, <2>1, <2>2 DEF ConnectionHalf
<1>12. CASE t = "worker" /\ Complete
  <2>1. /\ call[t].pc = "done" /\ call' = [call EXCEPT ![t] = Idle] /\ UNCHANGED mutex
    BY <1>12 DEF Complete
  <2>2. Idle \in CallStates /\ Idle.pc = "idle"  BY DEF Idle, CallStates, Places
  <2> QED  BY <1>2, <2>1, <2>2, CallMoves DEF Connecting
<1>13. CASE Answered(t, "served") \/ Answered(t, "kept")
  <2>1. call[t].pc \in {"served", "kept"} /\ Return(t) /\ UNCHANGED mutex
    BY <1>13 DEF Answered
  <2> QED  BY <1>2, <1>4, <2>1, CallMoves DEF Connecting
<1> QED  BY <1>5, <1>6, <1>7, <1>8, <1>9, <1>10, <1>11, <1>12, <1>13

(* ConnectUnLocked sets the proxy and is then to watch it.                 *)
LEMMA ProxyIsSet ==
  ASSUME ConnectionHalf, NEW t \in Locals, ConnectUnLocked(t)
  PROVE  ConnectionHalf'
<1> DEFINE x == [pc |-> "link", how |-> call[t].how]
<1>1. /\ call[t].pc \in {"connect", "load"} /\ proxy' = instance
      /\ call' = [call EXCEPT ![t] = x]
      /\ UNCHANGED <<sa, instance, mutex, watched, notices, unlinked, objectless>>
  BY DEF ConnectUnLocked, Step, serviceVars
<1>2. /\ call \in [Locals -> CallStates] /\ instance \in Nat
      /\ MutexInv /\ InstanceInv
  BY DEF ConnectionHalf
<1>3. x \in CallStates /\ x.pc = "link"  BY <1>2, CallShapes DEF Places, Connecting
<1> HIDE DEF x
<1>4. \A u \in Locals : call'[u] = IF u = t THEN x ELSE call[u]  BY <1>1, <1>2
<1>5. call' \in [Locals -> CallStates]  BY <1>1, <1>2, <1>3
<1>6. MutexInv'  BY <1>1, <1>2, <1>3, <1>4 DEF MutexInv, Connecting
<1>7. InstanceInv'  BY <1>1, <1>2 DEF InstanceInv, Alive
<1>8. ProxyWatched'  BY <1>3, <1>4 DEF ProxyWatched
<1> QED  BY <1>1, <1>2, <1>5, <1>6, <1>7, <1>8 DEF ConnectionHalf

(* AddDeathRecipient watches the living instance; it can only fail for one *)
(* that has gone.                                                          *)
LEMMA ProxyIsLinked ==
  ASSUME ConnectionHalf, NEW t \in Locals, AddDeathRecipient(t)
  PROVE  ConnectionHalf'
<1> DEFINE x == IF t = "death" THEN Idle ELSE [call[t] EXCEPT !.pc = "use"]
<1>1. /\ call[t].pc = "link" /\ mutex' = "free"
      /\ call' = [call EXCEPT ![t] = x]
      /\ UNCHANGED <<sa, instance, proxy, notices, objectless>>
  BY DEF AddDeathRecipient, serviceVars
<1>2. /\ call \in [Locals -> CallStates] /\ instance \in Nat /\ proxy \in Nat
      /\ watched \subseteq Nat /\ unlinked \subseteq Nat /\ notices \subseteq Nat
      /\ MutexInv /\ InstanceInv
  BY DEF ConnectionHalf
<1>3. x \in CallStates /\ x.pc \in {"idle", "use"}  BY <1>2, CallShapes DEF Places
<1> HIDE DEF x
<1>4. \A u \in Locals : call'[u] = IF u = t THEN x ELSE call[u]  BY <1>1, <1>2
<1>5. call' \in [Locals -> CallStates]  BY <1>1, <1>2, <1>3
<1>6. mutex = t  BY <1>1, <1>2 DEF MutexInv, Connecting
<1>7. "free" \notin Locals  BY DEF Locals, Callers
<1>8. MutexInv'  BY <1>1, <1>2, <1>3, <1>4, <1>6, <1>7 DEF MutexInv, Connecting
<1>9. CASE Alive /\ proxy = instance
  <2>1. watched' = watched \union {proxy} /\ UNCHANGED unlinked
    BY <1>9 DEF AddDeathRecipient
  <2>2. InstanceInv'  BY <1>1, <1>2, <1>9, <2>1 DEF InstanceInv, Alive
  <2>3. ProxyWatched'  BY <1>1, <2>1 DEF ProxyWatched
  <2> QED  BY <1>1, <1>2, <1>5, <1>8, <2>1, <2>2, <2>3 DEF ConnectionHalf
<1>10. CASE ~(Alive /\ proxy = instance)
  <2>1. unlinked' = unlinked \union {proxy} /\ UNCHANGED watched
    BY <1>10 DEF AddDeathRecipient
  <2>2. proxy < instance \/ (proxy = instance /\ ~Alive)
    BY <1>2, <1>10 DEF InstanceInv
  <2>3. InstanceInv'  BY <1>1, <1>2, <2>1, <2>2 DEF InstanceInv, Alive
  <2>4. ProxyWatched'  BY <1>1, <2>1 DEF ProxyWatched
  <2> QED  BY <1>1, <1>2, <1>5, <1>8, <2>1, <2>3, <2>4 DEF ConnectionHalf
<1> QED  BY <1>9, <1>10

(* A proxy without a remote object is noted.                               *)
LEMMA ProxyIsObjectless ==
  ASSUME ConnectionHalf, NEW t \in Locals, DeadObject(t)
  PROVE  ConnectionHalf'
<1> DEFINE x == After(t, call[t])
<1>1. /\ call[t].pc = "link" /\ mutex' = "free"
      /\ call' = [call EXCEPT ![t] = x]
      /\ objectless' = objectless \union {proxy}
      /\ UNCHANGED <<sa, instance, proxy, watched, notices, unlinked>>
  BY DEF DeadObject, Return, serviceVars
<1>2. /\ call \in [Locals -> CallStates] /\ proxy \in Nat /\ objectless \subseteq Nat
      /\ MutexInv /\ InstanceInv
  BY DEF ConnectionHalf
<1>3. x \in CallStates /\ x.pc \in {"idle", "done"}  BY <1>2, CallShapes DEF After, Places
<1> HIDE DEF x
<1>4. \A u \in Locals : call'[u] = IF u = t THEN x ELSE call[u]  BY <1>1, <1>2
<1>5. call' \in [Locals -> CallStates]  BY <1>1, <1>2, <1>3
<1>6. mutex = t  BY <1>1, <1>2 DEF MutexInv, Connecting
<1>7. "free" \notin Locals  BY DEF Locals, Callers
<1>8. MutexInv'  BY <1>1, <1>2, <1>3, <1>4, <1>6, <1>7 DEF MutexInv, Connecting
<1>9. InstanceInv'  BY <1>1, <1>2 DEF InstanceInv, Alive
<1>10. ProxyWatched'  BY <1>1 DEF ProxyWatched
<1>11. objectless' \subseteq Nat  BY <1>1, <1>2
<1> QED  BY <1>1, <1>5, <1>8, <1>9, <1>10, <1>11 DEF ConnectionHalf

(* The death notice takes away the proxy it is about and no other.         *)
LEMMA ProxyIsReset ==
  ASSUME ConnectionHalf, NEW i \in notices, ResetProxy(i)
  PROVE  ConnectionHalf'
<1>1. /\ mutex = "free" /\ notices' = notices \ {i}
      /\ UNCHANGED <<sa, instance, watched, unlinked, objectless>>
  BY DEF ResetProxy, serviceVars
<1>2. /\ call \in [Locals -> CallStates] /\ instance \in Nat /\ notices \subseteq Nat
      /\ MutexInv /\ InstanceInv /\ ProxyWatched
  BY DEF ConnectionHalf
<1>3. CASE proxy # i /\ UNCHANGED <<proxy, mutex, call>>
  <2>1. MutexInv'  BY <1>2, <1>3 DEF MutexInv
  <2>2. InstanceInv'  BY <1>1, <1>2, <1>3 DEF InstanceInv, Alive
  <2>3. ProxyWatched'  BY <1>1, <1>2, <1>3 DEF ProxyWatched
  <2> QED  BY <1>1, <1>2, <1>3, <2>1, <2>2, <2>3 DEF ConnectionHalf
<1>4. CASE /\ proxy' = 0 /\ mutex' = "death"
           /\ call' = [call EXCEPT !["death"] = [pc |-> "connect", how |-> "check"]]
  <2> DEFINE x == [pc |-> "connect", how |-> "check"]
  <2>1. "death" \in Locals /\ "free" \notin Locals  BY DEF Locals, Callers
  <2>2. x \in CallStates /\ x.pc = "connect"  BY DEF CallStates, Places, Connecting
  <2>3. call' = [call EXCEPT !["death"] = x]  BY <1>4
  <2> HIDE DEF x
  <2>4. call' \in [Locals -> CallStates]  BY <1>2, <2>2, <2>3
  <2>5. \A u \in Locals : call'[u] = IF u = "death" THEN x ELSE call[u]  BY <1>2, <2>3
  <2>6. MutexInv'  BY <1>1, <1>2, <1>4, <2>1, <2>2, <2>5 DEF MutexInv, Connecting
  <2>7. InstanceInv'  BY <1>1, <1>2, <1>4 DEF InstanceInv, Alive
  <2>8. ProxyWatched'  BY <1>4 DEF ProxyWatched
  <2> QED  BY <1>1, <1>2, <1>4, <2>1, <2>4, <2>6, <2>7, <2>8 DEF ConnectionHalf
<1> QED  BY <1>3, <1>4 DEF ResetProxy

(***************************************************************************)
(* The invariant.                                                          *)
(***************************************************************************)
(* Every function of every binding begins one of the three kinds of call.  *)
LEMMA AnyMethod ==
  ASSUME Js \/ \E t \in Callers : Native(t) \/ ArkTs(t)
  PROVE  \E t \in Callers, h \in {"check", "tested", "force"} : Begin(t, h)
<1>1. "js" \in Callers /\ "worker" \in Callers  BY DEF Callers
<1> USE DEF DeviceMethods, PipeMethods, DescriptorMethods, RequestMethods, RightMethods,
            PolicyMethods, SpeedMethods, FunctionMethods, AccessoryMethods, PortMethods,
            SerialMethods, Promise
<1>2. CASE Js
  BY <1>1, <1>2 DEF Js, CoreGetDevices, CoreRights, CoreRequestRight, CoreFunctions,
     CoreSetCurrentFunctions, CorePorts, PortSetPortRole, DeviceGetAccessoryList,
     DeviceOpenAccessory, DeviceAddRight, DeviceHasAccessoryRight,
     DeviceRequestAccessoryRight, SerialAttribute, SerialWriteSync, SerialWrite,
     SerialReadSync, SerialRead, SerialOpen, SerialRights, SerialRequestRight, Pipe
<1>3. ASSUME NEW t \in Callers, Native(t)
      PROVE  \E h \in {"check", "tested", "force"} : Begin(t, h)
  BY <1>3 DEF Native
<1>4. ASSUME NEW t \in Callers, ArkTs(t)
      PROVE  \E h \in {"check", "tested", "force"} : Begin(t, h)
  BY <1>4 DEF ArkTs, AniDevices, AniFunctions, AniPorts, AniInterfaces, AniTransfers,
     AniAccessory, AniSerial, AniSerialRead
<1> QED  BY <1>2, <1>3, <1>4

(* No step of the client touches what the unloading depends on.            *)
LEMMA ClientApart ==
  ASSUME \/ \E t \in Callers, h \in {"check", "tested", "force"} : Begin(t, h)
         \/ \E t \in Locals : Progress(t) \/ Answered(t, "kept")
         \/ \E i \in notices : ResetProxy(i)
         \/ Complete
  PROVE  UNCHANGED <<known, eval, timer, stale>>
<1> USE DEF portVars, unloadVars
<1>1. CASE \E t \in Callers, h \in {"check", "tested", "force"} : Begin(t, h)
  BY <1>1 DEF Begin
<1>2. ASSUME NEW t \in Locals, Progress(t) \/ Answered(t, "kept")
      PROVE  UNCHANGED <<known, eval, timer, stale>>
  BY <1>2 DEF Progress, Connect, LoadSystemAbility, ConnectUnLocked, ConnectFails,
     AddDeathRecipient, DeadObject, TestProxy, UseProxy, Answered
<1>3. CASE \E i \in notices : ResetProxy(i)  BY <1>3 DEF ResetProxy
<1>4. CASE Complete  BY <1>4 DEF Complete
<1> QED  BY <1>1, <1>2, <1>3, <1>4

(* The invariant holds at the start ...                                    *)
LEMMA ClientInvInit == Init => ClientInv
<1> SUFFICES ASSUME Init PROVE UnloadHalf /\ ConnectionHalf
  BY TwoHalves
<1>1. UnloadHalf
  BY DEF Init, UnloadHalf, Nothing, AllIdle, States, UnloadInv
<1>2. Idle \in CallStates /\ Idle.pc \notin Connecting
  BY DEF Idle, CallStates, Places, Connecting
<1>3. call \in [Locals -> CallStates] /\ mutex = "free"  BY <1>2 DEF Init
<1>4. "free" \notin Locals  BY DEF Locals, Callers
<1>5. MutexInv  BY <1>2, <1>3, <1>4 DEF Init, MutexInv
<1>6. InstanceInv /\ ProxyWatched  BY DEF Init, InstanceInv, ProxyWatched
<1>7. ConnectionHalf
  BY <1>3, <1>5, <1>6 DEF Init, ConnectionHalf, ServiceStates
<1> QED  BY <1>1, <1>7

(* ... and after every step of the service, its surroundings and the       *)
(* client.                                                                 *)
LEMMA ClientInvNext == ClientInv /\ [Next]_vars => ClientInv'
<1> SUFFICES ASSUME UnloadHalf, ConnectionHalf, [Next]_vars
             PROVE  UnloadHalf' /\ ConnectionHalf'
  <2>1. ClientInv' <=> UnloadHalf' /\ ConnectionHalf'  BY TwoHalves, PTL
  <2> QED  BY <2>1, TwoHalves
<1>1. sa \in ServiceStates  BY DEF ConnectionHalf
<1>2. CASE UNCHANGED vars
  <2>1. UNCHANGED <<known, eval, timer, stale, clientVars, sa, instance>>
    BY <1>2 DEF vars, serviceVars, portVars, unloadVars
  <2> QED  BY <1>1, <2>1, UnloadKept, ConnectionKept
<1>3. CASE OnStart
  <2>1. UNCHANGED <<known, eval, timer, stale>>
    BY <1>3 DEF OnStart, portVars, unloadVars
  <2> QED  BY <1>3, <2>1, UnloadKept, ConnectionStart
<1>4. CASE WaitUsbdService
  <2>1. UNCHANGED <<known, eval, timer, stale, clientVars, instance>>
    BY <1>4 DEF WaitUsbdService, unloadVars
  <2>2. sa = "binding" /\ sa' \in {"publishing", "binding"}  BY <1>4 DEF WaitUsbdService
  <2> QED  BY <2>1, <2>2, UnloadKept, ConnectionKept DEF ServiceStates
<1>5. CASE Publish
  <2>1. /\ UNCHANGED <<clientVars, instance>>
        /\ sa = "publishing" /\ sa' \in {"ready", "unpublished"}
    BY <1>5 DEF Publish
  <2> QED  BY <1>5, <2>1, UnloadChanges, ConnectionKept DEF ServiceStates
<1>6. CASE \E d \in Drivers : Plug(d)
  <2>1. UNCHANGED <<known, eval, timer, stale, clientVars, sa, instance>>
    BY <1>6 DEF Plug, unloadVars
  <2> QED  BY <1>1, <2>1, UnloadKept, ConnectionKept
<1>7. CASE \E d \in Drivers : DeviceEvent(d)
  <2>1. UNCHANGED <<clientVars, sa, instance>>  BY <1>7 DEF DeviceEvent, serviceVars
  <2> QED  BY <1>1, <1>7, <2>1, UnloadChanges, ConnectionKept
<1>8. CASE ManagePolicy \/ TimerExpires
  <2>1. UNCHANGED <<clientVars, sa, instance>>
    BY <1>8 DEF ManagePolicy, TimerExpires, serviceVars
  <2> QED  BY <1>1, <1>8, <2>1, UnloadChanges, ConnectionKept
<1>9. ASSUME NEW e \in Evaluators, Evaluate(e) PROVE UnloadHalf' /\ ConnectionHalf'
  <2>1. UNCHANGED <<clientVars, sa, instance>>
    BY <1>9 DEF Evaluate, UnLoadSelf, Register, serviceVars
  <2> QED  BY <1>1, <1>9, <2>1, UnloadLooks, ConnectionKept
<1>10. CASE Unload
  <2>1. UNCHANGED <<known, eval, timer, stale, clientVars, instance>>
    BY <1>10 DEF Unload, portVars
  <2>2. sa' = sa \/ (sa = "ready" /\ sa' = "stopping")  BY <1>10 DEF Unload
  <2> QED  BY <1>1, <2>1, <2>2, UnloadKept, ConnectionKept DEF ServiceStates
<1>11. CASE OnStop
  <2>1. UNCHANGED <<known, eval, timer, stale, clientVars, sa, instance>>
    BY <1>11 DEF OnStop, unloadVars
  <2> QED  BY <1>1, <2>1, UnloadKept, ConnectionKept
<1>12. CASE Exit \/ Crash
  BY <1>12, ConnectionEnds DEF Exit, Crash
<1>13. CASE \/ \E t \in Callers, h \in {"check", "tested", "force"} : Begin(t, h)
            \/ \E t \in Locals : Progress(t) \/ Answered(t, "kept")
            \/ \E i \in notices : ResetProxy(i)
            \/ Complete
  <2>1. UnloadHalf'  BY <1>13, ClientApart, UnloadKept
  <2>2. ASSUME NEW t \in Locals, Progress(t) \/ Answered(t, "kept") PROVE ConnectionHalf'
    BY <2>2, PlainMoves, ProxyIsSet, ProxyIsLinked, ProxyIsObjectless DEF Progress
  <2>3. CASE Complete
    <3>1. PICK t \in Locals : t = "worker"  BY DEF Locals, Callers
    <3> QED  BY <2>1, <2>3, <3>1, PlainMoves
  <2> QED  BY <1>13, <2>1, <2>2, <2>3, MethodBegins, ProxyIsReset
<1> QED  BY <1>2, <1>3, <1>4, <1>5, <1>6, <1>7, <1>8, <1>9, <1>10, <1>11, <1>12, <1>13,
            AnyMethod DEF Next

(* ClientInv holds in every reachable state, for any number of attempts to *)
(* bind and of events, calls, crashes, policies and refusals.              *)
THEOREM ClientInvariant == Spec => []ClientInv
BY ClientInvInit, ClientInvNext, PTL DEF Spec

(* The unloading task is registered only while nothing is connected, or a  *)
(* thread is still to look, or device management has changed a device.     *)
THEOREM TimerOnlyIdle == Spec => []TimerMeansIdle
<1>1. ClientInv => TimerMeansIdle  BY DEF ClientInv, UnloadInv, TimerMeansIdle
<1> QED  BY <1>1, ClientInvariant, PTL

(* The proxy's instance is watched, or was told dead, or could not be.     *)
THEOREM ProxyIsWatched == Spec => []ProxyWatched
<1>1. ClientInv => ProxyWatched  BY DEF ClientInv
<1> QED  BY <1>1, ClientInvariant, PTL

(* A client never holds the proxy of the living service without watching   *)
(* it, but for one without a remote object: the result of                  *)
(* AddDeathRecipient that ConnectUnLocked drops is an error only of an     *)
(* instance that has gone.                                                 *)
THEOREM LivingProxyIsWatched == Spec => []LivingProxyWatched
<1>1. ClientInv => LivingProxyWatched
  <2> SUFFICES ASSUME ClientInv, Alive, proxy = instance, proxy # 0
               PROVE  proxy \in watched \union objectless \/ \E t \in Locals : call[t].pc = "link"
    BY DEF LivingProxyWatched
  <2>1. instance \in Nat /\ ProxyWatched /\ InstanceInv  BY DEF ClientInv, TypeOK
  <2>2. proxy \notin notices \union unlinked  BY <2>1 DEF InstanceInv
  <2> QED  BY <2>1, <2>2 DEF ProxyWatched
<1> QED  BY <1>1, ClientInvariant, PTL
=============================================================================
