----------------------- MODULE UsbHostManagerProofs -----------------------
(***************************************************************************)
(* Proofs about UsbHostManager for any devices, types, ids and policies.   *)
(***************************************************************************)
EXTENDS UsbHostManager, TLAPS

(* What a policy makes of the strategy is a list of walks.                 *)
LEMMA StrategyPlanType ==
  ASSUME NEW pol, NEW off
  PROVE  StrategyPlan(pol, off) \in Seq(Items)
<1> DEFINE A == IF off THEN <<"serialOff">> ELSE <<>>
           B == IF pol.kind \in {"types", "trust"} THEN <<pol.kind>> ELSE <<>>
<1>0. "serialOff" \in Items
  BY DEF Items, Walks
<1>1. A \in Seq(Items)
  BY <1>0
<1>2. B \in Seq(Items)
  <2>1. CASE pol.kind = "types"
    BY <2>1 DEF Items, Walks
  <2>2. CASE pol.kind = "trust"
    BY <2>2 DEF Items, Walks
  <2>3. CASE pol.kind \notin {"types", "trust"}
    BY <2>3
  <2> QED
    BY <2>1, <2>2, <2>3
<1>3. A \o B \in Seq(Items)
  BY <1>1, <1>2
<1>4. <<"globalOff">> \in Seq(Items)
  BY DEF Items, Walks
<1> QED
  BY <1>3, <1>4 DEF StrategyPlan

(* Jobs for a set of devices.                                              *)
LEMMA JobSets ==
  ASSUME TypeOK, NEW S \in SUBSET Present, NEW R
  PROVE  /\ \A j \in DeviceJobs(S, R) : j \in Jobs /\ j.dev \in Present
         /\ \A j \in InterfaceJobs(S, R) : j \in Jobs /\ j.dev \in Present
<1>1. ASSUME NEW j \in DeviceJobs(S, R)
      PROVE  j \in Jobs /\ j.dev \in Present
  <2>1. PICK d \in S : j = Job(d, "device", d \in R)
    BY DEF DeviceJobs
  <2>2. d \in Devs /\ (d \in R) \in BOOLEAN
    BY DEF Present
  <2> QED
    BY <2>1, <2>2 DEF Jobs, Job
<1>2. ASSUME NEW j \in InterfaceJobs(S, R)
      PROVE  j \in Jobs /\ j.dev \in Present
  <2>1. PICK d \in S : j = Job(d, "interface", d \in R)
    BY DEF InterfaceJobs
  <2>2. d \in Devs /\ (d \in R) \in BOOLEAN
    BY DEF Present
  <2> QED
    BY <2>1, <2>2 DEF Jobs, Job
<1> QED
  BY <1>1, <1>2

(* The jobs of a walk are about devices in devices_.                       *)
LEMMA JobsOfPresent ==
  ASSUME TypeOK, serialDevs \subseteq Present, NEW walk \in Walks, NEW S
  PROVE  /\ JobsOf(walk, S) \subseteq Jobs
         /\ \A j \in JobsOf(walk, S) : j.dev \in Present
<1>1. CASE walk = "globalOff"
  BY <1>1, JobSets DEF JobsOf, ManageGlobalInterfaceImpl
<1>2. CASE walk = "globalOn"
  BY <1>2, JobSets DEF JobsOf, ManageGlobalInterfaceImpl
<1>3. CASE walk = "types"
  BY <1>3, JobSets DEF JobsOf, ExecuteManageInterfaceType
<1>9. CASE walk = "onlyTypes"
  BY <1>9, JobSets DEF JobsOf, ExecuteManageInterfaceType
<1>4. CASE walk = "trust"
  BY <1>4, JobSets DEF JobsOf, ExecuteManageDevicePolicy
<1>5. CASE walk = "deviceOff"
  BY <1>5, JobSets DEF JobsOf, ManageDeviceImpl
<1>6. CASE walk = "deviceOn"
  BY <1>6, JobSets DEF JobsOf, ManageDeviceImpl
<1>7. CASE walk = "serialOff"
  BY <1>7, JobSets DEF JobsOf, ManageUsbSerialDevice
<1>8. CASE walk = "serialOn"
  BY <1>8, JobSets DEF JobsOf, ManageUsbSerialDevice
<1> QED
  BY <1>1, <1>2, <1>3, <1>4, <1>5, <1>6, <1>7, <1>8, <1>9 DEF Walks

(* Plans and positions the actions write.                                  *)
LEMMA Literals ==
  /\ \A w \in Items : <<w>> \in Seq(Items)
  /\ <<>> \in Seq(Items)
  /\ <<"serialOn", "strategy">> \in Seq(Items)
  /\ "strategy" \in Items /\ Walks \subseteq Items
  /\ {"insert", "recorded", "next", "walk", "authorize", "enable"} \subseteq Pcs
  /\ {"event", "admin", "watch", "load"} \subseteq Threads
  BY DEF Items, Walks, Pcs, Threads

(* The record of an idle thread.                                           *)
LEMMA IdleType == Idle \in Calls
  BY DEF Idle, Calls, Pcs, PolicyType, OneOff, NoPolicy, Status

(* What a thread has still to do in its walk are jobs.                     *)
LEMMA TodoAreJobs ==
  ASSUME TypeOK, NEW t \in Threads
  PROVE  call[t].todo \subseteq Jobs
<1>1. call[t] \in Calls
  BY DEF TypeOK
<1> QED
  BY <1>1 DEF Calls

(* The history variable disturbed gains no device but the one looked at.   *)
LEMMA DisturbType ==
  ASSUME TypeOK, NEW t, NEW d \in Devs, Disturb(t, d)
  PROVE  disturbed' \subseteq Devs
  BY DEF TypeOK, Disturb

(* The history variable excused stays a set of devices.                    *)
LEMMA AppliedType ==
  ASSUME TypeOK, NEW t, NEW d, Applied(t, d)
  PROVE  excused' \subseteq Devs
  BY DEF TypeOK, Applied

(* A thread's new call, and the other threads' calls.                      *)
LEMMA NewCall ==
  ASSUME TypeOK, NEW t \in Threads, NEW c \in Calls, Update(t, c)
  PROVE  /\ call' \in [Threads -> Calls]
         /\ call'[t] = c
         /\ \A u \in Threads : u # t => call'[u] = call[u]
  BY DEF TypeOK, Update

(* No device is there, nothing is running.                                 *)
LEMMA HostInvInit == Init => HostInv
<1> SUFFICES ASSUME Init PROVE HostInv
  OBVIOUS
<1>2. TypeOK
  BY IdleType, HostAssumption DEF Init, TypeOK, Status
<1>3. LockInv
  BY DEF Init, LockInv, Idle, Threads
<1>4. EntryInv
  BY DEF Init, EntryInv, Idle, Threads, Present
<1>5. DecisionInv
  BY DEF Init, DecisionInv, DecidesOn, Deciding, Idle, Threads
<1> QED
  BY <1>2, <1>3, <1>4, <1>5 DEF HostInv

(* Every step of the four threads and of what surrounds them keeps it.     *)
LEMMA HostInvStep == HostInv /\ [Next]_vars => HostInv'
<1> SUFFICES ASSUME HostInv, [Next]_vars
             PROVE  HostInv'
  OBVIOUS
<1> USE DEF HostInv, deviceVars, edmVars, paramVars, kernelVars
<1>1. ASSUME NEW d \in Devs, AddEvent(d)
      PROVE  HostInv'
  <2>1. "event" \in Threads /\ call["event"] \in Calls
    BY Literals DEF TypeOK
  <2>2. [call["event"] EXCEPT !.pc = "insert"] \in Calls
    BY <2>1, Literals DEF Calls
  <2>3. /\ call' \in [Threads -> Calls]
        /\ call'["event"] = [call["event"] EXCEPT !.pc = "insert"]
        /\ \A u \in Threads : u # "event" => call'[u] = call[u]
    BY <1>1, <2>1, <2>2, NewCall DEF AddEvent, Input, Goto
  <2>4. /\ call'["event"].pc = "insert"
        /\ call'["event"].todo = call["event"].todo
        /\ call'["event"].dev = call["event"].dev
        /\ call'["event"].on = call["event"].on
        /\ call'["event"].was = call["event"].was
        /\ \A u \in Threads : u # "event" => call'[u] = call[u]
    BY <2>1, <2>3 DEF Calls
  <2>5. TypeOK'
    BY <1>1, <2>3, HostAssumption DEF AddEvent, Input, TypeOK
  <2>6. LockInv'
    BY <1>1, <2>1, <2>4 DEF AddEvent, Input, LockInv, Reader, Deciding,
       LockFree
  <2>7. EntryInv'
    BY <1>1, <2>1, <2>4 DEF AddEvent, Input, LockInv, EntryInv, Present,
       Disturb
  <2>8. DecisionInv'
    BY <1>1, <2>1, <2>4 DEF AddEvent, Input, LockInv, EntryInv,
       DecisionInv, DecidesOn, Deciding, NeedsChange, Present, Disturb
  <2> QED
    BY <2>5, <2>6, <2>7, <2>8
<1>2. ASSUME NEW d \in Devs, DelDevice(d)
      PROVE  HostInv'
  <2>3. call' = call
    BY <1>2 DEF DelDevice, Input
  <2>5. TypeOK'
    BY <1>2, <2>3, HostAssumption DEF DelDevice, Input, TypeOK, Status
  <2>6. LockInv'
    BY <1>2, <2>3, Literals DEF DelDevice, Input, LockInv, Reader,
       Deciding, LockFree
  <2>7. EntryInv'
    BY <1>2, <2>3, Literals DEF DelDevice, Input, LockInv, EntryInv,
       Present, Disturb, LockFree, Reader, Deciding, TypeOK
  <2>8. DecisionInv'
    BY <1>2, <2>3, Literals DEF DelDevice, Input, LockInv, EntryInv,
       DecisionInv, DecidesOn, Deciding, NeedsChange, Present, Disturb,
       LockFree, Reader, TypeOK
  <2> QED
    BY <2>5, <2>6, <2>7, <2>8
<1>3. CASE AddDevice
  <2>1. "event" \in Threads /\ call["event"] \in Calls
    BY Literals DEF TypeOK
  <2>2. [call["event"] EXCEPT !.pc = "recorded"] \in Calls
    BY <2>1, Literals DEF Calls
  <2>3. /\ call' \in [Threads -> Calls]
        /\ call'["event"] = [call["event"] EXCEPT !.pc = "recorded"]
        /\ \A u \in Threads : u # "event" => call'[u] = call[u]
    BY <1>3, <2>1, <2>2, NewCall DEF AddDevice, Alone, Goto
  <2>4. /\ call'["event"].pc = "recorded"
        /\ call'["event"].todo = call["event"].todo
        /\ call'["event"].dev = call["event"].dev
        /\ call'["event"].on = call["event"].on
        /\ call'["event"].was = call["event"].was
        /\ \A u \in Threads : u # "event" => call'[u] = call[u]
    BY <2>1, <2>3 DEF Calls
  <2>t1. adding \in Devs /\ adding \notin disturbed =>
         status[adding] = "absent"
    BY <1>3 DEF AddDevice, LockInv, EntryInv, Present
  <2>t2. \A u \in Threads : ~Deciding(u)' /\ call'[u].pc # "enable"
    BY <1>3, <2>4 DEF AddDevice, LockFree, Reader, Deciding
  <2>t3. status' = [status EXCEPT ![adding] = "new"] /\ status \in
         [Devs -> Status]
    BY <1>3 DEF AddDevice, TypeOK
  <2>5. TypeOK'
    BY <1>3, <2>3, HostAssumption DEF AddDevice, Alone, TypeOK, Status
  <2>6. LockInv'
    BY <1>3, <2>1, <2>4 DEF AddDevice, Alone, LockInv, Reader, Deciding,
       LockFree
  <2>7. EntryInv'
    BY <1>3, <2>1, <2>4, <2>t1, <2>t3 DEF AddDevice, Alone, LockInv,
       EntryInv, Present, Disturb
  <2>8. DecisionInv'
    BY <2>1, <2>t1, <2>t2, <2>t3, <1>3 DEF AddDevice, kernelVars,
       DecisionInv, DecidesOn, Deciding
  <2> QED
    BY <2>5, <2>6, <2>7, <2>8
<1>4. CASE AddUsbSerialDevice
  <2>1. "event" \in Threads /\ call["event"] \in Calls
    BY Literals DEF TypeOK
  <2>2. [call["event"] EXCEPT !.pc = "next", !.plan =
         <<"strategy">>] \in Calls
    BY <2>1, Literals DEF Calls
  <2>3. /\ call' \in [Threads -> Calls]
        /\ call'["event"] = [call["event"] EXCEPT !.pc = "next",
               !.plan = <<"strategy">>]
        /\ \A u \in Threads : u # "event" => call'[u] = call[u]
    BY <1>4, <2>1, <2>2, NewCall DEF AddUsbSerialDevice
  <2>4. /\ call'["event"].pc = "next"
        /\ call'["event"].todo = call["event"].todo
        /\ call'["event"].dev = call["event"].dev
        /\ call'["event"].on = call["event"].on
        /\ call'["event"].was = call["event"].was
        /\ \A u \in Threads : u # "event" => call'[u] = call[u]
    BY <2>1, <2>3 DEF Calls
  <2>5. TypeOK'
    BY <1>4, <2>3, HostAssumption DEF AddUsbSerialDevice, TypeOK
  <2>6. LockInv'
    BY <1>4, <2>1, <2>4 DEF AddUsbSerialDevice, LockInv, Reader,
       Deciding, LockFree
  <2>7. EntryInv'
    BY <1>4, <2>1, <2>4 DEF AddUsbSerialDevice, LockInv, EntryInv,
       Present, Disturb
  <2>8. DecisionInv'
    BY <1>4, <2>1, <2>4 DEF AddUsbSerialDevice, LockInv, EntryInv,
       DecisionInv, DecidesOn, Deciding, NeedsChange, Present, Disturb
  <2> QED
    BY <2>5, <2>6, <2>7, <2>8
<1>5. CASE AddedUnseen
  <2>1. "event" \in Threads /\ call["event"] \in Calls
    BY Literals DEF TypeOK
  <2>2. Idle \in Calls
    BY IdleType
  <2>3. /\ call' \in [Threads -> Calls]
        /\ call'["event"] = Idle
        /\ \A u \in Threads : u # "event" => call'[u] = call[u]
    BY <1>5, <2>1, <2>2, NewCall DEF AddedUnseen, StartSerial, Done
  <2>4. /\ call'["event"].pc = "idle"
        /\ call'["event"].todo = {}
        /\ call'["event"].dev = NoDev
        /\ call'["event"].on = FALSE
        /\ call'["event"].was = "absent"
        /\ \A u \in Threads : u # "event" => call'[u] = call[u]
    BY <2>1, <2>3 DEF Idle
  <2>t1. disturbed' \subseteq Devs
    BY <1>5, DisturbType DEF AddedUnseen, LockInv, EntryInv, Present
  <2>5. TypeOK'
    BY <1>5, <2>3, HostAssumption, <2>t1 DEF AddedUnseen, StartSerial,
       TypeOK
  <2>6. LockInv'
    BY <1>5, <2>1, <2>4 DEF AddedUnseen, StartSerial, LockInv, Reader,
       Deciding, LockFree
  <2>7. EntryInv'
    BY <1>5, <2>1, <2>4 DEF AddedUnseen, StartSerial, LockInv, EntryInv,
       Present, Disturb
  <2>8. DecisionInv'
    BY <1>5, <2>1, <2>4 DEF AddedUnseen, StartSerial, LockInv, EntryInv,
       DecisionInv, DecidesOn, Deciding, NeedsChange, Present, Disturb
  <2> QED
    BY <2>5, <2>6, <2>7, <2>8
<1>6. CASE AddedAllowed
  <2>1. "event" \in Threads /\ call["event"] \in Calls
    BY Literals DEF TypeOK
  <2>2. [call["event"] EXCEPT !.pc = "enable"] \in Calls
    BY <2>1, Literals DEF Calls
  <2>3. /\ call' \in [Threads -> Calls]
        /\ call'["event"] = [call["event"] EXCEPT !.pc = "enable"]
        /\ \A u \in Threads : u # "event" => call'[u] = call[u]
    BY <1>6, <2>1, <2>2, NewCall DEF AddedAllowed, Goto
  <2>4. /\ call'["event"].pc = "enable"
        /\ call'["event"].todo = call["event"].todo
        /\ call'["event"].dev = call["event"].dev
        /\ call'["event"].on = call["event"].on
        /\ call'["event"].was = call["event"].was
        /\ \A u \in Threads : u # "event" => call'[u] = call[u]
    BY <2>1, <2>3 DEF Calls
  <2>t1. disturbed' \subseteq Devs
    BY <1>6, DisturbType DEF AddedAllowed, LockInv, EntryInv, Present
  <2>5. TypeOK'
    BY <1>6, <2>3, HostAssumption, <2>t1 DEF AddedAllowed, TypeOK
  <2>6. LockInv'
    BY <1>6, <2>1, <2>4 DEF AddedAllowed, LockInv, Reader, Deciding,
       LockFree
  <2>7. EntryInv'
    BY <1>6, <2>1, <2>4 DEF AddedAllowed, LockInv, EntryInv, Present,
       Disturb
  <2>8. DecisionInv'
    BY <1>6, <2>1, <2>4 DEF AddedAllowed, LockInv, EntryInv, DecisionInv,
       DecidesOn, Deciding, NeedsChange, Present, Disturb
  <2> QED
    BY <2>5, <2>6, <2>7, <2>8
<1>7. CASE AddedEnable
  <2>1. "event" \in Threads /\ call["event"] \in Calls
    BY Literals DEF TypeOK
  <2>2. Idle \in Calls
    BY IdleType
  <2>3. /\ call' \in [Threads -> Calls]
        /\ call'["event"] = Idle
        /\ \A u \in Threads : u # "event" => call'[u] = call[u]
    BY <1>7, <2>1, <2>2, NewCall DEF AddedEnable, StartSerial, Done
  <2>4. /\ call'["event"].pc = "idle"
        /\ call'["event"].todo = {}
        /\ call'["event"].dev = NoDev
        /\ call'["event"].on = FALSE
        /\ call'["event"].was = "absent"
        /\ \A u \in Threads : u # "event" => call'[u] = call[u]
    BY <2>1, <2>3 DEF Idle
  <2>5. TypeOK'
    BY <1>7, <2>3, HostAssumption DEF AddedEnable, StartSerial, TypeOK,
       Status, LockInv
  <2>6. LockInv'
    BY <1>7, <2>1, <2>4 DEF AddedEnable, StartSerial, LockInv, Reader,
       Deciding, LockFree
  <2>7. EntryInv'
    BY <1>7, <2>1, <2>4 DEF AddedEnable, StartSerial, LockInv, EntryInv,
       Present, Disturb
  <2>8. DecisionInv'
    BY <1>7, <2>1, <2>4 DEF AddedEnable, StartSerial, LockInv, EntryInv,
       DecisionInv, DecidesOn, Deciding, NeedsChange, Present, Disturb,
       TypeOK
  <2> QED
    BY <2>5, <2>6, <2>7, <2>8
<1>8. ASSUME NEW t \in Threads, ExecuteStrategy(t)
      PROVE  HostInv'
  <2>1. t \in Threads /\ call[t] \in Calls
    BY Literals DEF TypeOK
  <2>2. [call[t] EXCEPT !.plan = StrategyPlan(policy, serialOff),
         !.pol = policy] \in Calls
    BY <2>1, Literals, StrategyPlanType, HostAssumption DEF Calls, TypeOK
  <2>3. /\ call' \in [Threads -> Calls]
        /\ call'[t] = [call[t] EXCEPT !.plan = StrategyPlan(policy,
               serialOff), !.pol = policy]
        /\ \A u \in Threads : u # t => call'[u] = call[u]
    BY <1>8, <2>1, <2>2, NewCall DEF ExecuteStrategy, EdmAnswers
  <2>4. /\ call'[t].pc = call[t].pc
        /\ call'[t].todo = call[t].todo
        /\ call'[t].dev = call[t].dev
        /\ call'[t].on = call[t].on
        /\ call'[t].was = call[t].was
        /\ \A u \in Threads : u # t => call'[u] = call[u]
    BY <2>1, <2>3 DEF Calls
  <2>5. TypeOK'
    BY <1>8, <2>3, HostAssumption DEF ExecuteStrategy, EdmAnswers, TypeOK
  <2>6. LockInv'
    BY <1>8, <2>1, <2>4, Literals DEF ExecuteStrategy, EdmAnswers,
       LockInv, Reader, Deciding, LockFree
  <2>7. EntryInv'
    BY <1>8, <2>1, <2>4, Literals DEF ExecuteStrategy, EdmAnswers,
       LockInv, EntryInv, Present, Disturb
  <2>8. DecisionInv'
    BY <1>8, <2>1, <2>4, Literals DEF ExecuteStrategy, EdmAnswers,
       LockInv, EntryInv, DecisionInv, DecidesOn, Deciding, NeedsChange,
       Present, Disturb
  <2> QED
    BY <2>5, <2>6, <2>7, <2>8
<1>9. ASSUME NEW t \in Threads, StrategyFails(t)
      PROVE  HostInv'
  <2>1. t \in Threads /\ call[t] \in Calls
    BY Literals DEF TypeOK
  <2>2. [call[t] EXCEPT !.plan = <<>>] \in Calls
    BY <2>1, Literals DEF Calls
  <2>3. /\ call' \in [Threads -> Calls]
        /\ call'[t] = [call[t] EXCEPT !.plan = <<>>]
        /\ \A u \in Threads : u # t => call'[u] = call[u]
    BY <1>9, <2>1, <2>2, NewCall DEF StrategyFails, EdmAnswers, Input
  <2>4. /\ call'[t].pc = call[t].pc
        /\ call'[t].todo = call[t].todo
        /\ call'[t].dev = call[t].dev
        /\ call'[t].on = call[t].on
        /\ call'[t].was = call[t].was
        /\ \A u \in Threads : u # t => call'[u] = call[u]
    BY <2>1, <2>3 DEF Calls
  <2>t1. inputs' \in Nat
    BY <1>9 DEF StrategyFails, Input, TypeOK
  <2>t2. loading' \in BOOLEAN
    BY <1>9 DEF StrategyFails, TypeOK
  <2>t3. excused' \subseteq Devs
    BY <1>9 DEF StrategyFails, TypeOK
  <2>5. TypeOK'
    BY <1>9, <2>3, HostAssumption, <2>t1, <2>t2, <2>t3 DEF StrategyFails,
       EdmAnswers, TypeOK
  <2>6. LockInv'
    BY <1>9, <2>1, <2>4, Literals DEF StrategyFails, EdmAnswers, Input,
       LockInv, Reader, Deciding, LockFree
  <2>7. EntryInv'
    BY <1>9, <2>1, <2>4, Literals DEF StrategyFails, EdmAnswers, Input,
       LockInv, EntryInv, Present, Disturb
  <2>8. DecisionInv'
    BY <1>9, <2>1, <2>4, Literals DEF StrategyFails, EdmAnswers, Input,
       LockInv, EntryInv, DecisionInv, DecidesOn, Deciding, NeedsChange,
       Present, Disturb
  <2> QED
    BY <2>5, <2>6, <2>7, <2>8
<1>10. ASSUME NEW t \in Threads, StartWalk(t)
      PROVE  HostInv'
  <2>1. t \in Threads /\ call[t] \in Calls
    BY Literals DEF TypeOK
  <2>t1. call[t].plan \in Seq(Items) /\ call[t].plan # <<>>
    BY <1>10, <2>1 DEF StartWalk, Calls
  <2>t2. Head(call[t].plan) \in Walks /\ Tail(call[t].plan) \in
         Seq(Items)
    BY <1>10, <2>t1 DEF StartWalk, Items
  <2>t3. JobsOf(Head(call[t].plan), call[t].pol.set) \subseteq Jobs
         /\ \A j \in JobsOf(Head(call[t].plan), call[t].pol.set) : j.dev
         \in Present
    BY <2>t2, JobsOfPresent DEF EntryInv
  <2>2. [call[t] EXCEPT !.pc = "walk", !.walk = Head(call[t].plan),
         !.plan = Tail(call[t].plan), !.todo = JobsOf(Head(call[t].plan),
         call[t].pol.set)] \in Calls
    BY <2>1, Literals, <2>t2, <2>t3 DEF Calls
  <2>3. /\ call' \in [Threads -> Calls]
        /\ call'[t] = [call[t] EXCEPT !.pc = "walk", !.walk =
               Head(call[t].plan), !.plan = Tail(call[t].plan), !.todo =
               JobsOf(Head(call[t].plan), call[t].pol.set)]
        /\ \A u \in Threads : u # t => call'[u] = call[u]
    BY <1>10, <2>1, <2>2, NewCall DEF StartWalk
  <2>4. /\ call'[t].pc = "walk"
        /\ call'[t].todo = JobsOf(Head(call[t].plan), call[t].pol.set)
        /\ call'[t].dev = call[t].dev
        /\ call'[t].on = call[t].on
        /\ call'[t].was = call[t].was
        /\ \A u \in Threads : u # t => call'[u] = call[u]
    BY <2>1, <2>3 DEF Calls
  <2>5. TypeOK'
    BY <1>10, <2>3, HostAssumption DEF StartWalk, TypeOK
  <2>6. LockInv'
    BY <1>10, <2>1, <2>4, Literals DEF StartWalk, LockInv, Reader,
       Deciding, LockFree
  <2>7. EntryInv'
    BY <1>10, <2>1, <2>4, Literals, <2>t3 DEF StartWalk, LockInv,
       EntryInv, Present, Disturb
  <2>8. DecisionInv'
    BY <1>10, <2>1, <2>4, Literals DEF StartWalk, LockInv, EntryInv,
       DecisionInv, DecidesOn, Deciding, NeedsChange, Present, Disturb
  <2> QED
    BY <2>5, <2>6, <2>7, <2>8
<1>11. ASSUME NEW t \in Threads, EndWalk(t)
      PROVE  HostInv'
  <2>1. t \in Threads /\ call[t] \in Calls
    BY Literals DEF TypeOK
  <2>2. [call[t] EXCEPT !.pc = "next", !.walk = "none"] \in Calls
    BY <2>1, Literals DEF Calls
  <2>3. /\ call' \in [Threads -> Calls]
        /\ call'[t] = [call[t] EXCEPT !.pc = "next", !.walk =
               "none"]
        /\ \A u \in Threads : u # t => call'[u] = call[u]
    BY <1>11, <2>1, <2>2, NewCall DEF EndWalk
  <2>4. /\ call'[t].pc = "next"
        /\ call'[t].todo = call[t].todo
        /\ call'[t].dev = call[t].dev
        /\ call'[t].on = call[t].on
        /\ call'[t].was = call[t].was
        /\ \A u \in Threads : u # t => call'[u] = call[u]
    BY <2>1, <2>3 DEF Calls
  <2>5. TypeOK'
    BY <1>11, <2>3, HostAssumption DEF EndWalk, TypeOK
  <2>6. LockInv'
    BY <1>11, <2>1, <2>4, Literals DEF EndWalk, LockInv, Reader,
       Deciding, LockFree
  <2>7. EntryInv'
    BY <1>11, <2>1, <2>4, Literals DEF EndWalk, LockInv, EntryInv,
       Present, Disturb
  <2>8. DecisionInv'
    BY <1>11, <2>1, <2>4, Literals DEF EndWalk, LockInv, EntryInv,
       DecisionInv, DecidesOn, Deciding, NeedsChange, Present, Disturb
  <2> QED
    BY <2>5, <2>6, <2>7, <2>8
<1>12. ASSUME NEW t \in Threads, Return(t)
      PROVE  HostInv'
  <2>1. t \in Threads /\ call[t] \in Calls
    BY Literals DEF TypeOK
  <2>2. Idle \in Calls
    BY IdleType
  <2>3. /\ call' \in [Threads -> Calls]
        /\ call'[t] = Idle
        /\ \A u \in Threads : u # t => call'[u] = call[u]
    BY <1>12, <2>1, <2>2, NewCall DEF Return, Done
  <2>4. /\ call'[t].pc = "idle"
        /\ call'[t].todo = {}
        /\ call'[t].dev = NoDev
        /\ call'[t].on = FALSE
        /\ call'[t].was = "absent"
        /\ \A u \in Threads : u # t => call'[u] = call[u]
    BY <2>1, <2>3 DEF Idle
  <2>5. TypeOK'
    BY <1>12, <2>3, HostAssumption DEF Return, TypeOK
  <2>6. LockInv'
    BY <1>12, <2>1, <2>4, Literals DEF Return, LockInv, Reader, Deciding,
       LockFree
  <2>7. EntryInv'
    BY <1>12, <2>1, <2>4, Literals DEF Return, LockInv, EntryInv,
       Present, Disturb
  <2>8. DecisionInv'
    BY <1>12, <2>1, <2>4, Literals DEF Return, LockInv, EntryInv,
       DecisionInv, DecidesOn, Deciding, NeedsChange, Present, Disturb
  <2> QED
    BY <2>5, <2>6, <2>7, <2>8
<1>13. ASSUME NEW t \in Threads, NEW j \in Jobs, SkipDevice(t, j)
      PROVE  HostInv'
  <2>1. t \in Threads /\ call[t] \in Calls
    BY Literals DEF TypeOK
  <2>2. [call[t] EXCEPT !.todo = @ \ {j}] \in Calls
    BY <2>1, Literals DEF Calls
  <2>3. /\ call' \in [Threads -> Calls]
        /\ call'[t] = [call[t] EXCEPT !.todo = @ \ {j}]
        /\ \A u \in Threads : u # t => call'[u] = call[u]
    BY <1>13, <2>1, <2>2, NewCall DEF SkipDevice, Todo
  <2>4. /\ call'[t].pc = call[t].pc
        /\ call'[t].todo = call[t].todo \ {j}
        /\ call'[t].dev = call[t].dev
        /\ call'[t].on = call[t].on
        /\ call'[t].was = call[t].was
        /\ \A u \in Threads : u # t => call'[u] = call[u]
    BY <2>1, <2>3 DEF Calls
  <2>t1. j.dev \in Devs
    BY  DEF Jobs
  <2>t2. disturbed' \subseteq Devs
    BY <1>13, <2>t1, DisturbType DEF SkipDevice
  <2>t3. excused' \subseteq Devs
    BY <1>13, AppliedType DEF SkipDevice
  <2>5. TypeOK'
    BY <1>13, <2>3, HostAssumption, <2>t2, <2>t3 DEF SkipDevice, Todo,
       TypeOK
  <2>6. LockInv'
    BY <1>13, <2>1, <2>4, Literals DEF SkipDevice, Todo, LockInv, Reader,
       Deciding, LockFree
  <2>7. EntryInv'
    BY <1>13, <2>1, <2>4, Literals DEF SkipDevice, Todo, LockInv,
       EntryInv, Present, Disturb
  <2>8. DecisionInv'
    BY <1>13, <2>1, <2>4, Literals DEF SkipDevice, Todo, LockInv,
       EntryInv, DecisionInv, DecidesOn, Deciding, NeedsChange, Present,
       Disturb
  <2> QED
    BY <2>5, <2>6, <2>7, <2>8
<1>14. ASSUME NEW t \in Threads, NEW j \in Jobs, UsbDeviceAuthorize(t, j)
      PROVE  HostInv'
  <2>1. t \in Threads /\ call[t] \in Calls
    BY Literals DEF TypeOK
  <2>2. [call[t] EXCEPT !.pc = "authorize", !.todo = @ \ {j}, !.dev
         = j.dev, !.on = j.on, !.was = status[j.dev]] \in Calls
    BY <2>1, Literals DEF Calls, Jobs, TypeOK
  <2>3. /\ call' \in [Threads -> Calls]
        /\ call'[t] = [call[t] EXCEPT !.pc = "authorize", !.todo = @
               \ {j}, !.dev = j.dev, !.on = j.on, !.was = status[j.dev]]
        /\ \A u \in Threads : u # t => call'[u] = call[u]
    BY <1>14, <2>1, <2>2, NewCall DEF UsbDeviceAuthorize, Todo
  <2>4. /\ call'[t].pc = "authorize"
        /\ call'[t].todo = call[t].todo \ {j}
        /\ call'[t].dev = j.dev
        /\ call'[t].on = j.on
        /\ call'[t].was = status[j.dev]
        /\ \A u \in Threads : u # t => call'[u] = call[u]
    BY <2>1, <2>3 DEF Calls
  <2>t1. j.dev \in Devs
    BY  DEF Jobs
  <2>t2. disturbed' \subseteq Devs
    BY <1>14, <2>t1, DisturbType DEF UsbDeviceAuthorize
  <2>5. TypeOK'
    BY <1>14, <2>3, HostAssumption, <2>t2 DEF UsbDeviceAuthorize, Todo,
       TypeOK
  <2>6. LockInv'
    BY <1>14, <2>1, <2>4, Literals DEF UsbDeviceAuthorize, Todo, LockInv,
       Reader, Deciding, LockFree
  <2>7. EntryInv'
    BY <1>14, <2>1, <2>4, Literals DEF UsbDeviceAuthorize, Todo, LockInv,
       EntryInv, Present, Disturb, Jobs
  <2>8. DecisionInv'
    BY <1>14, <2>1, <2>4, Literals DEF UsbDeviceAuthorize, Todo, LockInv,
       EntryInv, DecisionInv, DecidesOn, Deciding, NeedsChange, Present,
       Disturb, Jobs
  <2> QED
    BY <2>5, <2>6, <2>7, <2>8
<1>15. ASSUME NEW t \in Threads, NEW j \in Jobs, UsbInterfaceAuthorize(t, j)
      PROVE  HostInv'
  <2>1. t \in Threads /\ call[t] \in Calls
    BY Literals DEF TypeOK
  <2>2. [call[t] EXCEPT !.todo = @ \ {j}] \in Calls
    BY <2>1, Literals DEF Calls
  <2>3. /\ call' \in [Threads -> Calls]
        /\ call'[t] = [call[t] EXCEPT !.todo = @ \ {j}]
        /\ \A u \in Threads : u # t => call'[u] = call[u]
    BY <1>15, <2>1, <2>2, NewCall DEF UsbInterfaceAuthorize, Todo, Input
  <2>4. /\ call'[t].pc = call[t].pc
        /\ call'[t].todo = call[t].todo \ {j}
        /\ call'[t].dev = call[t].dev
        /\ call'[t].on = call[t].on
        /\ call'[t].was = call[t].was
        /\ \A u \in Threads : u # t => call'[u] = call[u]
    BY <2>1, <2>3 DEF Calls
  <2>t1. j.dev \in Devs
    BY  DEF Jobs
  <2>t2. disturbed' \subseteq Devs
    BY <1>15, <2>t1, DisturbType DEF UsbInterfaceAuthorize
  <2>5. TypeOK'
    BY <1>15, <2>3, HostAssumption, <2>t1, <2>t2 DEF
       UsbInterfaceAuthorize, Todo, Input, TypeOK
  <2>6. LockInv'
    BY <1>15, <2>1, <2>4, Literals DEF UsbInterfaceAuthorize, Todo,
       Input, LockInv, Reader, Deciding, LockFree
  <2>7. EntryInv'
    BY <1>15, <2>1, <2>4, Literals DEF UsbInterfaceAuthorize, Todo,
       Input, LockInv, EntryInv, Present, Disturb
  <2>8. DecisionInv'
    BY <1>15, <2>1, <2>4, Literals DEF UsbInterfaceAuthorize, Todo,
       Input, LockInv, EntryInv, DecisionInv, DecidesOn, Deciding,
       NeedsChange, Present, Disturb
  <2> QED
    BY <2>5, <2>6, <2>7, <2>8
<1>16. ASSUME NEW t \in Threads, Authorized(t)
      PROVE  HostInv'
  <2>1. t \in Threads /\ call[t] \in Calls
    BY Literals DEF TypeOK
  <2>t1. call[t].dev \in Devs /\ call[t].on \in BOOLEAN
    BY <1>16, <2>1 DEF Authorized, EntryInv, Present, Calls
  <2>t2. seen' \subseteq Devs
    BY <1>16, <2>t1 DEF Authorized, PublishCommonEvent, TypeOK
  <2>t3. excused' \subseteq Devs
    BY <1>16, AppliedType DEF Authorized
  <2>2. [call[t] EXCEPT !.pc = "walk", !.dev = NoDev, !.on = FALSE,
         !.was = "absent"] \in Calls
    BY <2>1, Literals DEF Calls, Status
  <2>3. /\ call' \in [Threads -> Calls]
        /\ call'[t] = [call[t] EXCEPT !.pc = "walk", !.dev = NoDev,
               !.on = FALSE, !.was = "absent"]
        /\ \A u \in Threads : u # t => call'[u] = call[u]
    BY <1>16, <2>1, <2>2, NewCall DEF Authorized, PublishCommonEvent,
       SetAuthorizeStatus, BackToWalk
  <2>4. /\ call'[t].pc = "walk"
        /\ call'[t].todo = call[t].todo
        /\ call'[t].dev = NoDev
        /\ call'[t].on = FALSE
        /\ call'[t].was = "absent"
        /\ \A u \in Threads : u # t => call'[u] = call[u]
    BY <2>1, <2>3 DEF Calls
  <2>5. TypeOK'
    BY <1>16, <2>3, HostAssumption, <2>t1, <2>t2, <2>t3 DEF Authorized,
       SetAuthorizeStatus, BackToWalk, TypeOK, Status
  <2>6. LockInv'
    BY <1>16, <2>1, <2>4, Literals DEF Authorized, PublishCommonEvent,
       SetAuthorizeStatus, BackToWalk, LockInv, Reader, Deciding, LockFree
  <2>7. EntryInv'
    BY <1>16, <2>1, <2>4, Literals DEF Authorized, PublishCommonEvent,
       SetAuthorizeStatus, BackToWalk, LockInv, EntryInv, Present, Disturb
  <2>8. DecisionInv'
    BY <1>16, <2>1, <2>4, Literals, <2>t1 DEF Authorized,
       PublishCommonEvent, SetAuthorizeStatus, BackToWalk, LockInv,
       EntryInv, DecisionInv, DecidesOn, Deciding, NeedsChange, Present,
       Disturb, TypeOK
  <2> QED
    BY <2>5, <2>6, <2>7, <2>8
<1>17. ASSUME NEW t \in Threads, AuthorizeFails(t)
      PROVE  HostInv'
  <2>1. t \in Threads /\ call[t] \in Calls
    BY Literals DEF TypeOK
  <2>2. [call[t] EXCEPT !.pc = "walk", !.dev = NoDev, !.on = FALSE,
         !.was = "absent"] \in Calls
    BY <2>1, Literals DEF Calls, Status
  <2>3. /\ call' \in [Threads -> Calls]
        /\ call'[t] = [call[t] EXCEPT !.pc = "walk", !.dev = NoDev,
               !.on = FALSE, !.was = "absent"]
        /\ \A u \in Threads : u # t => call'[u] = call[u]
    BY <1>17, <2>1, <2>2, NewCall DEF AuthorizeFails, BackToWalk, Input
  <2>4. /\ call'[t].pc = "walk"
        /\ call'[t].todo = call[t].todo
        /\ call'[t].dev = NoDev
        /\ call'[t].on = FALSE
        /\ call'[t].was = "absent"
        /\ \A u \in Threads : u # t => call'[u] = call[u]
    BY <2>1, <2>3 DEF Calls
  <2>5. TypeOK'
    BY <1>17, <2>3, HostAssumption DEF AuthorizeFails, BackToWalk, Input,
       TypeOK, EntryInv, Present
  <2>6. LockInv'
    BY <1>17, <2>1, <2>4, Literals DEF AuthorizeFails, BackToWalk, Input,
       LockInv, Reader, Deciding, LockFree
  <2>7. EntryInv'
    BY <1>17, <2>1, <2>4, Literals DEF AuthorizeFails, BackToWalk, Input,
       LockInv, EntryInv, Present, Disturb
  <2>8. DecisionInv'
    BY <1>17, <2>1, <2>4, Literals DEF AuthorizeFails, BackToWalk, Input,
       LockInv, EntryInv, DecisionInv, DecidesOn, Deciding, NeedsChange,
       Present, Disturb
  <2> QED
    BY <2>5, <2>6, <2>7, <2>8
<1>18. ASSUME NEW pol \in Policies, SetPolicy(pol)
      PROVE  HostInv'
  <2>1. "admin" \in Threads /\ call["admin"] \in Calls
    BY Literals DEF TypeOK
  <2>t1. pol \in PolicyType /\ SetWalk(pol.kind) \in Items
    BY <1>18, HostAssumption DEF SetPolicy, SetWalk, PolicyType, Items,
       Walks
  <2>2. [call["admin"] EXCEPT !.pc = "next", !.plan =
         <<SetWalk(pol.kind)>>, !.pol = pol] \in Calls
    BY <2>1, Literals, <2>t1 DEF Calls
  <2>3. /\ call' \in [Threads -> Calls]
        /\ call'["admin"] = [call["admin"] EXCEPT !.pc = "next",
               !.plan = <<SetWalk(pol.kind)>>, !.pol = pol]
        /\ \A u \in Threads : u # "admin" => call'[u] = call[u]
    BY <1>18, <2>1, <2>2, NewCall DEF SetPolicy, AdminCalls, Input
  <2>4. /\ call'["admin"].pc = "next"
        /\ call'["admin"].todo = call["admin"].todo
        /\ call'["admin"].dev = call["admin"].dev
        /\ call'["admin"].on = call["admin"].on
        /\ call'["admin"].was = call["admin"].was
        /\ \A u \in Threads : u # "admin" => call'[u] = call[u]
    BY <2>1, <2>3 DEF Calls
  <2>5. TypeOK'
    BY <1>18, <2>3, HostAssumption DEF SetPolicy, AdminCalls, Input,
       TypeOK, Stale
  <2>6. LockInv'
    BY <1>18, <2>1, <2>4, Literals DEF SetPolicy, AdminCalls, Input,
       LockInv, Reader, Deciding, LockFree
  <2>7. EntryInv'
    BY <1>18, <2>1, <2>4, Literals DEF SetPolicy, AdminCalls, Input,
       LockInv, EntryInv, Present, Disturb
  <2>8. DecisionInv'
    BY <1>18, <2>1, <2>4, Literals DEF SetPolicy, AdminCalls, Input,
       LockInv, EntryInv, DecisionInv, DecidesOn, Deciding, NeedsChange,
       Present, Disturb
  <2> QED
    BY <2>5, <2>6, <2>7, <2>8
<1>19. CASE LiftPolicy
  <2>1. "admin" \in Threads /\ call["admin"] \in Calls
    BY Literals DEF TypeOK
  <2>t1. NoPolicy \in PolicyType /\ LiftWalk(policy.kind) \in Items
    BY <1>19, HostAssumption DEF TypeOK, LiftPolicy, LiftWalk,
       PolicyType, Items, Walks
  <2>2. [call["admin"] EXCEPT !.pc = "next", !.plan =
         <<LiftWalk(policy.kind)>>, !.pol = NoPolicy] \in Calls
    BY <2>1, Literals, <2>t1 DEF Calls
  <2>3. /\ call' \in [Threads -> Calls]
        /\ call'["admin"] = [call["admin"] EXCEPT !.pc = "next",
               !.plan = <<LiftWalk(policy.kind)>>, !.pol = NoPolicy]
        /\ \A u \in Threads : u # "admin" => call'[u] = call[u]
    BY <1>19, <2>1, <2>2, NewCall DEF LiftPolicy, AdminCalls, Input
  <2>4. /\ call'["admin"].pc = "next"
        /\ call'["admin"].todo = call["admin"].todo
        /\ call'["admin"].dev = call["admin"].dev
        /\ call'["admin"].on = call["admin"].on
        /\ call'["admin"].was = call["admin"].was
        /\ \A u \in Threads : u # "admin" => call'[u] = call[u]
    BY <2>1, <2>3 DEF Calls
  <2>5. TypeOK'
    BY <1>19, <2>3, HostAssumption DEF LiftPolicy, AdminCalls, Input,
       TypeOK, Stale
  <2>6. LockInv'
    BY <1>19, <2>1, <2>4, Literals DEF LiftPolicy, AdminCalls, Input,
       LockInv, Reader, Deciding, LockFree
  <2>7. EntryInv'
    BY <1>19, <2>1, <2>4, Literals DEF LiftPolicy, AdminCalls, Input,
       LockInv, EntryInv, Present, Disturb
  <2>8. DecisionInv'
    BY <1>19, <2>1, <2>4, Literals DEF LiftPolicy, AdminCalls, Input,
       LockInv, EntryInv, DecisionInv, DecidesOn, Deciding, NeedsChange,
       Present, Disturb
  <2> QED
    BY <2>5, <2>6, <2>7, <2>8
<1>20. ASSUME NEW w \in Walks, NEW pol \in PolicyType, AdminOnce(w, pol)
      PROVE  HostInv'
  <2>1. "admin" \in Threads /\ call["admin"] \in Calls
    BY Literals DEF TypeOK
  <2>2. [call["admin"] EXCEPT !.pc = "next", !.plan = <<w>>,
                               !.pol = pol] \in Calls
    BY <2>1, Literals DEF Calls
  <2>3. /\ call' \in [Threads -> Calls]
        /\ call'["admin"] = [call["admin"] EXCEPT !.pc = "next",
               !.plan = <<w>>, !.pol = pol]
        /\ \A u \in Threads : u # "admin" => call'[u] = call[u]
    BY <1>20, <2>1, <2>2, NewCall DEF AdminOnce, AdminCalls, Input
  <2>4. /\ call'["admin"].pc = "next"
        /\ call'["admin"].todo = call["admin"].todo
        /\ call'["admin"].dev = call["admin"].dev
        /\ call'["admin"].on = call["admin"].on
        /\ call'["admin"].was = call["admin"].was
        /\ \A u \in Threads : u # "admin" => call'[u] = call[u]
    BY <2>1, <2>3 DEF Calls
  <2>5. TypeOK'
    BY <1>20, <2>3, HostAssumption DEF AdminOnce, AdminCalls, Input,
       TypeOK
  <2>6. LockInv'
    BY <1>20, <2>1, <2>4, Literals DEF AdminOnce, AdminCalls, Input,
       LockInv, Reader, Deciding, LockFree
  <2>7. EntryInv'
    BY <1>20, <2>1, <2>4, Literals DEF AdminOnce, AdminCalls, Input,
       LockInv, EntryInv, Present, Disturb
  <2>8. DecisionInv'
    BY <1>20, <2>1, <2>4, Literals DEF AdminOnce, AdminCalls, Input,
       LockInv, EntryInv, DecisionInv, DecidesOn, Deciding, NeedsChange,
       Present, Disturb
  <2> QED
    BY <2>5, <2>6, <2>7, <2>8
<1>28. ASSUME NEW id \in Ids, NEW disable \in BOOLEAN, ManageDevice(id, disable)
       PROVE  HostInv'
  BY <1>20, <1>28 DEF ManageDevice, PolicyType, OneOff, Walks
<1>29. ASSUME NEW pol \in Policies, ManageInterfaceType(pol)
       PROVE  HostInv'
  BY <1>20, <1>29, HostAssumption DEF ManageInterfaceType, PolicyType, OneOff, Walks
<1>30. ASSUME NEW t \in Threads, NEW j \in Jobs, OpenFails(t, j)
      PROVE  HostInv'
  <2>1. t \in Threads /\ call[t] \in Calls
    BY Literals DEF TypeOK
  <2>2. [call[t] EXCEPT !.todo = @ \ LeftOut(t, j)] \in Calls
    BY <2>1, Literals DEF Calls
  <2>3. /\ call' \in [Threads -> Calls]
        /\ call'[t] = [call[t] EXCEPT !.todo = @ \ LeftOut(t, j)]
        /\ \A u \in Threads : u # t => call'[u] = call[u]
    BY <1>30, <2>1, <2>2, NewCall DEF OpenFails
  <2>4. /\ call'[t].pc = call[t].pc
        /\ call'[t].todo = call[t].todo \ LeftOut(t, j)
        /\ call'[t].dev = call[t].dev
        /\ call'[t].on = call[t].on
        /\ call'[t].was = call[t].was
        /\ \A u \in Threads : u # t => call'[u] = call[u]
    BY <2>1, <2>3 DEF Calls
  <2>t1. {k.dev : k \in LeftOut(t, j)} \subseteq Devs
    BY TodoAreJobs DEF LeftOut, Jobs
  <2>5. TypeOK'
    BY <1>30, <2>3, HostAssumption, <2>t1 DEF OpenFails, Input, TypeOK
  <2>6. LockInv'
    BY <1>30, <2>1, <2>4, Literals DEF OpenFails, LockInv, Reader, Deciding,
       LockFree
  <2>7. EntryInv'
    BY <1>30, <2>1, <2>4, Literals DEF OpenFails, LockInv, EntryInv, Present
  <2>8. DecisionInv'
    BY <1>30, <2>1, <2>4, Literals DEF OpenFails, LockInv, EntryInv,
       DecisionInv, DecidesOn, Deciding, NeedsChange, Present
  <2> QED
    BY <2>5, <2>6, <2>7, <2>8
<1>31. ASSUME NEW t \in Threads, NEW id \in Ids, SameIdAgain(t, id)
      PROVE  HostInv'
  <2> DEFINE new == {j \in ExecuteManageDevicePolicy(call[t].pol.set) :
                       IdOf[j.dev] = id}
  <2>1. t \in Threads /\ call[t] \in Calls
    BY Literals DEF TypeOK
  <2>n. \A j \in new : j \in Jobs /\ j.dev \in Present
    BY JobSets DEF ExecuteManageDevicePolicy
  <2> HIDE DEF new
  <2>2. [call[t] EXCEPT !.todo = @ \union new] \in Calls
    BY <2>1, <2>n, Literals DEF Calls
  <2>3. /\ call' \in [Threads -> Calls]
        /\ call'[t] = [call[t] EXCEPT !.todo = @ \union new]
        /\ \A u \in Threads : u # t => call'[u] = call[u]
    BY <1>31, <2>1, <2>2, NewCall DEF SameIdAgain, new
  <2>4. /\ call'[t].pc = call[t].pc
        /\ call'[t].todo = call[t].todo \union new
        /\ call'[t].dev = call[t].dev
        /\ call'[t].on = call[t].on
        /\ call'[t].was = call[t].was
        /\ \A u \in Threads : u # t => call'[u] = call[u]
    BY <2>1, <2>3 DEF Calls
  <2>5. TypeOK'
    BY <1>31, <2>3, HostAssumption DEF SameIdAgain, TypeOK
  <2>6. LockInv'
    BY <1>31, <2>1, <2>4, Literals DEF SameIdAgain, LockInv, Reader, Deciding,
       LockFree
  <2>7. EntryInv'
    BY <1>31, <2>1, <2>4, <2>n, Literals DEF SameIdAgain, LockInv, EntryInv,
       Present
  <2>8. DecisionInv'
    BY <1>31, <2>1, <2>4, Literals DEF SameIdAgain, LockInv, EntryInv,
       DecisionInv, DecidesOn, Deciding, NeedsChange, Present
  <2> QED
    BY <2>5, <2>6, <2>7, <2>8
<1>21. CASE SetSerialParameter
  <2>3. call' = call
    BY <1>21 DEF SetSerialParameter, Input
  <2>5. TypeOK'
    BY <1>21, <2>3, HostAssumption DEF SetSerialParameter, Input, TypeOK,
       Stale
  <2>6. LockInv'
    BY <1>21, <2>3, Literals DEF SetSerialParameter, Input, LockInv,
       Reader, Deciding, LockFree
  <2>7. EntryInv'
    BY <1>21, <2>3, Literals DEF SetSerialParameter, Input, LockInv,
       EntryInv, Present, Disturb
  <2>8. DecisionInv'
    BY <1>21, <2>3, Literals DEF SetSerialParameter, Input, LockInv,
       EntryInv, DecisionInv, DecidesOn, Deciding, NeedsChange, Present,
       Disturb
  <2> QED
    BY <2>5, <2>6, <2>7, <2>8
<1>22. CASE WatchParameter
  <2>1. "watch" \in Threads /\ call["watch"] \in Calls
    BY Literals DEF TypeOK
  <2>t1. WatchPlan \in Seq(Items)
    BY Literals DEF WatchPlan, Walks, TypeOK
  <2>2. [call["watch"] EXCEPT !.pc = "next", !.plan = WatchPlan] \in
         Calls
    BY <2>1, Literals, <2>t1 DEF Calls
  <2>3. /\ call' \in [Threads -> Calls]
        /\ call'["watch"] = [call["watch"] EXCEPT !.pc = "next",
               !.plan = WatchPlan]
        /\ \A u \in Threads : u # "watch" => call'[u] = call[u]
    BY <1>22, <2>1, <2>2, NewCall DEF WatchParameter
  <2>4. /\ call'["watch"].pc = "next"
        /\ call'["watch"].todo = call["watch"].todo
        /\ call'["watch"].dev = call["watch"].dev
        /\ call'["watch"].on = call["watch"].on
        /\ call'["watch"].was = call["watch"].was
        /\ \A u \in Threads : u # "watch" => call'[u] = call[u]
    BY <2>1, <2>3 DEF Calls
  <2>5. TypeOK'
    BY <1>22, <2>3, HostAssumption DEF WatchParameter, TypeOK
  <2>6. LockInv'
    BY <1>22, <2>1, <2>4, Literals DEF WatchParameter, LockInv, Reader,
       Deciding, LockFree
  <2>7. EntryInv'
    BY <1>22, <2>1, <2>4, Literals DEF WatchParameter, LockInv, EntryInv,
       Present, Disturb
  <2>8. DecisionInv'
    BY <1>22, <2>1, <2>4, Literals DEF WatchParameter, LockInv, EntryInv,
       DecisionInv, DecidesOn, Deciding, NeedsChange, Present, Disturb
  <2> QED
    BY <2>5, <2>6, <2>7, <2>8
<1>23. CASE OnLoadSystemAbilitySuccess
  <2>1. "load" \in Threads /\ call["load"] \in Calls
    BY Literals DEF TypeOK
  <2>2. [call["load"] EXCEPT !.pc = "next", !.plan = <<"strategy">>]
         \in Calls
    BY <2>1, Literals DEF Calls
  <2>3. /\ call' \in [Threads -> Calls]
        /\ call'["load"] = [call["load"] EXCEPT !.pc = "next",
               !.plan = <<"strategy">>]
        /\ \A u \in Threads : u # "load" => call'[u] = call[u]
    BY <1>23, <2>1, <2>2, NewCall DEF OnLoadSystemAbilitySuccess
  <2>4. /\ call'["load"].pc = "next"
        /\ call'["load"].todo = call["load"].todo
        /\ call'["load"].dev = call["load"].dev
        /\ call'["load"].on = call["load"].on
        /\ call'["load"].was = call["load"].was
        /\ \A u \in Threads : u # "load" => call'[u] = call[u]
    BY <2>1, <2>3 DEF Calls
  <2>5. TypeOK'
    BY <1>23, <2>3, HostAssumption DEF OnLoadSystemAbilitySuccess, TypeOK
  <2>6. LockInv'
    BY <1>23, <2>1, <2>4, Literals DEF OnLoadSystemAbilitySuccess,
       LockInv, Reader, Deciding, LockFree
  <2>7. EntryInv'
    BY <1>23, <2>1, <2>4, Literals DEF OnLoadSystemAbilitySuccess,
       LockInv, EntryInv, Present, Disturb
  <2>8. DecisionInv'
    BY <1>23, <2>1, <2>4, Literals DEF OnLoadSystemAbilitySuccess,
       LockInv, EntryInv, DecisionInv, DecidesOn, Deciding, NeedsChange,
       Present, Disturb
  <2> QED
    BY <2>5, <2>6, <2>7, <2>8
<1>24. CASE OnLoadSystemAbilityFail
  <2>3. call' = call
    BY <1>24 DEF OnLoadSystemAbilityFail, Input
  <2>t1. inputs' \in Nat
    BY <1>24 DEF OnLoadSystemAbilityFail, Input, TypeOK
  <2>5. TypeOK'
    BY <1>24, <2>3, HostAssumption, <2>t1 DEF OnLoadSystemAbilityFail,
       TypeOK
  <2>6. LockInv'
    BY <1>24, <2>3, Literals DEF OnLoadSystemAbilityFail, Input, LockInv,
       Reader, Deciding, LockFree
  <2>7. EntryInv'
    BY <1>24, <2>3, Literals DEF OnLoadSystemAbilityFail, Input, LockInv,
       EntryInv, Present, Disturb
  <2>8. DecisionInv'
    BY <1>24, <2>3, Literals DEF OnLoadSystemAbilityFail, Input, LockInv,
       EntryInv, DecisionInv, DecidesOn, Deciding, NeedsChange, Present,
       Disturb
  <2> QED
    BY <2>5, <2>6, <2>7, <2>8
<1>25. CASE EdmChanges
  <2>3. call' = call
    BY <1>25 DEF EdmChanges, Input
  <2>5. TypeOK'
    BY <1>25, <2>3, HostAssumption DEF EdmChanges, Input, TypeOK
  <2>6. LockInv'
    BY <1>25, <2>3, Literals DEF EdmChanges, Input, LockInv, Reader,
       Deciding, LockFree
  <2>7. EntryInv'
    BY <1>25, <2>3, Literals DEF EdmChanges, Input, LockInv, EntryInv,
       Present, Disturb
  <2>8. DecisionInv'
    BY <1>25, <2>3, Literals DEF EdmChanges, Input, LockInv, EntryInv,
       DecisionInv, DecidesOn, Deciding, NeedsChange, Present, Disturb
  <2> QED
    BY <2>5, <2>6, <2>7, <2>8
<1>26. CASE UNCHANGED vars
  <2>3. call' = call
    BY <1>26 DEF vars
  <2>5. TypeOK'
    BY <1>26, <2>3, HostAssumption DEF vars, TypeOK
  <2>6. LockInv'
    BY <1>26, <2>3, Literals DEF vars, LockInv, Reader, Deciding,
       LockFree
  <2>7. EntryInv'
    BY <1>26, <2>3, Literals DEF vars, LockInv, EntryInv, Present,
       Disturb
  <2>8. DecisionInv'
    BY <1>26, <2>3, Literals DEF vars, LockInv, EntryInv, DecisionInv,
       DecidesOn, Deciding, NeedsChange, Present, Disturb
  <2> QED
    BY <2>5, <2>6, <2>7, <2>8
<1>27. ASSUME NEW t \in Threads, NEW j \in call[t].todo,
              \/ SkipDevice(t, j) \/ UsbDeviceAuthorize(t, j)
              \/ OpenFails(t, j) \/ UsbInterfaceAuthorize(t, j)
       PROVE  HostInv'
  <2>1. j \in Jobs
    BY TodoAreJobs
  <2> QED
    BY <1>13, <1>14, <1>15, <1>27, <1>30, <2>1
<1> QED
  BY <1>1, <1>2, <1>3, <1>4, <1>5, <1>6, <1>7, <1>8, <1>9, <1>10, <1>11,
     <1>12, <1>16, <1>17, <1>18, <1>19, <1>21, <1>22, <1>23, <1>24,
     <1>25, <1>26, <1>27, <1>28, <1>29, <1>31 DEF Next, Step, EventStep

(* The invariant holds in every state of every run.                        *)
LEMMA HostInvariant == Spec => []HostInv
  BY HostInvInit, HostInvStep, PTL DEF Spec

(* The host manager's state keeps its type, whatever the devices and the   *)
(* policies are.                                                           *)
THEOREM HostTypeCorrect == Spec => []TypeOK
<1>1. HostInv => TypeOK
  BY DEF HostInv
<1> QED
  BY <1>1, HostInvariant, PTL

(* An entry of devices_ that a thread works on under the shared lock is    *)
(* not deleted, and serialDevices_ names only devices in devices_.         *)
THEOREM EntriesStayAlive == Spec => []NoUseAfterDelete
<1>1. HostInv => NoUseAfterDelete
  BY DEF HostInv, EntryInv, NoUseAfterDelete, DecidesOn, Deciding, Threads
<1> QED
  BY <1>1, HostInvariant, PTL

(* For a device that no two threads decide on at once, the last broadcast  *)
(* of UsbDeviceAuthorize, AddDevice or DelDevice was ATTACHED exactly      *)
(* while the device is enabled.                                            *)
THEOREM BroadcastsMatchStatus == Spec => []SeenIsEnabled
<1>1. HostInv => SeenIsEnabled
  BY DEF HostInv, DecisionInv, SeenIsEnabled
<1> QED
  BY <1>1, HostInvariant, PTL

(* For such a device the kernel's authorisation is the one the status      *)
(* says, with failing driver calls too.                                    *)
THEOREM KernelMatchesStatus == Spec => []KernelAgrees
<1>1. HostInv => KernelAgrees
  BY DEF HostInv, DecisionInv, KernelAgrees
<1> QED
  BY <1>1, HostInvariant, PTL

(***************************************************************************)
(* The policy in force (PolicyInForce), from PolicyInv.                    *)
(***************************************************************************)
(* Plans of one and of two parts.                                          *)
LEMMA Tuples ==
  \A v, w, x :
    /\ <<w>> # <<>> /\ Head(<<w>>) = w /\ Tail(<<w>>) = <<>>
    /\ <<v, w>> # <<>> /\ Head(<<v, w>>) = v /\ Tail(<<v, w>>) = <<w>>
    /\ <<v, w>> # <<x>>
    /\ <<v>> = <<w>> => v = w
    /\ <<v, w>> = <<v, x>> => w = x
    /\ <<v, w>> = <<x, w>> => v = x
  OBVIOUS

(* The call of a thread changes, those of the others do not.               *)
LEMMA Write ==
  ASSUME TypeOK, NEW t \in Threads, NEW c, Update(t, c)
  PROVE  call'[t] = c /\ \A u \in Threads : u # t => call'[u] = call[u]
  BY DEF TypeOK, Update

(* What the invariants say of a thread depends on its own call only.       *)
LEMMA OtherThread ==
  ASSUME NEW u \in Threads, call'[u] = call[u]
  PROVE  /\ PlanOk(u)' <=> PlanOk(u)
         /\ InHand(u)' = InHand(u)
         /\ WatchOnly(u)' <=> WatchOnly(u)
         /\ SerialAhead(u)' <=> SerialAhead(u)
         /\ InFlight(u)' <=> InFlight(u)
<1>1. PlanOk(u)' <=> PlanOk(u)
  BY DEF PlanOk, Fits
<1>2. InHand(u)' = InHand(u)
  BY DEF InHand, Deciding
<1>3. WatchOnly(u)' <=> WatchOnly(u)
  BY DEF WatchOnly
<1>4. SerialAhead(u)' <=> SerialAhead(u)
  BY DEF SerialAhead
<1>5. InFlight(u)' <=> InFlight(u)
  BY DEF InFlight, Deciding
<1> QED
  BY <1>1, <1>2, <1>3, <1>4, <1>5

(* ... and, for what it is about to do, on the policy.                     *)
LEMMA OtherPending ==
  ASSUME NEW u \in Threads, call'[u] = call[u], policy' = policy, NEW d
  PROVE  /\ DevicePending(u, d)' <=> DevicePending(u, d)
         /\ InterfacePending(u, d)' <=> InterfacePending(u, d)
<1>1. DevicePending(u, d)' <=> DevicePending(u, d)
  BY OtherThread DEF DevicePending, Ahead
<1>2. InterfacePending(u, d)' <=> InterfacePending(u, d)
  BY DEF InterfacePending, Ahead
<1> QED
  BY <1>1, <1>2

(* Only a thread in flight is about to apply a policy.                     *)
LEMMA PendingInFlight ==
  ASSUME TypeOK, NEW t \in Threads, PlanOk(t), NEW d,
         DevicePending(t, d) \/ InterfacePending(t, d)
  PROVE  InFlight(t)
<1>1. CASE call[t].walk # "none"
  BY <1>1 DEF PlanOk, InFlight, Deciding
<1>2. CASE call[t].walk = "none"
  <2>1. PICK w \in PolicyWalks : Ahead(t, w)
    BY <1>2 DEF DevicePending, InterfacePending, PolicyWalks
  <2>2. call[t].plan # <<>> /\ Head(call[t].plan) # "strategy"
    BY <2>1, Tuples DEF Ahead, PolicyWalks
  <2>3. call[t].pc \in Pcs
    BY DEF TypeOK, Calls
  <2>4. call[t].pc = "next"
    BY <2>2, <2>3, <1>2 DEF PlanOk, Pcs, Idle
  <2> QED
    BY <2>2, <2>4 DEF InFlight
<1> QED
  BY <1>1, <1>2

(* A device about which nothing changes stays as the policy wants it.      *)
LEMMA ForceFrame ==
  ASSUME NEW d \in Devs, BannedIsOff(d), OffIsBanned(d), InterfaceMatches(d),
         policy' = policy,
         status'[d] = "disabled" <=> status[d] = "disabled",
         d \in ifOff' <=> d \in ifOff,
         AskPending(d) => AskPending(d)',
         LiftPending(d) => LiftPending(d)',
         \A t \in Threads : DevicePending(t, d) => DevicePending(t, d)',
         \A t \in Threads : InterfacePending(t, d) => InterfacePending(t, d)'
  PROVE  BannedIsOff(d)' /\ OffIsBanned(d)' /\ InterfaceMatches(d)'
<1>1. Forbidden(d)' <=> Forbidden(d)
  BY DEF Forbidden
<1>2. BannedIsOff(d)'
  BY <1>1 DEF BannedIsOff
<1>3. OffIsBanned(d)'
  BY <1>1 DEF OffIsBanned
<1>4. InterfaceMatches(d)'
  BY <1>1 DEF InterfaceMatches
<1> QED
  BY <1>2, <1>3, <1>4

(* The jobs of a walk ask for what the policy of the walk says.            *)
LEMMA JobsFit ==
  ASSUME TypeOK, NEW walk \in Walks, NEW pol \in PolicyType,
         walk \in PolicyWalks => pol \in Policies,
         walk = "globalOff" => pol.kind = "global",
         walk = "globalOn" => pol = NoPolicy,
         walk \in {"types", "trust"} => pol.kind \in {walk, "none"},
         walk \in {"deviceOff", "deviceOn"} => pol.kind = "device",
         walk = "onlyTypes" => pol.kind = "only",
         NEW j \in JobsOf(walk, pol.set)
  PROVE  /\ walk \in PolicyWalks /\ j.what = "device" => j.on = ~Bans(pol, j.dev)
         /\ j.what = "interface" =>
              \/ walk = "globalOn" /\ j.on
              \/ /\ walk = "types" /\ HasInterface(j.dev)
                 /\ j.on = ~BarsInterface(pol, j.dev)
              \/ walk = "onlyTypes" /\ HasInterface(j.dev)
         /\ walk \in {"serialOff", "serialOn"} =>
              j.dev \in serialDevs /\ j.on = (walk = "serialOn")
         /\ walk \in {"deviceOff", "deviceOn", "onlyTypes"} => Meant(pol, j.dev)
<1> USE DEF PolicyWalks
<1>1. CASE walk = "globalOff"
  <2>1. PICK d \in Present \intersect Hubs : j = Job(d, "device", d \in {})
    BY <1>1 DEF JobsOf, ManageGlobalInterfaceImpl, DeviceJobs
  <2> QED
    BY <2>1, <1>1 DEF Job, Bans
<1>2. CASE walk = "globalOn"
  <2>1. PICK d \in Present : \/ j = Job(d, "device", d \in Devs)
                            \/ j = Job(d, "interface", d \in Devs)
    BY <1>2 DEF JobsOf, ManageGlobalInterfaceImpl, DeviceJobs, InterfaceJobs
  <2>2. d \in Devs /\ ~Bans(pol, d)
    BY <1>2 DEF Bans, NoPolicy, Present
  <2>3. CASE j = Job(d, "device", d \in Devs)
    BY <2>2, <2>3, <1>2 DEF Job
  <2>4. CASE j = Job(d, "interface", d \in Devs)
    BY <2>2, <2>4, <1>2 DEF Job
  <2> QED
    BY <2>1, <2>3, <2>4
<1>3. CASE walk = "types"
  <2>0. pol \in Policies /\ (pol.kind = "none" => pol.set = {})
    BY <1>3, HostAssumption
  <2>1. CASE \E d \in {e \in Present : TypeOf[e] # NoType} :
               j = Job(d, "device", d \in {e \in Devs : TypeOf[e] \notin pol.set})
    <3>1. PICK d \in Present : j = Job(d, "device", d \in {e \in Devs : TypeOf[e] \notin pol.set})
      BY <2>1
    <3> QED
      BY <3>1, <2>0, <1>3 DEF Job, Bans, Present
  <2>2. CASE \E d \in {e \in Present \ Hubs : IfTypeOf[e] # NoType} :
               j = Job(d, "interface", d \in {e \in Devs : IfTypeOf[e] \notin pol.set})
    <3>1. PICK d \in {e \in Present \ Hubs : IfTypeOf[e] # NoType} :
               j = Job(d, "interface", d \in {e \in Devs : IfTypeOf[e] \notin pol.set})
      BY <2>2
    <3> QED
      BY <3>1, <1>3 DEF Job, BarsInterface, HasInterface, Present
  <2> QED
    BY <2>1, <2>2, <1>3 DEF JobsOf, ExecuteManageInterfaceType, Listed, DeviceJobs,
       InterfaceJobs
<1>7. CASE walk = "onlyTypes"
  <2>1. CASE \E d \in {e \in Present : TypeOf[e] # NoType}, b \in BOOLEAN :
               j = Job(d, "device", b)
    BY <1>7, <2>1 DEF Job, Meant, Present
  <2>2. CASE \E d \in {e \in Present \ Hubs : IfTypeOf[e] # NoType}, b \in BOOLEAN :
               j = Job(d, "interface", b)
    BY <1>7, <2>2 DEF Job, Meant, HasInterface, Present
  <2>3. \A d, R : (d \in R) \in BOOLEAN
    OBVIOUS
  <2>4. \/ \E d \in {e \in Present : TypeOf[e] # NoType} :
             j = Job(d, "device", d \in {e \in Devs : TypeOf[e] \notin Listed(pol.set, FALSE)})
        \/ \E d \in {e \in Present \ Hubs : IfTypeOf[e] # NoType} :
             j = Job(d, "interface",
                     d \in {e \in Devs : IfTypeOf[e] \notin Listed(pol.set, FALSE)})
    BY <1>7 DEF JobsOf, ExecuteManageInterfaceType, DeviceJobs, InterfaceJobs
  <2> QED
    BY <2>1, <2>2, <2>3, <2>4
<1>4. CASE walk = "trust"
  <2>0. /\ pol \in Policies /\ (pol.kind = "none" => pol.set = {})
        /\ pol.kind = "trust" => pol.set # {}
    BY <1>4, HostAssumption
  <2>1. PICK d \in Present \ Hubs :
          j = Job(d, "device", d \in {e \in Devs : pol.set = {} \/ IdOf[e] \in pol.set})
    BY <1>4 DEF JobsOf, ExecuteManageDevicePolicy, DeviceJobs
  <2> QED
    BY <2>1, <2>0, <1>4 DEF Job, Bans, Present
<1>5. CASE walk \in {"deviceOff", "deviceOn"}
  <2>1. PICK d \in {e \in Present \ Hubs : IdOf[e] \in pol.set} :
          j = Job(d, "device", d \in (IF walk = "deviceOff" THEN {} ELSE Devs))
    BY <1>5 DEF JobsOf, ManageDeviceImpl, DeviceJobs
  <2> QED
    BY <2>1, <1>5 DEF Job, Meant
<1>6. CASE walk \in {"serialOff", "serialOn"}
  <2>1. PICK d \in serialDevs :
          j = Job(d, "device", d \in (IF walk = "serialOff" THEN {} ELSE Devs))
    BY <1>6 DEF JobsOf, ManageUsbSerialDevice, DeviceJobs
  <2>2. d \in Devs
    BY DEF TypeOK
  <2> QED
    BY <2>1, <2>2, <1>6 DEF Job
<1> QED
  BY <1>1, <1>2, <1>3, <1>4, <1>5, <1>6, <1>7 DEF Walks

(* A walk has a job for every device it is about.                          *)
LEMMA JobsCover ==
  ASSUME TypeOK, NEW d \in Present, NEW S
  PROVE  /\ \A w \in PolicyWalks : Covers(w, d) =>
              \E j \in JobsOf(w, S) : j.dev = d /\ j.what = "device"
         /\ HasInterface(d) =>
              \E j \in JobsOf("types", S) : j.dev = d /\ j.what = "interface"
         /\ d \in serialDevs => \E j \in JobsOf("serialOn", S) : j.dev = d
<1> USE DEF DeviceJobs, InterfaceJobs
<1>1. \A R, b : Job(d, "device", b).dev = d /\ Job(d, "device", b).what = "device"
  BY DEF Job
<1>2. \A R, b : Job(d, "interface", b).dev = d /\ Job(d, "interface", b).what = "interface"
  BY DEF Job
<1>3. d \in Hubs => Job(d, "device", d \in {}) \in JobsOf("globalOff", S)
  BY DEF JobsOf, ManageGlobalInterfaceImpl
<1>4. Job(d, "device", d \in Devs) \in JobsOf("globalOn", S)
  BY DEF JobsOf, ManageGlobalInterfaceImpl
<1>5. TypeOf[d] # NoType =>
        Job(d, "device", d \in {e \in Devs : TypeOf[e] \notin S}) \in JobsOf("types", S)
  BY DEF JobsOf, ExecuteManageInterfaceType, Listed
<1>6. d \notin Hubs =>
        Job(d, "device", d \in {e \in Devs : S = {} \/ IdOf[e] \in S}) \in JobsOf("trust", S)
  BY DEF JobsOf, ExecuteManageDevicePolicy
<1>7. HasInterface(d) =>
        Job(d, "interface", d \in {e \in Devs : IfTypeOf[e] \notin S}) \in JobsOf("types", S)
  BY DEF JobsOf, ExecuteManageInterfaceType, Listed, HasInterface
<1>8. d \in serialDevs => Job(d, "device", d \in Devs) \in JobsOf("serialOn", S)
  BY DEF JobsOf, ManageUsbSerialDevice
<1> QED
  BY <1>1, <1>2, <1>3, <1>4, <1>5, <1>6, <1>7, <1>8 DEF Covers, PolicyWalks

(* A step of one thread keeps what the invariant says of the others.       *)
LEMMA PlanFrame ==
  ASSUME PlanInv, NEW t \in Threads, PlanOk(t)',
         \A u \in Threads : u # t => call'[u] = call[u]
  PROVE  PlanInv'
<1> SUFFICES ASSUME NEW u \in Threads PROVE PlanOk(u)'
  BY DEF PlanInv
<1>1. CASE u = t
  BY <1>1
<1>2. CASE u # t
  BY <1>2, OtherThread DEF PlanInv
<1> QED
  BY <1>1, <1>2

(* ... the jobs of the others,                                             *)
LEMMA JobFrame ==
  ASSUME JobInv, NEW t \in Threads, serialDevs \subseteq serialDevs',
         \A j \in InHand(t)' : JobOk(t, j)',
         \A u \in Threads : u # t => call'[u] = call[u]
  PROVE  JobInv'
<1> SUFFICES ASSUME NEW u \in Threads PROVE (\A j \in InHand(u) : JobOk(u, j))'
  BY DEF JobInv
<1>1. CASE u = t
  BY <1>1
<1>2. CASE u # t
  <2>1. call'[u] = call[u] /\ InHand(u)' = InHand(u)
    BY <1>2, OtherThread
  <2>2. ASSUME NEW j \in InHand(u) PROVE JobOk(u, j)'
    <3>1. JobOk(u, j)
      BY DEF JobInv
    <3> QED
      BY <3>1, <2>1 DEF JobOk
  <2> QED
    BY <2>1, <2>2
<1> QED
  BY <1>1, <1>2

(* ... and whether they act on the policy in force.                        *)
LEMMA FreshFrame ==
  ASSUME FreshInv, NEW t \in Threads, policy' = policy, serialOff' = serialOff,
         excused' \subseteq Devs,
         excused \subseteq excused' \/ Alone(t), InFlight(t)' => FreshOk(t)',
         \A u \in Threads : u # t => call'[u] = call[u]
  PROVE  FreshInv'
<1> SUFFICES ASSUME NEW u \in Threads, InFlight(u)' PROVE FreshOk(u)'
  BY DEF FreshInv
<1>1. CASE u = t
  BY <1>1
<1>2. CASE u # t
  <2>1. call'[u] = call[u] /\ InFlight(u)
    BY <1>2, OtherThread
  <2>2. excused \subseteq excused'
    BY <1>2, <2>1 DEF Alone
  <2>3. FreshOk(u) /\ (WatchOnly(u)' <=> WatchOnly(u)) /\ (SerialAhead(u)' <=> SerialAhead(u))
    BY <2>1, OtherThread DEF FreshInv
  <2> QED
    BY <2>1, <2>2, <2>3 DEF FreshOk
<1> QED
  BY <1>1, <1>2

(* What the watcher is about to do for a device, when it does not move.    *)
LEMMA WatchFrame ==
  ASSUME NEW d, call'["watch"] = call["watch"], notice' = notice,
         d \in serialDevs => d \in serialDevs'
  PROVE  /\ LiftPending(d) => LiftPending(d)'
         /\ AskPending(d) =>
              AskPending(d)' \/ (adding = d /\ (call["event"].pc = "recorded"
                                                \/ call["event"].plan = <<"strategy">>))
<1>1. InHand("watch")' = InHand("watch")
  BY DEF InHand, Deciding
<1>2. LiftPending(d) => LiftPending(d)'
  BY <1>1 DEF LiftPending
<1>3. AsksLater' <=> AsksLater
  BY DEF AsksLater
<1> QED
  BY <1>2, <1>3 DEF AskPending

(* The serial parameter, when neither it nor the watcher moves.            *)
LEMMA SerialFrame ==
  ASSUME SerialInv, call'["watch"] = call["watch"], notice' = notice,
         serialOff' = serialOff, serialDevs' # {} => serialUp'
  PROVE  SerialInv'
<1>1. SerialAhead("watch")' <=> SerialAhead("watch")
  BY DEF SerialAhead
<1>2. AsksLater' <=> AsksLater
  BY DEF AsksLater
<1> QED
  BY <1>1, <1>2 DEF SerialInv

(* A device that a step of t leaves alone stays as the policy wants it.    *)
LEMMA LeftAlone ==
  ASSUME NEW t \in Threads, NEW d \in Devs, ForceInv, Governed(d),
         \A u \in Threads : u # t => call'[u] = call[u],
         policy' = policy,
         status'[d] = "disabled" <=> status[d] = "disabled",
         d \in ifOff' <=> d \in ifOff,
         AskPending(d) => AskPending(d)',
         LiftPending(d) => LiftPending(d)',
         DevicePending(t, d) => DevicePending(t, d)',
         InterfacePending(t, d) => InterfacePending(t, d)'
  PROVE  BannedIsOff(d)' /\ OffIsBanned(d)' /\ InterfaceMatches(d)'
<1>1. BannedIsOff(d) /\ OffIsBanned(d) /\ InterfaceMatches(d)
  BY DEF ForceInv
<1>2. \A u \in Threads : DevicePending(u, d) => DevicePending(u, d)'
  BY OtherPending
<1>3. \A u \in Threads : InterfacePending(u, d) => InterfacePending(u, d)'
  BY OtherPending
<1> QED
  BY <1>1, <1>2, <1>3, ForceFrame

(* An event of the driver about a new device.                              *)
LEMMA PolicyAddEvent ==
  ASSUME PolicyInv, HostInv', NEW e \in Devs, AddEvent(e)
  PROVE  PolicyInv'
<1> USE DEF PolicyInv, HostInv, edmVars, paramVars, kernelVars
<1>1. "event" \in Threads /\ "watch" \in Threads /\ call["event"] \in Calls
  BY Literals DEF TypeOK
<1>2. /\ call'["event"] = [call["event"] EXCEPT !.pc = "insert"]
      /\ \A u \in Threads : u # "event" => call'[u] = call[u]
  BY <1>1, Write DEF AddEvent, Goto
<1>0. call["event"] = Idle
  BY <1>1 DEF AddEvent, PlanInv, PlanOk
<1>3. /\ call["event"].pc = "idle" /\ call["event"].plan = <<>>
      /\ call["event"].walk = "none" /\ call["event"].todo = {}
  BY <1>0 DEF Idle
<1>4. /\ call'["event"].pc = "insert" /\ call'["event"].plan = <<>>
      /\ call'["event"].walk = "none" /\ call'["event"].todo = {}
  BY <1>1, <1>2, <1>3 DEF Calls
<1>5. PlanInv'
  BY <1>1, <1>2, <1>4, PlanFrame DEF PlanOk, Fits, PolicyWalks
<1>6. JobInv'
  BY <1>1, <1>2, <1>4, JobFrame DEF AddEvent, InHand, Deciding
<1>7. FreshInv'
  BY <1>1, <1>2, <1>4, FreshFrame DEF AddEvent, InFlight, Deciding, TypeOK
<1>8. SerialInv'
  BY <1>1, <1>2, SerialFrame DEF AddEvent, SerialInv
<1>9. InterfaceInv'
  BY DEF AddEvent, InterfaceInv
<1>10. ASSUME NEW d \in Devs, Governed(d)'
       PROVE  BannedIsOff(d)' /\ OffIsBanned(d)' /\ InterfaceMatches(d)'
  <2>1. d # e /\ Governed(d)
    BY <1>10 DEF AddEvent, Governed, Present, SerialManaged
  <2>2. ~DevicePending("event", d) /\ ~InterfacePending("event", d)
    BY <1>3, Tuples DEF DevicePending, InterfacePending, Ahead, PolicyWalks
  <2>3. AskPending(d) => AskPending(d)'
    BY <1>1, <1>2, <1>3, WatchFrame, Tuples DEF AddEvent
  <2>4. LiftPending(d) => LiftPending(d)'
    BY <1>1, <1>2, WatchFrame DEF AddEvent
  <2> QED
    BY <1>1, <1>2, <2>1, <2>2, <2>3, <2>4, LeftAlone DEF AddEvent
<1> QED
  BY <1>5, <1>6, <1>7, <1>8, <1>9, <1>10 DEF ForceInv

(* A device is removed: nobody is in a walk.                               *)
LEMMA PolicyDelDevice ==
  ASSUME PolicyInv, HostInv', NEW e \in Devs, DelDevice(e)
  PROVE  PolicyInv'
<1> USE DEF PolicyInv, HostInv, edmVars, paramVars, kernelVars
<1>1. "event" \in Threads /\ "watch" \in Threads /\ call' = call
  BY Literals DEF DelDevice
<1>2. \A t \in Threads : InHand(t)' = {}
  BY <1>1 DEF DelDevice, LockFree, Reader, Deciding, EntryInv, InHand
<1>5. PlanInv'
  BY <1>1, PlanFrame, OtherThread DEF PlanInv
<1>6. JobInv'
  BY <1>2 DEF JobInv
<1>7. FreshInv'
  BY <1>1, OtherThread DEF DelDevice, FreshInv, FreshOk
<1>8. SerialInv'
  BY <1>1, SerialFrame DEF DelDevice, SerialInv
<1>9. InterfaceInv'
  BY DEF DelDevice, InterfaceInv, TypeOK
<1>10. ASSUME NEW d \in Devs, Governed(d)'
       PROVE  BannedIsOff(d)' /\ OffIsBanned(d)' /\ InterfaceMatches(d)'
  <2>1. d # e /\ Governed(d) /\ status'[d] = status[d]
    BY <1>10 DEF DelDevice, Governed, Present, SerialManaged, TypeOK
  <2>2. /\ DevicePending("event", d) => DevicePending("event", d)'
        /\ InterfacePending("event", d) => InterfacePending("event", d)'
    BY <1>1, OtherPending DEF DelDevice
  <2>3. AskPending(d) => AskPending(d)'
    BY <1>1, <2>1 DEF DelDevice, AskPending, AsksLater
  <2>4. LiftPending(d) => LiftPending(d)'
    BY <1>1, <2>1, WatchFrame DEF DelDevice
  <2> QED
    BY <1>1, <2>1, <2>2, <2>3, <2>4, LeftAlone DEF DelDevice
<1> QED
  BY <1>5, <1>6, <1>7, <1>8, <1>9, <1>10 DEF ForceInv

(* The entry of a new device, which is going to ask for the policy.        *)
LEMMA PolicyAddDevice ==
  ASSUME PolicyInv, HostInv', AddDevice
  PROVE  PolicyInv'
<1> USE DEF PolicyInv, HostInv, edmVars, paramVars, kernelVars
<1>1. "event" \in Threads /\ "watch" \in Threads /\ call["event"] \in Calls
  BY Literals DEF TypeOK
<1>2. /\ call'["event"] = [call["event"] EXCEPT !.pc = "recorded"]
      /\ \A u \in Threads : u # "event" => call'[u] = call[u]
  BY <1>1, Write DEF AddDevice, Goto
<1>3. call["event"].plan = <<>> /\ call["event"].walk = "none" /\ call["event"].todo = {}
  BY <1>1 DEF AddDevice, PlanInv, PlanOk, EntryInv
<1>4. /\ call'["event"].pc = "recorded" /\ call'["event"].plan = <<>>
      /\ call'["event"].walk = "none" /\ call'["event"].todo = {}
  BY <1>1, <1>2, <1>3 DEF Calls
<1>5. PlanInv'
  BY <1>1, <1>2, <1>4, PlanFrame DEF PlanOk, Fits, PolicyWalks
<1>6. JobInv'
  BY <1>1, <1>2, <1>4, JobFrame DEF AddDevice, InHand, Deciding
<1>7. FreshInv'
  BY <1>1, <1>2, <1>4, FreshFrame DEF AddDevice, InFlight, Deciding, TypeOK
<1>8. SerialInv'
  BY <1>1, <1>2, SerialFrame DEF AddDevice, SerialInv
<1>9. InterfaceInv'
  BY DEF AddDevice, InterfaceInv, TypeOK
<1>10. ASSUME NEW d \in Devs, Governed(d)'
       PROVE  BannedIsOff(d)' /\ OffIsBanned(d)' /\ InterfaceMatches(d)'
  <2>0. CASE d = adding
    <3>1. AskPending(d)' /\ status'[d] = "new"
      BY <2>0, <1>4 DEF AddDevice, AskPending, TypeOK
    <3> QED
      BY <3>1 DEF BannedIsOff, OffIsBanned, InterfaceMatches
  <2>5. CASE d # adding
    <3>1. Governed(d) /\ status'[d] = status[d]
      BY <2>5, <1>10 DEF AddDevice, Governed, Present, SerialManaged, TypeOK
    <3>2. ~DevicePending("event", d) /\ ~InterfacePending("event", d)
      BY <1>3, Tuples DEF DevicePending, InterfacePending, Ahead, PolicyWalks
    <3>3. AskPending(d) => AskPending(d)'
      BY <1>1, <1>2, <2>5, WatchFrame DEF AddDevice
    <3>4. LiftPending(d) => LiftPending(d)'
      BY <1>1, <1>2, WatchFrame DEF AddDevice
    <3> QED
      BY <1>1, <1>2, <3>1, <3>2, <3>3, <3>4, LeftAlone DEF AddDevice
  <2> QED
    BY <2>0, <2>5
<1> QED
  BY <1>5, <1>6, <1>7, <1>8, <1>9, <1>10 DEF ForceInv

(* The new device is recorded as a serial device or not.                   *)
LEMMA PolicyAddUsbSerialDevice ==
  ASSUME PolicyInv, HostInv', AddUsbSerialDevice
  PROVE  PolicyInv'
<1> USE DEF PolicyInv, HostInv, edmVars, paramVars, kernelVars
<1>1. "event" \in Threads /\ "watch" \in Threads /\ call["event"] \in Calls
  BY Literals DEF TypeOK
<1>2. /\ call'["event"] = [call["event"] EXCEPT !.pc = "next", !.plan = <<"strategy">>]
      /\ \A u \in Threads : u # "event" => call'[u] = call[u]
  BY <1>1, Write DEF AddUsbSerialDevice
<1>3. call["event"].plan = <<>> /\ call["event"].walk = "none" /\ call["event"].todo = {}
  BY <1>1 DEF AddUsbSerialDevice, PlanInv, PlanOk, EntryInv
<1>4. /\ call'["event"].pc = "next" /\ call'["event"].plan = <<"strategy">>
      /\ call'["event"].walk = "none" /\ call'["event"].todo = {}
  BY <1>1, <1>2, <1>3 DEF Calls
<1>5. PlanInv'
  BY <1>1, <1>2, <1>4, PlanFrame DEF PlanOk, Fits, PolicyWalks
<1>6. JobInv'
  BY <1>1, <1>2, <1>4, JobFrame DEF AddUsbSerialDevice, InHand, Deciding
<1>7. FreshInv'
  BY <1>1, <1>2, <1>4, FreshFrame, Tuples DEF AddUsbSerialDevice, InFlight, Deciding, TypeOK
<1>8. SerialInv'
  BY <1>1, <1>2, SerialFrame DEF AddUsbSerialDevice, SerialInv
<1>9. InterfaceInv'
  BY DEF AddUsbSerialDevice, InterfaceInv
<1>10. ASSUME NEW d \in Devs, Governed(d)'
       PROVE  BannedIsOff(d)' /\ OffIsBanned(d)' /\ InterfaceMatches(d)'
  <2>1. Governed(d)
    BY <1>10 DEF AddUsbSerialDevice, Governed, Present, SerialManaged
  <2>2. ~DevicePending("event", d) /\ ~InterfacePending("event", d)
    BY <1>3, Tuples DEF DevicePending, InterfacePending, Ahead, PolicyWalks
  <2>3. AskPending(d) => AskPending(d)'
    BY <1>1, <1>2, <1>4 DEF AddUsbSerialDevice, AskPending, AsksLater
  <2>4. LiftPending(d) => LiftPending(d)'
    BY <1>1, <1>2, WatchFrame DEF AddUsbSerialDevice
  <2> QED
    BY <1>1, <1>2, <2>1, <2>2, <2>3, <2>4, LeftAlone DEF AddUsbSerialDevice
<1> QED
  BY <1>5, <1>6, <1>7, <1>8, <1>9, <1>10 DEF ForceInv

(* The end of AddDevice: the strategy is over, and no walk is left.        *)
LEMMA PolicyAdded ==
  ASSUME PolicyInv, HostInv', AddedUnseen \/ AddedAllowed \/ AddedEnable
  PROVE  PolicyInv'
<1> USE DEF PolicyInv, HostInv, deviceVars, edmVars, paramVars, kernelVars
<1>1. "event" \in Threads /\ "watch" \in Threads /\ call["event"] \in Calls
  BY Literals DEF TypeOK
<1>2. /\ \/ call'["event"] = Idle
         \/ call'["event"] = [call["event"] EXCEPT !.pc = "enable"]
      /\ \A u \in Threads : u # "event" => call'[u] = call[u]
  BY <1>1, Write DEF AddedUnseen, AddedAllowed, AddedEnable, Goto, Done
<1>3. /\ call["event"].pc \in {"next", "enable"}
      /\ call["event"].plan = <<>> /\ call["event"].walk = "none" /\ call["event"].todo = {}
  BY <1>1 DEF AddedUnseen, AddedAllowed, AddedEnable, PlanInv, PlanOk, EntryInv
<1>4. /\ call'["event"].pc \in {"idle", "enable"} /\ call'["event"].plan = <<>>
      /\ call'["event"].walk = "none" /\ call'["event"].todo = {}
      /\ call'["event"].pc = "idle" => call'["event"] = Idle
  <2>1. CASE call'["event"] = Idle
    BY <2>1 DEF Idle
  <2>2. CASE call'["event"] = [call["event"] EXCEPT !.pc = "enable"]
    BY <1>1, <1>3, <2>2 DEF Calls
  <2> QED
    BY <1>2, <2>1, <2>2
<1>a. /\ UNCHANGED <<serialDevs, policy, serialOff, notice, ifOff, excused>>
      /\ disturbed \subseteq disturbed'
      /\ serialUp => serialUp'
      /\ \A d \in Devs : d \notin disturbed' => (status'[d] = "disabled" <=> status[d] = "disabled")
      /\ Present' = Present
  <2>1. CASE AddedUnseen \/ AddedAllowed
    BY <2>1 DEF AddedUnseen, AddedAllowed, Disturb, StartSerial, TypeOK, Present
  <2>2. CASE AddedEnable
    <3>1. adding \in Present /\ adding \in Devs
      BY <2>2 DEF AddedEnable, EntryInv, LockInv
    <3>2. adding \notin disturbed => status[adding] \in {"new", "enabled"}
      BY <2>2, <3>1 DEF AddedEnable, DecisionInv
    <3> QED
      BY <2>2, <3>1, <3>2 DEF AddedEnable, StartSerial, TypeOK, Present
  <2> QED
    BY <2>1, <2>2
<1>5. PlanInv'
  BY <1>1, <1>2, <1>4, PlanFrame DEF PlanOk, Fits, PolicyWalks
<1>6. JobInv'
  BY <1>1, <1>2, <1>4, <1>a, JobFrame DEF InHand, Deciding
<1>7. FreshInv'
  BY <1>1, <1>2, <1>4, <1>a, FreshFrame DEF InFlight, Deciding, TypeOK
<1>8. SerialInv'
  BY <1>1, <1>2, <1>a, SerialFrame DEF SerialInv
<1>9. InterfaceInv'
  BY <1>a DEF InterfaceInv, TypeOK
<1>10. ASSUME NEW d \in Devs, Governed(d)'
       PROVE  BannedIsOff(d)' /\ OffIsBanned(d)' /\ InterfaceMatches(d)'
  <2>1. Governed(d) /\ d \notin disturbed'
    BY <1>10, <1>a DEF Governed, SerialManaged
  <2>2. ~DevicePending("event", d) /\ ~InterfacePending("event", d)
    BY <1>3, Tuples DEF DevicePending, InterfacePending, Ahead, PolicyWalks
  <2>3. AskPending(d) => AskPending(d)'
    BY <1>1, <1>2, <1>3, <1>a, WatchFrame, Tuples
  <2>4. LiftPending(d) => LiftPending(d)'
    BY <1>1, <1>2, <1>a, WatchFrame
  <2> QED
    BY <1>1, <1>2, <1>a, <2>1, <2>2, <2>3, <2>4, LeftAlone
<1> QED
  BY <1>5, <1>6, <1>7, <1>8, <1>9, <1>10 DEF ForceInv

(* A plan of two parts is put together.                                    *)
LEMMA Joined ==
  ASSUME NEW S, NEW v \in S, NEW w \in S
  PROVE  <<v>> \o <<w>> = <<v, w>>
<1>0. <<v>> \in Seq(S) /\ <<w>> \in Seq(S) /\ <<v, w>> \in Seq(S)
  OBVIOUS
<1>1. (<<v>> \o <<w>>) \in Seq(S)
  BY <1>0
<1>2. Len(<<v>> \o <<w>>) = 2
  BY <1>0
<1>3. (<<v>> \o <<w>>)[1] = v
  BY <1>0
<1>4. (<<v>> \o <<w>>)[2] = w
  BY <1>0
<1>5. \A s \in Seq(S) : s = [i \in 1 .. Len(s) |-> s[i]]
  OBVIOUS
<1>6. (<<v>> \o <<w>>) = [i \in 1 .. 2 |-> (<<v>> \o <<w>>)[i]]
  BY <1>1, <1>2, <1>5
<1>7. <<v, w>> = [i \in 1 .. 2 |-> <<v, w>>[i]]
  BY <1>0, <1>5
<1>8. \A i \in 1 .. 2 : (<<v>> \o <<w>>)[i] = <<v, w>>[i]
  BY <1>3, <1>4
<1> QED
  BY <1>6, <1>7, <1>8

(* The walks of a strategy.                                                *)
LEMMA StrategyPlans ==
  ASSUME NEW pol \in Policies, NEW off \in BOOLEAN
  PROVE  \/ pol.kind = "none" /\ StrategyPlan(pol, off) = <<>>
         \/ pol.kind = "none" /\ off /\ StrategyPlan(pol, off) = <<"serialOff">>
         \/ pol.kind = "global" /\ StrategyPlan(pol, off) = <<"globalOff">>
         \/ pol.kind \in {"types", "trust"} /\ StrategyPlan(pol, off) = <<pol.kind>>
         \/ /\ pol.kind \in {"types", "trust"} /\ off
            /\ StrategyPlan(pol, off) = <<"serialOff", pol.kind>>
<1>1. pol.kind \in {"none", "global", "types", "trust"}
  BY HostAssumption DEF PolicyType
<1>2. CASE pol.kind = "global"
  BY <1>2 DEF StrategyPlan
<1>3. CASE pol.kind = "none"
  BY <1>3 DEF StrategyPlan
<1>4. CASE pol.kind = "types"
  <2>1. CASE off
    <3>1. StrategyPlan(pol, off) = <<"serialOff">> \o <<"types">>
      BY <1>4, <2>1 DEF StrategyPlan
    <3>0. "serialOff" \in Walks /\ "types" \in Walks
      BY DEF Walks
    <3>2. <<"serialOff">> \o <<"types">> = <<"serialOff", "types">>
      BY <3>0, Joined
    <3> QED
      BY <1>4, <2>1, <3>1, <3>2
  <2>2. CASE ~off
    <3>1. StrategyPlan(pol, off) = <<>> \o <<"types">>
      BY <1>4, <2>2 DEF StrategyPlan
    <3>2. <<>> \o <<"types">> = <<"types">>
      OBVIOUS
    <3> QED
      BY <1>4, <3>1, <3>2
  <2> QED
    BY <2>1, <2>2
<1>5. CASE pol.kind = "trust"
  <2>1. CASE off
    <3>1. StrategyPlan(pol, off) = <<"serialOff">> \o <<"trust">>
      BY <1>5, <2>1 DEF StrategyPlan
    <3>0. "serialOff" \in Walks /\ "trust" \in Walks
      BY DEF Walks
    <3>2. <<"serialOff">> \o <<"trust">> = <<"serialOff", "trust">>
      BY <3>0, Joined
    <3> QED
      BY <1>5, <2>1, <3>1, <3>2
  <2>2. CASE ~off
    <3>1. StrategyPlan(pol, off) = <<>> \o <<"trust">>
      BY <1>5, <2>2 DEF StrategyPlan
    <3>2. <<>> \o <<"trust">> = <<"trust">>
      OBVIOUS
    <3> QED
      BY <1>5, <3>1, <3>2
  <2> QED
    BY <2>1, <2>2
<1> QED
  BY <1>1, <1>2, <1>3, <1>4, <1>5

(* A ban that is recorded is covered by the walk that goes with it.        *)
LEMMA BansCovered ==
  ASSUME NEW pol \in Policies, NEW d \in Devs, Bans(pol, d)
  PROVE  \/ pol.kind = "global" /\ Covers("globalOff", d)
         \/ pol.kind = "types" /\ Covers("types", d)
         \/ pol.kind = "trust" /\ Covers("trust", d)
<1>1. pol.set \subseteq Types \union Ids
  BY HostAssumption DEF PolicyType
<1> QED
  BY <1>1, HostAssumption DEF Bans, Covers

(* A thread has asked for the policy in force, and applies it to everything *)
(* it is about.                                                            *)
LEMMA PolicyExecuteStrategy ==
  ASSUME PolicyInv, HostInv', NEW t \in Threads, ExecuteStrategy(t)
  PROVE  PolicyInv'
<1> USE DEF PolicyInv, HostInv, deviceVars, edmVars, paramVars, kernelVars
<1>1. "event" \in Threads /\ "watch" \in Threads /\ call[t] \in Calls
  BY Literals DEF TypeOK
<1>2. /\ call'[t] = [call[t] EXCEPT !.plan = StrategyPlan(policy, serialOff), !.pol = policy]
      /\ \A u \in Threads : u # t => call'[u] = call[u]
  BY <1>1, Write DEF ExecuteStrategy
<1>3. /\ call[t].pc = "next" /\ call[t].plan = <<"strategy">>
      /\ call[t].walk = "none" /\ call[t].todo = {} /\ t # "admin"
  <2>1. call[t].pc = "next" /\ Head(call[t].plan) = "strategy" /\ call[t].plan # <<>>
    BY DEF ExecuteStrategy, EdmAnswers
  <2> QED
    BY <1>1, <2>1, Tuples DEF PlanInv, PlanOk, EntryInv, Walks
<1>4. /\ call'[t].pc = "next" /\ call'[t].plan = StrategyPlan(policy, serialOff)
      /\ call'[t].pol = policy
      /\ call'[t].walk = "none" /\ call'[t].todo = {}
  BY <1>1, <1>2, <1>3 DEF Calls
<1>a. policy \in Policies /\ serialOff \in BOOLEAN
  BY DEF TypeOK
<1>p. \/ policy.kind = "none" /\ call'[t].plan = <<>>
      \/ policy.kind = "none" /\ serialOff /\ call'[t].plan = <<"serialOff">>
      \/ policy.kind = "global" /\ call'[t].plan = <<"globalOff">>
      \/ policy.kind \in {"types", "trust"} /\ call'[t].plan = <<policy.kind>>
      \/ /\ policy.kind \in {"types", "trust"} /\ serialOff
         /\ call'[t].plan = <<"serialOff", policy.kind>>
  BY <1>a, <1>4, StrategyPlans
<1>s. SerialAhead(t)' => serialOff
  BY <1>4, <1>p, Tuples DEF SerialAhead
<1>5. PlanInv'
  <2>1. PlanOk(t)'
    BY <1>3, <1>4, <1>p, <1>a DEF PlanOk, Fits, PolicyWalks, Walks
  <2> QED
    BY <1>1, <1>2, <2>1, PlanFrame
<1>6. JobInv'
  BY <1>1, <1>2, <1>4, JobFrame DEF ExecuteStrategy, InHand, Deciding
<1>7. FreshInv'
  <2>1. FreshOk(t)'
    BY <1>s, <1>4 DEF ExecuteStrategy, FreshOk
  <2> QED
    BY <1>1, <1>2, <2>1, FreshFrame DEF ExecuteStrategy, TypeOK
<1>8. SerialInv'
  <2>1. CASE t # "watch"
    BY <1>1, <1>2, <2>1, SerialFrame DEF ExecuteStrategy, SerialInv
  <2>2. CASE t = "watch"
    <3>1. serialOff => notice = "1"
      BY <1>3, <2>2 DEF SerialInv, AsksLater
    <3>2. ~AsksLater'
      BY <1>p, <2>2, Tuples DEF AsksLater
    <3>3. \A w \in {"types", "trust"} : call'["watch"].plan = <<"serialOff", w>> => serialOff
      BY <1>p, <2>2, Tuples
    <3> QED
      BY <1>4, <1>s, <2>2, <3>1, <3>2, <3>3 DEF ExecuteStrategy, SerialInv
  <2> QED
    BY <2>1, <2>2
<1>9. InterfaceInv'
  BY DEF ExecuteStrategy, InterfaceInv
<1>10. ASSUME NEW d \in Devs, Governed(d)'
       PROVE  BannedIsOff(d)' /\ OffIsBanned(d)' /\ InterfaceMatches(d)'
  <2>1. Governed(d)
    BY <1>10 DEF ExecuteStrategy, Governed, Present, SerialManaged
  <2>2. BannedIsOff(d)'
    <3> SUFFICES ASSUME Forbidden(d)' PROVE DevicePending(t, d)'
      BY DEF BannedIsOff
    <3>1. Bans(policy, d)
      BY DEF Forbidden, ExecuteStrategy
    <3> QED
      BY <1>4, <1>p, <1>a, <3>1, BansCovered, Tuples DEF ExecuteStrategy, DevicePending, Ahead, PolicyWalks
  <2>3. InterfaceMatches(d)'
    <3> SUFFICES ASSUME policy.kind = "types" PROVE InterfacePending(t, d)'
      BY DEF InterfaceMatches, ExecuteStrategy
    <3> QED
      BY <1>4, <1>p DEF ExecuteStrategy, InterfacePending, Ahead
  <2>4. OffIsBanned(d)'
    <3>1. ~DevicePending(t, d)
      BY <1>3, Tuples DEF DevicePending, Ahead, PolicyWalks
    <3>2. \A u \in Threads : DevicePending(u, d) => DevicePending(u, d)'
      BY <3>1, <1>2, OtherPending DEF ExecuteStrategy
    <3>3. LiftPending(d) => LiftPending(d)'
      <4>1. CASE t # "watch"
        BY <4>1, <1>1, <1>2, WatchFrame DEF ExecuteStrategy
      <4>2. CASE t = "watch"
        BY <4>2, <1>3, Tuples DEF ExecuteStrategy, LiftPending
      <4> QED
        BY <4>1, <4>2
    <3>4. (Forbidden(d)' <=> Forbidden(d)) /\ status' = status
      BY DEF ExecuteStrategy, Forbidden
    <3> QED
      BY <2>1, <3>2, <3>3, <3>4 DEF ForceInv, OffIsBanned
  <2> QED
    BY <2>2, <2>3, <2>4
<1> QED
  BY <1>5, <1>6, <1>7, <1>8, <1>9, <1>10 DEF ForceInv

(* A strategy that gets no answer excuses those it was for.                *)
LEMMA PolicyStrategyFails ==
  ASSUME PolicyInv, HostInv', NEW t \in Threads, StrategyFails(t)
  PROVE  PolicyInv'
<1> USE DEF PolicyInv, HostInv, deviceVars, edmVars, paramVars, kernelVars
<1>1. "event" \in Threads /\ "watch" \in Threads /\ call[t] \in Calls
  BY Literals DEF TypeOK
<1>2. /\ call'[t] = [call[t] EXCEPT !.plan = <<>>]
      /\ \A u \in Threads : u # t => call'[u] = call[u]
  BY <1>1, Write DEF StrategyFails
<1>3. /\ call[t].pc = "next" /\ call[t].plan = <<"strategy">>
      /\ call[t].walk = "none" /\ call[t].todo = {} /\ t # "admin"
  <2>1. call[t].pc = "next" /\ Head(call[t].plan) = "strategy" /\ call[t].plan # <<>>
    BY DEF StrategyFails, EdmAnswers
  <2> QED
    BY <1>1, <2>1, Tuples DEF PlanInv, PlanOk, EntryInv, Walks
<1>4. /\ call'[t].pc = "next" /\ call'[t].plan = <<>>
      /\ call'[t].walk = "none" /\ call'[t].todo = {}
  BY <1>1, <1>2, <1>3 DEF Calls
<1>5. PlanInv'
  BY <1>1, <1>2, <1>4, PlanFrame DEF PlanOk, Fits, PolicyWalks
<1>6. JobInv'
  BY <1>1, <1>2, <1>4, JobFrame DEF StrategyFails, InHand, Deciding
<1>7. FreshInv'
  BY <1>1, <1>2, <1>4, FreshFrame DEF StrategyFails, InFlight, Deciding, TypeOK
<1>8. SerialInv'
  <2>1. CASE t # "watch"
    BY <1>1, <1>2, <2>1, SerialFrame DEF StrategyFails, SerialInv
  <2>2. CASE t = "watch"
    BY <1>4, <2>2, Tuples DEF StrategyFails, SerialInv, SerialAhead, AsksLater
  <2> QED
    BY <2>1, <2>2
<1>9. InterfaceInv'
  BY DEF StrategyFails, InterfaceInv
<1>10. ASSUME NEW d \in Devs, Governed(d)'
       PROVE  BannedIsOff(d)' /\ OffIsBanned(d)' /\ InterfaceMatches(d)'
  <2>1. Governed(d) /\ d \notin serialDevs /\ d # adding
    BY <1>10, HostAssumption DEF StrategyFails, Governed, Present, SerialManaged
  <2>2. ~DevicePending(t, d) /\ ~InterfacePending(t, d)
    BY <1>3, Tuples DEF DevicePending, InterfacePending, Ahead, PolicyWalks
  <2>3. ~AskPending(d) /\ ~LiftPending(d)
    BY <2>1 DEF AskPending, LiftPending
  <2> QED
    BY <1>1, <1>2, <2>1, <2>2, <2>3, LeftAlone DEF StrategyFails
<1> QED
  BY <1>5, <1>6, <1>7, <1>8, <1>9, <1>10 DEF ForceInv

(* A walk begins: what was ahead of the thread is in its hands.            *)
LEMMA PolicyStartWalk ==
  ASSUME PolicyInv, HostInv', NEW t \in Threads, StartWalk(t)
  PROVE  PolicyInv'
<1> USE DEF PolicyInv, HostInv, deviceVars, edmVars, paramVars, kernelVars
<1>1. "event" \in Threads /\ "watch" \in Threads /\ call[t] \in Calls
  BY Literals DEF TypeOK
<1> DEFINE w == Head(call[t].plan)
<1>2. /\ call'[t] = [call[t] EXCEPT !.pc = "walk", !.walk = w, !.plan = Tail(call[t].plan),
                                    !.todo = JobsOf(w, call[t].pol.set)]
      /\ \A u \in Threads : u # t => call'[u] = call[u]
  BY <1>1, Write DEF StartWalk
<1>3. call[t].pc = "next" /\ call[t].walk = "none" /\ call[t].plan # <<>> /\ w # "strategy"
  BY DEF StartWalk, PlanInv, PlanOk
<1>4. /\ call'[t].pc = "walk" /\ call'[t].plan = Tail(call[t].plan)
      /\ call'[t].pol = call[t].pol
      /\ call'[t].walk = w /\ call'[t].todo = JobsOf(w, call[t].pol.set)
  BY <1>1, <1>2, <1>3 DEF Calls
<1> HIDE DEF w
<1>p. \/ /\ call[t].plan = <<"serialOn", "strategy">> /\ t = "watch"
         /\ w = "serialOn" /\ call'[t].plan = <<"strategy">>
      \/ /\ w \in Walks \ {"serialOn"} /\ call[t].plan = <<w>> /\ Fits(t, w)
         /\ call'[t].plan = <<>>
      \/ /\ w = "serialOff" /\ t # "admin"
         /\ \E v \in {"types", "trust"} :
              call[t].plan = <<w, v>> /\ Fits(t, v) /\ call'[t].plan = <<v>>
  <2>1. \/ call[t].plan = <<"strategy">>
        \/ call[t].plan = <<"serialOn", "strategy">> /\ t = "watch"
        \/ \E v \in Walks \ {"serialOn"} : call[t].plan = <<v>> /\ Fits(t, v)
        \/ \E v \in {"types", "trust"} :
             call[t].plan = <<"serialOff", v>> /\ Fits(t, v) /\ t # "admin"
    BY <1>3 DEF PlanInv, PlanOk
  <2>2. CASE call[t].plan = <<"strategy">>
    BY <2>2, <1>3, Tuples DEF w
  <2>3. CASE call[t].plan = <<"serialOn", "strategy">> /\ t = "watch"
    <3>1. w = "serialOn" /\ Tail(call[t].plan) = <<"strategy">>
      BY <2>3, Tuples DEF w
    <3> QED
      BY <2>3, <3>1, <1>4
  <2>4. CASE \E v \in Walks \ {"serialOn"} : call[t].plan = <<v>> /\ Fits(t, v)
    <3>1. PICK v \in Walks \ {"serialOn"} : call[t].plan = <<v>> /\ Fits(t, v)
      BY <2>4
    <3>2. w = v /\ Tail(call[t].plan) = <<>>
      BY <3>1, Tuples DEF w
    <3> QED
      BY <3>1, <3>2, <1>4
  <2>5. CASE \E v \in {"types", "trust"} :
               call[t].plan = <<"serialOff", v>> /\ Fits(t, v) /\ t # "admin"
    <3>1. PICK v \in {"types", "trust"} :
               call[t].plan = <<"serialOff", v>> /\ Fits(t, v) /\ t # "admin"
      BY <2>5
    <3>2. w = "serialOff" /\ Tail(call[t].plan) = <<v>>
      BY <3>1, Tuples DEF w
    <3> QED
      BY <3>1, <3>2, <1>4
  <2> QED
    BY <2>1, <2>2, <2>3, <2>4, <2>5
<1>w. w \in Walks /\ Fits(t, w)
  BY <1>p DEF Walks, Fits, PolicyWalks
<1>5. PlanInv'
  <2>1. \A v : Fits(t, v)' <=> Fits(t, v)
    BY <1>4 DEF Fits
  <2>2. PlanOk(t)'
    BY <1>3, <1>4, <1>p, <1>w, <2>1, Tuples DEF PlanOk, Walks
  <2> QED
    BY <1>1, <1>2, <2>2, PlanFrame
<1>6. JobInv'
  <2>1. InHand(t)' = JobsOf(w, call[t].pol.set)
    BY <1>4 DEF InHand, Deciding
  <2>2. ASSUME NEW j \in JobsOf(w, call[t].pol.set) PROVE JobOk(t, j)'
    <3>1. call[t].pol \in PolicyType
      BY <1>1 DEF Calls
    <3>2. serialDevs' = serialDevs
      BY DEF StartWalk
    <3>3. j.dev \in Present
      BY <1>w, JobsOfPresent DEF EntryInv
    <3>4. w = "types" /\ HasInterface(j.dev) =>
            \E k \in JobsOf(w, call[t].pol.set) : k.dev = j.dev /\ k.what = "interface"
      BY <3>3, JobsCover
    <3>5. /\ w \in PolicyWalks /\ j.what = "device" => j.on = ~Bans(call[t].pol, j.dev)
          /\ j.what = "interface" =>
              \/ w = "globalOn" /\ j.on
              \/ /\ w = "types" /\ HasInterface(j.dev)
                 /\ j.on = ~BarsInterface(call[t].pol, j.dev)
              \/ w = "onlyTypes" /\ HasInterface(j.dev)
          /\ w \in {"serialOff", "serialOn"} =>
              j.dev \in serialDevs /\ j.on = (w = "serialOn")
          /\ w \in {"deviceOff", "deviceOn", "onlyTypes"} => Meant(call[t].pol, j.dev)
      BY <1>w, <3>1, JobsFit DEF Fits
    <3> QED
      BY <1>4, <3>2, <3>4, <3>5 DEF JobOk
  <2> QED
    BY <1>1, <1>2, <2>1, <2>2, JobFrame DEF StartWalk
<1>7. FreshInv'
  <2>1. FreshOk(t)
    BY <1>3 DEF FreshInv, InFlight, w
  <2>2. WatchOnly(t) => WatchOnly(t)'
    <3>1. call[t].plan = <<"serialOn", "strategy">> => w = "serialOn"
      BY Tuples DEF w
    <3>2. call[t].plan = <<"serialOff">> => w = "serialOff" /\ call'[t].plan = <<>>
      BY <1>4, Tuples DEF w
    <3> QED
      BY <1>3, <1>4, <3>1, <3>2 DEF WatchOnly
  <2>3. SerialAhead(t)' => SerialAhead(t)
    BY <1>4, <1>p, Tuples DEF SerialAhead
  <2>4. FreshOk(t)'
    BY <1>4, <2>1, <2>2, <2>3 DEF FreshOk, StartWalk
  <2> QED
    BY <1>1, <1>2, <2>4, FreshFrame DEF StartWalk, TypeOK
<1>8. SerialInv'
  <2>1. CASE t # "watch"
    BY <1>1, <1>2, <2>1, SerialFrame DEF StartWalk, SerialInv
  <2>2. CASE t = "watch"
    <3>1. SerialAhead(t)' => SerialAhead(t)
      BY <1>4, <1>p, Tuples DEF SerialAhead
    <3>2. AsksLater' => AsksLater
      BY <1>p, <2>2, Tuples DEF AsksLater
    <3>3. \A v \in {"types", "trust"} :
            \/ call'[t].plan = <<"serialOff", v>>
            \/ call'[t].walk = "serialOff" /\ call'[t].plan = <<v>>
            => call[t].plan = <<"serialOff", v>>
      <4>1. CASE call[t].plan = <<"serialOn", "strategy">> /\ w = "serialOn"
                 /\ call'[t].plan = <<"strategy">>
        BY <4>1, <1>4, Tuples
      <4>2. CASE call'[t].plan = <<>>
        BY <4>2, Tuples
      <4>3. CASE \E v \in {"types", "trust"} :
                   call[t].plan = <<"serialOff", v>> /\ call'[t].plan = <<v>>
        BY <4>3, Tuples
      <4> QED
        BY <1>p, <4>1, <4>2, <4>3
    <3> QED
      BY <2>2, <3>1, <3>2, <3>3 DEF StartWalk, SerialInv
  <2> QED
    BY <2>1, <2>2
<1>9. InterfaceInv'
  BY DEF StartWalk, InterfaceInv
<1>10. ASSUME NEW d \in Devs, Governed(d)'
       PROVE  BannedIsOff(d)' /\ OffIsBanned(d)' /\ InterfaceMatches(d)'
  <2>1. Governed(d) /\ d \in Present
    BY <1>10 DEF StartWalk, Governed, Present, SerialManaged
  <2>0. InHand(t)' = JobsOf(w, call[t].pol.set)
    BY <1>4 DEF InHand, Deciding
  <2>2. DevicePending(t, d) => DevicePending(t, d)'
    <3> SUFFICES ASSUME DevicePending(t, d) PROVE DevicePending(t, d)'
      OBVIOUS
    <3>1. PICK v \in PolicyWalks : Ahead(t, v) /\ Covers(v, d)
      BY <1>3 DEF DevicePending, PolicyWalks
    <3>2. CASE call[t].plan = <<v>>
      <4>1. w = v
        BY <3>2, Tuples DEF w
      <4>2. \E j \in JobsOf(w, call[t].pol.set) : j.dev = d /\ j.what = "device"
        BY <4>1, <3>1, <2>1, JobsCover
      <4> QED
        BY <1>4, <2>0, <4>1, <4>2 DEF DevicePending, StartWalk
    <3>3. CASE call[t].plan = <<"serialOff", v>>
      <4>1. call'[t].plan = <<v>>
        BY <1>4, <3>3, Tuples
      <4> QED
        BY <1>4, <4>1, <3>1 DEF DevicePending, StartWalk, Ahead
    <3> QED
      BY <3>1, <3>2, <3>3 DEF Ahead
  <2>3. AskPending(d) => AskPending(d)'
    <3>1. AsksLater => AsksLater'
      <4>1. CASE t # "watch"
        BY <4>1, <1>1, <1>2 DEF AsksLater
      <4>2. CASE t = "watch"
        <5>1. call[t].plan # <<"strategy">>
          BY <1>3, Tuples DEF w
        <5>2. call[t].plan = <<"serialOn", "strategy">> => call'[t].plan = <<"strategy">>
          BY <1>4, Tuples
        <5> QED
          BY <4>2, <5>1, <5>2 DEF AsksLater
      <4> QED
        BY <4>1, <4>2
    <3>2. /\ call["event"].pc = "recorded" => call'["event"].pc = "recorded"
          /\ call["event"].plan = <<"strategy">> => call'["event"].plan = <<"strategy">>
      BY <1>1, <1>2, <1>3, <1>p, Tuples
    <3> QED
      BY <3>1, <3>2 DEF AskPending, StartWalk
  <2>4. LiftPending(d) => LiftPending(d)'
    <3>1. CASE t # "watch"
      BY <1>1, <1>2, <3>1, WatchFrame DEF StartWalk
    <3>2. CASE t = "watch"
      <4>1. d \in serialDevs => \E j \in JobsOf("serialOn", call[t].pol.set) : j.dev = d
        BY <2>1, JobsCover
      <4>2. call[t].plan = <<"serialOn", "strategy">> => w = "serialOn"
        BY Tuples DEF w
      <4> QED
        BY <3>2, <1>3, <1>4, <2>0, <4>1, <4>2 DEF LiftPending, StartWalk
    <3> QED
      BY <3>1, <3>2
  <2>6. BannedIsOff(d)' /\ OffIsBanned(d)'
    <3>1. \A u \in Threads : DevicePending(u, d) => DevicePending(u, d)'
      BY <2>2, <1>2, OtherPending DEF StartWalk
    <3>2. (Forbidden(d)' <=> Forbidden(d)) /\ status' = status
      BY DEF StartWalk, Forbidden
    <3> QED
      BY <2>1, <2>3, <2>4, <3>1, <3>2 DEF ForceInv, BannedIsOff, OffIsBanned
  <2>7. InterfaceMatches(d)'
    <3> SUFFICES ASSUME HasInterface(d) PROVE InterfaceMatches(d)'
      BY DEF InterfaceMatches
    <3>1. InterfacePending(t, d) => InterfacePending(t, d)'
      <4> SUFFICES ASSUME InterfacePending(t, d) PROVE InterfacePending(t, d)'
        OBVIOUS
      <4>1. CASE call[t].plan = <<"types">>
        <5>1. w = "types"
          BY <4>1, Tuples DEF w
        <5>2. \E j \in JobsOf(w, call[t].pol.set) : j.dev = d /\ j.what = "interface"
          BY <5>1, <2>1, JobsCover
        <5> QED
          BY <1>4, <5>1, <5>2 DEF InterfacePending, StartWalk
      <4>2. CASE call[t].plan = <<"serialOff", "types">>
        <5>1. call'[t].plan = <<"types">>
          BY <1>4, <4>2, Tuples
        <5> QED
          BY <1>4, <5>1 DEF InterfacePending, StartWalk, Ahead
      <4> QED
        BY <1>3, <4>1, <4>2 DEF InterfacePending, Ahead
    <3> QED
      BY <1>2, <2>1, <2>2, <2>3, <2>4, <3>1, LeftAlone DEF StartWalk
  <2> QED
    BY <2>6, <2>7
<1> QED
  BY <1>5, <1>6, <1>7, <1>8, <1>9, <1>10 DEF ForceInv

(* A walk ends with nothing left to do.                                    *)
LEMMA PolicyEndWalk ==
  ASSUME PolicyInv, HostInv', NEW t \in Threads, EndWalk(t)
  PROVE  PolicyInv'
<1> USE DEF PolicyInv, HostInv, deviceVars, edmVars, paramVars, kernelVars
<1>1. "event" \in Threads /\ "watch" \in Threads /\ call[t] \in Calls
  BY Literals DEF TypeOK
<1>2. /\ call'[t] = [call[t] EXCEPT !.pc = "next", !.walk = "none"]
      /\ \A u \in Threads : u # t => call'[u] = call[u]
  BY <1>1, Write DEF EndWalk
<1>3. call[t].pc = "walk" /\ call[t].walk # "none" /\ call[t].todo = {} /\ PlanOk(t)
  BY DEF EndWalk, PlanInv, PlanOk
<1>4. /\ call'[t].pc = "next" /\ call'[t].plan = call[t].plan
      /\ call'[t].pol = call[t].pol
      /\ call'[t].walk = "none" /\ call'[t].todo = {}
  BY <1>1, <1>2, <1>3 DEF Calls
<1>h. InHand(t) = {}
  BY <1>3 DEF InHand, Deciding
<1>5. PlanInv'
  <2>1. \A v : Fits(t, v)' <=> Fits(t, v)
    BY <1>4 DEF Fits
  <2>2. Fits(t, "none")
    BY DEF Fits, PolicyWalks
  <2>3. PlanOk(t)'
    BY <1>3, <1>4, <2>1, <2>2 DEF PlanOk
  <2> QED
    BY <1>1, <1>2, <2>3, PlanFrame
<1>6. JobInv'
  BY <1>1, <1>2, <1>4, JobFrame DEF EndWalk, InHand, Deciding
<1>7. FreshInv'
  <2>1. FreshOk(t)
    BY <1>3 DEF FreshInv, InFlight
  <2>2. SerialAhead(t)' => SerialAhead(t)
    BY <1>4 DEF SerialAhead
  <2>3. WatchOnly(t) /\ InFlight(t)' => FALSE
    <3> SUFFICES ASSUME WatchOnly(t), InFlight(t)' PROVE FALSE
      OBVIOUS
    <3>1. call[t].plan # <<>> /\ Head(call[t].plan) # "strategy"
      BY <1>4 DEF InFlight, Deciding
    <3>2. call[t].plan # <<"strategy">>
      BY <3>1, Tuples
    <3>3. call[t].plan # <<"serialOn", "strategy">>
      BY <1>3, Tuples DEF PlanOk
    <3>4. call[t].plan # <<"serialOff">>
      BY <1>3, Tuples DEF PlanOk
    <3> QED
      BY <1>3, <3>1, <3>2, <3>3, <3>4 DEF WatchOnly, PlanOk
  <2>4. InFlight(t)' => FreshOk(t)'
    BY <1>4, <2>1, <2>2, <2>3 DEF FreshOk, EndWalk
  <2> QED
    BY <1>1, <1>2, <2>4, FreshFrame DEF EndWalk, TypeOK
<1>8. SerialInv'
  <2>1. CASE t # "watch"
    BY <1>1, <1>2, <2>1, SerialFrame DEF EndWalk, SerialInv
  <2>2. CASE t = "watch"
    BY <1>4, <2>2 DEF EndWalk, SerialInv, SerialAhead, AsksLater
  <2> QED
    BY <2>1, <2>2
<1>9. InterfaceInv'
  BY DEF EndWalk, InterfaceInv
<1>10. ASSUME NEW d \in Devs, Governed(d)'
       PROVE  BannedIsOff(d)' /\ OffIsBanned(d)' /\ InterfaceMatches(d)'
  <2>1. Governed(d)
    BY <1>10 DEF EndWalk, Governed, Present, SerialManaged
  <2>2. DevicePending(t, d) => DevicePending(t, d)'
    BY <1>h, <1>4 DEF EndWalk, DevicePending, Ahead
  <2>3. InterfacePending(t, d) => InterfacePending(t, d)'
    BY <1>3, <1>4 DEF EndWalk, InterfacePending, Ahead
  <2>4. AskPending(d) => AskPending(d)'
    BY <1>1, <1>2, <1>3, <1>4 DEF EndWalk, AskPending, AsksLater
  <2>5. LiftPending(d) => LiftPending(d)'
    BY <1>1, <1>2, <1>4, <1>h, WatchFrame DEF EndWalk, LiftPending
  <2> QED
    BY <1>1, <1>2, <2>1, <2>2, <2>3, <2>4, <2>5, LeftAlone DEF EndWalk
<1> QED
  BY <1>5, <1>6, <1>7, <1>8, <1>9, <1>10 DEF ForceInv

(* A call returns.                                                         *)
LEMMA PolicyReturn ==
  ASSUME PolicyInv, HostInv', NEW t \in Threads, Return(t)
  PROVE  PolicyInv'
<1> USE DEF PolicyInv, HostInv, deviceVars, edmVars, paramVars, kernelVars
<1>1. "event" \in Threads /\ "watch" \in Threads /\ call[t] \in Calls
  BY Literals DEF TypeOK
<1>2. /\ call'[t] = Idle
      /\ \A u \in Threads : u # t => call'[u] = call[u]
  BY <1>1, Write DEF Return, Done
<1>3. /\ call[t].pc = "next" /\ call[t].walk = "none" /\ call[t].todo = {}
      /\ call[t].plan = <<>> /\ t # "event"
  BY DEF Return, PlanInv, PlanOk, EntryInv
<1>4. /\ call'[t].pc = "idle" /\ call'[t].plan = <<>>
      /\ call'[t].walk = "none" /\ call'[t].todo = {}
  BY <1>2 DEF Idle
<1>5. PlanInv'
  BY <1>1, <1>2, <1>4, PlanFrame DEF PlanOk, Fits, PolicyWalks
<1>6. JobInv'
  BY <1>1, <1>2, <1>4, JobFrame DEF Return, InHand, Deciding
<1>7. FreshInv'
  BY <1>1, <1>2, <1>4, FreshFrame DEF Return, InFlight, Deciding, TypeOK
<1>8. SerialInv'
  <2>1. CASE t # "watch"
    BY <1>1, <1>2, <2>1, SerialFrame DEF Return, SerialInv
  <2>2. CASE t = "watch"
    BY <1>4, <2>2, Tuples DEF Return, SerialInv, SerialAhead, AsksLater
  <2> QED
    BY <2>1, <2>2
<1>9. InterfaceInv'
  BY DEF Return, InterfaceInv
<1>10. ASSUME NEW d \in Devs, Governed(d)'
       PROVE  BannedIsOff(d)' /\ OffIsBanned(d)' /\ InterfaceMatches(d)'
  <2>1. Governed(d)
    BY <1>10 DEF Return, Governed, Present, SerialManaged
  <2>2. ~DevicePending(t, d) /\ ~InterfacePending(t, d)
    BY <1>3, Tuples DEF DevicePending, InterfacePending, Ahead, PolicyWalks
  <2>3. AsksLater => AsksLater'
    BY <1>1, <1>2, <1>3, Tuples DEF AsksLater
  <2>4. AskPending(d) => AskPending(d)'
    BY <1>1, <1>2, <1>3, <2>3 DEF Return, AskPending
  <2>5. LiftPending(d) => LiftPending(d)'
    <3>1. CASE t # "watch"
      BY <1>1, <1>2, <3>1, WatchFrame DEF Return
    <3>2. CASE t = "watch"
      BY <1>3, <3>2, Tuples DEF Return, LiftPending
    <3> QED
      BY <3>1, <3>2
  <2> QED
    BY <1>1, <1>2, <2>1, <2>2, <2>4, <2>5, LeftAlone DEF Return
<1> QED
  BY <1>5, <1>6, <1>7, <1>8, <1>9, <1>10 DEF ForceInv

(* Who decides on a device that nothing excuses applies the policy in      *)
(* force, or is the watcher, who will see to it that it is applied.        *)
LEMMA DecidesRightly ==
  ASSUME PolicyInv, NEW t \in Threads, NEW j \in InHand(t), j.dev \in Devs,
         call[t].pc \in {"walk", "authorize"}, ~SerialManaged(j.dev),
         \/ j.dev \notin excused
         \/ /\ call[t].pol = policy
            /\ call[t].walk = "serialOff" => serialOff
  PROVE  \/ call[t].walk \in PolicyWalks /\ call[t].pol = policy
         \/ call[t].walk = "serialOn" /\ t = "watch"
         \/ call[t].walk = "serialOff" /\ t = "watch" /\ notice = "0"
<1> USE DEF PolicyInv, HostInv
<1>1. PlanOk(t) /\ JobOk(t, j) /\ FreshOk(t) /\ call[t].walk # "none"
  BY DEF PlanInv, PlanOk, JobInv, FreshInv, InFlight, Deciding
<1>2. call[t].walk \in Walks
  BY <1>1 DEF TypeOK, Calls
<1>3. CASE call[t].walk \in PolicyWalks
  <2>0. call[t].plan = <<>>
    BY <1>1, <1>3 DEF PlanOk, PolicyWalks
  <2>1. ~WatchOnly(t)
    BY <1>3, <2>0, Tuples DEF WatchOnly, PolicyWalks
  <2>2. call[t].pol.kind \notin OneOff
    BY <1>1, <1>3, HostAssumption DEF PlanOk, Fits
  <2> QED
    BY <1>1, <1>3, <2>1, <2>2 DEF FreshOk, TypeOK
<1>4. CASE call[t].walk = "serialOn"
  BY <1>4, <1>1 DEF PlanOk, Fits
<1>5. CASE call[t].walk = "serialOff"
  <2>1. ~serialOff /\ SerialAhead(t) /\ t # "admin"
    BY <1>5, <1>1 DEF JobOk, SerialManaged, SerialAhead, PlanOk, Fits
  <2>2. WatchOnly(t)
    BY <1>1, <1>5, <2>1 DEF FreshOk
  <2> QED
    BY <1>5, <2>1, <2>2 DEF WatchOnly, SerialInv
<1>6. CASE call[t].walk \in {"deviceOff", "deviceOn", "onlyTypes"}
  <2>1. call[t].pol.kind \in OneOff /\ t = "admin" /\ Meant(call[t].pol, j.dev)
    BY <1>1, <1>6 DEF PlanOk, Fits, JobOk, OneOff
  <2>2. call[t].pol # policy
    BY <2>1, HostAssumption DEF TypeOK
  <2> QED
    BY <1>1, <2>1, <2>2 DEF FreshOk, WatchOnly
<1> QED
  BY <1>2, <1>3, <1>4, <1>5, <1>6 DEF Walks, PolicyWalks

(* A device whose job is done is as the policy wants it, or its interface  *)
(* follows, or the watcher will ask for the policy.                        *)
LEMMA DeviceDone ==
  ASSUME PolicyInv, NEW t \in Threads, NEW j \in InHand(t), j.dev \in Devs,
         j.what = "device", j.on \in BOOLEAN,
         call[t].pc \in {"walk", "authorize"}, ~SerialManaged(j.dev),
         \/ j.dev \notin excused
         \/ /\ call[t].pol = policy
            /\ call[t].walk = "serialOff" => serialOff,
         status'[j.dev] = "disabled" <=> ~j.on,
         call'[t].plan = call[t].plan, call'[t].walk = call[t].walk,
         call'[t].pol = call[t].pol,
         \A k \in call[t].todo : k.what = "interface" => k \in call'[t].todo,
         UNCHANGED <<policy, serialDevs, notice>>
  PROVE  BannedIsOff(j.dev)' /\ OffIsBanned(j.dev)' /\ InterfaceMatches(j.dev)'
<1> USE DEF PolicyInv, HostInv
<1>1. PlanOk(t) /\ JobOk(t, j)
  BY DEF PlanInv, JobInv
<1>0. Forbidden(j.dev)' <=> Forbidden(j.dev)
  BY DEF Forbidden
<1>2. CASE call[t].walk \in PolicyWalks /\ call[t].pol = policy
  <2>1. j.on <=> ~Forbidden(j.dev)
    BY <1>1, <1>2 DEF JobOk, Forbidden
  <2>2. BannedIsOff(j.dev)' /\ OffIsBanned(j.dev)'
    BY <1>0, <2>1 DEF BannedIsOff, OffIsBanned
  <2>3. InterfaceMatches(j.dev)'
    <3> SUFFICES ASSUME policy.kind = "types", HasInterface(j.dev)
                 PROVE  InterfacePending(t, j.dev)'
      BY DEF InterfaceMatches
    <3>1. call[t].walk = "types"
      BY <1>1, <1>2 DEF PlanOk, Fits, PolicyWalks, NoPolicy
    <3> QED
      BY <1>1, <1>2, <3>1 DEF JobOk, InterfacePending
  <2> QED
    BY <2>2, <2>3
<1>3. CASE call[t].walk = "serialOn" /\ t = "watch"
  <2>1. j.on /\ j.dev \in serialDevs
    BY <1>1, <1>3 DEF JobOk
  <2>2. AskPending(j.dev)'
    BY <1>1, <1>3, <2>1 DEF PlanOk, AskPending, AsksLater
  <2> QED
    BY <2>1, <2>2 DEF BannedIsOff, OffIsBanned, InterfaceMatches
<1>4. CASE call[t].walk = "serialOff" /\ t = "watch" /\ notice = "0"
  <2>1. j.dev \in serialDevs
    BY <1>1, <1>4 DEF JobOk
  <2>2. AskPending(j.dev)' /\ LiftPending(j.dev)'
    BY <1>4, <2>1 DEF AskPending, LiftPending
  <2> QED
    BY <2>2 DEF BannedIsOff, OffIsBanned, InterfaceMatches
<1> QED
  BY <1>2, <1>3, <1>4, DecidesRightly

(* The thread goes on with fewer jobs.  What the invariant says of other   *)
(* devices does not change.                                                *)
LEMMA OneJobLess ==
  ASSUME PolicyInv, NEW t \in Threads,
         call[t].pc \in {"walk", "authorize"},
         call'[t].pc \in {"walk", "authorize"},
         call'[t].plan = call[t].plan, call'[t].walk = call[t].walk,
         call'[t].pol = call[t].pol,
         \A u \in Threads : u # t => call'[u] = call[u],
         UNCHANGED <<policy, serialOff, serialDevs, notice, adding>>
  PROVE  /\ PlanInv'
         /\ WatchOnly(t)' <=> WatchOnly(t)
         /\ SerialAhead(t)' <=> SerialAhead(t)
         /\ serialUp' = serialUp => SerialInv'
         /\ \A d : AskPending(d) => AskPending(d)'
         /\ \A d : (\A j \in InHand(t) : j.dev = d => j \in InHand(t)') =>
              /\ LiftPending(d) => LiftPending(d)'
              /\ DevicePending(t, d) => DevicePending(t, d)'
         /\ \A d : (\A j \in call[t].todo : j.dev = d => j \in call'[t].todo) =>
              (InterfacePending(t, d) => InterfacePending(t, d)')
<1> USE DEF PolicyInv, HostInv
<1>0. "event" \in Threads /\ "watch" \in Threads
  BY Literals
<1>1. PlanInv'
  <2>1. PlanOk(t)
    BY DEF PlanInv
  <2>2. \A v : Fits(t, v)' <=> Fits(t, v)
    BY DEF Fits
  <2>3. PlanOk(t)'
    BY <2>1, <2>2 DEF PlanOk
  <2> QED
    BY <2>3, PlanFrame
<1>2. (WatchOnly(t)' <=> WatchOnly(t)) /\ (SerialAhead(t)' <=> SerialAhead(t))
  BY DEF WatchOnly, SerialAhead
<1>3. call'["watch"].plan = call["watch"].plan /\ call'["watch"].walk = call["watch"].walk
  BY <1>0
<1>4. AsksLater' <=> AsksLater
  BY <1>3 DEF AsksLater
<1>5. serialUp' = serialUp => SerialInv'
  BY <1>3, <1>4 DEF SerialInv, SerialAhead
<1>6. ASSUME NEW d PROVE AskPending(d) => AskPending(d)'
  BY <1>0, <1>4 DEF AskPending
<1>7. ASSUME NEW d, \A j \in InHand(t) : j.dev = d => j \in InHand(t)'
      PROVE  /\ LiftPending(d) => LiftPending(d)'
             /\ DevicePending(t, d) => DevicePending(t, d)'
  <2>1. \A j \in InHand("watch") : j.dev = d => j \in InHand("watch")'
    BY <1>0, <1>7, OtherThread
  <2>2. LiftPending(d) => LiftPending(d)'
    BY <1>3, <2>1 DEF LiftPending
  <2>3. DevicePending(t, d) => DevicePending(t, d)'
    BY <1>7 DEF DevicePending, Ahead
  <2> QED
    BY <2>2, <2>3
<1>8. ASSUME NEW d, \A j \in call[t].todo : j.dev = d => j \in call'[t].todo
      PROVE  InterfacePending(t, d) => InterfacePending(t, d)'
  BY <1>8 DEF InterfacePending, Ahead
<1> QED
  BY <1>1, <1>2, <1>5, <1>6, <1>7, <1>8

(* Jobs that remain still ask for the right thing.                         *)
LEMMA JobsRemain ==
  ASSUME PolicyInv, NEW t \in Threads, InHand(t)' \subseteq InHand(t),
         call'[t].walk = call[t].walk, call'[t].pol = call[t].pol,
         serialDevs' = serialDevs,
         \A k \in call[t].todo : k.what = "interface" => k \in call'[t].todo,
         \A u \in Threads : u # t => call'[u] = call[u]
  PROVE  JobInv'
<1>1. ASSUME NEW j \in InHand(t)' PROVE JobOk(t, j)'
  <2>1. JobOk(t, j)
    BY <1>1 DEF PolicyInv, JobInv
  <2> QED
    BY <2>1 DEF JobOk
<1> QED
  BY <1>1, JobFrame DEF PolicyInv

(* A thread that has applied the policy in force, alone, has not used an   *)
(* old one.                                                                *)
LEMMA AppliedFresh ==
  ASSUME PolicyInv, NEW t \in Threads, NEW e \in Devs, Applied(t, e),
         call[t].pc \in {"walk", "authorize"},
         call'[t].pc \in {"walk", "authorize"},
         call'[t].plan = call[t].plan, call'[t].walk = call[t].walk,
         call'[t].pol = call[t].pol,
         \A u \in Threads : u # t => call'[u] = call[u],
         UNCHANGED <<policy, serialOff, serialDevs, notice, adding>>
  PROVE  /\ FreshInv'
         /\ \A d : d \in excused => d \in excused' \/ d = e
         /\ e \notin excused' =>
              \/ e \notin excused
              \/ /\ call[t].pol = policy
                 /\ call[t].walk = "serialOff" => serialOff
<1> USE DEF PolicyInv, HostInv
<1>1. excused \subseteq excused' \/ Alone(t)
  BY DEF Applied
<1>2. excused' \subseteq Devs
  BY AppliedType
<1>3. FreshOk(t) /\ PlanOk(t)
  BY DEF FreshInv, InFlight, Deciding, PlanInv
<1>4. (WatchOnly(t)' <=> WatchOnly(t)) /\ (SerialAhead(t)' <=> SerialAhead(t))
  BY OneJobLess
<1>5. CASE excused' = excused
  <2>1. FreshOk(t)'
    BY <1>3, <1>4, <1>5 DEF FreshOk
  <2> QED
    BY <1>1, <1>2, <1>5, <2>1, FreshFrame
<1>6. CASE excused' # excused
  <2>1. /\ call[t].pol = policy
        /\ call[t].walk = "serialOff" => serialOff
        /\ excused' = excused \ {e}
    BY <1>6 DEF Applied
  <2>2. SerialAhead(t) => serialOff
    <3>1. \/ call[t].walk = "serialOff"
          \/ call[t].plan = <<>> \/ call[t].plan = <<"strategy">>
      BY <1>3 DEF PlanOk
    <3> QED
      BY <2>1, <3>1, Tuples DEF SerialAhead
  <2>3. FreshOk(t)'
    BY <1>4, <2>1, <2>2 DEF FreshOk
  <2> QED
    BY <1>1, <1>2, <2>1, <2>3, FreshFrame
<1> QED
  BY <1>5, <1>6

(* A device that needs no change.                                          *)
LEMMA PolicySkipDevice ==
  ASSUME PolicyInv, HostInv', NEW t \in Threads, NEW j \in Jobs, SkipDevice(t, j)
  PROVE  PolicyInv'
<1> USE DEF PolicyInv, HostInv, deviceVars, edmVars, paramVars, kernelVars
<1>1. /\ call[t] \in Calls /\ j.dev \in Devs /\ j.on \in BOOLEAN
      /\ call[t].pc = "walk" /\ j \in call[t].todo /\ j.what = "device"
  BY DEF SkipDevice, Todo, TypeOK, Jobs
<1>2. /\ call'[t] = [call[t] EXCEPT !.todo = @ \ {j}]
      /\ \A u \in Threads : u # t => call'[u] = call[u]
  BY <1>1, Write DEF SkipDevice
<1>4. /\ call'[t].pc = "walk" /\ call'[t].plan = call[t].plan
      /\ call'[t].pol = call[t].pol
      /\ call'[t].walk = call[t].walk /\ call'[t].todo = call[t].todo \ {j}
  BY <1>1, <1>2 DEF Calls
<1>h. InHand(t) = call[t].todo /\ InHand(t)' = call[t].todo \ {j}
  BY <1>1, <1>4 DEF InHand, Deciding
<1>u. /\ UNCHANGED <<policy, serialOff, serialDevs, notice, adding, serialUp, status, ifOff>>
      /\ Applied(t, j.dev) /\ disturbed \subseteq disturbed'
  BY DEF SkipDevice, Disturb
<1>5. PlanInv' /\ SerialInv'
  BY <1>1, <1>2, <1>4, <1>u, OneJobLess
<1>6. JobInv'
  BY <1>1, <1>2, <1>4, <1>h, <1>u, JobsRemain
<1>7. /\ FreshInv'
      /\ \A d : d \in excused => d \in excused' \/ d = j.dev
      /\ j.dev \notin excused' =>
           \/ j.dev \notin excused
           \/ /\ call[t].pol = policy
              /\ call[t].walk = "serialOff" => serialOff
  BY <1>1, <1>2, <1>4, <1>u, AppliedFresh
<1>9. InterfaceInv'
  BY <1>u DEF InterfaceInv
<1>10. ASSUME NEW d \in Devs, Governed(d)'
       PROVE  BannedIsOff(d)' /\ OffIsBanned(d)' /\ InterfaceMatches(d)'
  <2>0. /\ d \in Present /\ d \notin disturbed /\ ~SerialManaged(d)
        /\ d \notin excused'
    BY <1>10, <1>u DEF Governed, Present, SerialManaged
  <2>1. CASE d = j.dev
    <3>1. ~Spared(t, j) \/ ~SerialManaged(d)
      BY <2>0
    <3>2. ~NeedsChange(d, j.on)
      BY <2>0, <2>1 DEF SkipDevice, Spared
    <3>3. status'[d] = "disabled" <=> ~j.on
      BY <3>2, <1>u, <1>1 DEF NeedsChange
    <3> QED
      BY <1>1, <1>2, <1>4, <1>h, <1>u, <1>7, <2>0, <2>1, <3>3, DeviceDone
  <2>2. CASE d # j.dev
    <3>1. Governed(d)
      BY <2>0, <2>2, <1>7 DEF Governed
    <3>2. /\ AskPending(d) => AskPending(d)'
          /\ LiftPending(d) => LiftPending(d)'
          /\ DevicePending(t, d) => DevicePending(t, d)'
          /\ InterfacePending(t, d) => InterfacePending(t, d)'
      BY <1>1, <1>2, <1>4, <1>h, <1>u, <2>2, OneJobLess
    <3> QED
      BY <1>2, <1>u, <3>1, <3>2, LeftAlone
  <2> QED
    BY <2>1, <2>2
<1> QED
  BY <1>5, <1>6, <1>7, <1>9, <1>10 DEF ForceInv

(* The driver has done what was asked for.                                 *)
LEMMA PolicyAuthorized ==
  ASSUME PolicyInv, HostInv', NEW t \in Threads, Authorized(t)
  PROVE  PolicyInv'
<1> USE DEF PolicyInv, HostInv, deviceVars, edmVars, paramVars, kernelVars
<1> DEFINE e == call[t].dev
           j == Job(e, "device", call[t].on)
<1>1. /\ call[t] \in Calls /\ e \in Devs /\ call[t].on \in BOOLEAN
      /\ call[t].pc = "authorize"
  BY DEF Authorized, TypeOK, Calls, EntryInv, Present
<1>j. j.dev = e /\ j.what = "device" /\ j.on = call[t].on
  BY DEF Job
<1>2. /\ call'[t] = [call[t] EXCEPT !.pc = "walk", !.dev = NoDev, !.on = FALSE,
                                    !.was = "absent"]
      /\ \A u \in Threads : u # t => call'[u] = call[u]
  BY <1>1, Write DEF Authorized, BackToWalk
<1>4. /\ call'[t].pc = "walk" /\ call'[t].plan = call[t].plan
      /\ call'[t].pol = call[t].pol
      /\ call'[t].walk = call[t].walk /\ call'[t].todo = call[t].todo
  BY <1>1, <1>2 DEF Calls
<1>h. InHand(t) = call[t].todo \union {j} /\ InHand(t)' = call[t].todo
  BY <1>1, <1>4 DEF InHand, Deciding
<1>u. /\ UNCHANGED <<policy, serialOff, serialDevs, notice, adding, serialUp, disturbed>>
      /\ Applied(t, e) /\ ifOff' = ifOff \ {e}
      /\ status' = [status EXCEPT ![e] = IF call[t].on THEN "enabled" ELSE "disabled"]
  BY DEF Authorized, SetAuthorizeStatus
<1> HIDE DEF e, j
<1>s. /\ \A d \in Devs : d # e => status'[d] = status[d]
      /\ status'[e] = "disabled" <=> ~j.on
      /\ Present' = Present
  BY <1>1, <1>u, <1>j DEF TypeOK, Present, EntryInv, e
<1>5. PlanInv' /\ SerialInv'
  BY <1>1, <1>2, <1>4, <1>u, OneJobLess
<1>6. JobInv'
  BY <1>1, <1>2, <1>4, <1>h, <1>u, JobsRemain
<1>7. /\ FreshInv'
      /\ \A d : d \in excused => d \in excused' \/ d = e
      /\ e \notin excused' =>
           \/ e \notin excused
           \/ /\ call[t].pol = policy
              /\ call[t].walk = "serialOff" => serialOff
  BY <1>1, <1>2, <1>4, <1>u, AppliedFresh
<1>9. InterfaceInv'
  BY <1>u, <1>s DEF InterfaceInv, TypeOK
<1>10. ASSUME NEW d \in Devs, Governed(d)'
       PROVE  BannedIsOff(d)' /\ OffIsBanned(d)' /\ InterfaceMatches(d)'
  <2>0. /\ d \in Present /\ d \notin disturbed /\ ~SerialManaged(d)
        /\ d \notin excused'
    BY <1>10, <1>u, <1>s DEF Governed, SerialManaged
  <2>1. CASE d = e
    BY <1>1, <1>2, <1>4, <1>j, <1>h, <1>u, <1>s, <1>7, <2>0, <2>1, DeviceDone
  <2>2. CASE d # e
    <3>1. Governed(d)
      BY <2>0, <2>2, <1>7 DEF Governed
    <3>2. /\ AskPending(d) => AskPending(d)'
          /\ LiftPending(d) => LiftPending(d)'
          /\ DevicePending(t, d) => DevicePending(t, d)'
          /\ InterfacePending(t, d) => InterfacePending(t, d)'
      BY <1>1, <1>2, <1>4, <1>h, <1>j, <1>u, <2>2, OneJobLess
    <3>3. d \in ifOff' <=> d \in ifOff
      BY <1>u, <2>2
    <3> QED
      BY <1>2, <1>u, <1>s, <2>2, <3>1, <3>2, <3>3, LeftAlone
  <2> QED
    BY <2>1, <2>2
<1> QED
  BY <1>5, <1>6, <1>7, <1>9, <1>10 DEF ForceInv

(* A policy walk that is planned goes with the thread's policy.            *)
LEMMA AheadFits ==
  ASSUME NEW t \in Threads, PlanOk(t), NEW w \in PolicyWalks, Ahead(t, w)
  PROVE  Fits(t, w)
<1>0. w # "strategy"
  BY DEF PolicyWalks
<1>1. CASE call[t].plan = <<w>>
  <2>1. call[t].plan # <<>> /\ call[t].plan # <<"strategy">>
    BY <1>0, <1>1, Tuples
  <2>2. \A x, y : call[t].plan # <<x, y>>
    BY <1>1, Tuples
  <2>3. PICK v \in Walks : call[t].plan = <<v>> /\ Fits(t, v)
    BY <2>1, <2>2 DEF PlanOk
  <2>4. v = w
    BY <1>1, <2>3, Tuples
  <2> QED
    BY <2>3, <2>4
<1>2. CASE call[t].plan = <<"serialOff", w>>
  <2>1. call[t].plan # <<>> /\ \A x : call[t].plan # <<x>>
    BY <1>2, Tuples
  <2>2. call[t].plan # <<"serialOn", "strategy">>
    BY <1>2
  <2>3. PICK v \in {"types", "trust"} : call[t].plan = <<"serialOff", v>> /\ Fits(t, v)
    BY <2>1, <2>2 DEF PlanOk
  <2>4. v = w
    BY <1>2, <2>3, Tuples
  <2> QED
    BY <2>3, <2>4
<1> QED
  BY <1>1, <1>2 DEF Ahead

(* The driver is asked: the job is still in hand.                          *)
LEMMA PolicyUsbDeviceAuthorize ==
  ASSUME PolicyInv, HostInv', NEW t \in Threads, NEW j \in Jobs, UsbDeviceAuthorize(t, j)
  PROVE  PolicyInv'
<1> USE DEF PolicyInv, HostInv, deviceVars, edmVars, paramVars, kernelVars
<1>1. /\ call[t] \in Calls /\ j.dev \in Devs
      /\ call[t].pc = "walk" /\ j \in call[t].todo /\ j.what = "device"
  BY DEF UsbDeviceAuthorize, Todo, TypeOK, Jobs
<1>2. /\ call'[t] = [call[t] EXCEPT !.pc = "authorize", !.todo = @ \ {j}, !.dev = j.dev,
                                    !.on = j.on, !.was = status[j.dev]]
      /\ \A u \in Threads : u # t => call'[u] = call[u]
  BY <1>1, Write DEF UsbDeviceAuthorize
<1>4. /\ call'[t].pc = "authorize" /\ call'[t].plan = call[t].plan
      /\ call'[t].pol = call[t].pol
      /\ call'[t].walk = call[t].walk /\ call'[t].todo = call[t].todo \ {j}
      /\ call'[t].dev = j.dev /\ call'[t].on = j.on
  BY <1>1, <1>2 DEF Calls
<1>h. InHand(t) = call[t].todo /\ InHand(t)' = call[t].todo
  <2>1. Job(j.dev, "device", j.on) = j
    BY <1>1 DEF Job, Jobs
  <2> QED
    BY <1>1, <1>4, <2>1 DEF InHand, Deciding
<1>u. /\ UNCHANGED <<policy, serialOff, serialDevs, notice, adding, serialUp, status, ifOff, excused>>
      /\ disturbed \subseteq disturbed'
  BY DEF UsbDeviceAuthorize, Disturb
<1>5. /\ PlanInv' /\ SerialInv'
      /\ WatchOnly(t)' <=> WatchOnly(t)
      /\ SerialAhead(t)' <=> SerialAhead(t)
  BY <1>1, <1>2, <1>4, <1>u, OneJobLess
<1>6. JobInv'
  <2>1. \A k \in call[t].todo : k.what = "interface" => k \in call'[t].todo
    BY <1>1, <1>4
  <2>2. InHand(t)' \subseteq InHand(t)
    BY <1>h
  <2> QED
    BY <1>2, <1>4, <1>u, <2>1, <2>2, JobsRemain
<1>7. FreshInv'
  <2>1. FreshOk(t)
    BY <1>1 DEF FreshInv, InFlight
  <2>2. FreshOk(t)'
    BY <2>1, <1>4, <1>5, <1>u DEF FreshOk
  <2> QED
    BY <1>2, <1>u, <2>2, FreshFrame DEF TypeOK
<1>9. InterfaceInv'
  BY <1>u DEF InterfaceInv
<1>10. ASSUME NEW d \in Devs, Governed(d)'
       PROVE  BannedIsOff(d)' /\ OffIsBanned(d)' /\ InterfaceMatches(d)'
  <2>1. Governed(d)
    BY <1>10, <1>u DEF Governed, Present, SerialManaged
  <2>2. /\ AskPending(d) => AskPending(d)'
        /\ LiftPending(d) => LiftPending(d)'
        /\ DevicePending(t, d) => DevicePending(t, d)'
    BY <1>1, <1>2, <1>4, <1>h, <1>u, OneJobLess
  <2>3. InterfacePending(t, d) => InterfacePending(t, d)'
    BY <1>1, <1>4, <1>u DEF InterfacePending, Ahead
  <2> QED
    BY <1>2, <1>u, <2>1, <2>2, <2>3, LeftAlone
<1> QED
  BY <1>5, <1>6, <1>7, <1>9, <1>10 DEF ForceInv

(* The driver fails: the device is excused.                                *)
LEMMA PolicyAuthorizeFails ==
  ASSUME PolicyInv, HostInv', NEW t \in Threads, AuthorizeFails(t)
  PROVE  PolicyInv'
<1> USE DEF PolicyInv, HostInv, deviceVars, edmVars, paramVars, kernelVars
<1> DEFINE e == call[t].dev
           j == Job(e, "device", call[t].on)
<1>1. /\ call[t] \in Calls /\ e \in Devs /\ call[t].pc = "authorize"
  BY DEF AuthorizeFails, TypeOK, Calls, EntryInv, Present
<1>j. j.dev = e /\ j.what = "device"
  BY DEF Job
<1>2. /\ call'[t] = [call[t] EXCEPT !.pc = "walk", !.dev = NoDev, !.on = FALSE,
                                    !.was = "absent"]
      /\ \A u \in Threads : u # t => call'[u] = call[u]
  BY <1>1, Write DEF AuthorizeFails, BackToWalk
<1>4. /\ call'[t].pc = "walk" /\ call'[t].plan = call[t].plan
      /\ call'[t].pol = call[t].pol
      /\ call'[t].walk = call[t].walk /\ call'[t].todo = call[t].todo
  BY <1>1, <1>2 DEF Calls
<1>h. InHand(t) = call[t].todo \union {j} /\ InHand(t)' = call[t].todo
  BY <1>1, <1>4 DEF InHand, Deciding
<1>u. /\ UNCHANGED <<policy, serialOff, serialDevs, notice, adding, serialUp, disturbed,
                     status, ifOff>>
      /\ excused' = excused \union {e}
  BY DEF AuthorizeFails
<1> HIDE DEF e, j
<1>5. /\ PlanInv' /\ SerialInv'
      /\ WatchOnly(t)' <=> WatchOnly(t)
      /\ SerialAhead(t)' <=> SerialAhead(t)
  BY <1>1, <1>2, <1>4, <1>u, OneJobLess
<1>6. JobInv'
  BY <1>1, <1>2, <1>4, <1>h, <1>u, JobsRemain
<1>7. FreshInv'
  <2>1. FreshOk(t)
    BY <1>1 DEF FreshInv, InFlight, Deciding
  <2>2. FreshOk(t)'
    BY <2>1, <1>1, <1>4, <1>5, <1>u DEF FreshOk
  <2> QED
    BY <1>1, <1>2, <1>u, <2>2, FreshFrame DEF TypeOK
<1>9. InterfaceInv'
  BY <1>u DEF InterfaceInv
<1>10. ASSUME NEW d \in Devs, Governed(d)'
       PROVE  BannedIsOff(d)' /\ OffIsBanned(d)' /\ InterfaceMatches(d)'
  <2>1. Governed(d) /\ d # e
    BY <1>10, <1>u DEF Governed, Present, SerialManaged
  <2>2. /\ AskPending(d) => AskPending(d)'
        /\ LiftPending(d) => LiftPending(d)'
        /\ DevicePending(t, d) => DevicePending(t, d)'
        /\ InterfacePending(t, d) => InterfacePending(t, d)'
    BY <1>1, <1>2, <1>4, <1>h, <1>j, <1>u, <2>1, OneJobLess
  <2> QED
    BY <1>2, <1>u, <2>1, <2>2, LeftAlone
<1> QED
  BY <1>5, <1>6, <1>7, <1>9, <1>10 DEF ForceInv

(* A device cannot be opened: what is left out because of it is excused.   *)
LEMMA PolicyOpenFails ==
  ASSUME PolicyInv, HostInv', NEW t \in Threads, NEW j \in Jobs, OpenFails(t, j)
  PROVE  PolicyInv'
<1> USE DEF PolicyInv, HostInv, deviceVars, edmVars, paramVars, kernelVars
<1> DEFINE out == LeftOut(t, j)
<1>1. /\ call[t] \in Calls /\ j.dev \in Devs
      /\ call[t].pc = "walk" /\ j \in call[t].todo /\ j.what = "device"
  BY DEF OpenFails, Todo, TypeOK, Jobs
<1>2. /\ call'[t] = [call[t] EXCEPT !.todo = @ \ out]
      /\ \A u \in Threads : u # t => call'[u] = call[u]
  BY <1>1, Write DEF OpenFails
<1>4. /\ call'[t].pc = "walk" /\ call'[t].plan = call[t].plan
      /\ call'[t].pol = call[t].pol
      /\ call'[t].walk = call[t].walk /\ call'[t].todo = call[t].todo \ out
  BY <1>1, <1>2 DEF Calls
<1>h. InHand(t) = call[t].todo /\ InHand(t)' = call[t].todo \ out
  BY <1>1, <1>4 DEF InHand, Deciding
<1>u. /\ UNCHANGED <<policy, serialOff, serialDevs, notice, adding, serialUp, disturbed,
                     status, ifOff>>
      /\ excused' = excused \union {k.dev : k \in out}
  BY DEF OpenFails
<1>o. \A k \in out : k.what = "device"
  <2> SUFFICES ASSUME NEW k \in out, k.what # "device" PROVE FALSE
    OBVIOUS
  <2>1. k \in call[t].todo /\ call[t].walk \in IdWalks /\ k.what = "interface"
    BY <1>1, TodoAreJobs DEF LeftOut, Jobs
  <2>2. JobOk(t, k)
    BY <1>h, <2>1 DEF JobInv
  <2> QED
    BY <2>1, <2>2 DEF JobOk, IdWalks
<1>e. excused \subseteq excused' /\ excused' \subseteq Devs
  BY <1>u DEF TypeOK
<1> HIDE DEF out
<1>5. /\ PlanInv' /\ SerialInv'
      /\ WatchOnly(t)' <=> WatchOnly(t)
      /\ SerialAhead(t)' <=> SerialAhead(t)
  BY <1>1, <1>2, <1>4, <1>u, OneJobLess
<1>6. JobInv'
  <2>1. \A k \in call[t].todo : k.what = "interface" => k \in call'[t].todo
    BY <1>4, <1>o
  <2> QED
    BY <1>2, <1>4, <1>h, <1>u, <2>1, JobsRemain
<1>7. FreshInv'
  <2>1. FreshOk(t)
    BY <1>1 DEF FreshInv, InFlight, Deciding
  <2>2. FreshOk(t)'
    BY <2>1, <1>4, <1>5, <1>u, <1>e DEF FreshOk
  <2> QED
    BY <1>2, <1>u, <1>e, <2>2, FreshFrame
<1>9. InterfaceInv'
  BY <1>u DEF InterfaceInv
<1>10. ASSUME NEW d \in Devs, Governed(d)'
       PROVE  BannedIsOff(d)' /\ OffIsBanned(d)' /\ InterfaceMatches(d)'
  <2>1. Governed(d) /\ \A k \in out : k.dev # d
    BY <1>10, <1>u DEF Governed, Present, SerialManaged
  <2>2. /\ AskPending(d) => AskPending(d)'
        /\ LiftPending(d) => LiftPending(d)'
        /\ DevicePending(t, d) => DevicePending(t, d)'
        /\ InterfacePending(t, d) => InterfacePending(t, d)'
    BY <1>1, <1>2, <1>4, <1>h, <1>u, <2>1, OneJobLess
  <2> QED
    BY <1>2, <1>u, <2>1, <2>2, LeftAlone
<1> QED
  BY <1>5, <1>6, <1>7, <1>9, <1>10 DEF ForceInv

(* The devices of an id are gone through again.                            *)
LEMMA PolicySameIdAgain ==
  ASSUME PolicyInv, HostInv', NEW t \in Threads, NEW id \in Ids, SameIdAgain(t, id)
  PROVE  PolicyInv'
<1> USE DEF PolicyInv, HostInv, deviceVars, edmVars, paramVars, kernelVars
<1> DEFINE new == {j \in ExecuteManageDevicePolicy(call[t].pol.set) : IdOf[j.dev] = id}
<1>1. /\ call[t] \in Calls /\ call[t].pc = "walk" /\ call[t].walk = "trust"
  BY DEF SameIdAgain, TypeOK
<1>2. /\ call'[t] = [call[t] EXCEPT !.todo = @ \union new]
      /\ \A u \in Threads : u # t => call'[u] = call[u]
  BY <1>1, Write DEF SameIdAgain
<1>n. new \subseteq JobsOf("trust", call[t].pol.set)
  BY DEF JobsOf
<1> HIDE DEF new
<1>4. /\ call'[t].pc = "walk" /\ call'[t].plan = call[t].plan
      /\ call'[t].pol = call[t].pol
      /\ call'[t].walk = call[t].walk /\ call'[t].todo = call[t].todo \union new
  BY <1>1, <1>2 DEF Calls
<1>h. InHand(t) = call[t].todo /\ InHand(t)' = call[t].todo \union new
  BY <1>1, <1>4 DEF InHand, Deciding
<1>u. UNCHANGED <<policy, serialOff, serialDevs, notice, adding, serialUp, disturbed,
                  status, ifOff, excused>>
  BY DEF SameIdAgain
<1>5. /\ PlanInv' /\ SerialInv'
      /\ WatchOnly(t)' <=> WatchOnly(t)
      /\ SerialAhead(t)' <=> SerialAhead(t)
  BY <1>1, <1>2, <1>4, <1>u, OneJobLess
<1>6. JobInv'
  <2>1. ASSUME NEW k \in call[t].todo PROVE JobOk(t, k)'
    <3>1. JobOk(t, k)
      BY <1>h DEF JobInv
    <3> QED
      BY <1>1, <1>4, <1>u, <3>1 DEF JobOk
  <2>2. ASSUME NEW k \in new PROVE JobOk(t, k)'
    <3>1. Fits(t, "trust") /\ call[t].pol \in PolicyType
      BY <1>1 DEF PlanInv, PlanOk, Calls
    <3>2. k \in JobsOf("trust", call[t].pol.set) /\ "trust" \in Walks
      BY <1>n DEF Walks
    <3>3. /\ k.what = "device" => k.on = ~Bans(call[t].pol, k.dev)
          /\ k.what # "interface"
      BY <3>1, <3>2, JobsFit DEF Fits, PolicyWalks
    <3> QED
      BY <1>1, <1>4, <3>3 DEF JobOk
  <2> QED
    BY <1>2, <1>h, <1>u, <2>1, <2>2, JobFrame
<1>7. FreshInv'
  <2>1. FreshOk(t)
    BY <1>1 DEF FreshInv, InFlight, Deciding
  <2>2. FreshOk(t)'
    BY <2>1, <1>4, <1>5, <1>u DEF FreshOk
  <2> QED
    BY <1>2, <1>u, <2>2, FreshFrame DEF TypeOK
<1>9. InterfaceInv'
  BY <1>u DEF InterfaceInv
<1>10. ASSUME NEW d \in Devs, Governed(d)'
       PROVE  BannedIsOff(d)' /\ OffIsBanned(d)' /\ InterfaceMatches(d)'
  <2>1. Governed(d)
    BY <1>10, <1>u DEF Governed, Present, SerialManaged
  <2>2. /\ AskPending(d) => AskPending(d)'
        /\ LiftPending(d) => LiftPending(d)'
        /\ DevicePending(t, d) => DevicePending(t, d)'
        /\ InterfacePending(t, d) => InterfacePending(t, d)'
    BY <1>1, <1>2, <1>4, <1>h, <1>u, OneJobLess
  <2> QED
    BY <1>2, <1>u, <2>1, <2>2, LeftAlone
<1> QED
  BY <1>5, <1>6, <1>7, <1>9, <1>10 DEF ForceInv

(* The interface of a device follows the device.                           *)
LEMMA PolicyUsbInterfaceAuthorize ==
  ASSUME PolicyInv, HostInv', NEW t \in Threads, NEW j \in Jobs,
         UsbInterfaceAuthorize(t, j)
  PROVE  PolicyInv'
<1> USE DEF PolicyInv, HostInv, deviceVars, edmVars, paramVars, kernelVars
<1>1. /\ call[t] \in Calls /\ j.dev \in Devs /\ j.on \in BOOLEAN
      /\ call[t].pc = "walk" /\ j \in call[t].todo /\ j.what = "interface"
      /\ \A k \in call[t].todo : ~(k.dev = j.dev /\ k.what = "device")
  BY DEF UsbInterfaceAuthorize, Todo, TypeOK, Jobs
<1>2. /\ call'[t] = [call[t] EXCEPT !.todo = @ \ {j}]
      /\ \A u \in Threads : u # t => call'[u] = call[u]
  BY <1>1, Write DEF UsbInterfaceAuthorize
<1>4. /\ call'[t].pc = "walk" /\ call'[t].plan = call[t].plan
      /\ call'[t].pol = call[t].pol
      /\ call'[t].walk = call[t].walk /\ call'[t].todo = call[t].todo \ {j}
  BY <1>1, <1>2 DEF Calls
<1>h. InHand(t) = call[t].todo /\ InHand(t)' = call[t].todo \ {j}
  BY <1>1, <1>4 DEF InHand, Deciding
<1>u. /\ UNCHANGED <<policy, serialOff, serialDevs, notice, adding, serialUp, status>>
      /\ excused \subseteq excused' /\ excused' \subseteq Devs
      /\ disturbed \subseteq disturbed'
  BY <1>1 DEF UsbInterfaceAuthorize, Disturb, TypeOK
<1>f. /\ JobOk(t, j) /\ FreshOk(t) /\ PlanOk(t)
      /\ call[t].walk \in {"types", "globalOn", "onlyTypes"} /\ call[t].plan = <<>>
      /\ ~WatchOnly(t)
  <2>1. JobOk(t, j) /\ FreshOk(t) /\ PlanOk(t)
    BY <1>1, <1>h DEF JobInv, FreshInv, InFlight, PlanInv
  <2>2. call[t].walk \in {"types", "globalOn", "onlyTypes"}
    BY <1>1, <2>1 DEF JobOk
  <2>3. call[t].plan = <<>>
    BY <2>1, <2>2 DEF PlanOk
  <2> QED
    BY <2>1, <2>2, <2>3, Tuples DEF WatchOnly
<1>5. /\ PlanInv' /\ SerialInv'
      /\ WatchOnly(t)' <=> WatchOnly(t)
      /\ SerialAhead(t)' <=> SerialAhead(t)
  BY <1>1, <1>2, <1>4, <1>u, OneJobLess
<1>6. JobInv'
  <2>1. ASSUME NEW k \in call[t].todo \ {j} PROVE JobOk(t, k)'
    <3>1. JobOk(t, k)
      BY <1>h DEF JobInv
    <3>2. k.what = "device" => k.dev # j.dev
      BY <1>1
    <3> QED
      BY <1>4, <1>u, <3>1, <3>2 DEF JobOk
  <2> QED
    BY <1>2, <1>h, <1>u, <2>1, JobFrame
<1>7. FreshInv'
  <2>2. FreshOk(t)'
    BY <1>f, <1>4, <1>5, <1>u DEF FreshOk
  <2> QED
    BY <1>2, <1>u, <2>2, FreshFrame
<1>p. j.dev \notin excused =>
        call[t].pol = policy /\ call[t].walk \in {"types", "globalOn"}
  <2>1. CASE call[t].walk = "onlyTypes"
    <3>1. call[t].pol.kind = "only" /\ Meant(call[t].pol, j.dev)
      BY <1>f, <2>1 DEF PlanOk, Fits, JobOk
    <3>2. call[t].pol # policy
      BY <3>1, HostAssumption DEF TypeOK, OneOff
    <3> QED
      BY <1>1, <1>f, <3>1, <3>2 DEF FreshOk
  <2>2. CASE call[t].walk \in {"types", "globalOn"}
    <3>1. call[t].pol.kind \notin OneOff
      BY <1>f, <2>2, HostAssumption DEF PlanOk, Fits, PolicyWalks
    <3> QED
      BY <1>1, <1>f, <2>2, <3>1 DEF FreshOk
  <2> QED
    BY <1>f, <2>1, <2>2
<1>9. InterfaceInv'
  <2>1. ASSUME NEW d \in ifOff', d \notin ifOff
        PROVE  HasInterface(d) /\ status[d] # "disabled"
    <3>1. d = j.dev /\ ~j.on /\ status[d] # "disabled"
      BY <2>1 DEF UsbInterfaceAuthorize
    <3> QED
      BY <1>1, <1>f, <3>1 DEF JobOk
  <2> QED
    BY <1>u, <2>1 DEF InterfaceInv
<1>10. ASSUME NEW d \in Devs, Governed(d)'
       PROVE  BannedIsOff(d)' /\ OffIsBanned(d)' /\ InterfaceMatches(d)'
  <2>0. Governed(d) /\ d \notin excused
    BY <1>10, <1>u DEF Governed, Present, SerialManaged
  <2>1. BannedIsOff(d) /\ OffIsBanned(d) /\ InterfaceMatches(d)
    BY <2>0 DEF ForceInv
  <2>2. AskPending(d) => AskPending(d)'
    BY <1>1, <1>2, <1>4, <1>u, OneJobLess
  <2>3. CASE d # j.dev
    <3>2. /\ LiftPending(d) => LiftPending(d)'
          /\ DevicePending(t, d) => DevicePending(t, d)'
          /\ InterfacePending(t, d) => InterfacePending(t, d)'
      BY <1>1, <1>2, <1>4, <1>h, <1>u, <2>3, OneJobLess
    <3>3. d \in ifOff' <=> d \in ifOff
      BY <2>3 DEF UsbInterfaceAuthorize
    <3> QED
      BY <1>2, <1>u, <2>0, <2>2, <3>2, <3>3, LeftAlone
  <2>4. CASE d = j.dev
    <3>1. \A u \in Threads : DevicePending(u, d) => DevicePending(u, d)'
      <4>1. DevicePending(t, d) => DevicePending(t, d)'
        BY <1>1, <1>4, <1>h, <1>u DEF DevicePending, Ahead
      <4> QED
        BY <4>1, <1>2, <1>u, OtherPending
    <3>2. LiftPending(d) => LiftPending(d)'
      <4>1. "watch" \in Threads
        BY Literals
      <4>2. t # "watch" => (LiftPending(d) => LiftPending(d)')
        BY <4>1, <1>2, <1>u, WatchFrame
      <4>3. t = "watch" => (LiftPending(d) => LiftPending(d)')
        BY <1>f, <1>4, <1>u DEF LiftPending
      <4> QED
        BY <4>2, <4>3
    <3>3. Forbidden(d)' <=> Forbidden(d)
      BY <1>u DEF Forbidden
    <3>4. BannedIsOff(d)' /\ OffIsBanned(d)'
      BY <1>u, <2>1, <2>2, <3>1, <3>2, <3>3 DEF BannedIsOff, OffIsBanned
    <3>5. InterfaceMatches(d)'
      <4> SUFFICES ASSUME policy.kind = "types", ~Forbidden(d), HasInterface(d)
                   PROVE  \/ d \in ifOff' <=> BarsInterface(policy, d)
                          \/ AskPending(d)'
                          \/ \E u \in Threads : InterfacePending(u, d)'
        BY <1>u, <3>3 DEF InterfaceMatches, BarsInterface
      <4>1. call[t].pol = policy /\ call[t].walk = "types"
        BY <1>f, <1>p, <2>0, <2>4 DEF PlanOk, Fits, NoPolicy
      <4>2. CASE status[d] = "disabled"
        <5>1. LiftPending(d) \/ \E u \in Threads : DevicePending(u, d)
          BY <2>1, <4>2 DEF OffIsBanned
        <5>2. CASE LiftPending(d)
          <6>1. PlanOk("watch")
            BY Literals DEF PlanInv
          <6>2. AskPending(d)
            BY <5>2, <6>1 DEF LiftPending, AskPending, AsksLater, PlanOk
          <6> QED
            BY <6>2, <2>2
        <5>3. CASE \E u \in Threads : DevicePending(u, d)
          <6>1. PICK u \in Threads : DevicePending(u, d)
            BY <5>3
          <6>2. PlanOk(u) /\ \A k \in InHand(u) : JobOk(u, k)
            BY DEF PlanInv, JobInv
          <6>3. u # t
            <7> SUFFICES ASSUME u = t PROVE FALSE
              OBVIOUS
            <7>1. \A w : ~Ahead(t, w)
              BY <1>f, Tuples DEF Ahead
            <7>2. \A k \in InHand(t) : ~(k.dev = d /\ k.what = "device")
              BY <1>1, <1>h, <2>4
            <7> QED
              BY <6>1, <7>1, <7>2 DEF DevicePending
          <6>4. \A w \in PolicyWalks : Fits(u, w) => w = "types"
            BY <6>1 DEF Fits, DevicePending, PolicyWalks, NoPolicy
          <6>5. CASE \E w \in PolicyWalks : Ahead(u, w)
            <7>1. PICK w \in PolicyWalks : Ahead(u, w)
              BY <6>5
            <7>2. Fits(u, w)
              BY <6>2, <7>1, AheadFits
            <7>3. Ahead(u, "types")
              BY <6>4, <7>1, <7>2
            <7>4. InterfacePending(u, d)
              BY <6>1, <7>3 DEF InterfacePending, DevicePending
            <7> QED
              BY <6>3, <7>4, <1>2, <1>u, OtherPending
          <6>6. CASE /\ call[u].walk \in PolicyWalks
                     /\ \E k \in InHand(u) : k.dev = d /\ k.what = "device"
            <7>1. call[u].walk = "types"
              BY <6>2, <6>4, <6>6 DEF PlanOk
            <7>2. InterfacePending(u, d)
              BY <6>1, <6>2, <6>6, <7>1 DEF JobOk, InterfacePending, DevicePending
            <7> QED
              BY <6>3, <7>2, <1>2, <1>u, OtherPending
          <6> QED
            BY <6>1, <6>5, <6>6 DEF DevicePending
        <5> QED
          BY <5>1, <5>2, <5>3
      <4>3. CASE status[d] # "disabled"
        <5>1. ~Spared(t, j)
          BY <4>1, <1>1 DEF Spared
        <5>2. j.on = ~BarsInterface(policy, d)
          BY <1>f, <1>1, <4>1, <2>4 DEF JobOk
        <5>3. d \notin excused'
          BY <1>10 DEF Governed
        <5>4. ifOff' = IF j.on THEN ifOff \ {d} ELSE ifOff \union {d}
          BY <4>3, <5>1, <5>3, <2>4 DEF UsbInterfaceAuthorize
        <5> QED
          BY <5>2, <5>4, <1>1
      <4> QED
        BY <4>2, <4>3
    <3> QED
      BY <3>4, <3>5
  <2> QED
    BY <2>3, <2>4
<1> QED
  BY <1>5, <1>6, <1>7, <1>9, <1>10 DEF ForceInv

(* The administrator's call begins: the thread was idle.                   *)
LEMMA AdminBegins ==
  ASSUME PolicyInv, NEW w \in Walks \ {"serialOff", "serialOn"}, NEW pol \in PolicyType,
         AdminCalls(w, pol),
         w \in PolicyWalks => pol \in Policies,
         w = "globalOff" => pol.kind = "global",
         w = "globalOn" => pol = NoPolicy,
         w \in {"types", "trust"} => pol.kind \in {w, "none"},
         w \in {"deviceOff", "deviceOn"} => pol.kind = "device",
         w = "onlyTypes" => pol.kind = "only"
  PROVE  /\ "admin" \in Threads
         /\ \A u \in Threads : u # "admin" => call'[u] = call[u]
         /\ call'["admin"].plan = <<w>> /\ call'["admin"].pol = pol
         /\ PlanInv' /\ JobInv' /\ SerialInv'
         /\ \A d : ~DevicePending("admin", d) /\ ~InterfacePending("admin", d)
         /\ \A d : AskPending(d) => AskPending(d)'
         /\ \A d : LiftPending(d) => LiftPending(d)'
<1> USE DEF PolicyInv, HostInv, deviceVars, edmVars, paramVars, kernelVars
<1>1. "admin" \in Threads /\ "watch" \in Threads /\ call["admin"] \in Calls
  BY Literals DEF TypeOK
<1>2. /\ call'["admin"] = [call["admin"] EXCEPT !.pc = "next", !.plan = <<w>>, !.pol = pol]
      /\ \A u \in Threads : u # "admin" => call'[u] = call[u]
  BY <1>1, Write DEF AdminCalls
<1>0. call["admin"] = Idle
  BY <1>1 DEF AdminCalls, PlanInv, PlanOk
<1>3. call["admin"].plan = <<>> /\ call["admin"].walk = "none" /\ call["admin"].todo = {}
  BY <1>0 DEF Idle
<1>4. /\ call'["admin"].pc = "next" /\ call'["admin"].plan = <<w>>
      /\ call'["admin"].pol = pol
      /\ call'["admin"].walk = "none" /\ call'["admin"].todo = {}
  BY <1>1, <1>2, <1>3 DEF Calls
<1>5. PlanInv'
  <2>1. Fits("admin", w)' /\ Fits("admin", "none")'
    BY <1>4 DEF Fits, PolicyWalks
  <2>2. PlanOk("admin")'
    BY <1>4, <2>1 DEF PlanOk
  <2> QED
    BY <1>1, <1>2, <2>2, PlanFrame
<1>6. JobInv'
  BY <1>1, <1>2, <1>4, JobFrame DEF AdminCalls, InHand, Deciding
<1>w. call'["watch"] = call["watch"] /\ call'["event"] = call["event"]
  BY <1>1, <1>2, Literals
<1>8. SerialInv'
  BY <1>w, SerialFrame DEF AdminCalls, SerialInv
<1>9. \A d : ~DevicePending("admin", d) /\ ~InterfacePending("admin", d)
  BY <1>3, Tuples DEF DevicePending, InterfacePending, Ahead, PolicyWalks
<1>10. \A d : AskPending(d) => AskPending(d)'
  BY <1>w DEF AdminCalls, AskPending, AsksLater
<1>11. \A d : LiftPending(d) => LiftPending(d)'
  BY <1>w, WatchFrame DEF AdminCalls
<1> QED
  BY <1>1, <1>2, <1>4, <1>5, <1>6, <1>8, <1>9, <1>10, <1>11

(* A policy is replaced and the call that goes with it begins: old and new *)
(* bans are covered by its walk, and a thread that is still applying the   *)
(* old policy excuses every device.                                        *)
LEMMA PolicyReplaced ==
  ASSUME PolicyInv, HostInv', NEW pol \in Policies, NEW w \in PolicyWalks,
         AdminCalls(w, pol), policy' = pol, excused' = Stale("admin"),
         w = "globalOff" => pol.kind = "global",
         w = "globalOn" => pol = NoPolicy,
         w \in {"types", "trust"} => pol.kind \in {w, "none"},
         pol.kind = "types" => w = "types",
         \A d \in Devs : Bans(policy, d) \/ Bans(pol, d) => Covers(w, d)
  PROVE  PolicyInv'
<1> USE DEF PolicyInv, HostInv, deviceVars, edmVars, paramVars, kernelVars
<1>0. /\ pol \in PolicyType /\ w \in Walks \ {"serialOff", "serialOn"}
      /\ w \notin {"deviceOff", "deviceOn", "onlyTypes"}
  BY HostAssumption DEF PolicyWalks, Walks
<1>1. /\ "admin" \in Threads
      /\ \A u \in Threads : u # "admin" => call'[u] = call[u]
      /\ call'["admin"].plan = <<w>> /\ call'["admin"].pol = pol
      /\ PlanInv' /\ JobInv' /\ SerialInv'
      /\ \A d : ~DevicePending("admin", d) /\ ~InterfacePending("admin", d)
      /\ \A d : AskPending(d) => AskPending(d)'
      /\ \A d : LiftPending(d) => LiftPending(d)'
  BY <1>0, AdminBegins
<1>u. UNCHANGED <<status, serialDevs, serialOff, ifOff, disturbed>>
  BY DEF AdminCalls
<1>2. FreshInv'
  <2>1. CASE ~Alone("admin")
    BY <2>1 DEF Stale, FreshInv, FreshOk
  <2>2. CASE Alone("admin")
    <3> SUFFICES ASSUME NEW u \in Threads, InFlight(u)' PROVE FreshOk(u)'
      BY DEF FreshInv
    <3>1. u = "admin"
      BY <1>1, <2>2, OtherThread DEF Alone
    <3>2. ~SerialAhead("admin")'
      <4>1. w # "serialOff"
        BY DEF PolicyWalks
      <4>2. \A x : <<w>> # <<"serialOff", x>> /\ <<w>> # <<"serialOff">>
        BY <4>1, Tuples
      <4>3. call'["admin"].walk # "serialOff"
        BY <1>1 DEF PlanInv, PlanOk, Fits
      <4> QED
        BY <1>1, <4>2, <4>3 DEF SerialAhead
    <3> QED
      BY <1>1, <3>1, <3>2 DEF FreshOk
  <2> QED
    BY <2>1, <2>2
<1>3. InterfaceInv'
  BY <1>u DEF InterfaceInv
<1>4. ASSUME NEW d \in Devs, Governed(d)'
      PROVE  BannedIsOff(d)' /\ OffIsBanned(d)' /\ InterfaceMatches(d)'
  <2>1. Alone("admin") /\ excused' = excused
    BY <1>4 DEF Governed, Stale
  <2>2. Governed(d)
    BY <1>4, <1>u, <2>1 DEF Governed, Present, SerialManaged
  <2>3. \A u \in Threads : ~DevicePending(u, d)
    <3> SUFFICES ASSUME NEW u \in Threads, DevicePending(u, d) PROVE FALSE
      OBVIOUS
    <3>1. u # "admin"
      BY <1>1
    <3>2. InFlight(u)
      BY PendingInFlight DEF PlanInv
    <3> QED
      BY <2>1, <3>1, <3>2 DEF Alone
  <2>4. Covers(w, d) => DevicePending("admin", d)'
    BY <1>1 DEF DevicePending, Ahead
  <2>5. BannedIsOff(d)'
    BY <1>1, <2>4 DEF BannedIsOff, Forbidden
  <2>6. OffIsBanned(d)'
    <3>1. OffIsBanned(d)
      BY <2>2 DEF ForceInv
    <3> QED
      BY <1>1, <1>u, <2>3, <2>4, <3>1 DEF OffIsBanned, Forbidden
  <2>7. InterfaceMatches(d)'
    <3>1. pol.kind = "types" => InterfacePending("admin", d)'
      BY <1>1 DEF InterfacePending, Ahead
    <3> QED
      BY <1>1, <3>1 DEF InterfaceMatches
  <2> QED
    BY <2>5, <2>6, <2>7
<1> QED
  BY <1>1, <1>2, <1>3, <1>4 DEF ForceInv

(* Setting a policy, of a kind that is set already or over none.           *)
LEMMA PolicySetPolicy ==
  ASSUME PolicyInv, HostInv', NEW pol \in Policies, SetPolicy(pol)
  PROVE  PolicyInv'
<1>1. pol.kind \in {"global", "types", "trust"} /\ policy \in Policies
  BY HostAssumption DEF SetPolicy, PolicyType, PolicyInv, HostInv, TypeOK
<1>2. /\ SetWalk(pol.kind) \in PolicyWalks
      /\ SetWalk(pol.kind) = "globalOff" => pol.kind = "global"
      /\ SetWalk(pol.kind) # "globalOn"
      /\ SetWalk(pol.kind) \in {"types", "trust"} => pol.kind = SetWalk(pol.kind)
      /\ pol.kind = "types" => SetWalk(pol.kind) = "types"
  BY <1>1 DEF SetWalk, PolicyWalks
<1>3. ASSUME NEW d \in Devs, Bans(policy, d) \/ Bans(pol, d)
      PROVE  Covers(SetWalk(pol.kind), d)
  <2>1. CASE Bans(pol, d)
    BY <2>1, BansCovered DEF SetWalk
  <2>2. CASE Bans(policy, d)
    <3>1. policy.kind = pol.kind
      BY <2>2 DEF Bans, SetPolicy
    <3> QED
      BY <1>1, <2>2, <3>1, BansCovered DEF SetWalk
  <2> QED
    BY <1>3, <2>1, <2>2
<1> QED
  BY <1>2, <1>3, PolicyReplaced DEF SetPolicy

(* Lifting it.                                                             *)
LEMMA PolicyLiftPolicy ==
  ASSUME PolicyInv, HostInv', LiftPolicy
  PROVE  PolicyInv'
<1>1. /\ policy.kind \in {"global", "types", "trust"} /\ policy \in Policies
      /\ NoPolicy \in Policies /\ NoPolicy.kind = "none"
  BY HostAssumption DEF LiftPolicy, PolicyType, PolicyInv, HostInv, TypeOK, NoPolicy
<1>2. /\ LiftWalk(policy.kind) \in PolicyWalks
      /\ LiftWalk(policy.kind) # "globalOff"
  BY <1>1 DEF LiftWalk, PolicyWalks
<1>3. ASSUME NEW d \in Devs, Bans(policy, d) \/ Bans(NoPolicy, d)
      PROVE  Covers(LiftWalk(policy.kind), d)
  <2>1. Bans(policy, d)
    BY <1>1, <1>3 DEF Bans
  <2> QED
    BY <1>1, <2>1, BansCovered DEF LiftWalk, Covers
<1> QED
  BY <1>1, <1>2, <1>3, PolicyReplaced DEF LiftPolicy

(* A one-off call excuses the devices it is about.                         *)
LEMMA PolicyAdminOnce ==
  ASSUME PolicyInv, HostInv', NEW w \in {"deviceOff", "deviceOn", "onlyTypes"},
         NEW pol \in PolicyType,
         pol.kind = (IF w = "onlyTypes" THEN "only" ELSE "device"),
         AdminOnce(w, pol)
  PROVE  PolicyInv'
<1> USE DEF PolicyInv, HostInv, deviceVars, edmVars, paramVars, kernelVars
<1>0. /\ AdminCalls(w, pol)
      /\ w \in Walks \ {"serialOff", "serialOn"}
      /\ w \notin PolicyWalks
      /\ pol.kind \in OneOff
  BY DEF AdminOnce, Walks, PolicyWalks, OneOff
<1>u. /\ UNCHANGED <<status, serialDevs, serialOff, ifOff, disturbed, policy>>
      /\ excused' = excused \union {d \in Devs : Meant(pol, d)}
  BY DEF AdminOnce, AdminCalls
<1>1. /\ "admin" \in Threads
      /\ \A u \in Threads : u # "admin" => call'[u] = call[u]
      /\ call'["admin"].plan = <<w>> /\ call'["admin"].pol = pol
      /\ PlanInv' /\ JobInv' /\ SerialInv'
      /\ \A d : ~DevicePending("admin", d) /\ ~InterfacePending("admin", d)
      /\ \A d : AskPending(d) => AskPending(d)'
      /\ \A d : LiftPending(d) => LiftPending(d)'
  BY <1>0, AdminBegins DEF PolicyWalks
<1>2. FreshInv'
  <2>1. FreshOk("admin")'
    BY <1>0, <1>1, <1>u DEF FreshOk
  <2>2. excused' \subseteq Devs
    BY <1>u DEF TypeOK
  <2> QED
    BY <1>1, <1>u, <2>1, <2>2, FreshFrame
<1>3. InterfaceInv'
  BY <1>u DEF InterfaceInv
<1>4. ASSUME NEW d \in Devs, Governed(d)'
      PROVE  BannedIsOff(d)' /\ OffIsBanned(d)' /\ InterfaceMatches(d)'
  <2>1. Governed(d)
    BY <1>4, <1>u DEF Governed, Present, SerialManaged
  <2> QED
    BY <1>1, <1>u, <2>1, LeftAlone
<1> QED
  BY <1>1, <1>2, <1>3, <1>4 DEF ForceInv

(* The serial parameter is flipped: the notice stands for what the watcher *)
(* will do.                                                                *)
LEMMA PolicySetSerialParameter ==
  ASSUME PolicyInv, HostInv', SetSerialParameter
  PROVE  PolicyInv'
<1> USE DEF PolicyInv, HostInv, deviceVars, edmVars, paramVars, kernelVars
<1>1. /\ "watch" \in Threads /\ "event" \in Threads /\ call' = call
      /\ \A u \in Threads : call'[u] = call[u]
  BY Literals DEF SetSerialParameter
<1>u. UNCHANGED <<status, serialDevs, serialUp, ifOff, disturbed, policy, adding>>
  BY DEF SetSerialParameter
<1>s. /\ serialOff \in BOOLEAN /\ notice = "none" /\ serialOff' = ~serialOff
      /\ notice' = IF serialOff THEN "0" ELSE "1"
      /\ excused' = Stale("watch")
  BY DEF SetSerialParameter, TypeOK
<1>2. PlanInv'
  BY <1>1, OtherThread DEF PlanInv
<1>3. JobInv'
  <2>1. ASSUME NEW t \in Threads, NEW j \in InHand(t)' PROVE JobOk(t, j)'
    <3>1. InHand(t)' = InHand(t)
      BY <1>1, OtherThread
    <3>2. JobOk(t, j)
      BY <2>1, <3>1 DEF JobInv
    <3> QED
      BY <1>1, <1>u, <3>2 DEF JobOk
  <2> QED
    BY <2>1 DEF JobInv
<1>4. \A v \in {"types", "trust"} :
        /\ call["watch"].plan # <<"serialOff", v>>
        /\ ~(call["watch"].walk = "serialOff" /\ call["watch"].plan = <<v>>)
  BY <1>s DEF SerialInv
<1>5. SerialInv'
  <2>1. AsksLater' <=> AsksLater
    BY <1>1 DEF AsksLater
  <2> QED
    BY <1>1, <1>u, <1>s, <1>4, <2>1 DEF SerialInv
<1>6. FreshInv'
  <2>1. CASE ~Alone("watch")
    BY <1>s, <2>1 DEF Stale, FreshInv, FreshOk
  <2>2. CASE Alone("watch")
    <3> SUFFICES ASSUME NEW u \in Threads, InFlight(u)' PROVE FreshOk(u)'
      BY DEF FreshInv
    <3>0. excused' = excused
      BY <1>s, <2>2 DEF Stale
    <3>1. u = "watch" /\ InFlight(u)
      BY <1>1, <2>2, OtherThread DEF Alone
    <3>2. FreshOk(u) /\ PlanOk(u)
      BY <3>1 DEF FreshInv, PlanInv
    <3>3. SerialAhead(u) => WatchOnly(u)
      <4>1. CASE call[u].plan = <<"serialOff">>
        BY <3>1, <4>1 DEF WatchOnly
      <4>2. CASE call[u].walk = "serialOff"
        <5>1. call[u].plan = <<>>
          BY <3>1, <3>2, <4>2, <1>4 DEF PlanOk
        <5> QED
          BY <3>1, <4>2, <5>1 DEF WatchOnly
      <4> QED
        BY <3>1, <4>1, <4>2, <1>4 DEF SerialAhead
    <3>4. (WatchOnly(u)' <=> WatchOnly(u)) /\ (SerialAhead(u)' <=> SerialAhead(u))
      BY <1>1, OtherThread
    <3> QED
      BY <1>1, <1>u, <3>0, <3>1, <3>2, <3>3, <3>4 DEF FreshOk
  <2> QED
    BY <2>1, <2>2
<1>7. InterfaceInv'
  BY <1>u DEF InterfaceInv
<1>8. ASSUME NEW d \in Devs, Governed(d)'
      PROVE  BannedIsOff(d)' /\ OffIsBanned(d)' /\ InterfaceMatches(d)'
  <2>1. excused' = excused
    BY <1>8, <1>s DEF Governed, Stale
  <2>2. CASE d \in serialDevs
    <3>1. notice' = "0"
      BY <1>8, <1>s, <1>u, <2>2 DEF Governed, SerialManaged
    <3>2. AskPending(d)' /\ LiftPending(d)'
      BY <3>1, <1>u, <2>2 DEF AskPending, LiftPending
    <3> QED
      BY <3>2 DEF BannedIsOff, OffIsBanned, InterfaceMatches
  <2>3. CASE d \notin serialDevs
    <3>1. Governed(d)
      BY <1>8, <1>u, <2>1, <2>3 DEF Governed, Present, SerialManaged
    <3>2. ~LiftPending(d)
      BY <2>3 DEF LiftPending
    <3>3. AskPending(d) => AskPending(d)'
      BY <1>1, <1>u, <2>3 DEF AskPending
    <3>4. /\ DevicePending("event", d) => DevicePending("event", d)'
          /\ InterfacePending("event", d) => InterfacePending("event", d)'
      BY <1>1, <1>u, OtherPending
    <3> QED
      BY <1>1, <1>u, <3>1, <3>2, <3>3, <3>4, LeftAlone
  <2> QED
    BY <2>2, <2>3
<1> QED
  BY <1>2, <1>3, <1>5, <1>6, <1>7, <1>8 DEF ForceInv

(* The watcher begins: what the notice stood for is its plan.              *)
LEMMA PolicyWatchParameter ==
  ASSUME PolicyInv, HostInv', WatchParameter
  PROVE  PolicyInv'
<1> USE DEF PolicyInv, HostInv, deviceVars, edmVars, paramVars, kernelVars
<1>1. "watch" \in Threads /\ "event" \in Threads /\ call["watch"] \in Calls
  BY Literals DEF TypeOK
<1>2. /\ call'["watch"] = [call["watch"] EXCEPT !.pc = "next", !.plan = WatchPlan]
      /\ \A u \in Threads : u # "watch" => call'[u] = call[u]
  BY <1>1, Write DEF WatchParameter
<1>0. call["watch"] = Idle
  BY <1>1 DEF WatchParameter, PlanInv, PlanOk
<1>3. /\ call["watch"].plan = <<>> /\ call["watch"].walk = "none"
      /\ call["watch"].todo = {}
  BY <1>0 DEF Idle
<1>4. /\ call'["watch"].pc = "next" /\ call'["watch"].plan = WatchPlan
      /\ call'["watch"].walk = "none" /\ call'["watch"].todo = {}
  BY <1>1, <1>2, <1>3 DEF Calls
<1>u. /\ UNCHANGED <<status, serialDevs, serialUp, ifOff, disturbed, excused, policy,
                     adding, serialOff>>
      /\ serialUp \in BOOLEAN /\ notice \in {"0", "1"} /\ notice' = "none"
  BY DEF WatchParameter, TypeOK
<1>p. \/ ~serialUp /\ call'["watch"].plan = <<>>
      \/ serialUp /\ notice = "1" /\ call'["watch"].plan = <<"serialOff">>
      \/ serialUp /\ notice = "0" /\ call'["watch"].plan = <<"serialOn", "strategy">>
  BY <1>4, <1>u DEF WatchPlan
<1>5. PlanInv'
  <2>1. Fits("watch", "serialOff")' /\ Fits("watch", "none")'
    BY DEF Fits, PolicyWalks
  <2>2. PlanOk("watch")'
    BY <1>4, <1>p, <2>1 DEF PlanOk, Walks
  <2> QED
    BY <1>1, <1>2, <2>2, PlanFrame
<1>6. JobInv'
  BY <1>1, <1>2, <1>4, <1>u, JobFrame DEF InHand, Deciding
<1>7. FreshInv'
  <2>1. InFlight("watch")' => WatchOnly("watch")'
    BY <1>4, <1>p DEF InFlight, Deciding, WatchOnly
  <2>2. InFlight("watch")' => FreshOk("watch")'
    BY <2>1 DEF FreshOk
  <2> QED
    BY <1>1, <1>2, <1>u, <2>2, FreshFrame DEF TypeOK
<1>8. SerialInv'
  <2>1. SerialAhead("watch")' => serialOff
    BY <1>4, <1>p, Tuples DEF SerialAhead, SerialInv
  <2>2. AsksLater' => ~serialOff
    BY <1>4, <1>p, Tuples DEF AsksLater, SerialInv
  <2>3. \A v \in {"types", "trust"} : call'["watch"].plan # <<"serialOff", v>>
    BY <1>p, Tuples
  <2> QED
    BY <1>4, <1>u, <2>1, <2>2, <2>3 DEF SerialInv
<1>9. InterfaceInv'
  BY <1>u DEF InterfaceInv
<1>10. ASSUME NEW d \in Devs, Governed(d)'
       PROVE  BannedIsOff(d)' /\ OffIsBanned(d)' /\ InterfaceMatches(d)'
  <2>1. Governed(d)
    BY <1>10, <1>u DEF Governed, Present, SerialManaged
  <2>2. ~DevicePending("watch", d) /\ ~InterfacePending("watch", d)
    BY <1>3, Tuples DEF DevicePending, InterfacePending, Ahead, PolicyWalks
  <2>3. d \in serialDevs /\ notice = "0" => call'["watch"].plan = <<"serialOn", "strategy">>
    BY <1>p DEF SerialInv
  <2>4. ~AsksLater
    BY <1>3, Tuples DEF AsksLater
  <2>5. AskPending(d) => AskPending(d)'
    BY <1>1, <1>2, <1>u, <2>3, <2>4 DEF AskPending, AsksLater
  <2>6. LiftPending(d) => LiftPending(d)'
    BY <1>3, <1>u, <2>3, <2>4 DEF LiftPending, AsksLater
  <2> QED
    BY <1>1, <1>2, <1>u, <2>1, <2>2, <2>5, <2>6, LeftAlone
<1> QED
  BY <1>5, <1>6, <1>7, <1>8, <1>9, <1>10 DEF ForceInv

(* EDM is there: the callback asks for the policy.                         *)
LEMMA PolicyOnLoadSystemAbilitySuccess ==
  ASSUME PolicyInv, HostInv', OnLoadSystemAbilitySuccess
  PROVE  PolicyInv'
<1> USE DEF PolicyInv, HostInv, deviceVars, edmVars, paramVars, kernelVars
<1>1. /\ "load" \in Threads /\ "watch" \in Threads /\ "event" \in Threads
      /\ call["load"] \in Calls
  BY Literals DEF TypeOK
<1>2. /\ call'["load"] = [call["load"] EXCEPT !.pc = "next", !.plan = <<"strategy">>]
      /\ \A u \in Threads : u # "load" => call'[u] = call[u]
  BY <1>1, Write DEF OnLoadSystemAbilitySuccess
<1>0. call["load"] = Idle
  BY <1>1 DEF OnLoadSystemAbilitySuccess, PlanInv, PlanOk
<1>3. call["load"].plan = <<>> /\ call["load"].walk = "none" /\ call["load"].todo = {}
  BY <1>0 DEF Idle
<1>4. /\ call'["load"].pc = "next" /\ call'["load"].plan = <<"strategy">>
      /\ call'["load"].walk = "none" /\ call'["load"].todo = {}
  BY <1>1, <1>2, <1>3 DEF Calls
<1>u. UNCHANGED <<status, serialDevs, serialUp, ifOff, disturbed, excused, policy,
                  adding, serialOff, notice>>
  BY DEF OnLoadSystemAbilitySuccess
<1>w. call'["watch"] = call["watch"] /\ call'["event"] = call["event"]
  BY <1>1, <1>2
<1>5. PlanInv'
  <2>1. PlanOk("load")'
    BY <1>4 DEF PlanOk, Fits, PolicyWalks
  <2> QED
    BY <1>1, <1>2, <2>1, PlanFrame
<1>6. JobInv'
  BY <1>1, <1>2, <1>4, <1>u, JobFrame DEF InHand, Deciding
<1>7. FreshInv'
  BY <1>1, <1>2, <1>4, <1>u, FreshFrame, Tuples DEF InFlight, Deciding, TypeOK
<1>8. SerialInv'
  BY <1>w, <1>u, SerialFrame DEF SerialInv
<1>9. InterfaceInv'
  BY <1>u DEF InterfaceInv
<1>10. ASSUME NEW d \in Devs, Governed(d)'
       PROVE  BannedIsOff(d)' /\ OffIsBanned(d)' /\ InterfaceMatches(d)'
  <2>1. Governed(d)
    BY <1>10, <1>u DEF Governed, Present, SerialManaged
  <2>2. ~DevicePending("load", d) /\ ~InterfacePending("load", d)
    BY <1>3, Tuples DEF DevicePending, InterfacePending, Ahead, PolicyWalks
  <2>3. AskPending(d) => AskPending(d)'
    BY <1>w, <1>u DEF AskPending, AsksLater
  <2>4. LiftPending(d) => LiftPending(d)'
    BY <1>w, <1>u, WatchFrame
  <2> QED
    BY <1>1, <1>2, <1>u, <2>1, <2>2, <2>3, <2>4, LeftAlone
<1> QED
  BY <1>5, <1>6, <1>7, <1>8, <1>9, <1>10 DEF ForceInv

(* Steps that touch only EDM's state.                                      *)
LEMMA PolicyUntouched ==
  ASSUME PolicyInv, HostInv',
         UNCHANGED <<status, serialDevs, serialUp, call, adding, policy, serialOff,
                     notice, ifOff, disturbed, excused>>
  PROVE  PolicyInv'
<1> USE DEF PolicyInv, HostInv
<1>1. /\ "watch" \in Threads /\ "event" \in Threads
      /\ \A u \in Threads : call'[u] = call[u]
  BY Literals
<1>5. PlanInv'
  BY <1>1, OtherThread DEF PlanInv
<1>6. JobInv'
  <2>1. \A j \in InHand("watch")' : JobOk("watch", j)'
    <3>1. InHand("watch")' = InHand("watch")
      BY <1>1, OtherThread
    <3> QED
      BY <1>1, <3>1 DEF JobInv, JobOk
  <2> QED
    BY <1>1, <2>1, JobFrame
<1>7. FreshInv'
  BY <1>1, OtherThread DEF FreshInv, FreshOk
<1>8. SerialInv'
  BY <1>1, SerialFrame DEF SerialInv
<1>9. InterfaceInv'
  BY DEF InterfaceInv
<1>10. ASSUME NEW d \in Devs, Governed(d)'
       PROVE  BannedIsOff(d)' /\ OffIsBanned(d)' /\ InterfaceMatches(d)'
  <2>1. Governed(d)
    BY <1>10 DEF Governed, Present, SerialManaged
  <2>2. /\ DevicePending("watch", d) => DevicePending("watch", d)'
        /\ InterfacePending("watch", d) => InterfacePending("watch", d)'
    BY <1>1, OtherPending
  <2>3. AskPending(d) => AskPending(d)'
    BY DEF AskPending, AsksLater
  <2>4. LiftPending(d) => LiftPending(d)'
    BY <1>1, WatchFrame
  <2> QED
    BY <1>1, <2>1, <2>2, <2>3, <2>4, LeftAlone
<1> QED
  BY <1>5, <1>6, <1>7, <1>8, <1>9, <1>10 DEF ForceInv

(* In the beginning nothing is planned and no device is there.             *)
LEMMA PolicyInvInit == Init => PolicyInv
<1> SUFFICES ASSUME Init PROVE PolicyInv
  OBVIOUS
<1>1. HostInv
  BY HostInvInit
<1>2. /\ "watch" \in Threads
      /\ \A t \in Threads : /\ call[t] = Idle /\ call[t].pc = "idle" /\ call[t].plan = <<>>
                            /\ call[t].walk = "none" /\ call[t].todo = {}
  BY Literals DEF Init, Idle
<1>3. PlanInv
  BY <1>2 DEF PlanInv, PlanOk, Fits, PolicyWalks
<1>4. JobInv
  BY <1>2 DEF JobInv, InHand, Deciding
<1>5. FreshInv
  BY <1>2 DEF FreshInv, InFlight, Deciding
<1>6. SerialInv
  BY <1>2, Tuples DEF Init, SerialInv, SerialAhead, AsksLater
<1>7. InterfaceInv
  BY DEF Init, InterfaceInv
<1>8. ForceInv
  BY DEF Init, ForceInv, Governed, Present
<1> QED
  BY <1>1, <1>3, <1>4, <1>5, <1>6, <1>7, <1>8 DEF PolicyInv

(* Every step keeps the promise that a policy not applied is about to be.  *)
LEMMA PolicyInvStep == PolicyInv /\ [Next]_vars => PolicyInv'
<1> SUFFICES ASSUME PolicyInv, [Next]_vars PROVE PolicyInv'
  OBVIOUS
<1>0. HostInv'
  BY HostInvStep DEF PolicyInv
<1>1. ASSUME NEW d \in Devs, AddEvent(d) \/ DelDevice(d) PROVE PolicyInv'
  BY <1>0, <1>1, PolicyAddEvent, PolicyDelDevice
<1>2. CASE EventStep
  BY <1>0, <1>2, PolicyAddDevice, PolicyAddUsbSerialDevice, PolicyAdded DEF EventStep
<1>3. ASSUME NEW t \in Threads, Step(t) PROVE PolicyInv'
  <2>1. CASE ExecuteStrategy(t) \/ StrategyFails(t)
    BY <1>0, <2>1, PolicyExecuteStrategy, PolicyStrategyFails
  <2>2. CASE StartWalk(t) \/ EndWalk(t) \/ Return(t)
    BY <1>0, <2>2, PolicyStartWalk, PolicyEndWalk, PolicyReturn
  <2>3. CASE \E j \in call[t].todo :
               \/ SkipDevice(t, j) \/ UsbDeviceAuthorize(t, j)
               \/ OpenFails(t, j) \/ UsbInterfaceAuthorize(t, j)
    <3>1. PICK j \in Jobs : \/ SkipDevice(t, j) \/ UsbDeviceAuthorize(t, j)
                           \/ OpenFails(t, j) \/ UsbInterfaceAuthorize(t, j)
      BY <2>3, TodoAreJobs DEF PolicyInv, HostInv
    <3> QED
      BY <1>0, <3>1, PolicySkipDevice, PolicyUsbDeviceAuthorize, PolicyOpenFails,
         PolicyUsbInterfaceAuthorize
  <2>4. CASE Authorized(t) \/ AuthorizeFails(t)
    BY <1>0, <2>4, PolicyAuthorized, PolicyAuthorizeFails
  <2>5. CASE \E id \in Ids : SameIdAgain(t, id)
    BY <1>0, <2>5, PolicySameIdAgain
  <2> QED
    BY <1>3, <2>1, <2>2, <2>3, <2>4, <2>5 DEF Step
<1>4. ASSUME NEW pol \in Policies, SetPolicy(pol) PROVE PolicyInv'
  BY <1>0, <1>4, PolicySetPolicy
<1>5. CASE LiftPolicy
  BY <1>0, <1>5, PolicyLiftPolicy
<1>6. ASSUME NEW id \in Ids, NEW disable \in BOOLEAN, ManageDevice(id, disable)
      PROVE  PolicyInv'
  <2>1. [kind |-> "device", set |-> {id}] \in PolicyType
    BY DEF PolicyType, OneOff
  <2> QED
    BY <1>0, <1>6, <2>1, PolicyAdminOnce DEF ManageDevice
<1>10. ASSUME NEW pol \in Policies, ManageInterfaceType(pol)
       PROVE  PolicyInv'
  <2>1. [kind |-> "only", set |-> pol.set] \in PolicyType
    BY HostAssumption DEF PolicyType, OneOff
  <2> QED
    BY <1>0, <1>10, <2>1, PolicyAdminOnce DEF ManageInterfaceType
<1>7. CASE SetSerialParameter \/ WatchParameter
  BY <1>0, <1>7, PolicySetSerialParameter, PolicyWatchParameter
<1>8. CASE OnLoadSystemAbilitySuccess
  BY <1>0, <1>8, PolicyOnLoadSystemAbilitySuccess
<1>9. CASE OnLoadSystemAbilityFail \/ EdmChanges \/ UNCHANGED vars
  BY <1>0, <1>9, PolicyUntouched
     DEF OnLoadSystemAbilityFail, EdmChanges, vars, deviceVars, edmVars, paramVars,
         kernelVars
<1> QED
  BY <1>1, <1>2, <1>3, <1>4, <1>5, <1>6, <1>7, <1>8, <1>9, <1>10 DEF Next

(* The invariant holds in every state of every run.                        *)
LEMMA PolicyInvariant == Spec => []PolicyInv
  BY PolicyInvInit, PolicyInvStep, PTL DEF Spec

(* When nothing is running, a device is disabled exactly if the policy in  *)
(* force bans it, and an enabled device's interface is off exactly if its  *)
(* type is banned, for every order of events, calls of the administrator,  *)
(* loads of EDM, flips of the serial parameter and failures: what          *)
(* ExecuteStrategy, the Manage* calls and the watcher leave behind.        *)
THEOREM PolicyIsInForce == Spec => []PolicyInForce
<1>1. PolicyInv => PolicyInForce
  <2> SUFFICES ASSUME PolicyInv, Quiet, NEW d \in Present \ (disturbed \union excused),
                      ~SerialManaged(d)
               PROVE  /\ status[d] = "disabled" <=> Forbidden(d)
                      /\ policy.kind = "types" /\ ~Forbidden(d) /\ d \notin Hubs =>
                           (d \in ifOff <=> IfTypeOf[d] \in policy.set)
    BY DEF PolicyInForce
  <2> USE DEF PolicyInv, HostInv
  <2>1. d \in Devs /\ BannedIsOff(d) /\ OffIsBanned(d) /\ InterfaceMatches(d)
    BY DEF Present, Governed, ForceInv
  <2>2. /\ "watch" \in Threads /\ "event" \in Threads
        /\ \A t \in Threads : call[t] = Idle
    BY Literals DEF Quiet, PlanInv, PlanOk
  <2>3. \A t \in Threads : call[t].pc = "idle" /\ call[t].plan = <<>>
                           /\ call[t].walk = "none" /\ call[t].todo = {}
    BY <2>2 DEF Idle
  <2>4. \A t \in Threads : ~DevicePending(t, d) /\ ~InterfacePending(t, d)
    BY <2>3, Tuples DEF DevicePending, InterfacePending, Ahead, PolicyWalks
  <2>5. ~AskPending(d) /\ ~LiftPending(d)
    BY <2>2, <2>3, Tuples DEF Quiet, AskPending, LiftPending, AsksLater
  <2>6. status[d] = "disabled" <=> Forbidden(d)
    BY <2>1, <2>4, <2>5 DEF BannedIsOff, OffIsBanned
  <2>7. ASSUME policy.kind = "types", ~Forbidden(d), d \notin Hubs
        PROVE  d \in ifOff <=> IfTypeOf[d] \in policy.set
    <3>1. CASE HasInterface(d)
      BY <2>1, <2>4, <2>5, <2>7, <3>1 DEF InterfaceMatches, BarsInterface
    <3>2. CASE ~HasInterface(d)
      <4>1. d \notin ifOff /\ IfTypeOf[d] = NoType
        BY <2>7, <3>2 DEF InterfaceInv, HasInterface
      <4>2. policy.set \subseteq Types \union Ids
        BY HostAssumption DEF TypeOK, PolicyType
      <4> QED
        BY <4>1, <4>2, HostAssumption
    <3> QED
      BY <3>1, <3>2
  <2> QED
    BY <2>6, <2>7
<1> QED
  BY <1>1, PolicyInvariant, PTL

(* The administrator's calls never ask EDM for a policy, which they would  *)
(* wait for themselves.                                                    *)
LEMMA AdminNeverAsks ==
  ASSUME PolicyInv, call["admin"].plan # <<>>
  PROVE  Head(call["admin"].plan) # "strategy"
<1>1. PlanOk("admin")
  BY DEF PolicyInv, PlanInv, Threads
<1>2. PICK w \in Walks : call["admin"].plan = <<w>>
  BY <1>1 DEF PlanOk
<1>3. w # "strategy"
  BY DEF Walks
<1> QED
  BY <1>2, <1>3

(* AddDevice, the administrator's calls, the watcher and EDM's callback    *)
(* never wait for each other in a circle: a wait for EDM leads to the      *)
(* administrator, a wait for devicesMutex_ to a thread that holds it, and  *)
(* whoever holds it waits for nobody.                                      *)
THEOREM NobodyWaitsInACircle == Spec => []NoCircularWait
<1>1. PolicyInv => NoCircularWait
  <2> SUFFICES ASSUME PolicyInv, NEW S \in (SUBSET Threads) \ {{}}
               PROVE  \E t \in S : \A u \in S : ~WaitsFor(t, u)
    BY DEF NoCircularWait, Waiting
  <2> DEFINE Asking(t) == /\ call[t].pc = "next" /\ call[t].plan # <<>>
                          /\ Head(call[t].plan) = "strategy"
             Locking(t) == \/ call[t].pc = "insert"
                           \/ /\ call[t].pc = "next" /\ call[t].plan # <<>>
                              /\ Head(call[t].plan) # "strategy"
  <2>1. ASSUME NEW t, NEW u, WaitsFor(t, u)
        PROVE  \/ Asking(t) /\ u = "admin"
               \/ Locking(t) /\ (Reader(u) \/ (u = "event" /\ writer))
    BY <2>1 DEF WaitsFor
  <2>2. ASSUME NEW u, Reader(u) \/ (u = "event" /\ writer)
        PROVE  ~Asking(u) /\ ~Locking(u)
    <3>1. writer => call["event"].pc = "recorded"
      BY DEF PolicyInv, HostInv, LockInv
    <3>2. call[u].pc \in {"authorize", "walk", "enable", "recorded"}
      BY <2>2, <3>1 DEF Reader, Deciding
    <3> QED
      BY <3>2
  <2>3. ~Asking("admin")
    BY AdminNeverAsks
  <2> HIDE DEF Asking, Locking
  <2>4. CASE \E t \in S : ~Asking(t) /\ ~Locking(t)
    BY <2>1, <2>4
  <2>5. CASE \E t \in S : ~Asking(t) /\ \A u \in S : Asking(u) \/ Locking(u)
    BY <2>1, <2>2, <2>5
  <2>6. CASE \A t \in S : Asking(t)
    <3>1. "admin" \notin S
      BY <2>3, <2>6
    <3>2. PICK t \in S : TRUE
      OBVIOUS
    <3>3. ASSUME NEW u \in S PROVE ~WaitsFor(t, u)
      BY <2>1, <2>2, <2>6, <3>1, <3>3
    <3> QED
      BY <3>3
  <2> QED
    BY <2>4, <2>5, <2>6
<1> QED
  BY <1>1, PolicyInvariant, PTL

(***************************************************************************)
(* The serial policy in force (SerialPolicyInForce), where the policies    *)
(* ban types only, from SerialForceInv on top of PolicyInv.                *)
(***************************************************************************)
(* What is about to be done for a device changes with the thread that      *)
(* moves only.                                                             *)
LEMMA SerialKeptFrame ==
  ASSUME NEW t \in Threads, NEW d, SerialKept(d),
         \A u \in Threads : u # t => call'[u] = call[u],
         notice' = notice,
         status[d] = "disabled" => status'[d] = "disabled",
         EventPending(d) => EventPending(d)',
         SerialPending(t, d) => SerialPending(t, d)',
         Deciding(t)' /\ call'[t].dev = d /\ call'[t].on => t = "watch" /\ notice = "1"
  PROVE  SerialKept(d)'
<1>1. \A u \in Threads : SerialPending(u, d) => SerialPending(u, d)'
  <2> SUFFICES ASSUME NEW u \in Threads, u # t, SerialPending(u, d) PROVE SerialPending(u, d)'
    OBVIOUS
  <2>1. call'[u] = call[u] /\ InHand(u)' = InHand(u)
    BY OtherThread
  <2> QED
    BY <2>1 DEF SerialPending
<1>2. \A u \in Threads :
        Deciding(u)' /\ call'[u].dev = d /\ call'[u].on => u = "watch" /\ notice' = "1"
  BY DEF SerialKept, Deciding
<1> QED
  BY <1>1, <1>2 DEF SerialKept

(* A step of one thread keeps SerialForceInv when the devices it concerns  *)
(* were kept and still are.                                                *)
LEMMA SerialForceFrame ==
  ASSUME SerialForceInv, NEW t \in Threads,
         \A u \in Threads : u # t => call'[u] = call[u],
         call'[t].walk # "trust", ~Ahead(t, "trust")',
         \A d \in serialDevs' \ (disturbed' \union excused') : serialOff' => SerialKept(d)'
  PROVE  SerialForceInv'
<1>1. \A u \in Threads : call'[u].walk # "trust" /\ ~Ahead(u, "trust")'
  BY DEF SerialForceInv, Ahead
<1> QED
  BY <1>1 DEF SerialForceInv

(* A step after which t is not switching a device on and has no serial     *)
(* device left behind.                                                     *)
LEMMA SerialQuietStep ==
  ASSUME SerialForceInv, NEW t \in Threads,
         \A u \in Threads : u # t => call'[u] = call[u],
         call'[t].walk # "trust", ~Ahead(t, "trust")', ~Deciding(t)',
         UNCHANGED <<notice, serialOff>>,
         \A d \in serialDevs' \ (disturbed' \union excused') :
            serialOff =>
              /\ d \in serialDevs \ (disturbed \union excused)
              /\ status[d] = "disabled" => status'[d] = "disabled"
              /\ EventPending(d) => EventPending(d)'
              /\ SerialPending(t, d) => SerialPending(t, d)'
  PROVE  SerialForceInv'
<1>1. ASSUME NEW d \in serialDevs' \ (disturbed' \union excused'), serialOff'
      PROVE  SerialKept(d)'
  <2>1. SerialKept(d)
    BY <1>1 DEF SerialForceInv
  <2> QED
    BY <1>1, <2>1, SerialKeptFrame
<1> QED
  BY <1>1, SerialForceFrame

(* AddDevice's wait for the policies does not depend on the other threads. *)
LEMMA EventFrame ==
  ASSUME NEW d, call'["event"] = call["event"], adding' = adding
  PROVE  EventPending(d) => EventPending(d)'
  BY DEF EventPending

(* The event thread up to its unlock.                                      *)
LEMMA SerialAdding ==
  ASSUME PolicyInv, SerialForceInv,
         \/ \E e \in Devs : AddEvent(e)
         \/ AddDevice \/ AddUsbSerialDevice
  PROVE  SerialForceInv'
<1> USE DEF PolicyInv, HostInv, edmVars, paramVars, kernelVars
<1>1. "event" \in Threads /\ "watch" \in Threads /\ call["event"] \in Calls
  BY Literals DEF TypeOK
<1>2. /\ call["event"].plan = <<>> /\ call["event"].walk = "none" /\ call["event"].todo = {}
      /\ \A d : ~SerialPending("event", d)
  <2>1. /\ call["event"].pc \in {"idle", "insert", "recorded"}
        /\ PlanOk("event")
    BY <1>1 DEF AddEvent, AddDevice, AddUsbSerialDevice, PlanInv
  <2>2. call["event"].plan = <<>> /\ call["event"].walk = "none"
    BY <2>1 DEF PlanOk, Idle
  <2>3. call["event"].todo = {}
    BY <1>1, <2>1 DEF EntryInv
  <2> QED
    BY <2>2, <2>3 DEF SerialPending
<1>3. CASE \E e \in Devs : AddEvent(e)
  <2>1. /\ call'["event"] = [call["event"] EXCEPT !.pc = "insert"]
        /\ \A u \in Threads : u # "event" => call'[u] = call[u]
    BY <1>1, <1>3, Write DEF AddEvent, Goto
  <2>2. /\ call'["event"].pc = "insert" /\ call'["event"].plan = <<>>
        /\ call'["event"].walk = "none"
    BY <1>1, <1>2, <2>1 DEF Calls
  <2>3. ~Ahead("event", "trust")' /\ ~Deciding("event")'
    BY <2>2, Tuples DEF Ahead, Deciding
  <2>4. \A d : ~EventPending(d)
    BY <1>2, <1>3, Tuples DEF EventPending, AddEvent
  <2>5. /\ UNCHANGED <<notice, serialOff, status, serialDevs, excused>>
        /\ disturbed \subseteq disturbed'
    BY <1>3 DEF AddEvent
  <2> QED
    BY <1>1, <1>2, <2>1, <2>2, <2>3, <2>4, <2>5, SerialQuietStep
<1>4. CASE AddDevice
  <2>1. /\ call'["event"] = [call["event"] EXCEPT !.pc = "recorded"]
        /\ \A u \in Threads : u # "event" => call'[u] = call[u]
    BY <1>1, <1>4, Write DEF AddDevice, Goto
  <2>2. /\ call'["event"].pc = "recorded" /\ call'["event"].plan = <<>>
        /\ call'["event"].walk = "none"
    BY <1>1, <1>2, <2>1 DEF Calls
  <2>3. ~Ahead("event", "trust")' /\ ~Deciding("event")'
    BY <2>2, Tuples DEF Ahead, Deciding
  <2>4. \A d : ~EventPending(d)
    BY <1>2, <1>4, Tuples DEF EventPending, AddDevice
  <2>5. /\ UNCHANGED <<notice, serialOff, serialDevs, disturbed>>
        /\ excused \subseteq excused' \union {adding}
        /\ \A d \in Devs : d # adding => status'[d] = status[d]
        /\ adding \in serialDevs => adding \in disturbed
    BY <1>4 DEF AddDevice, TypeOK, EntryInv
  <2>6. serialDevs \subseteq Devs
    BY DEF TypeOK
  <2> QED
    BY <1>1, <1>2, <2>1, <2>2, <2>3, <2>4, <2>5, <2>6, SerialQuietStep
<1>5. CASE AddUsbSerialDevice
  <2>1. /\ call'["event"] = [call["event"] EXCEPT !.pc = "next", !.plan = <<"strategy">>]
        /\ \A u \in Threads : u # "event" => call'[u] = call[u]
    BY <1>1, <1>5, Write DEF AddUsbSerialDevice
  <2>2. /\ call'["event"].pc = "next" /\ call'["event"].plan = <<"strategy">>
        /\ call'["event"].walk = "none"
    BY <1>1, <1>2, <2>1 DEF Calls
  <2>3. ~Ahead("event", "trust")' /\ ~Deciding("event")'
    BY <2>2, Tuples DEF Ahead, Deciding
  <2>4. /\ UNCHANGED <<notice, serialOff, status, disturbed, excused, adding>>
        /\ serialDevs' \subseteq serialDevs \union {adding}
        /\ writer /\ \A u \in Threads : ~Deciding(u)
    BY <1>5 DEF AddUsbSerialDevice, LockInv, Reader
  <2>5. ASSUME NEW d \in serialDevs' \ (disturbed' \union excused'), serialOff'
        PROVE  SerialKept(d)'
    <3>1. CASE d = adding
      <4>1. EventPending(d)'
        BY <2>2, <2>4, <3>1 DEF EventPending
      <4>2. \A u \in Threads : ~Deciding(u)'
        BY <2>1, <2>3, <2>4 DEF Deciding
      <4> QED
        BY <4>1, <4>2 DEF SerialKept
    <3>2. CASE d # adding
      <4>1. SerialKept(d) /\ ~EventPending(d)
        BY <2>4, <2>5, <3>2 DEF SerialForceInv, EventPending
      <4> QED
        BY <1>1, <1>2, <2>1, <2>3, <2>4, <4>1, SerialKeptFrame
    <3> QED
      BY <3>1, <3>2
  <2> QED
    BY <1>1, <2>1, <2>2, <2>3, <2>5, SerialForceFrame
<1> QED
  BY <1>3, <1>4, <1>5

(* The end of AddDevice.                                                   *)
LEMMA SerialAdded ==
  ASSUME PolicyInv, SerialForceInv, AddedUnseen \/ AddedAllowed \/ AddedEnable
  PROVE  SerialForceInv'
<1> USE DEF PolicyInv, HostInv, deviceVars, edmVars, paramVars, kernelVars
<1>1. "event" \in Threads /\ "watch" \in Threads /\ call["event"] \in Calls
  BY Literals DEF TypeOK
<1>2. /\ \/ call'["event"] = Idle
         \/ call'["event"] = [call["event"] EXCEPT !.pc = "enable"]
      /\ \A u \in Threads : u # "event" => call'[u] = call[u]
  BY <1>1, Write DEF AddedUnseen, AddedAllowed, AddedEnable, Goto, Done
<1>3. /\ call["event"].pc \in {"next", "enable"}
      /\ call["event"].plan = <<>> /\ call["event"].walk = "none"
  BY <1>1 DEF AddedUnseen, AddedAllowed, AddedEnable, PlanInv, PlanOk
<1>4. /\ call'["event"].pc \in {"idle", "enable"} /\ call'["event"].plan = <<>>
      /\ call'["event"].walk = "none"
  <2>1. CASE call'["event"] = Idle
    BY <2>1 DEF Idle
  <2>2. CASE call'["event"] = [call["event"] EXCEPT !.pc = "enable"]
    BY <1>1, <1>3, <2>2 DEF Calls
  <2> QED
    BY <1>2, <2>1, <2>2
<1>5. ~Ahead("event", "trust")' /\ ~Deciding("event")'
  BY <1>4, Tuples DEF Ahead, Deciding
<1>6. \A d : ~EventPending(d) /\ ~SerialPending("event", d)
  BY <1>3, Tuples DEF EventPending, SerialPending
<1>7. /\ UNCHANGED <<serialDevs, serialOff, notice, excused>>
      /\ disturbed \subseteq disturbed'
      /\ \A d \in Devs : d \notin disturbed' /\ status[d] = "disabled" => status'[d] = "disabled"
  <2>1. CASE AddedUnseen \/ AddedAllowed
    BY <2>1 DEF AddedUnseen, AddedAllowed, Disturb
  <2>2. CASE AddedEnable
    <3>1. adding \in Devs
      BY <2>2 DEF AddedEnable, LockInv
    <3>2. adding \notin disturbed => status[adding] \in {"new", "enabled"}
      BY <2>2, <3>1 DEF AddedEnable, DecisionInv
    <3> QED
      BY <2>2, <3>1, <3>2 DEF AddedEnable, TypeOK
  <2> QED
    BY <2>1, <2>2
<1>8. serialDevs \subseteq Devs
  BY DEF TypeOK
<1> QED
  BY <1>1, <1>2, <1>4, <1>5, <1>6, <1>7, <1>8, SerialQuietStep

(* A device is removed, and from serialDevices_ with it.                   *)
LEMMA SerialDelDevice ==
  ASSUME PolicyInv, SerialForceInv, NEW e \in Devs, DelDevice(e)
  PROVE  SerialForceInv'
<1> USE DEF PolicyInv, HostInv, edmVars, paramVars, kernelVars
<1>1. "event" \in Threads /\ call' = call /\ ~Deciding("event")
  BY Literals DEF DelDevice, LockFree, Reader
<1>2. /\ call'["event"].walk # "trust" /\ ~Ahead("event", "trust")' /\ ~Deciding("event")'
  BY <1>1 DEF SerialForceInv, Ahead, Deciding
<1>3. \A d : (SerialPending("event", d) => SerialPending("event", d)')
             /\ (EventPending(d) => EventPending(d)')
  BY <1>1, OtherThread DEF DelDevice, SerialPending, EventPending
<1>4. /\ UNCHANGED <<notice, serialOff, disturbed, excused>>
      /\ serialDevs' = serialDevs \ {e} /\ serialDevs \subseteq Devs
      /\ \A d \in Devs : d # e => status'[d] = status[d]
  BY DEF DelDevice, TypeOK
<1> QED
  BY <1>1, <1>2, <1>3, <1>4, SerialQuietStep

(* Whoever asks for the policies while serial devices are forbidden has    *)
(* them to switch off first; whoever gets no answer excuses them.          *)
LEMMA SerialStrategy ==
  ASSUME TypesOnly, PolicyInv, SerialForceInv, NEW t \in Threads,
         ExecuteStrategy(t) \/ StrategyFails(t)
  PROVE  SerialForceInv'
<1> USE DEF PolicyInv, HostInv, deviceVars, edmVars, paramVars, kernelVars
<1>1. /\ call[t] \in Calls /\ call[t].pc = "next"
      /\ call[t].walk = "none" /\ policy \in Policies /\ serialOff \in BOOLEAN
  BY DEF TypeOK, ExecuteStrategy, StrategyFails, EdmAnswers, PlanInv, PlanOk
<1>2. CASE ExecuteStrategy(t)
  <2>1. /\ call'[t] = [call[t] EXCEPT !.plan = StrategyPlan(policy, serialOff), !.pol = policy]
        /\ \A u \in Threads : u # t => call'[u] = call[u]
    BY <1>1, <1>2, Write DEF ExecuteStrategy
  <2>2. /\ call'[t].pc = "next" /\ call'[t].plan = StrategyPlan(policy, serialOff)
        /\ call'[t].walk = "none"
    BY <1>1, <2>1 DEF Calls
  <2>3. policy.kind \in {"none", "types"}
    BY <1>1 DEF TypesOnly
  <2>4. \/ call'[t].plan = <<>> \/ call'[t].plan = <<"types">>
        \/ call'[t].plan = <<"serialOff">> \/ call'[t].plan = <<"serialOff", "types">>
    BY <1>1, <2>2, <2>3, StrategyPlans
  <2>5. ~Ahead(t, "trust")' /\ ~Deciding(t)'
    BY <2>2, <2>4, Tuples DEF Ahead, Deciding
  <2>6. ASSUME serialOff
        PROVE  call'[t].plan = <<"serialOff">> \/ call'[t].plan = <<"serialOff", "types">>
    <3>1. CASE policy.kind = "none"
      BY <2>2, <2>6, <3>1 DEF StrategyPlan
    <3>2. CASE policy.kind = "types"
      <4>1. StrategyPlan(policy, serialOff) = <<"serialOff">> \o <<"types">>
        BY <2>6, <3>2 DEF StrategyPlan
      <4>2. "serialOff" \in Walks /\ "types" \in Walks
        BY DEF Walks
      <4> QED
        BY <2>2, <4>1, <4>2, Joined
    <3> QED
      BY <2>3, <3>1, <3>2
  <2>7. /\ UNCHANGED <<notice, serialOff, serialDevs, disturbed, excused, status>>
    BY <1>2 DEF ExecuteStrategy
  <2>8. ASSUME NEW d \in serialDevs' \ (disturbed' \union excused'), serialOff'
        PROVE  SerialKept(d)'
    <3>1. SerialPending(t, d)'
      BY <2>6, <2>7, <2>8, Tuples DEF SerialPending
    <3>2. SerialKept(d)
      BY <2>7, <2>8 DEF SerialForceInv
    <3>3. \A u \in Threads :
            Deciding(u)' /\ call'[u].dev = d /\ call'[u].on => u = "watch" /\ notice' = "1"
      BY <2>1, <2>5, <2>7, <3>2 DEF SerialKept, Deciding
    <3> QED
      BY <3>1, <3>3 DEF SerialKept
  <2> QED
    BY <2>1, <2>2, <2>5, <2>8, SerialForceFrame
<1>3. CASE StrategyFails(t)
  <2>1. /\ call'[t] = [call[t] EXCEPT !.plan = <<>>]
        /\ \A u \in Threads : u # t => call'[u] = call[u]
    BY <1>1, <1>3, Write DEF StrategyFails
  <2>2. call'[t].plan = <<>> /\ call'[t].walk = "none"
    BY <1>1, <2>1 DEF Calls
  <2>3. ~Ahead(t, "trust")'
    BY <2>2, Tuples DEF Ahead
  <2>4. serialDevs' \subseteq excused'
    BY <1>3 DEF StrategyFails
  <2> QED
    BY <2>1, <2>2, <2>3, <2>4, SerialForceFrame
<1> QED
  BY <1>2, <1>3

(* A walk that begins has the devices its plan was about, one that ends    *)
(* has none left, and a call that returns has nothing planned.             *)
LEMMA SerialWalks ==
  ASSUME PolicyInv, SerialForceInv, NEW t \in Threads,
         StartWalk(t) \/ EndWalk(t) \/ Return(t)
  PROVE  SerialForceInv'
<1> USE DEF PolicyInv, HostInv, deviceVars, edmVars, paramVars, kernelVars
<1>1. /\ call[t] \in Calls /\ PlanOk(t) /\ "event" \in Threads
      /\ call[t].walk # "trust" /\ ~Ahead(t, "trust")
  BY Literals DEF TypeOK, PlanInv, SerialForceInv
<1>u. /\ UNCHANGED <<notice, serialOff, serialDevs, disturbed, excused, status, adding>>
  BY DEF StartWalk, EndWalk, Return
<1>2. CASE StartWalk(t)
  <2> DEFINE w == Head(call[t].plan)
             S == call[t].pol.set
  <2>1. /\ call'[t] = [call[t] EXCEPT !.pc = "walk", !.walk = w,
                                      !.plan = Tail(call[t].plan), !.todo = JobsOf(w, S)]
        /\ \A u \in Threads : u # t => call'[u] = call[u]
    BY <1>1, <1>2, Write DEF StartWalk
  <2>2. /\ call'[t].pc = "walk" /\ call'[t].walk = w
        /\ call'[t].plan = Tail(call[t].plan) /\ call'[t].todo = JobsOf(w, S)
    BY <1>1, <2>1 DEF Calls
  <2>3. /\ call[t].pc = "next" /\ call[t].plan # <<>> /\ w # "strategy"
    BY <1>2 DEF StartWalk
  <2>4. call[t].walk = "none"
    BY <1>1, <2>3 DEF PlanOk
  <2>5. /\ w # "trust"
        /\ \A x : Tail(call[t].plan) # <<"serialOff", x>>
        /\ Tail(call[t].plan) # <<"trust">>
        /\ call[t].plan # <<"strategy">>
        /\ Tail(call[t].plan) = <<"strategy">> => call[t].plan = <<"serialOn", "strategy">>
    <3>1. CASE call[t].plan = <<"strategy">>
      BY <2>3, <3>1, Tuples
    <3>2. CASE call[t].plan = <<"serialOn", "strategy">>
      BY <3>2, Tuples
    <3>3. CASE \E v \in Walks \ {"serialOn"} : call[t].plan = <<v>>
      BY <1>1, <2>3, <3>3, Tuples DEF Ahead
    <3>4. CASE \E v \in {"types", "trust"} : call[t].plan = <<"serialOff", v>>
      BY <1>1, <3>4, Tuples DEF Ahead
    <3> QED
      BY <1>1, <2>3, <3>1, <3>2, <3>3, <3>4 DEF PlanOk
  <2>6. ~Ahead(t, "trust")' /\ ~Deciding(t)'
    BY <2>2, <2>5 DEF Ahead, Deciding
  <2>7. ASSUME NEW d \in serialDevs
        PROVE  SerialPending(t, d) => SerialPending(t, d)'
    <3> SUFFICES ASSUME SerialPending(t, d) PROVE SerialPending(t, d)'
      OBVIOUS
    <3>1. w = "serialOff"
      BY <2>4 DEF SerialPending
    <3>2. Job(d, "device", d \in {}) \in JobsOf("serialOff", S)
      BY DEF JobsOf, ManageUsbSerialDevice, DeviceJobs
    <3>3. Job(d, "device", d \in {}).dev = d
      BY DEF Job
    <3>4. JobsOf("serialOff", S) \subseteq InHand(t)'
      BY <2>2, <3>1 DEF InHand
    <3> QED
      BY <2>2, <3>1, <3>2, <3>3, <3>4 DEF SerialPending
  <2>8. ASSUME NEW d PROVE EventPending(d) => EventPending(d)'
    <3>1. CASE t # "event"
      BY <1>1, <1>u, <2>1, <3>1, EventFrame
    <3>2. CASE t = "event"
      BY <2>3, <2>5, <3>2 DEF EventPending
    <3> QED
      BY <3>1, <3>2
  <2> HIDE DEF w, S
  <2> QED
    BY <1>u, <2>1, <2>2, <2>5, <2>6, <2>7, <2>8, SerialQuietStep
<1>3. CASE EndWalk(t)
  <2>1. /\ call'[t] = [call[t] EXCEPT !.pc = "next", !.walk = "none"]
        /\ \A u \in Threads : u # t => call'[u] = call[u]
    BY <1>1, <1>3, Write DEF EndWalk
  <2>2. /\ call'[t].pc = "next" /\ call'[t].walk = "none" /\ call'[t].plan = call[t].plan
    BY <1>1, <2>1 DEF Calls
  <2>3. ~Ahead(t, "trust")' /\ ~Deciding(t)'
    BY <1>1, <2>2 DEF Ahead, Deciding
  <2>4. InHand(t) = {} /\ call[t].pc = "walk"
    BY <1>3 DEF EndWalk, InHand, Deciding
  <2>5. \A d : SerialPending(t, d) => SerialPending(t, d)'
    BY <2>2, <2>4 DEF SerialPending
  <2>6. ASSUME NEW d PROVE EventPending(d) => EventPending(d)'
    <3>1. CASE t # "event"
      BY <1>1, <1>u, <2>1, <3>1, EventFrame
    <3>2. CASE t = "event"
      BY <1>u, <2>2, <2>4, <3>2 DEF EventPending
    <3> QED
      BY <3>1, <3>2
  <2> QED
    BY <1>u, <2>1, <2>2, <2>3, <2>5, <2>6, SerialQuietStep
<1>4. CASE Return(t)
  <2>1. /\ call'[t] = Idle /\ t # "event"
        /\ \A u \in Threads : u # t => call'[u] = call[u]
    BY <1>1, <1>4, Write DEF Return, Done
  <2>2. /\ call'[t].pc = "idle" /\ call'[t].walk = "none" /\ call'[t].plan = <<>>
    BY <2>1 DEF Idle
  <2>3. ~Ahead(t, "trust")' /\ ~Deciding(t)'
    BY <2>2, Tuples DEF Ahead, Deciding
  <2>4. call[t].plan = <<>> /\ call[t].walk = "none"
    BY <1>1, <1>4 DEF Return, PlanOk
  <2>5. \A d : ~SerialPending(t, d)
    BY <2>4 DEF SerialPending
  <2>6. \A d : EventPending(d) => EventPending(d)'
    BY <1>1, <1>u, <2>1, EventFrame
  <2> QED
    BY <1>u, <2>1, <2>2, <2>3, <2>5, <2>6, SerialQuietStep
<1> QED
  BY <1>2, <1>3, <1>4

(* Inside a walk the plan does not move.                                   *)
LEMMA SerialInWalk ==
  ASSUME SerialForceInv, NEW t \in Threads,
         call[t].pc \in {"walk", "authorize"},
         call'[t].plan = call[t].plan, call'[t].walk = call[t].walk,
         \A u \in Threads : u # t => call'[u] = call[u],
         adding' = adding
  PROVE  /\ call'[t].walk # "trust" /\ ~Ahead(t, "trust")'
         /\ \A d : EventPending(d) => EventPending(d)'
<1>1. call'[t].walk # "trust" /\ ~Ahead(t, "trust")'
  BY DEF SerialForceInv, Ahead
<1>2. ASSUME NEW d PROVE EventPending(d) => EventPending(d)'
  <2>1. CASE t # "event"
    BY <2>1, EventFrame, Literals
  <2>2. CASE t = "event"
    BY <2>2 DEF EventPending
  <2> QED
    BY <2>1, <2>2
<1> QED
  BY <1>1, <1>2

(* What is in hand of other devices, or for another policy, stays.         *)
LEMMA SerialInHand ==
  ASSUME NEW t \in Threads, NEW d,
         call'[t].plan = call[t].plan, call'[t].walk = call[t].walk,
         call[t].walk = "serialOff" =>
           \A j \in InHand(t) : j.dev = d => j \in InHand(t)'
  PROVE  SerialPending(t, d) => SerialPending(t, d)'
  BY DEF SerialPending

(* A serial device that a walk finds in order is off, unless the walk is   *)
(* not the serial policy's.                                                *)
LEMMA SerialSkipDevice ==
  ASSUME PolicyInv, SerialForceInv, NEW t \in Threads, NEW j \in Jobs, SkipDevice(t, j)
  PROVE  SerialForceInv'
<1> USE DEF PolicyInv, HostInv, deviceVars, edmVars, paramVars, kernelVars
<1>1. /\ call[t] \in Calls /\ j.dev \in Devs /\ j.on \in BOOLEAN
      /\ call[t].pc = "walk" /\ j \in call[t].todo /\ j.what = "device"
  BY DEF SkipDevice, Todo, TypeOK, Jobs
<1>2. /\ call'[t] = [call[t] EXCEPT !.todo = @ \ {j}]
      /\ \A u \in Threads : u # t => call'[u] = call[u]
  BY <1>1, Write DEF SkipDevice
<1>3. /\ call'[t].pc = "walk" /\ call'[t].plan = call[t].plan
      /\ call'[t].walk = call[t].walk /\ call'[t].todo = call[t].todo \ {j}
  BY <1>1, <1>2 DEF Calls
<1>4. InHand(t) = call[t].todo /\ InHand(t)' = call[t].todo \ {j} /\ ~Deciding(t)'
  BY <1>1, <1>3 DEF InHand, Deciding
<1>5. /\ UNCHANGED <<serialOff, serialDevs, notice, adding, status>>
      /\ Applied(t, j.dev) /\ disturbed \subseteq disturbed'
      /\ \A d : d \in excused => d \in excused' \/ d = j.dev
  BY DEF SkipDevice, Disturb, Applied
<1>6. ASSUME NEW d \in serialDevs' \ (disturbed' \union excused'), serialOff'
      PROVE  SerialKept(d)'
  <2>1. EventPending(d) => EventPending(d)'
    BY <1>1, <1>2, <1>3, <1>5, SerialInWalk
  <2>2. CASE d \notin excused /\ (d # j.dev \/ call[t].walk # "serialOff")
    <3>1. SerialKept(d)
      BY <1>5, <1>6, <2>2 DEF SerialForceInv
    <3>2. SerialPending(t, d) => SerialPending(t, d)'
      BY <1>3, <1>4, <2>2, SerialInHand
    <3> QED
      BY <1>2, <1>4, <1>5, <2>1, <3>1, <3>2, SerialKeptFrame
  <2>3. CASE d = j.dev /\ call[t].walk = "serialOff"
    <3>1. JobOk(t, j)
      BY <1>1, <1>4 DEF JobInv
    <3>2. ~j.on
      BY <2>3, <3>1 DEF JobOk
    <3>3. ~Spared(t, j)
      BY <2>3 DEF Spared
    <3>4. status'[d] = "disabled"
      BY <1>5, <2>3, <3>2, <3>3 DEF SkipDevice, NeedsChange
    <3>5. \A u \in Threads : u # t => ~DecidesOn(u, d)
      BY <1>6, <2>3 DEF SkipDevice, Disturb
    <3>6. \A u \in Threads : ~(Deciding(u)' /\ call'[u].dev = d)
      BY <1>2, <1>4, <3>5 DEF DecidesOn, Deciding
    <3> QED
      BY <3>4, <3>6 DEF SerialKept
  <2>4. d \in excused => d = j.dev /\ call[t].walk = "serialOff"
    BY <1>5, <1>6 DEF Applied, SerialManaged
  <2> QED
    BY <2>2, <2>3, <2>4
<1>7. call'[t].walk # "trust" /\ ~Ahead(t, "trust")'
  BY <1>1, <1>2, <1>3, <1>5, SerialInWalk
<1> QED
  BY <1>2, <1>6, <1>7, SerialForceFrame

(* While serial devices are forbidden only the watcher begins to switch    *)
(* one on, and the change of the parameter back is on its way to it.       *)
LEMMA OnlyWatcherSwitchesOn ==
  ASSUME TypesOnly, PolicyInv, SerialForceInv, NEW t \in Threads, NEW j \in Jobs,
         UsbDeviceAuthorize(t, j), j.on, serialOff,
         j.dev \in serialDevs, j.dev \notin excused
  PROVE  t = "watch" /\ notice = "1"
<1> USE DEF PolicyInv, HostInv
<1>1. /\ call[t].pc = "walk" /\ j \in call[t].todo /\ j.what = "device" /\ j.dev \in Devs
      /\ ~Spared(t, j) /\ PlanOk(t) /\ call[t].walk # "trust"
      /\ call[t].walk \in Walks \union {"none"}
  BY DEF UsbDeviceAuthorize, Todo, PlanInv, SerialForceInv, TypeOK, Calls, Jobs
<1>2. JobOk(t, j) /\ FreshOk(t)
  BY <1>1 DEF JobInv, InHand, FreshInv, InFlight
<1>3. call[t].walk \notin {"globalOff", "globalOn", "types", "onlyTypes"}
  BY <1>1 DEF Spared, SerialManaged
<1>4. call[t].walk # "serialOff"
  BY <1>2 DEF JobOk
<1>5. call[t].walk \notin {"deviceOff", "deviceOn"}
  <2> SUFFICES ASSUME call[t].walk \in {"deviceOff", "deviceOn"} PROVE FALSE
    OBVIOUS
  <2>1. t = "admin" /\ call[t].pol.kind \in OneOff /\ Meant(call[t].pol, j.dev)
    BY <1>1, <1>2 DEF PlanOk, Fits, JobOk, OneOff
  <2>2. policy \in Policies /\ excused \subseteq Devs
    BY DEF TypeOK
  <2>3. call[t].pol # policy
    BY <2>1, <2>2, HostAssumption
  <2> QED
    BY <1>1, <1>2, <2>1, <2>3 DEF FreshOk, WatchOnly
<1>6. call[t].walk = "serialOn"
  BY <1>1, <1>3, <1>4, <1>5 DEF Walks, PlanOk
<1>7. t = "watch" /\ call[t].plan = <<"strategy">>
  BY <1>1, <1>6 DEF PlanOk, Fits
<1> QED
  BY <1>7 DEF SerialInv, AsksLater

(* A device whose status is about to change stays in hand.                 *)
LEMMA SerialUsbDeviceAuthorize ==
  ASSUME TypesOnly, PolicyInv, SerialForceInv, NEW t \in Threads, NEW j \in Jobs,
         UsbDeviceAuthorize(t, j)
  PROVE  SerialForceInv'
<1> USE DEF PolicyInv, HostInv, deviceVars, edmVars, paramVars, kernelVars
<1>1. /\ call[t] \in Calls /\ j.dev \in Devs /\ j.on \in BOOLEAN
      /\ call[t].pc = "walk" /\ j \in call[t].todo /\ j.what = "device"
  BY DEF UsbDeviceAuthorize, Todo, TypeOK, Jobs
<1>2. /\ call'[t] = [call[t] EXCEPT !.pc = "authorize", !.todo = @ \ {j}, !.dev = j.dev,
                                    !.on = j.on, !.was = status[j.dev]]
      /\ \A u \in Threads : u # t => call'[u] = call[u]
  BY <1>1, Write DEF UsbDeviceAuthorize
<1>3. /\ call'[t].pc = "authorize" /\ call'[t].plan = call[t].plan
      /\ call'[t].walk = call[t].walk /\ call'[t].todo = call[t].todo \ {j}
      /\ call'[t].dev = j.dev /\ call'[t].on = j.on
  BY <1>1, <1>2 DEF Calls
<1>4. j = Job(j.dev, "device", j.on)
  BY <1>1 DEF Jobs, Job
<1>5. \A k \in InHand(t) : k \in InHand(t)'
  <2>1. InHand(t) = call[t].todo
    BY <1>1 DEF InHand, Deciding
  <2>2. InHand(t)' = (call[t].todo \ {j}) \union {j}
    BY <1>3, <1>4 DEF InHand, Deciding
  <2> QED
    BY <2>1, <2>2
<1>6. /\ UNCHANGED <<serialOff, serialDevs, notice, adding, status, excused>>
      /\ disturbed \subseteq disturbed'
  BY DEF UsbDeviceAuthorize, Disturb
<1>7. ASSUME NEW d \in serialDevs' \ (disturbed' \union excused'), serialOff'
      PROVE  SerialKept(d)'
  <2>1. SerialKept(d)
    BY <1>6, <1>7 DEF SerialForceInv
  <2>2. /\ EventPending(d) => EventPending(d)'
        /\ SerialPending(t, d) => SerialPending(t, d)'
    BY <1>1, <1>2, <1>3, <1>5, <1>6, SerialInWalk, SerialInHand
  <2>3. call'[t].dev = d /\ call'[t].on => t = "watch" /\ notice = "1"
    BY <1>3, <1>6, <1>7, OnlyWatcherSwitchesOn
  <2> QED
    BY <1>2, <1>6, <2>1, <2>2, <2>3, SerialKeptFrame
<1>8. call'[t].walk # "trust" /\ ~Ahead(t, "trust")'
  BY <1>1, <1>2, <1>3, <1>6, SerialInWalk
<1> QED
  BY <1>2, <1>7, <1>8, SerialForceFrame

(* The serial policy's walk opens no device.                               *)
LEMMA SerialOpenFails ==
  ASSUME PolicyInv, SerialForceInv, NEW t \in Threads, NEW j \in Jobs, OpenFails(t, j)
  PROVE  SerialForceInv'
<1> USE DEF PolicyInv, HostInv, deviceVars, edmVars, paramVars, kernelVars
<1>1. /\ call[t] \in Calls /\ call[t].pc = "walk" /\ call[t].walk # "serialOff"
  BY DEF OpenFails, Todo, TypeOK, IdWalks
<1>2. /\ call'[t] = [call[t] EXCEPT !.todo = @ \ LeftOut(t, j)]
      /\ \A u \in Threads : u # t => call'[u] = call[u]
  BY <1>1, Write DEF OpenFails
<1>3. /\ call'[t].pc = "walk" /\ call'[t].plan = call[t].plan
      /\ call'[t].walk = call[t].walk /\ ~Deciding(t)'
  BY <1>1, <1>2 DEF Calls, Deciding
<1>5. /\ UNCHANGED <<serialOff, serialDevs, notice, adding, status, disturbed>>
      /\ excused \subseteq excused'
  BY DEF OpenFails
<1>6. /\ call'[t].walk # "trust" /\ ~Ahead(t, "trust")'
      /\ \A d : EventPending(d) => EventPending(d)'
      /\ \A d : SerialPending(t, d) => SerialPending(t, d)'
  BY <1>1, <1>2, <1>3, <1>5, SerialInWalk, SerialInHand
<1> QED
  BY <1>2, <1>3, <1>5, <1>6, SerialQuietStep

(* The driver has switched a device off, or on for the watcher, or has     *)
(* failed.                                                                 *)
LEMMA SerialAuthorized ==
  ASSUME PolicyInv, SerialForceInv, NEW t \in Threads,
         Authorized(t) \/ AuthorizeFails(t)
  PROVE  SerialForceInv'
<1> USE DEF PolicyInv, HostInv, deviceVars, edmVars, paramVars, kernelVars
<1> DEFINE e == call[t].dev
           j == Job(e, "device", call[t].on)
<1>1. /\ call[t] \in Calls /\ e \in Devs /\ call[t].on \in BOOLEAN
      /\ call[t].pc = "authorize"
  BY DEF Authorized, AuthorizeFails, TypeOK, Calls, EntryInv, Present
<1>j. j.dev = e /\ j.what = "device" /\ j.on = call[t].on
  BY DEF Job
<1>2. /\ call'[t] = [call[t] EXCEPT !.pc = "walk", !.dev = NoDev, !.on = FALSE, !.was = "absent"]
      /\ \A u \in Threads : u # t => call'[u] = call[u]
  BY <1>1, Write DEF Authorized, AuthorizeFails, BackToWalk
<1>3. /\ call'[t].pc = "walk" /\ call'[t].plan = call[t].plan
      /\ call'[t].walk = call[t].walk /\ call'[t].todo = call[t].todo
  BY <1>1, <1>2 DEF Calls
<1>4. InHand(t) = call[t].todo \union {j} /\ InHand(t)' = call[t].todo /\ ~Deciding(t)'
  BY <1>1, <1>3 DEF InHand, Deciding
<1>5. /\ UNCHANGED <<serialOff, serialDevs, notice, adding>>
      /\ disturbed' = disturbed /\ serialDevs \subseteq Devs
      /\ \A d : d \in excused => d \in excused' \/ d = e
      /\ \A d \in Devs : d # e => status'[d] = status[d]
  BY DEF Authorized, AuthorizeFails, Applied, SetAuthorizeStatus, TypeOK
<1>6. ASSUME NEW d \in serialDevs' \ (disturbed' \union excused'), serialOff'
      PROVE  SerialKept(d)'
  <2>1. EventPending(d) => EventPending(d)'
    BY <1>1, <1>2, <1>3, <1>5, SerialInWalk
  <2>2. CASE d # e
    <3>1. SerialKept(d)
      BY <1>5, <1>6, <2>2 DEF SerialForceInv
    <3>2. SerialPending(t, d) => SerialPending(t, d)'
      BY <1>3, <1>4, <1>j, <2>2, SerialInHand
    <3> QED
      BY <1>2, <1>4, <1>5, <2>1, <2>2, <3>1, <3>2, SerialKeptFrame
  <2>3. CASE d = e
    <3>1. Authorized(t) /\ d \in Devs
      BY <1>1, <1>6, <2>3 DEF AuthorizeFails
    <3>2. status'[d] = IF call[t].on THEN "enabled" ELSE "disabled"
      BY <2>3, <3>1 DEF Authorized, SetAuthorizeStatus, TypeOK
    <3>3. \A u \in Threads : u # t => ~(Deciding(u) /\ call[u].dev = d)
      BY <1>1, <1>5, <1>6, <2>3, <3>1 DEF DecisionInv, DecidesOn, Deciding
    <3>4. \A u \in Threads : ~(Deciding(u)' /\ call'[u].dev = d)
      BY <1>2, <1>4, <3>3 DEF Deciding
    <3>5. call[t].on => notice = "1"
      <4>1. CASE d \notin excused
        <5>1. SerialKept(d)
          BY <1>5, <1>6, <4>1 DEF SerialForceInv
        <5> QED
          BY <1>1, <2>3, <5>1 DEF SerialKept, Deciding
      <4>2. CASE d \in excused
        <5>1. call[t].walk = "serialOff"
          <6>1. Applied(t, d) /\ d \in serialDevs /\ serialOff /\ d \notin excused'
            BY <1>5, <1>6, <2>3, <3>1 DEF Authorized
          <6> QED
            BY <4>2, <6>1 DEF Applied, SerialManaged
        <5>2. JobOk(t, j)
          BY <1>4 DEF JobInv
        <5> QED
          BY <1>j, <5>1, <5>2 DEF JobOk
      <4> QED
        BY <4>1, <4>2
    <3> QED
      BY <1>1, <1>5, <3>2, <3>4, <3>5 DEF SerialKept
  <2> QED
    BY <2>2, <2>3
<1>7. call'[t].walk # "trust" /\ ~Ahead(t, "trust")'
  BY <1>1, <1>2, <1>3, <1>5, SerialInWalk
<1> QED
  BY <1>2, <1>6, <1>7, SerialForceFrame

(* Interfaces are no business of the serial policy.                        *)
LEMMA SerialUsbInterfaceAuthorize ==
  ASSUME PolicyInv, SerialForceInv, NEW t \in Threads, NEW j \in Jobs,
         UsbInterfaceAuthorize(t, j)
  PROVE  SerialForceInv'
<1> USE DEF PolicyInv, HostInv, deviceVars, edmVars, paramVars, kernelVars
<1>1. /\ call[t] \in Calls
      /\ call[t].pc = "walk" /\ j \in call[t].todo /\ j.what = "interface"
  BY DEF UsbInterfaceAuthorize, Todo, TypeOK
<1>2. /\ call'[t] = [call[t] EXCEPT !.todo = @ \ {j}]
      /\ \A u \in Threads : u # t => call'[u] = call[u]
  BY <1>1, Write DEF UsbInterfaceAuthorize
<1>3. /\ call'[t].pc = "walk" /\ call'[t].plan = call[t].plan
      /\ call'[t].walk = call[t].walk /\ ~Deciding(t)'
  BY <1>1, <1>2 DEF Calls, Deciding
<1>4. call[t].walk # "serialOff"
  <2>1. JobOk(t, j)
    BY <1>1 DEF JobInv, InHand
  <2> QED
    BY <1>1, <2>1 DEF JobOk
<1>5. /\ UNCHANGED <<serialOff, serialDevs, notice, adding, status>>
      /\ disturbed \subseteq disturbed' /\ excused \subseteq excused'
  BY DEF UsbInterfaceAuthorize, Disturb
<1>6. /\ call'[t].walk # "trust" /\ ~Ahead(t, "trust")'
      /\ \A d : EventPending(d) => EventPending(d)'
      /\ \A d : SerialPending(t, d) => SerialPending(t, d)'
  BY <1>1, <1>2, <1>3, <1>4, <1>5, SerialInWalk, SerialInHand
<1> QED
  BY <1>2, <1>3, <1>5, <1>6, SerialQuietStep

(* A call that begins in an idle thread with a plan that is not the serial *)
(* policy's.                                                               *)
LEMMA SerialBegins ==
  ASSUME PolicyInv, SerialForceInv, NEW t \in Threads \ {"event"}, NEW w, NEW c,
         call[t].pc = "idle", Update(t, c), c.pc = "next", c.walk = "none",
         c.plan = <<w>>, w # "trust",
         UNCHANGED <<notice, serialOff, serialDevs, status, disturbed, adding>>,
         excused \subseteq excused'
  PROVE  SerialForceInv'
<1> USE DEF PolicyInv, HostInv
<1>1. /\ call'[t] = c /\ \A u \in Threads : u # t => call'[u] = call[u]
      /\ "event" \in Threads
  BY Write, Literals
<1>2. ~Ahead(t, "trust")' /\ ~Deciding(t)'
  BY <1>1, Tuples DEF Ahead, Deciding
<1>3. call[t].plan = <<>> /\ call[t].walk = "none"
  BY DEF PlanInv, PlanOk, Idle
<1>4. \A d : ~SerialPending(t, d)
  BY <1>3 DEF SerialPending
<1>5. \A d : EventPending(d) => EventPending(d)'
  BY <1>1, EventFrame
<1> QED
  BY <1>1, <1>2, <1>4, <1>5, SerialQuietStep

(* The administrator's calls and the callback of EDM's loading.            *)
LEMMA SerialCalls ==
  ASSUME TypesOnly, PolicyInv, SerialForceInv,
         \/ \E pol \in Policies : SetPolicy(pol) \/ ManageInterfaceType(pol)
         \/ LiftPolicy
         \/ \E id \in Ids, disable \in BOOLEAN : ManageDevice(id, disable)
         \/ OnLoadSystemAbilitySuccess
  PROVE  SerialForceInv'
<1> USE DEF PolicyInv, HostInv, deviceVars, edmVars, paramVars, kernelVars
<1>1. /\ "admin" \in Threads \ {"event"} /\ "load" \in Threads \ {"event"}
      /\ call["admin"] \in Calls /\ call["load"] \in Calls
      /\ policy \in Policies /\ excused \subseteq Devs
  BY Literals DEF TypeOK
<1>2. ASSUME NEW w, NEW pol, AdminCalls(w, pol), w # "trust", excused \subseteq excused'
      PROVE  SerialForceInv'
  <2> DEFINE c == [call["admin"] EXCEPT !.pc = "next", !.plan = <<w>>, !.pol = pol]
  <2>1. /\ call["admin"].pc = "idle" /\ Update("admin", c)
        /\ UNCHANGED <<notice, serialOff, serialDevs, status, disturbed, adding>>
    BY <1>2 DEF AdminCalls
  <2>2. call["admin"].walk = "none"
    BY <1>1, <2>1 DEF PlanInv, PlanOk, Idle
  <2>3. c.pc = "next" /\ c.walk = "none" /\ c.plan = <<w>>
    BY <1>1, <2>2 DEF Calls
  <2> HIDE DEF c
  <2> QED
    BY <1>1, <1>2, <2>1, <2>3, SerialBegins
<1>3. ASSUME NEW pol \in Policies, SetPolicy(pol) PROVE SerialForceInv'
  <2>1. SetWalk(pol.kind) # "trust"
    BY DEF SetWalk, TypesOnly
  <2> QED
    BY <1>1, <1>2, <1>3, <2>1 DEF SetPolicy, Stale
<1>4. CASE LiftPolicy
  <2>1. LiftWalk(policy.kind) # "trust"
    BY <1>1 DEF LiftWalk, TypesOnly
  <2> QED
    BY <1>1, <1>2, <1>4, <2>1 DEF LiftPolicy, Stale
<1>5. ASSUME NEW id \in Ids, NEW disable \in BOOLEAN, ManageDevice(id, disable)
      PROVE  SerialForceInv'
  BY <1>2, <1>5 DEF ManageDevice, AdminOnce
<1>7. ASSUME NEW pol \in Policies, ManageInterfaceType(pol) PROVE SerialForceInv'
  BY <1>2, <1>7 DEF ManageInterfaceType, AdminOnce
<1>6. CASE OnLoadSystemAbilitySuccess
  <2> DEFINE c == [call["load"] EXCEPT !.pc = "next", !.plan = <<"strategy">>]
  <2>1. /\ call["load"].pc = "idle" /\ Update("load", c)
        /\ UNCHANGED <<notice, serialOff, serialDevs, status, disturbed, adding, excused>>
    BY <1>6 DEF OnLoadSystemAbilitySuccess
  <2>2. call["load"].walk = "none"
    BY <1>1, <2>1 DEF PlanInv, PlanOk, Idle
  <2>3. c.pc = "next" /\ c.walk = "none" /\ c.plan = <<"strategy">>
    BY <1>1, <2>2 DEF Calls
  <2> HIDE DEF c
  <2> QED
    BY <1>1, <2>1, <2>3, SerialBegins
<1> QED
  BY <1>3, <1>4, <1>5, <1>6, <1>7

(* The parameter is flipped: if serial devices are forbidden now, the      *)
(* notice is on its way, and nobody but the watcher is switching a device  *)
(* on that is not excused.                                                 *)
LEMMA SerialSetSerialParameter ==
  ASSUME PolicyInv, SerialForceInv, SetSerialParameter
  PROVE  SerialForceInv'
<1> USE DEF PolicyInv, HostInv, deviceVars, edmVars, paramVars, kernelVars
<1>1. /\ "watch" \in Threads /\ call' = call /\ serialDevs' = serialDevs
      /\ serialDevs \subseteq Devs /\ serialOff \in BOOLEAN /\ serialOff' = ~serialOff
      /\ notice' = IF serialOff THEN "0" ELSE "1"
      /\ excused' = Stale("watch")
  BY Literals DEF SetSerialParameter, TypeOK
<1>2. ASSUME NEW d \in serialDevs' \ (disturbed' \union excused'), serialOff'
      PROVE  SerialKept(d)'
  <2>1. notice' = "1" /\ Alone("watch")
    BY <1>1, <1>2 DEF Stale
  <2>2. \A u \in Threads : Deciding(u)' => u = "watch"
    BY <1>1, <2>1 DEF Alone, InFlight, Deciding
  <2> QED
    BY <2>1, <2>2 DEF SerialKept
<1>3. call'["watch"].walk # "trust" /\ ~Ahead("watch", "trust")'
  BY <1>1 DEF SerialForceInv, Ahead
<1> QED
  BY <1>1, <1>2, <1>3, SerialForceFrame

(* The watcher begins, and what the notice stood for is its plan.          *)
LEMMA SerialWatchParameter ==
  ASSUME PolicyInv, SerialForceInv, WatchParameter
  PROVE  SerialForceInv'
<1> USE DEF PolicyInv, HostInv, deviceVars, edmVars, paramVars, kernelVars
<1>1. "watch" \in Threads /\ call["watch"] \in Calls /\ call["watch"].pc = "idle"
  BY Literals DEF TypeOK, WatchParameter
<1>2. /\ call'["watch"] = [call["watch"] EXCEPT !.pc = "next", !.plan = WatchPlan]
      /\ \A u \in Threads : u # "watch" => call'[u] = call[u]
  BY <1>1, Write DEF WatchParameter
<1>3. call["watch"].walk = "none"
  BY <1>1 DEF PlanInv, PlanOk, Idle
<1>4. /\ call'["watch"].pc = "next" /\ call'["watch"].plan = WatchPlan
      /\ call'["watch"].walk = "none"
  BY <1>1, <1>2, <1>3 DEF Calls
<1>5. /\ UNCHANGED <<serialDevs, serialOff, disturbed, excused>>
      /\ serialUp \in BOOLEAN /\ notice \in {"0", "1"}
  BY DEF WatchParameter, TypeOK
<1>6. \/ ~serialUp /\ call'["watch"].plan = <<>>
      \/ serialUp /\ notice = "1" /\ call'["watch"].plan = <<"serialOff">>
      \/ serialUp /\ notice = "0" /\ call'["watch"].plan = <<"serialOn", "strategy">>
  BY <1>4, <1>5 DEF WatchPlan
<1>7. ~Ahead("watch", "trust")' /\ ~Deciding("watch")'
  BY <1>4, <1>6, Tuples DEF Ahead, Deciding
<1>8. ASSUME NEW d \in serialDevs' \ (disturbed' \union excused'), serialOff'
      PROVE  SerialKept(d)'
  <2>1. SerialKept(d)
    BY <1>5, <1>8 DEF SerialForceInv
  <2>2. serialUp /\ notice = "1"
    BY <1>5, <1>8 DEF SerialInv
  <2>3. SerialPending("watch", d)'
    BY <1>6, <2>2, Tuples DEF SerialPending
  <2>4. \A u \in Threads : ~(Deciding(u)' /\ call'[u].dev = d /\ call'[u].on)
    BY <1>1, <1>2, <1>7, <2>1 DEF SerialKept, Deciding
  <2> QED
    BY <1>1, <2>3, <2>4 DEF SerialKept
<1> QED
  BY <1>1, <1>2, <1>4, <1>7, <1>8, SerialForceFrame

(* Steps that touch only EDM's state.                                      *)
LEMMA SerialUntouched ==
  ASSUME SerialForceInv,
         UNCHANGED <<status, serialDevs, call, adding, serialOff, notice, disturbed, excused>>
  PROVE  SerialForceInv'
<1>1. "watch" \in Threads /\ \A u \in Threads : call'[u] = call[u]
  BY Literals
<1>2. \A d : EventPending(d) => EventPending(d)'
  BY DEF EventPending
<1>3. \A d : SerialPending("watch", d) => SerialPending("watch", d)'
  BY <1>1, OtherThread DEF SerialPending
<1>4. ASSUME NEW d \in serialDevs' \ (disturbed' \union excused'), serialOff'
      PROVE  SerialKept(d)'
  <2>1. SerialKept(d)
    BY <1>4 DEF SerialForceInv
  <2>2. Deciding("watch")' /\ call'["watch"].dev = d /\ call'["watch"].on => notice = "1"
    BY <1>1, <2>1 DEF SerialKept, Deciding
  <2> QED
    BY <1>1, <1>2, <1>3, <2>1, <2>2, SerialKeptFrame
<1>5. call'["watch"].walk # "trust" /\ ~Ahead("watch", "trust")'
  BY <1>1 DEF SerialForceInv, Ahead
<1> QED
  BY <1>1, <1>4, <1>5, SerialForceFrame

(* Every step keeps the promise that a forbidden serial device is off or   *)
(* about to be.                                                            *)
LEMMA SerialForceStep ==
  ASSUME TypesOnly
  PROVE  PolicyInv /\ SerialForceInv /\ [Next]_vars => SerialForceInv'
<1> SUFFICES ASSUME PolicyInv, SerialForceInv, [Next]_vars PROVE SerialForceInv'
  OBVIOUS
<1>1. CASE \E d \in Devs : AddEvent(d) \/ DelDevice(d)
  BY <1>1, SerialAdding, SerialDelDevice
<1>2. CASE EventStep
  BY <1>2, SerialAdding, SerialAdded DEF EventStep
<1>3. ASSUME NEW t \in Threads, Step(t) PROVE SerialForceInv'
  <2>1. CASE ExecuteStrategy(t) \/ StrategyFails(t)
    BY <2>1, SerialStrategy
  <2>2. CASE StartWalk(t) \/ EndWalk(t) \/ Return(t)
    BY <2>2, SerialWalks
  <2>3. CASE \E j \in call[t].todo :
               \/ SkipDevice(t, j) \/ UsbDeviceAuthorize(t, j)
               \/ OpenFails(t, j) \/ UsbInterfaceAuthorize(t, j)
    <3>1. PICK j \in Jobs : \/ SkipDevice(t, j) \/ UsbDeviceAuthorize(t, j)
                           \/ OpenFails(t, j) \/ UsbInterfaceAuthorize(t, j)
      BY <2>3, TodoAreJobs DEF PolicyInv, HostInv
    <3> QED
      BY <3>1, SerialSkipDevice, SerialUsbDeviceAuthorize, SerialOpenFails,
         SerialUsbInterfaceAuthorize
  <2>4. CASE Authorized(t) \/ AuthorizeFails(t)
    BY <2>4, SerialAuthorized
  <2>5. ~\E id \in Ids : SameIdAgain(t, id)
    BY DEF SameIdAgain, SerialForceInv
  <2> QED
    BY <1>3, <2>1, <2>2, <2>3, <2>4, <2>5 DEF Step
<1>4. CASE \/ \E pol \in Policies : SetPolicy(pol) \/ ManageInterfaceType(pol)
           \/ LiftPolicy
           \/ \E id \in Ids, disable \in BOOLEAN : ManageDevice(id, disable)
           \/ OnLoadSystemAbilitySuccess
  BY <1>4, SerialCalls
<1>5. CASE SetSerialParameter \/ WatchParameter
  BY <1>5, SerialSetSerialParameter, SerialWatchParameter
<1>6. CASE OnLoadSystemAbilityFail \/ EdmChanges \/ UNCHANGED vars
  BY <1>6, SerialUntouched
     DEF OnLoadSystemAbilityFail, EdmChanges, vars, deviceVars, edmVars, paramVars,
         kernelVars
<1> QED
  BY <1>1, <1>2, <1>3, <1>4, <1>5, <1>6 DEF Next

(* Where the administrator bans types of devices and nothing else, the     *)
(* serial policy is in force as ManageDeviceTypeImpl's comment says: while *)
(* the parameter forbids serial devices, each one in serialDevices_ is     *)
(* disabled when nothing is running, for every order of events, calls,     *)
(* loads of EDM, flips and failures.  A trust list or a global ban breaks  *)
(* it (the run host_serial).                                               *)
THEOREM SerialPolicyWithTypesOnly ==
  ASSUME TypesOnly
  PROVE  Spec => []SerialPolicyInForce
<1>1. Init => SerialForceInv
  BY Tuples DEF Init, SerialForceInv, Idle, Ahead
<1>2. PolicyInv /\ SerialForceInv /\ [Next]_vars => SerialForceInv'
  BY SerialForceStep
<1>3. PolicyInv /\ SerialForceInv => SerialPolicyInForce
  <2> SUFFICES ASSUME PolicyInv, SerialForceInv, Quiet,
                      NEW d \in serialDevs \ (disturbed \union excused), serialOff
               PROVE  status[d] = "disabled"
    BY DEF SerialPolicyInForce
  <2>1. SerialKept(d) /\ notice = "none"
    BY DEF SerialForceInv, Quiet
  <2>2. "event" \in Threads /\ \A t \in Threads : call[t] = Idle
    BY Literals DEF Quiet, PolicyInv, PlanInv, PlanOk
  <2>3. \A t \in Threads : /\ call[t].pc = "idle" /\ call[t].plan = <<>>
                           /\ call[t].walk = "none"
    BY <2>2 DEF Idle
  <2>4. ~EventPending(d) /\ \A t \in Threads : ~SerialPending(t, d)
    BY <2>2, <2>3, Tuples DEF EventPending, SerialPending
  <2> QED
    BY <2>1, <2>4 DEF SerialKept
<1> QED
  BY <1>1, <1>2, <1>3, PolicyInvariant, PTL DEF Spec
=============================================================================
