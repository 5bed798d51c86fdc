------------------------- MODULE UsbTransfersProofs -------------------------
(***************************************************************************)
(* Proofs about sessions and transfers.  TransferInv is inductive: a       *)
(* submission under way belongs to its owner's JS thread alone, a transfer *)
(* waits in one place at a time, and what the driver has is watched.       *)
(* From it every step of every layer is a step of AsyncRequest.            *)
(***************************************************************************)
EXTENDS UsbTransfers, TLAPS

(* An idle thread is told from every call.                                 *)
LEMMA IdleFacts ==
  /\ Idle.pc = "idle"
  /\ Idle \notin Calls
  /\ \A r \in Calls : r # Idle /\ r.pc # "idle"
BY DEF Idle, Calls

(***************************************************************************)
(* Steps that leave the contexts alone.                                    *)
(***************************************************************************)
(* A thread that is not submitting moves, or none does.                    *)
Elsewhere(t, x) ==
  /\ x \in {Idle} \union Calls
  /\ call[t] # Idle => call[t].id = None
  /\ x # Idle => x.id = None /\ x.op # "UsbSubmitTransfer"
  /\ call' = [call EXCEPT ![t] = x]

(* Such a move disturbs no submission.                                     *)
LEMMA ElsewhereKeeps ==
  ASSUME TransferInv, NEW t \in Threads, NEW x, Elsewhere(t, x),
         UNCHANGED <<where, alive, recipients, ctx>>,
         Waiting' \subseteq Waiting
  PROVE  /\ call' \in [Threads -> {Idle} \union Calls]
         /\ SubmitInv'
<1>1. call \in [Threads -> {Idle} \union Calls]  BY DEF TransferInv, TypeOK
<1>2. call' \in [Threads -> {Idle} \union Calls]  BY <1>1 DEF Elsewhere
<1>3. SubmitInv'
  <2> SUFFICES ASSUME NEW u \in Threads, call'[u] # Idle
               PROVE  /\ call'[u].op = "UsbSubmitTransfer" <=> call'[u].id # None
                      /\ call'[u].id # None =>
                           /\ u = Js(OwnerOf[call'[u].id])
                           /\ call'[u].pc \in {"service", "checked", "linked"}
                           /\ call'[u].id \notin Waiting'
                           /\ where'[call'[u].id] \in Addrs \X Endpoints
                           /\ OwnerOf[call'[u].id] \in alive' =>
                                /\ ctx'[call'[u].id] = "built"
                                /\ call'[u].pc = "linked" => call'[u].id \in recipients'
    BY DEF SubmitInv
  <2>1. CASE u = t
    BY <1>1, <2>1 DEF Elsewhere
  <2>2. CASE u # t
    <3>1. call'[u] = call[u]  BY <1>1, <2>2 DEF Elsewhere
    <3> QED  BY <3>1 DEF TransferInv, SubmitInv
  <2> QED  BY <2>1, <2>2
<1> QED  BY <1>2, <1>3

(* Nor does a step in which no thread moves.                               *)
LEMMA CallKept ==
  ASSUME TransferInv, UNCHANGED <<call, where, alive, recipients, ctx>>,
         Waiting' \subseteq Waiting
  PROVE  /\ call' \in [Threads -> {Idle} \union Calls]
         /\ SubmitInv'
<1>1. call \in [Threads -> {Idle} \union Calls]  BY DEF TransferInv, TypeOK
<1>2. SubmitInv  BY DEF TransferInv
<1> QED  BY <1>1, <1>2 DEF SubmitInv

(* What a thread is going to do after Done or Fail, outside a submission.  *)
LEMMA AnswerElsewhere ==
  ASSUME TransferInv, NEW t \in Threads, call[t] # Idle, call[t].id = None,
         Done(t) \/ Fail(t)
  PROVE  /\ UNCHANGED ctx
         /\ \E x : Elsewhere(t, x)
<1>1. call[t] \in Calls  BY DEF TransferInv, TypeOK
<1>2. call[t].op # "UsbSubmitTransfer"  BY DEF TransferInv, SubmitInv
<1>3. Done(t)  BY DEF Fail
<1>4. CASE t[2] = "work"
  <2>1. [call[t] EXCEPT !.pc = "settle"] \in Calls
        /\ [call[t] EXCEPT !.pc = "settle"].id = None
        /\ [call[t] EXCEPT !.pc = "settle"].op # "UsbSubmitTransfer"
    BY <1>1, <1>2 DEF Calls
  <2>2. Elsewhere(t, [call[t] EXCEPT !.pc = "settle"])
    BY <1>3, <1>4, <2>1 DEF Done, Goto, Elsewhere
  <2> QED  BY <1>3, <2>2 DEF Done
<1>5. CASE t[2] # "work"
  <2>1. Elsewhere(t, Idle)  BY <1>3, <1>5 DEF Done, Elsewhere
  <2> QED  BY <1>3, <2>1 DEF Done
<1> QED  BY <1>4, <1>5

(* A call outside a submission goes on to its next place.                  *)
LEMMA GotoElsewhere ==
  ASSUME TransferInv, NEW t \in Threads, call[t] # Idle, call[t].id = None,
         NEW l \in {"queued", "service", "checked", "linked", "driver", "settle"},
         Goto(t, l)
  PROVE  \E x : Elsewhere(t, x)
<1>1. call[t] \in Calls  BY DEF TransferInv, TypeOK
<1>2. call[t].op # "UsbSubmitTransfer"  BY DEF TransferInv, SubmitInv
<1>3. /\ [call[t] EXCEPT !.pc = l] \in Calls
      /\ [call[t] EXCEPT !.pc = l].id = None
      /\ [call[t] EXCEPT !.pc = l].op # "UsbSubmitTransfer"
  BY <1>1, <1>2 DEF Calls
<1>4. Elsewhere(t, [call[t] EXCEPT !.pc = l])
  BY <1>3 DEF Goto, Elsewhere
<1> QED  BY <1>4

(* The driver gives transfers up, or nothing happens to them.              *)
LEMMA FlightShrinks ==
  ASSUME TransferInv, NEW S, S \subseteq flight, EndFlight(S),
         UNCHANGED <<arrived, where, alive, recipients, notices, late, stuck, ctx>>
  PROVE  /\ flight' \subseteq Transfers /\ answers' \subseteq Transfers
         /\ Waiting' = Waiting
         /\ OnePlace' /\ FlightWatched' /\ ContextLive' /\ OrphanCancelled'
<1>1. /\ flight' = flight \ S
      /\ answers' = answers \union S
  BY DEF EndFlight
<1>2. /\ flight \subseteq Transfers /\ answers \subseteq Transfers
      /\ OnePlace /\ FlightWatched /\ ContextLive /\ OrphanCancelled
  BY DEF TransferInv, TypeOK
<1>3. flight' \subseteq Transfers /\ answers' \subseteq Transfers
  BY <1>1, <1>2
<1>4. Waiting' = Waiting  BY <1>1 DEF Waiting
<1>5. OnePlace'  BY <1>1, <1>2 DEF OnePlace
<1>6. FlightWatched'  BY <1>1, <1>2 DEF FlightWatched
<1>7. ContextLive'
  <2>1. (flight \union answers \union arrived)' = flight \union answers \union arrived
    BY <1>4 DEF Waiting
  <2> QED  BY <1>2, <2>1 DEF ContextLive
<1>8. OrphanCancelled'  BY <1>1, <1>2 DEF OrphanCancelled
<1> QED  BY <1>3, <1>4, <1>5, <1>6, <1>7, <1>8

(* Nothing happens to what the driver has.                                 *)
LEMMA FlightKept ==
  ASSUME TransferInv,
         UNCHANGED <<flight, answers, arrived, where, alive, recipients, notices,
                     late, stuck, ctx>>
  PROVE  /\ flight' \subseteq Transfers /\ answers' \subseteq Transfers
         /\ Waiting' = Waiting
         /\ OnePlace' /\ FlightWatched' /\ ContextLive' /\ OrphanCancelled'
<1>1. EndFlight({})  BY DEF EndFlight
<1> QED  BY <1>1, FlightShrinks

(* No device comes or goes.                                                *)
LEMMA DevicesKept ==
  ASSUME TransferInv, UNCHANGED <<plugged, eventVars>>
  PROVE  DeviceInv'
<1>1. UNCHANGED <<plugged, known, attaches, detaches, read, crossed>>  BY DEF eventVars
<1>2. DeviceTypes /\ KnownIsCurrent /\ ReadIsCurrent  BY DEF TransferInv, DeviceInv
<1>3. DeviceTypes'  BY <1>1, <1>2 DEF DeviceTypes
<1>4. KnownIsCurrent'  BY <1>1, <1>2 DEF KnownIsCurrent
<1>5. ReadIsCurrent'  BY <1>1, <1>2 DEF ReadIsCurrent
<1> QED  BY <1>3, <1>4, <1>5 DEF DeviceInv

(* The rest of the type.                                                   *)
LEMMA RestKept ==
  ASSUME TransferInv,
         UNCHANGED <<arrived, recipients, notices, late, stuck, alive, ctx, where>>,
         closing' \subseteq closing
  PROVE  /\ arrived' \subseteq Transfers
         /\ recipients' \subseteq Transfers /\ notices' \subseteq Transfers
         /\ closing' \subseteq Transfers /\ late' \subseteq Transfers
         /\ stuck' \subseteq Transfers
         /\ alive' \subseteq Clients
         /\ ctx' \in [Transfers -> ContextStates]
         /\ where' \in [Transfers -> {<<>>} \union (Addrs \X Endpoints)]
BY DEF TransferInv, TypeOK

(* A call outside a submission goes on, and with it the driver may give up *)
(* transfers.                                                              *)
LEMMA QuietCall ==
  ASSUME TransferInv, NEW t \in Threads, NEW x, Elsewhere(t, x),
         NEW S, S \subseteq flight, EndFlight(S),
         UNCHANGED <<plugged, eventVars, deathVars, alive, where, ctx, arrived>>
  PROVE  TransferInv'
<1>1. UNCHANGED <<arrived, where, alive, recipients, notices, closing, late, stuck, ctx>>
  BY DEF deathVars
<1>2. /\ flight' \subseteq Transfers /\ answers' \subseteq Transfers
      /\ Waiting' = Waiting
      /\ OnePlace' /\ FlightWatched' /\ ContextLive' /\ OrphanCancelled'
  BY <1>1, FlightShrinks
<1>3. call' \in [Threads -> {Idle} \union Calls] /\ SubmitInv'
  BY <1>1, <1>2, ElsewhereKeeps
<1>4. TypeOK'  BY <1>1, <1>2, <1>3, DevicesKept, RestKept DEF TypeOK, DeviceInv
<1> QED  BY <1>2, <1>3, <1>4, DevicesKept DEF TransferInv

(* The same without a call.                                                *)
LEMMA QuietStep ==
  ASSUME TransferInv, NEW S, S \subseteq flight, EndFlight(S),
         closing' \subseteq closing,
         DeviceInv',
         UNCHANGED <<recipients, notices, late, stuck, alive, call, where, ctx, arrived>>
  PROVE  TransferInv'
<1>2. /\ flight' \subseteq Transfers /\ answers' \subseteq Transfers
      /\ Waiting' = Waiting
      /\ OnePlace' /\ FlightWatched' /\ ContextLive' /\ OrphanCancelled'
  BY FlightShrinks
<1>3. call' \in [Threads -> {Idle} \union Calls] /\ SubmitInv'
  BY <1>2, CallKept
<1>4. TypeOK'  BY <1>2, <1>3, RestKept DEF TypeOK, DeviceInv
<1> QED  BY <1>2, <1>3, <1>4 DEF TransferInv

(* A thread in any other operation submits nothing.                        *)
LEMMA NotSubmitting ==
  ASSUME TransferInv, NEW t \in Threads, NEW l, l # "idle", NEW ops, At(t, l, ops),
         "UsbSubmitTransfer" \notin ops
  PROVE  call[t] # Idle /\ call[t].id = None
<1>1. call[t].pc = l /\ call[t].op \in ops  BY DEF At
<1>2. call[t] # Idle  BY <1>1, IdleFacts
<1> QED  BY <1>1, <1>2 DEF TransferInv, SubmitInv

(***************************************************************************)
(* The application's calls.                                                *)
(***************************************************************************)
(* A call other than a submission begins.                                  *)
LEMMA BeginElsewhere ==
  ASSUME TransferInv, NEW t \in Threads, NEW l \in {"service", "queued"},
         NEW op \in JsOps \union WorkOps, op # "UsbSubmitTransfer",
         NEW a \in Addrs, NEW e \in Endpoints,
         Begin(t, l, op, a, e, None),
         UNCHANGED <<driverVars, eventVars, deathVars, lockVars,
                     alive, where, ctx, answers, arrived>>
  PROVE  TransferInv'
<1>1. /\ Busy(l, op, a, e, None) \in Calls
      /\ Busy(l, op, a, e, None).id = None
      /\ Busy(l, op, a, e, None).op # "UsbSubmitTransfer"
  BY DEF Busy, Calls
<1>2. Elsewhere(t, Busy(l, op, a, e, None))  BY <1>1 DEF Begin, Elsewhere
<1>3. EndFlight({})  BY DEF EndFlight, driverVars
<1>4. UNCHANGED <<plugged, eventVars>>  BY DEF driverVars, eventVars
<1> QED  BY <1>2, <1>3, <1>4, QuietCall

(* All the calls of the application but usbSubmitTransfer.                 *)
LEMMA AppCalls ==
  ASSUME TransferInv, NEW c \in Clients, NEW a \in Addrs, NEW e \in Endpoints,
         \/ CoreConnectDevice(c, a, e) \/ PipeClose(c, a, e) \/ PipeResetDevice(c, a, e)
         \/ PipeInterface(c, a, e) \/ PipeDescriptor(c, a, e) \/ PipeCancel(c, a, e)
         \/ \E op \in JsOps : PipeInner(c, op, a, e)
         \/ PipeBulkTransfer(c, a, e) \/ PipeControlTransfer(c, a, e)
         \/ PipeUsbControlTransfer(c, a, e)
  PROVE  TransferInv'
<1>1. ASSUME NEW op \in JsOps, op # "UsbSubmitTransfer", JsCall(c, op, a, e)
      PROVE  TransferInv'
  <2>1. Js(c) \in Threads  BY DEF Js, Threads
  <2> QED  BY <1>1, <2>1, BeginElsewhere DEF JsCall
<1>2. ASSUME NEW op \in WorkOps, Queue(c, op, a, e)
      PROVE  TransferInv'
  <2>1. <<c, "work">> \in Threads  BY DEF Threads
  <2>2. op # "UsbSubmitTransfer"  BY DEF WorkOps
  <2> QED  BY <1>2, <2>1, <2>2, BeginElsewhere DEF Queue
<1>3. CASE \/ CoreConnectDevice(c, a, e) \/ PipeClose(c, a, e)
           \/ PipeResetDevice(c, a, e) \/ PipeInterface(c, a, e)
           \/ PipeDescriptor(c, a, e) \/ PipeCancel(c, a, e)
  <2>1. \E op \in JsOps : op # "UsbSubmitTransfer" /\ JsCall(c, op, a, e)
    BY <1>3 DEF CoreConnectDevice, PipeClose, PipeResetDevice, PipeInterface,
                PipeDescriptor, PipeCancel, JsOps
  <2> QED  BY <1>1, <2>1
<1>4. CASE \E op \in JsOps : PipeInner(c, op, a, e)
  BY <1>1, <1>4 DEF PipeInner
<1>5. CASE \/ PipeBulkTransfer(c, a, e) \/ PipeControlTransfer(c, a, e)
           \/ PipeUsbControlTransfer(c, a, e)
  BY <1>2, <1>5 DEF PipeBulkTransfer, PipeControlTransfer, PipeUsbControlTransfer,
                    WorkOps
<1> QED  BY <1>3, <1>4, <1>5

(* The execute and complete halves of the promises.                        *)
LEMMA WorkerSteps ==
  ASSUME TransferInv, NEW t \in Threads, WorkerStep(t)
  PROVE  TransferInv'
<1>1. CASE \E op \in WorkOps : Execute(t, op)
  <2>1. PICK op \in WorkOps : Execute(t, op)  BY <1>1
  <2>2. op # "UsbSubmitTransfer"  BY DEF WorkOps
  <2>3. call[t] # Idle /\ call[t].id = None
    BY <2>1, <2>2, NotSubmitting DEF Execute
  <2>4. PICK x : Elsewhere(t, x)
    BY <2>1, <2>3, GotoElsewhere DEF Execute
  <2>5. EndFlight({})  BY <2>1 DEF Execute, EndFlight, driverVars
  <2> QED  BY <2>1, <2>4, <2>5, QuietCall DEF Execute, driverVars, eventVars
<1>2. CASE TransferComplete(t)
  <2>1. call[t] # Idle  BY <1>2, IdleFacts DEF TransferComplete
  <2>2. call[t].id = None
    BY <1>2, <2>1 DEF TransferComplete, TransferInv, SubmitInv
  <2>3. Elsewhere(t, Idle)  BY <1>2, <2>2 DEF TransferComplete, Elsewhere
  <2>4. EndFlight({})  BY <1>2 DEF TransferComplete, EndFlight, driverVars
  <2> QED  BY <1>2, <2>3, <2>4, QuietCall DEF TransferComplete, driverVars, eventVars
<1> QED  BY <1>1, <1>2 DEF WorkerStep, bulkTransferExecute, controlTransferExecute,
                           usbControlTransferExecute, WorkOps

(***************************************************************************)
(* Submissions.                                                            *)
(***************************************************************************)
(* What happens to a transfer that waits nowhere is no matter of those     *)
(* that do.                                                                *)
LEMMA AwayFromFlight ==
  ASSUME TransferInv, NEW id \in Transfers, id \notin Waiting,
         \A i \in Transfers \ {id} : ctx'[i] = ctx[i] /\ where'[i] = where[i],
         recipients \ {id} \subseteq recipients',
         UNCHANGED <<flight, answers, arrived, alive, notices, late, stuck>>
  PROVE  /\ Waiting' = Waiting
         /\ OnePlace' /\ FlightWatched' /\ ContextLive' /\ OrphanCancelled'
<1>1. /\ flight \subseteq Transfers /\ answers \subseteq Transfers
      /\ arrived \subseteq Transfers
      /\ OnePlace /\ FlightWatched /\ ContextLive /\ OrphanCancelled
  BY DEF TransferInv, TypeOK
<1>2. id \notin flight /\ id \notin answers /\ id \notin arrived  BY DEF Waiting
<1>3. Waiting' = Waiting  BY DEF Waiting
<1>4. OnePlace'  BY <1>1 DEF OnePlace
<1>5. FlightWatched'  BY <1>1, <1>2 DEF FlightWatched
<1>6. ContextLive'  BY <1>1, <1>2 DEF ContextLive
<1>7. OrphanCancelled'  BY <1>1 DEF OrphanCancelled
<1> QED  BY <1>3, <1>4, <1>5, <1>6, <1>7

(* Two threads do not submit the same transfer.                            *)
LEMMA OneSubmitter ==
  ASSUME TransferInv, NEW t \in Threads, call[t] # Idle, call[t].id # None,
         NEW u \in Threads, u # t, call[u] # Idle
  PROVE  call[u].id # call[t].id
BY DEF TransferInv, SubmitInv

(* A submission takes its next step.                                       *)
LEMMA SubmitMoves ==
  ASSUME TransferInv, NEW t \in Threads, call[t] # Idle, call[t].id # None,
         NEW l \in {"checked", "linked"}, Goto(t, l),
         recipients \subseteq recipients',
         l = "linked" => call[t].id \in recipients',
         Waiting' = Waiting,
         UNCHANGED <<where, alive, ctx>>
  PROVE  /\ call' \in [Threads -> {Idle} \union Calls]
         /\ SubmitInv'
<1>1. call \in [Threads -> {Idle} \union Calls]  BY DEF TransferInv, TypeOK
<1>2. SubmitInv  BY DEF TransferInv
<1> DEFINE x == [call[t] EXCEPT !.pc = l]
<1>3. /\ x \in Calls /\ x.pc = l /\ x.id = call[t].id /\ x.op = call[t].op
  BY <1>1 DEF Calls
<1>4. call' = [call EXCEPT ![t] = x]  BY DEF Goto
<1> HIDE DEF x
<1>5. call' \in [Threads -> {Idle} \union Calls]  BY <1>1, <1>3, <1>4
<1>6. SubmitInv'
  <2> SUFFICES ASSUME NEW u \in Threads, call'[u] # Idle
               PROVE  /\ call'[u].op = "UsbSubmitTransfer" <=> call'[u].id # None
                      /\ call'[u].id # None =>
                           /\ u = Js(OwnerOf[call'[u].id])
                           /\ call'[u].pc \in {"service", "checked", "linked"}
                           /\ call'[u].id \notin Waiting'
                           /\ where'[call'[u].id] \in Addrs \X Endpoints
                           /\ OwnerOf[call'[u].id] \in alive' =>
                                /\ ctx'[call'[u].id] = "built"
                                /\ call'[u].pc = "linked" => call'[u].id \in recipients'
    BY DEF SubmitInv
  <2>1. CASE u = t
    <3>1. call'[u] = x  BY <1>1, <1>4, <2>1
    <3> QED  BY <1>2, <1>3, <2>1, <3>1 DEF SubmitInv
  <2>2. CASE u # t
    <3>1. call'[u] = call[u]  BY <1>1, <1>4, <2>2
    <3> QED  BY <1>2, <3>1 DEF SubmitInv
  <2> QED  BY <2>1, <2>2
<1> QED  BY <1>5, <1>6

(* A submission ends.                                                      *)
LEMMA SubmitEnds ==
  ASSUME TransferInv, NEW t \in Threads, call[t] # Idle, call[t].id # None,
         call' = [call EXCEPT ![t] = Idle],
         \A i \in Transfers \ {call[t].id} : ctx'[i] = ctx[i],
         recipients \ {call[t].id} \subseteq recipients',
         Waiting' \subseteq Waiting \union {call[t].id},
         UNCHANGED <<where, alive>>
  PROVE  /\ call' \in [Threads -> {Idle} \union Calls]
         /\ SubmitInv'
<1>1. call \in [Threads -> {Idle} \union Calls]  BY DEF TransferInv, TypeOK
<1>2. SubmitInv  BY DEF TransferInv
<1>5. call' \in [Threads -> {Idle} \union Calls]  BY <1>1
<1>6. SubmitInv'
  <2> SUFFICES ASSUME NEW u \in Threads, call'[u] # Idle
               PROVE  /\ call'[u].op = "UsbSubmitTransfer" <=> call'[u].id # None
                      /\ call'[u].id # None =>
                           /\ u = Js(OwnerOf[call'[u].id])
                           /\ call'[u].pc \in {"service", "checked", "linked"}
                           /\ call'[u].id \notin Waiting'
                           /\ where'[call'[u].id] \in Addrs \X Endpoints
                           /\ OwnerOf[call'[u].id] \in alive' =>
                                /\ ctx'[call'[u].id] = "built"
                                /\ call'[u].pc = "linked" => call'[u].id \in recipients'
    BY DEF SubmitInv
  <2>1. u # t /\ call'[u] = call[u]  BY <1>1
  <2>2. call[u].id # call[t].id  BY <2>1, OneSubmitter
  <2>3. call[u].id \in Transfers \union {None}  BY <1>1, <2>1 DEF Calls
  <2> QED  BY <1>2, <2>1, <2>2, <2>3 DEF SubmitInv
<1> QED  BY <1>5, <1>6

(* How a submission fails or is answered: its thread is idle again, and    *)
(* nothing but its own context changes, from built to rejected.            *)
LEMMA SubmitAnswered ==
  ASSUME TransferInv, NEW t \in Threads, call[t] # Idle, call[t].id # None,
         Done(t) \/ Fail(t)
  PROVE  /\ call' = [call EXCEPT ![t] = Idle]
         /\ ctx' \in [Transfers -> ContextStates]
         /\ \A i \in Transfers \ {call[t].id} : ctx'[i] = ctx[i]
         /\ \/ ctx' = ctx
            \/ /\ ctx[call[t].id] = "built"
               /\ ctx' = [ctx EXCEPT ![call[t].id] = "rejected"]
<1>1. ctx \in [Transfers -> ContextStates]  BY DEF TransferInv, TypeOK
<1>2. t = Js(OwnerOf[call[t].id])  BY DEF TransferInv, SubmitInv
<1>3. t[2] # "work"  BY <1>2 DEF Js
<1>4. CASE Done(t)
  BY <1>1, <1>3, <1>4 DEF Done
<1>5. CASE Fail(t)
  <2>1. CASE ctx[call[t].id] = "built"
    BY <1>1, <1>5, <2>1 DEF Fail, ContextStates
  <2>2. CASE ctx[call[t].id] # "built"
    BY <1>4, <1>5, <2>2 DEF Fail
  <2> QED  BY <2>1, <2>2
<1> QED  BY <1>4, <1>5

(* A submission fails in the service or on its way to the driver.          *)
LEMMA SubmitFails ==
  ASSUME TransferInv, NEW t \in Threads, call[t] # Idle, call[t].id # None,
         Fail(t), recipients' \in {recipients, recipients \ {call[t].id}},
         UNCHANGED <<driverVars, eventVars, notices, closing, late, stuck,
                     alive, where, answers, arrived>>
  PROVE  TransferInv'
<1> DEFINE id == call[t].id
<1>1. id \in Transfers
  <2>1. call[t] \in Calls  BY DEF TransferInv, TypeOK
  <2> QED  BY <2>1 DEF Calls
<1>2. id \notin Waiting  BY DEF TransferInv, SubmitInv
<1>3. UNCHANGED <<flight, plugged, eventVars>>  BY DEF driverVars, eventVars
<1>4. /\ call' = [call EXCEPT ![t] = Idle]
      /\ ctx' \in [Transfers -> ContextStates]
      /\ \A i \in Transfers \ {id} : ctx'[i] = ctx[i]
  BY SubmitAnswered
<1>5. recipients \ {id} \subseteq recipients' /\ recipients' \subseteq recipients
  OBVIOUS
<1>6. /\ Waiting' = Waiting
      /\ OnePlace' /\ FlightWatched' /\ ContextLive' /\ OrphanCancelled'
  BY <1>1, <1>2, <1>3, <1>4, <1>5, AwayFromFlight
<1>7. call' \in [Threads -> {Idle} \union Calls] /\ SubmitInv'
  BY <1>4, <1>5, <1>6, SubmitEnds
<1>8. TypeOK'
  <2>1. TypeOK  BY DEF TransferInv
  <2> QED  BY <1>3, <1>4, <1>5, <1>7, <2>1, DevicesKept DEF TypeOK, DeviceInv
<1> QED  BY <1>3, <1>6, <1>7, <1>8, DevicesKept DEF TransferInv

(* A context that is not made yet belongs to nothing under way.            *)
LEMMA FreshTransfer ==
  ASSUME TransferInv, NEW c \in Clients, NEW id \in Transfers,
         OwnerOf[id] = c, ctx[id] = "none", c \in alive, call[Js(c)] = Idle
  PROVE  /\ id \notin Waiting
         /\ \A u \in Threads : call[u] # Idle => call[u].id # id
<1>1. id \notin Waiting  BY DEF TransferInv, ContextLive, Waiting
<1>2. id # None  BY TransfersAssumption
<1>3. ASSUME NEW u \in Threads, call[u] # Idle, call[u].id = id PROVE FALSE
  BY <1>2, <1>3 DEF TransferInv, SubmitInv
<1> QED  BY <1>1, <1>3

(* usbSubmitTransfer begins.                                               *)
LEMMA SubmitBegins ==
  ASSUME TransferInv, NEW c \in Clients, NEW id \in Transfers, NEW a \in Addrs,
         NEW e \in Endpoints, SubmitTransfer(c, id, a, e)
  PROVE  TransferInv'
<1> DEFINE t == Js(c)
           x == Busy("service", "UsbSubmitTransfer", a, e, id)
<1>1. /\ OwnerOf[id] = c /\ ctx[id] = "none" /\ c \in alive /\ call[t] = Idle
      /\ call' = [call EXCEPT ![t] = x]
      /\ where' = [where EXCEPT ![id] = <<a, e>>]
      /\ ctx' = [ctx EXCEPT ![id] = "built"]
  BY DEF SubmitTransfer, Begin, Client, Js
<1>2. UNCHANGED <<flight, answers, arrived, plugged, eventVars,
                  recipients, notices, closing, late, stuck, alive>>
  BY DEF SubmitTransfer, driverVars, eventVars, deathVars
<1>3. t \in Threads  BY DEF Js, Threads
<1>4. /\ x \in Calls /\ x # Idle
      /\ x.op = "UsbSubmitTransfer" /\ x.id = id /\ x.pc = "service"
  BY DEF Busy, Calls, JsOps, Idle
<1>5. /\ call \in [Threads -> {Idle} \union Calls]
      /\ ctx \in [Transfers -> ContextStates]
      /\ where \in [Transfers -> {<<>>} \union (Addrs \X Endpoints)]
      /\ SubmitInv
  BY DEF TransferInv, TypeOK
<1> HIDE DEF x
<1>6. /\ id \notin Waiting
      /\ \A u \in Threads : call[u] # Idle => call[u].id # id
  BY <1>1, FreshTransfer
<1>7. /\ call' \in [Threads -> {Idle} \union Calls]
      /\ ctx' \in [Transfers -> ContextStates]
      /\ where' \in [Transfers -> {<<>>} \union (Addrs \X Endpoints)]
  <2>1. call' \in [Threads -> {Idle} \union Calls]  BY <1>1, <1>4, <1>5
  <2>2. ctx' \in [Transfers -> ContextStates]  BY <1>1, <1>5 DEF ContextStates
  <2>3. where' \in [Transfers -> {<<>>} \union (Addrs \X Endpoints)]  BY <1>1, <1>5
  <2> QED  BY <2>1, <2>2, <2>3
<1>8. \A i \in Transfers \ {id} : ctx'[i] = ctx[i] /\ where'[i] = where[i]
  BY <1>1, <1>5
<1>9. /\ Waiting' = Waiting
      /\ OnePlace' /\ FlightWatched' /\ ContextLive' /\ OrphanCancelled'
  BY <1>2, <1>6, <1>8, AwayFromFlight
<1>10. SubmitInv'
  <2> SUFFICES ASSUME NEW u \in Threads, call'[u] # Idle
               PROVE  /\ call'[u].op = "UsbSubmitTransfer" <=> call'[u].id # None
                      /\ call'[u].id # None =>
                           /\ u = Js(OwnerOf[call'[u].id])
                           /\ call'[u].pc \in {"service", "checked", "linked"}
                           /\ call'[u].id \notin Waiting'
                           /\ where'[call'[u].id] \in Addrs \X Endpoints
                           /\ OwnerOf[call'[u].id] \in alive' =>
                                /\ ctx'[call'[u].id] = "built"
                                /\ call'[u].pc = "linked" => call'[u].id \in recipients'
    BY DEF SubmitInv
  <2>1. CASE u = t
    <3>1. call'[u] = x  BY <1>1, <1>3, <1>5, <2>1
    <3>2. ctx'[id] = "built" /\ where'[id] = <<a, e>>  BY <1>1, <1>5
    <3>3. id # None  BY TransfersAssumption
    <3> QED  BY <1>1, <1>4, <1>6, <1>9, <2>1, <3>1, <3>2, <3>3
  <2>2. CASE u # t
    <3>1. call'[u] = call[u]  BY <1>1, <1>5, <2>2
    <3>2. call[u].id # id  BY <1>6, <3>1
    <3>3. call[u].id \in Transfers \union {None}  BY <1>5, <3>1 DEF Calls
    <3> QED  BY <1>2, <1>5, <1>8, <1>9, <3>1, <3>2, <3>3 DEF SubmitInv
  <2> QED  BY <2>1, <2>2
<1>11. TypeOK'
  <2>1. TypeOK  BY DEF TransferInv
  <2> QED  BY <1>2, <1>7, <2>1, DevicesKept DEF TypeOK, DeviceInv
<1> QED  BY <1>2, <1>9, <1>10, <1>11, DevicesKept DEF TransferInv

(* ... or ends without a word.                                             *)
LEMMA SubmitSilent ==
  ASSUME TransferInv, NEW c \in Clients, NEW id \in Transfers,
         SubmitWithoutBuffer(c, id)
  PROVE  TransferInv'
<1>1. /\ OwnerOf[id] = c /\ ctx[id] = "none" /\ c \in alive /\ call[Js(c)] = Idle
      /\ ctx' = [ctx EXCEPT ![id] = "silent"]
  BY DEF SubmitWithoutBuffer
<1>2. UNCHANGED <<flight, answers, arrived, plugged, eventVars, call, where,
                  recipients, notices, closing, late, stuck, alive>>
  BY DEF SubmitWithoutBuffer, driverVars, eventVars, deathVars
<1>3. /\ id \notin Waiting
      /\ \A u \in Threads : call[u] # Idle => call[u].id # id
  BY <1>1, FreshTransfer
<1>4. /\ call \in [Threads -> {Idle} \union Calls]
      /\ ctx \in [Transfers -> ContextStates]
      /\ SubmitInv
  BY DEF TransferInv, TypeOK
<1>5. ctx' \in [Transfers -> ContextStates]  BY <1>1, <1>4 DEF ContextStates
<1>6. \A i \in Transfers \ {id} : ctx'[i] = ctx[i]  BY <1>1, <1>4
<1>7. /\ Waiting' = Waiting
      /\ OnePlace' /\ FlightWatched' /\ ContextLive' /\ OrphanCancelled'
  BY <1>2, <1>3, <1>6, AwayFromFlight
<1>8. SubmitInv'
  <2>1. \A u \in Threads : call[u] # Idle => call[u].id \in Transfers \union {None}
    BY <1>4 DEF Calls
  <2> QED  BY <1>2, <1>3, <1>4, <1>6, <1>7, <2>1 DEF SubmitInv
<1>9. TypeOK'
  <2>1. TypeOK  BY DEF TransferInv
  <2> QED  BY <1>2, <1>5, <2>1, DevicesKept DEF TypeOK, DeviceInv
<1> QED  BY <1>2, <1>7, <1>8, <1>9, DevicesKept DEF TransferInv

(***************************************************************************)
(* The service and the host manager.                                       *)
(***************************************************************************)
(* An entry point checks the right.                                        *)
LEMMA EntrySteps ==
  ASSUME TransferInv, NEW t \in Threads, NEW ops, Entry(t, ops)
  PROVE  TransferInv'
<1>1. call[t].pc = "service" /\ CheckDevicePermission(t)  BY DEF Entry, At
<1>2. call[t] # Idle  BY <1>1, IdleFacts
<1>3. UNCHANGED <<driverVars, eventVars, deathVars, alive, where, answers, arrived>>
  BY <1>1 DEF CheckDevicePermission
<1>4. UNCHANGED <<flight, plugged, eventVars, recipients, notices, closing, late, stuck>>
  BY <1>3 DEF driverVars, eventVars, deathVars
<1>5. (Goto(t, "checked") /\ UNCHANGED ctx) \/ Fail(t)
  BY <1>1 DEF CheckDevicePermission
<1>6. CASE call[t].id = None
  <2>1. UNCHANGED ctx /\ \E x : Elsewhere(t, x)
    BY <1>2, <1>5, <1>6, AnswerElsewhere, GotoElsewhere
  <2>2. EndFlight({})  BY <1>3, <1>4 DEF EndFlight
  <2> QED  BY <1>3, <1>4, <2>1, <2>2, QuietCall
<1>7. CASE call[t].id # None /\ Fail(t)
  BY <1>2, <1>3, <1>4, <1>7, SubmitFails
<1>8. CASE call[t].id # None /\ Goto(t, "checked") /\ UNCHANGED ctx
  <2>1. /\ flight' \subseteq Transfers /\ answers' \subseteq Transfers
        /\ Waiting' = Waiting
        /\ OnePlace' /\ FlightWatched' /\ ContextLive' /\ OrphanCancelled'
    BY <1>3, <1>4, <1>8, FlightKept
  <2>2. call' \in [Threads -> {Idle} \union Calls] /\ SubmitInv'
    BY <1>2, <1>3, <1>4, <1>8, <2>1, SubmitMoves
  <2>3. TypeOK'  BY <1>3, <1>4, <1>8, <2>1, <2>2, DevicesKept, RestKept DEF TypeOK, DeviceInv
  <2> QED  BY <1>4, <2>1, <2>2, <2>3, DevicesKept DEF TransferInv
<1> QED  BY <1>5, <1>6, <1>7, <1>8

(* A call of the driver outside a submission.                              *)
LEMMA HostCall ==
  ASSUME TransferInv, NEW t \in Threads, NEW ops, At(t, "checked", ops),
         "UsbSubmitTransfer" \notin ops, Done(t) \/ Fail(t),
         NEW S, S \subseteq flight, EndFlight(S),
         UNCHANGED <<plugged, eventVars, deathVars, alive, where, arrived>>
  PROVE  TransferInv'
<1>1. call[t] # Idle /\ call[t].id = None  BY NotSubmitting
<1>2. UNCHANGED ctx /\ \E x : Elsewhere(t, x)  BY <1>1, AnswerElsewhere
<1> QED  BY <1>2, QuietCall

(* The host manager's calls but for UsbSubmitTransfer.                     *)
LEMMA HostSteps ==
  ASSUME TransferInv, NEW t \in Threads,
         \/ HostOpenDevice(t) \/ HostClose(t) \/ HostInterface(t) \/ HostDescriptor(t)
         \/ HostKernel(t) \/ HostRequest(t) \/ HostBulkRead(t)
         \/ HostRegBulkCallback(t) \/ HostUnRegBulkCallback(t) \/ HostCancelTransfer(t)
  PROVE  TransferInv'
<1>1. CASE HostOpenDevice(t)
  <2>1. EndFlight({})  BY <1>1 DEF HostOpenDevice, EndFlight
  <2> QED  BY <1>1, <2>1, HostCall DEF HostOpenDevice, eventVars
<1>2. CASE HostClose(t)
  <2>1. PICK S \in SUBSET flight : EndFlight(S)
    <3>1. FlightOf(call[t].addr) \subseteq flight  BY DEF FlightOf
    <3>2. EndFlight(FlightOf(call[t].addr)) \/ EndFlight({})
      BY <1>2 DEF HostClose, CloseHandle, EndFlight
    <3> QED  BY <3>1, <3>2
  <2> QED  BY <1>2, <2>1, HostCall DEF HostClose, eventVars
<1>3. ASSUME NEW ops, "UsbSubmitTransfer" \notin ops, AskDriver(t, ops)
      PROVE  TransferInv'
  <2>1. EndFlight({})  BY <1>3 DEF AskDriver, EndFlight, driverVars
  <2> QED  BY <1>3, <2>1, HostCall DEF AskDriver, driverVars, eventVars
<1>4. CASE \/ HostInterface(t) \/ HostDescriptor(t) \/ HostKernel(t)
           \/ HostRequest(t) \/ HostBulkRead(t)
  <2>1. \/ AskDriver(t, {"ResetDevice", "interface"})
        \/ AskDriver(t, {"descriptor"}) \/ AskDriver(t, {"kernel"})
        \/ AskDriver(t, {"request"}) \/ AskDriver(t, {"BulkRead"})
    BY <1>4 DEF HostInterface, HostDescriptor, HostKernel, HostRequest, HostBulkRead
  <2>2. /\ "UsbSubmitTransfer" \notin {"ResetDevice", "interface"}
        /\ "UsbSubmitTransfer" \notin {"descriptor"}
        /\ "UsbSubmitTransfer" \notin {"kernel"}
        /\ "UsbSubmitTransfer" \notin {"request"}
        /\ "UsbSubmitTransfer" \notin {"BulkRead"}
    OBVIOUS
  <2> QED  BY <1>3, <2>1, <2>2
<1>5. CASE HostRegBulkCallback(t)
  <2>1. EndFlight({})  BY <1>5 DEF HostRegBulkCallback, EndFlight
  <2> QED  BY <1>5, <2>1, HostCall DEF HostRegBulkCallback, eventVars
<1>6. CASE HostUnRegBulkCallback(t)
  <2>1. EndFlight({})  BY <1>6 DEF HostUnRegBulkCallback, EndFlight
  <2> QED  BY <1>6, <2>1, HostCall DEF HostUnRegBulkCallback, eventVars
<1>7. CASE HostCancelTransfer(t)
  <2> DEFINE S == FlightAt(call[t].addr, call[t].ep)
  <2>1. S \subseteq flight  BY DEF FlightAt
  <2>2. EndFlight(S) \/ EndFlight({})  BY <1>7 DEF HostCancelTransfer, EndFlight
  <2> HIDE DEF S
  <2>3. \E R : R \subseteq flight /\ EndFlight(R)  BY <2>1, <2>2
  <2> QED  BY <1>7, <2>3, HostCall DEF HostCancelTransfer, eventVars
<1> QED  BY <1>1, <1>2, <1>4, <1>5, <1>6, <1>7

(* Blocking transfers.                                                     *)
LEMMA BlockingSteps ==
  ASSUME TransferInv, NEW t \in Threads,
         HostBulkTransfer(t) \/ HostControlTransfer(t) \/ TransferReturns(t)
  PROVE  TransferInv'
<1>1. call[t] # Idle /\ call[t].id = None
  <2>1. CASE HostBulkTransfer(t)
    BY <2>1, NotSubmitting DEF HostBulkTransfer
  <2>2. CASE HostControlTransfer(t)
    BY <2>2, NotSubmitting DEF HostControlTransfer
  <2>3. CASE TransferReturns(t)
    <3>1. call[t] # Idle  BY <2>3, IdleFacts DEF TransferReturns
    <3> QED  BY <2>3, <3>1 DEF TransferReturns, TransferInv, SubmitInv
  <2> QED  BY <2>1, <2>2, <2>3
<1>2. /\ Goto(t, "driver") \/ Goto(t, "settle")
      /\ UNCHANGED <<driverVars, eventVars, deathVars, alive, where, ctx, answers, arrived>>
  BY DEF HostBulkTransfer, HostControlTransfer, TransferReturns
<1>3. \E x : Elsewhere(t, x)  BY <1>1, <1>2, GotoElsewhere
<1>4. EndFlight({})  BY <1>2 DEF EndFlight, driverVars
<1> QED  BY <1>2, <1>3, <1>4, QuietCall DEF driverVars, eventVars

(* UsbSubmitTransfer links the death recipient.                            *)
LEMMA LinkStep ==
  ASSUME TransferInv, NEW t \in Threads, AddDeathRecipient(t)
  PROVE  TransferInv'
<1> DEFINE id == call[t].id
<1>1. call[t] # Idle  BY IdleFacts DEF AddDeathRecipient, At
<1>2. id # None  BY <1>1 DEF AddDeathRecipient, At, TransferInv, SubmitInv
<1>3. id \in Transfers
  <2>1. call[t] \in Calls  BY <1>1 DEF TransferInv, TypeOK
  <2> QED  BY <1>2, <2>1 DEF Calls
<1>4. UNCHANGED <<driverVars, eventVars, notices, closing, late, stuck,
                  alive, where, answers, arrived>>
  BY DEF AddDeathRecipient
<1>5. UNCHANGED <<flight, plugged, eventVars>>
  BY <1>4 DEF driverVars, eventVars
<1>6. CASE Fail(t) /\ UNCHANGED recipients
  BY <1>1, <1>2, <1>4, <1>6, SubmitFails
<1>7. CASE /\ recipients' = recipients \union {id}
           /\ Goto(t, "linked")
           /\ UNCHANGED ctx
  <2>1. id \notin Waiting  BY <1>1, <1>2 DEF TransferInv, SubmitInv
  <2>2. /\ Waiting' = Waiting
        /\ OnePlace' /\ FlightWatched' /\ ContextLive' /\ OrphanCancelled'
    BY <1>3, <1>4, <1>5, <1>7, <2>1, AwayFromFlight
  <2>3. call' \in [Threads -> {Idle} \union Calls] /\ SubmitInv'
    BY <1>1, <1>2, <1>4, <1>7, <2>2, SubmitMoves
  <2>4. TypeOK'
    <3>1. TypeOK  BY DEF TransferInv
    <3> QED  BY <1>3, <1>4, <1>5, <1>7, <2>3, <3>1, DevicesKept DEF TypeOK, DeviceInv
  <2> QED  BY <1>5, <2>2, <2>3, <2>4, DevicesKept DEF TransferInv
<1> QED  BY <1>6, <1>7 DEF AddDeathRecipient

(* ... and submits to the driver.                                          *)
LEMMA SubmitStep ==
  ASSUME TransferInv, NEW t \in Threads, HostSubmitTransfer(t)
  PROVE  TransferInv'
<1> DEFINE id == call[t].id
<1>1. call[t] # Idle /\ call[t].pc = "linked"
  BY IdleFacts DEF HostSubmitTransfer, At
<1>2. id # None  BY <1>1 DEF HostSubmitTransfer, At, TransferInv, SubmitInv
<1>3. id \in Transfers
  <2>1. call[t] \in Calls  BY <1>1 DEF TransferInv, TypeOK
  <2> QED  BY <1>2, <2>1 DEF Calls
<1>4. UNCHANGED <<plugged, opened, reg, eventVars, notices, closing, stuck, alive, where,
                  answers, arrived>>
  BY DEF HostSubmitTransfer
<1>5. UNCHANGED <<plugged, eventVars>>  BY <1>4 DEF eventVars
<1>6. CASE recipients' = recipients \ {id} /\ Fail(t) /\ UNCHANGED <<flight, late>>
  BY <1>1, <1>2, <1>4, <1>6, SubmitFails DEF driverVars
<1>7. CASE /\ flight' = flight \union {id}
           /\ late' = IF Client(t) \in alive THEN late ELSE late \union {id}
           /\ Done(t)
           /\ UNCHANGED recipients
  <2>1. /\ t = Js(OwnerOf[id]) /\ id \notin Waiting
        /\ where[id] \in Addrs \X Endpoints
        /\ OwnerOf[id] \in alive => ctx[id] = "built" /\ id \in recipients
    BY <1>1, <1>2 DEF TransferInv, SubmitInv
  <2>2. Client(t) = OwnerOf[id]  BY <2>1 DEF Client, Js
  <2>3. call' = [call EXCEPT ![t] = Idle] /\ UNCHANGED ctx
    <3>1. t[2] # "work"  BY <2>1 DEF Js
    <3> QED  BY <1>7, <3>1 DEF Done
  <2>4. Waiting' = Waiting \union {id}  BY <1>4, <1>7 DEF Waiting
  <2>5. call' \in [Threads -> {Idle} \union Calls] /\ SubmitInv'
    BY <1>1, <1>2, <1>4, <1>7, <2>3, <2>4, SubmitEnds
  <2>6. OnePlace'
    BY <1>4, <1>7, <2>1 DEF TransferInv, OnePlace, Waiting
  <2>7. FlightWatched'
    BY <1>4, <1>7, <2>1 DEF TransferInv, FlightWatched
  <2>8. ContextLive'
    BY <1>4, <1>7, <2>1, <2>3 DEF TransferInv, ContextLive
  <2>9. OrphanCancelled'
    <3> SUFFICES ASSUME NEW i \in flight'
                 PROVE  OwnerOf[i] \in alive' \/ i \in notices' \/ i \in late' \union stuck'
      BY DEF OrphanCancelled
    <3>1. CASE i = id  BY <1>4, <1>7, <2>2, <3>1
    <3>2. CASE i # id
      <4>1. i \in flight  BY <1>7, <3>2
      <4> QED  BY <1>4, <1>7, <4>1 DEF TransferInv, OrphanCancelled
    <3> QED  BY <3>1, <3>2
  <2>10. TypeOK'
    <3>1. TypeOK  BY DEF TransferInv
    <3>2. late' \subseteq Transfers  BY <1>3, <1>7, <3>1 DEF TypeOK
    <3> QED  BY <1>3, <1>4, <1>5, <1>7, <2>3, <2>5, <3>1, <3>2, DevicesKept DEF TypeOK, DeviceInv
  <2> QED  BY <1>5, <2>5, <2>6, <2>7, <2>8, <2>9, <2>10, DevicesKept DEF TransferInv
<1> QED  BY <1>6, <1>7 DEF HostSubmitTransfer

(* All of them together.                                                   *)
LEMMA ServiceSteps ==
  ASSUME TransferInv, NEW t \in Threads, ServiceStep(t)
  PROVE  TransferInv'
<1>1. CASE \E ops : Entry(t, ops)  BY <1>1, EntrySteps
<1>2. CASE \/ ServiceSession(t) \/ ServiceInterface(t) \/ ServiceDescriptor(t)
           \/ ServiceKernel(t) \/ ServiceRequest(t) \/ ServiceBulkTransfer(t)
           \/ ServiceControlTransfer(t) \/ ServiceAsync(t) \/ ServiceBulk(t)
  BY <1>1, <1>2 DEF ServiceSession, ServiceInterface, ServiceDescriptor,
                    ServiceKernel, ServiceRequest, ServiceBulkTransfer,
                    ServiceControlTransfer, ServiceAsync, ServiceBulk
<1> QED  BY <1>2, HostSteps, BlockingSteps, LinkStep, SubmitStep DEF ServiceStep

(***************************************************************************)
(* The way back.                                                           *)
(***************************************************************************)
(* An answer moves on, or the context of a transfer that has nothing more  *)
(* to wait for changes.                                                    *)
LEMMA AnswerMoves ==
  ASSUME TransferInv, NEW id \in Transfers,
         ctx' \in [Transfers -> ContextStates],
         \A i \in Transfers \ {id} : ctx'[i] = ctx[i],
         OwnerOf[id] \in alive => ctx'[id] = ctx[id] \/ id \notin Waiting',
         ctx'[id] = ctx[id] \/ id \in Waiting \/ ctx[id] # "built",
         answers' \subseteq answers,
         arrived' \subseteq arrived \union (answers \ answers'),
         UNCHANGED <<driverVars, eventVars, deathVars, alive, call, where>>
  PROVE  TransferInv'
<1>1. UNCHANGED <<flight, plugged, eventVars, recipients, notices, closing, late, stuck>>
  BY DEF driverVars, eventVars, deathVars
<1>2. /\ flight \subseteq Transfers /\ answers \subseteq Transfers
      /\ arrived \subseteq Transfers
      /\ call \in [Threads -> {Idle} \union Calls]
      /\ SubmitInv /\ OnePlace /\ FlightWatched /\ ContextLive /\ OrphanCancelled
  BY DEF TransferInv, TypeOK
<1>3. Waiting' \subseteq Waiting  BY <1>1 DEF Waiting
<1>4. OnePlace'  BY <1>1, <1>2 DEF OnePlace
<1>5. FlightWatched'  BY <1>1, <1>2 DEF FlightWatched
<1>6. ContextLive'
  <2>1. (flight \union answers \union arrived)' \subseteq flight \union answers \union arrived
    BY <1>3 DEF Waiting
  <2>2. id \in (flight \union answers \union arrived)' => id \in Waiting'
    BY DEF Waiting
  <2> QED  BY <1>2, <2>1, <2>2 DEF ContextLive
<1>7. OrphanCancelled'  BY <1>1, <1>2 DEF OrphanCancelled
<1>8. SubmitInv'
  <2>1. \A u \in Threads : call[u] # Idle => call[u].id \in Transfers \union {None}
    BY <1>2 DEF Calls
  <2> QED  BY <1>1, <1>2, <1>3, <2>1 DEF SubmitInv
<1>9. TypeOK'
  <2>1. TypeOK  BY DEF TransferInv
  <2>2. answers' \subseteq Transfers /\ arrived' \subseteq Transfers  BY <1>2
  <2> QED  BY <1>1, <2>1, <2>2, DevicesKept DEF TypeOK, DeviceInv
<1> QED  BY <1>1, <1>4, <1>5, <1>6, <1>7, <1>8, <1>9, DevicesKept DEF TransferInv

(* What Lose does to the contexts.                                         *)
LEMMA LoseChanges ==
  ASSUME TransferInv, NEW id \in Transfers, Lose(id)
  PROVE  /\ ctx' \in [Transfers -> ContextStates]
         /\ \A i \in Transfers \ {id} : ctx'[i] = ctx[i]
BY DEF TransferInv, TypeOK, Lose, ContextStates

(* The service sends an answer on.                                         *)
LEMMA ForwardStep ==
  ASSUME TransferInv, NEW id \in Transfers, OnTransferCallback(id)
  PROVE  TransferInv'
<1>1. /\ id \in answers /\ answers' = answers \ {id}
      /\ UNCHANGED <<driverVars, eventVars, deathVars, alive, call, where>>
  BY DEF OnTransferCallback
<1>2. id \in Waiting /\ id \notin flight /\ id \notin arrived
  BY <1>1 DEF Waiting, TransferInv, OnePlace
<1>3. CASE arrived' = arrived \union {id} /\ UNCHANGED ctx
  <2>1. ctx' \in [Transfers -> ContextStates]  BY <1>3 DEF TransferInv, TypeOK
  <2> QED  BY <1>1, <1>3, <2>1, AnswerMoves
<1>4. CASE Lose(id) /\ UNCHANGED arrived
  <2>1. id \notin Waiting'  BY <1>1, <1>2, <1>4 DEF Waiting, driverVars
  <2> QED  BY <1>1, <1>2, <1>4, <2>1, LoseChanges, AnswerMoves
<1> QED  BY <1>3, <1>4 DEF OnTransferCallback

(* The process receives it.                                                *)
LEMMA ReceiveStep ==
  ASSUME TransferInv, NEW id \in Transfers, OnRemoteRequest(id)
  PROVE  TransferInv'
<1>1. /\ id \in arrived /\ arrived' = arrived \ {id} /\ UNCHANGED answers
      /\ UNCHANGED <<driverVars, eventVars, deathVars, alive, call, where>>
  BY DEF OnRemoteRequest
<1>2. id \in Waiting /\ id \notin flight /\ id \notin answers
  BY <1>1 DEF Waiting, TransferInv, OnePlace
<1>3. id \notin Waiting'  BY <1>1, <1>2 DEF Waiting, driverVars
<1>4. /\ ctx' \in [Transfers -> ContextStates]
      /\ \A i \in Transfers \ {id} : ctx'[i] = ctx[i]
  <2>1. CASE Lose(id)  BY <2>1, LoseChanges
  <2>2. CASE ctx' = [ctx EXCEPT ![id] = "queued"]
    BY <2>2 DEF TransferInv, TypeOK, ContextStates
  <2> QED  BY <2>1, <2>2 DEF OnRemoteRequest, JsCallBack
<1> QED  BY <1>1, <1>2, <1>3, <1>4, AnswerMoves

(* The task runs.                                                          *)
LEMMA TaskStep ==
  ASSUME TransferInv, NEW id \in Transfers, RunTask(id)
  PROVE  TransferInv'
<1>1. /\ ctx[id] = "queued" /\ ctx' = [ctx EXCEPT ![id] = "called"]
      /\ UNCHANGED <<driverVars, eventVars, deathVars, alive, call, where, answers, arrived>>
  BY DEF RunTask
<1>2. /\ ctx' \in [Transfers -> ContextStates]
      /\ \A i \in Transfers \ {id} : ctx'[i] = ctx[i]
  BY <1>1 DEF TransferInv, TypeOK, ContextStates
<1>3. OwnerOf[id] \in alive => id \notin Waiting
  BY <1>1 DEF TransferInv, ContextLive, Waiting
<1>4. Waiting' = Waiting  BY <1>1 DEF Waiting, driverVars
<1> QED  BY <1>1, <1>2, <1>3, <1>4, AnswerMoves

(***************************************************************************)
(* The driver's answers and the death of a process.                        *)
(***************************************************************************)
(* The driver answers a transfer, or the death recipient closes.           *)
LEMMA DriverSteps ==
  ASSUME TransferInv, NEW id \in Transfers,
         DriverCompletes(id) \/ OnRemoteDiedClose(id)
  PROVE  TransferInv'
<1>1. CASE DriverCompletes(id)
  <2>1. /\ {id} \subseteq flight /\ EndFlight({id})
        /\ UNCHANGED <<plugged, eventVars, deathVars, alive, call, where, ctx, arrived>>
    BY <1>1 DEF DriverCompletes
  <2>2. UNCHANGED <<plugged, eventVars, recipients, notices, closing, late, stuck>>
    BY <2>1 DEF eventVars, deathVars
  <2> QED  BY <2>1, <2>2, DevicesKept, QuietStep
<1>2. CASE OnRemoteDiedClose(id)
  <2> DEFINE S == FlightOf(where[id][1])
  <2>1. S \subseteq flight  BY DEF FlightOf
  <2>2. /\ EndFlight(S) \/ UNCHANGED <<flight, answers>>
        /\ closing' = closing \ {id}
        /\ UNCHANGED <<plugged, eventVars, recipients, notices, late, stuck, alive, call,
                       where, ctx, arrived>>
    BY <1>2 DEF OnRemoteDiedClose, CloseHandle
  <2> HIDE DEF S
  <2>3. \E R : R \subseteq flight /\ EndFlight(R)
    <3>1. UNCHANGED <<flight, answers>> => EndFlight({})  BY DEF EndFlight
    <3> QED  BY <2>1, <2>2, <3>1
  <2> QED  BY <2>2, <2>3, DevicesKept, QuietStep
<1> QED  BY <1>1, <1>2

(* The death recipient cancels by address and endpoint: of all transfers   *)
(* the driver has there, its own is one.                                   *)
LEMMA RecipientStep ==
  ASSUME TransferInv, NEW id \in Transfers, OnRemoteDied(id)
  PROVE  TransferInv'
<1> DEFINE S == FlightAt(where[id][1], where[id][2])
<1>1. /\ notices' = notices \ {id}
      /\ closing' \subseteq closing \union {id}
      /\ UNCHANGED <<plugged, eventVars, recipients, late, alive, call, where, ctx, arrived>>
      /\ \/ flight' = flight \ S /\ answers' = answers \union S /\ stuck' = stuck
         \/ stuck' = stuck \union ({id} \cap S) /\ UNCHANGED <<flight, answers>>
  BY DEF OnRemoteDied, EndFlight
<1>2. S \subseteq flight  BY DEF FlightAt
<1>3. id \in flight => id \in S
  <2> SUFFICES ASSUME id \in flight PROVE id \in S
    OBVIOUS
  <2>1. where[id] \in Addrs \X Endpoints  BY DEF TransferInv, FlightWatched
  <2>2. where[id] = <<where[id][1], where[id][2]>>  BY <2>1
  <2> QED  BY <2>2 DEF FlightAt
<1> HIDE DEF S
<1>4. UNCHANGED <<plugged, eventVars>>  BY <1>1
<1>5. /\ flight \subseteq Transfers /\ answers \subseteq Transfers
      /\ OnePlace /\ FlightWatched /\ ContextLive /\ OrphanCancelled
  BY DEF TransferInv, TypeOK
<1>6. Waiting' = Waiting  BY <1>1, <1>2 DEF Waiting
<1>7. OnePlace'  BY <1>1, <1>2, <1>5 DEF OnePlace
<1>8. FlightWatched'  BY <1>1, <1>5 DEF FlightWatched
<1>9. ContextLive'
  <2>1. (flight \union answers \union arrived)' = flight \union answers \union arrived
    BY <1>6 DEF Waiting
  <2> QED  BY <1>1, <1>5, <2>1 DEF ContextLive
<1>10. OrphanCancelled'  BY <1>1, <1>3, <1>5 DEF OrphanCancelled
<1>11. call' \in [Threads -> {Idle} \union Calls] /\ SubmitInv'
  BY <1>1, <1>6, CallKept
<1>12. TypeOK'
  <2>1. TypeOK  BY DEF TransferInv
  <2>2. flight' \subseteq Transfers /\ answers' \subseteq Transfers
    BY <1>1, <1>2, <1>5
  <2>3. /\ closing' \subseteq Transfers /\ notices' \subseteq Transfers
        /\ stuck' \subseteq Transfers
    BY <1>1, <2>1 DEF TypeOK
  <2> QED  BY <1>1, <1>4, <2>1, <2>2, <2>3, DevicesKept DEF TypeOK, DeviceInv
<1> QED  BY <1>4, <1>7, <1>8, <1>9, <1>10, <1>11, <1>12, DevicesKept DEF TransferInv

(* A process dies: of its transfers that the driver has, the service is    *)
(* told.                                                                   *)
LEMMA DieStep ==
  ASSUME TransferInv, NEW c \in Clients, Die(c)
  PROVE  TransferInv'
<1> DEFINE mine == {id \in Transfers : OwnerOf[id] = c}
<1>1. /\ c \in alive /\ alive' = alive \ {c}
      /\ notices' = notices \union (recipients \cap mine)
      /\ recipients' = recipients \ mine
      /\ arrived' = arrived \ mine
      /\ ctx' = [id \in Transfers |->
                   IF id \in mine /\ ctx[id] \in {"built", "queued"} THEN "gone" ELSE ctx[id]]
      /\ call' = [t \in Threads |-> IF Client(t) = c /\ call[t].pc \in {"queued", "settle"}
                                    THEN Idle ELSE call[t]]
      /\ UNCHANGED <<driverVars, eventVars, closing, late, stuck, where, answers>>
  BY DEF Die
<1>2. UNCHANGED <<flight, plugged, eventVars>>  BY <1>1 DEF driverVars, eventVars
<1>3. \A id \in Transfers : OwnerOf[id] # c => id \notin mine
  OBVIOUS
<1>4. \A id \in Transfers : OwnerOf[id] = c => id \in mine
  OBVIOUS
<1> HIDE DEF mine
<1>5. /\ flight \subseteq Transfers /\ answers \subseteq Transfers
      /\ arrived \subseteq Transfers /\ recipients \subseteq Transfers
      /\ notices \subseteq Transfers /\ alive \subseteq Clients
      /\ call \in [Threads -> {Idle} \union Calls]
      /\ ctx \in [Transfers -> ContextStates]
      /\ SubmitInv /\ OnePlace /\ FlightWatched /\ ContextLive /\ OrphanCancelled
  BY DEF TransferInv, TypeOK
<1>6. Waiting' \subseteq Waiting  BY <1>1, <1>2 DEF Waiting
<1>7. \A id \in Transfers : OwnerOf[id] \in alive' =>
         ctx'[id] = ctx[id] /\ (id \in recipients => id \in recipients')
  BY <1>1, <1>3
<1>8. OnePlace'  BY <1>1, <1>2, <1>5 DEF OnePlace
<1>9. FlightWatched'  BY <1>1, <1>2, <1>3, <1>5 DEF FlightWatched
<1>10. ContextLive'
  <2>1. (flight \union answers \union arrived)' \subseteq flight \union answers \union arrived
    BY <1>6 DEF Waiting
  <2>2. alive' \subseteq alive  BY <1>1
  <2> QED  BY <1>5, <1>7, <2>1, <2>2 DEF ContextLive
<1>11. OrphanCancelled'
  <2> SUFFICES ASSUME NEW id \in flight
               PROVE  OwnerOf[id] \in alive' \/ id \in notices' \/ id \in late' \union stuck'
    BY <1>2 DEF OrphanCancelled
  <2>1. CASE OwnerOf[id] = c
    <3>1. id \in recipients  BY <1>1, <1>5, <2>1 DEF FlightWatched
    <3> QED  BY <1>1, <1>4, <1>5, <2>1, <3>1
  <2>2. CASE OwnerOf[id] # c
    BY <1>1, <1>5, <2>2 DEF OrphanCancelled
  <2> QED  BY <2>1, <2>2
<1>12. call' \in [Threads -> {Idle} \union Calls]  BY <1>1, <1>5
<1>13. SubmitInv'
  <2> SUFFICES ASSUME NEW u \in Threads, call'[u] # Idle
               PROVE  /\ call'[u].op = "UsbSubmitTransfer" <=> call'[u].id # None
                      /\ call'[u].id # None =>
                           /\ u = Js(OwnerOf[call'[u].id])
                           /\ call'[u].pc \in {"service", "checked", "linked"}
                           /\ call'[u].id \notin Waiting'
                           /\ where'[call'[u].id] \in Addrs \X Endpoints
                           /\ OwnerOf[call'[u].id] \in alive' =>
                                /\ ctx'[call'[u].id] = "built"
                                /\ call'[u].pc = "linked" => call'[u].id \in recipients'
    BY DEF SubmitInv
  <2>1. call'[u] = call[u]  BY <1>1
  <2>2. call[u].id \in Transfers \union {None}  BY <1>5, <2>1 DEF Calls
  <2>3. alive' \subseteq alive  BY <1>1
  <2>4. /\ call[u].op = "UsbSubmitTransfer" <=> call[u].id # None
        /\ call[u].id # None =>
             /\ u = Js(OwnerOf[call[u].id])
             /\ call[u].pc \in {"service", "checked", "linked"}
             /\ call[u].id \notin Waiting
             /\ where[call[u].id] \in Addrs \X Endpoints
             /\ OwnerOf[call[u].id] \in alive =>
                  /\ ctx[call[u].id] = "built"
                  /\ call[u].pc = "linked" => call[u].id \in recipients
    BY <1>5, <2>1 DEF SubmitInv
  <2> QED  BY <1>1, <1>6, <1>7, <2>1, <2>2, <2>3, <2>4
<1>14. TypeOK'
  <2>1. TypeOK  BY DEF TransferInv
  <2>2. /\ recipients' \subseteq Transfers /\ notices' \subseteq Transfers
        /\ arrived' \subseteq Transfers /\ alive' \subseteq Clients
    BY <1>1, <1>5
  <2>3. ctx' \in [Transfers -> ContextStates]  BY <1>1, <1>5 DEF ContextStates
  <2> QED  BY <1>1, <1>2, <1>12, <2>1, <2>2, <2>3, DevicesKept DEF TypeOK, DeviceInv
<1> QED  BY <1>2, <1>8, <1>9, <1>10, <1>11, <1>13, <1>14, DevicesKept DEF TransferInv

(***************************************************************************)
(* Devices come and go.                                                    *)
(***************************************************************************)
(* Such a step does nothing but end transfers of the driver.               *)
LEMMA DeviceQuiet ==
  ASSUME TransferInv, DeviceInv', NEW S, S \subseteq flight,
         EndFlight(S) \/ UNCHANGED <<flight, answers>>,
         UNCHANGED <<deathVars, alive, call, where, ctx, arrived>>
  PROVE  TransferInv'
<1>1. UNCHANGED <<recipients, notices, closing, late, stuck>>  BY DEF deathVars
<1>2. UNCHANGED <<flight, answers>> => EndFlight({})  BY DEF EndFlight
<1>3. \E R : R \subseteq flight /\ EndFlight(R)  BY <1>2
<1> QED  BY <1>1, <1>3, QuietStep

(* What is known of the devices, spelled out.                              *)
LEMMA DeviceFacts ==
  ASSUME TransferInv
  PROVE  /\ plugged \in [Addrs -> Devices \union {None}]
         /\ known \in [Addrs -> Devices \union {None}]
         /\ attaches \in [Addrs -> Nat] /\ detaches \in [Addrs -> Nat]
         /\ read \in [Handlers -> {<<>>} \union (Addrs \X Devices)]
         /\ crossed \subseteq Addrs
         /\ \A b \in Addrs :
              known[b] \in {None, plugged[b]} \/ detaches[b] > 0 \/ b \in crossed
         /\ \A h \in Handlers : read[h] # <<>> =>
              /\ read[h][1] \in Addrs /\ read[h][2] \in Devices
              /\ \/ read[h][2] = plugged[read[h][1]]
                 \/ detaches[read[h][1]] > 0
                 \/ read[h][1] \in crossed
<1>1. DeviceTypes /\ KnownIsCurrent /\ ReadIsCurrent  BY DEF TransferInv, DeviceInv
<1>2. read \in [Handlers -> {<<>>} \union (Addrs \X Devices)]  BY <1>1 DEF DeviceTypes
<1>3. \A h \in Handlers : read[h] # <<>> => read[h][1] \in Addrs /\ read[h][2] \in Devices
  BY <1>2
<1>4. \A h \in Handlers : read[h] # <<>> =>
        \/ read[h][2] = plugged[read[h][1]]
        \/ detaches[read[h][1]] > 0
        \/ read[h][1] \in crossed
  BY <1>1 DEF ReadIsCurrent
<1>5. \A b \in Addrs :
        known[b] \in {None, plugged[b]} \/ detaches[b] > 0 \/ b \in crossed
  BY <1>1 DEF KnownIsCurrent
<1> QED  BY <1>1, <1>3, <1>4, <1>5 DEF DeviceTypes

(* A device that comes has nothing recorded of it; one that goes announces *)
(* its detach.                                                             *)
LEMMA PlugSteps ==
  ASSUME TransferInv, NEW a \in Addrs, Unplug(a) \/ \E d \in Devices : Plug(a, d)
  PROVE  TransferInv'
<1>1. ASSUME NEW d \in Devices, Plug(a, d) PROVE TransferInv'
  <2>1. /\ plugged[a] = None /\ plugged' = [plugged EXCEPT ![a] = d]
        /\ attaches' = [attaches EXCEPT ![a] = @ + 1]
        /\ UNCHANGED <<known, detaches, read, crossed, flight, deathVars, clientVars>>
    BY <1>1 DEF Plug
  <2>2. DeviceTypes'  BY <2>1, DeviceFacts DEF DeviceTypes
  <2>3. KnownIsCurrent'  BY <2>1, DeviceFacts DEF KnownIsCurrent
  <2>4. None \notin Devices  BY TransfersAssumption
  <2>5. ReadIsCurrent'  BY <2>1, <2>4, DeviceFacts DEF ReadIsCurrent
  <2> QED  BY <2>1, <2>2, <2>3, <2>5, DeviceQuiet DEF DeviceInv, clientVars
<1>2. CASE Unplug(a)
  <2>1. /\ plugged' = [plugged EXCEPT ![a] = None]
        /\ detaches' = [detaches EXCEPT ![a] = @ + 1]
        /\ EndFlight(FlightOf(a))
        /\ UNCHANGED <<attaches, known, read, crossed, deathVars, alive, call, where,
                       ctx, arrived>>
    BY <1>2 DEF Unplug
  <2>2. DeviceTypes'  BY <2>1, DeviceFacts DEF DeviceTypes
  <2>3. detaches'[a] > 0 /\ \A b \in Addrs : b # a => detaches'[b] = detaches[b]
    BY <2>1, DeviceFacts
  <2>4. KnownIsCurrent'  BY <2>1, <2>3, DeviceFacts DEF KnownIsCurrent
  <2>5. ReadIsCurrent'  BY <2>1, <2>3, DeviceFacts DEF ReadIsCurrent
  <2>6. FlightOf(a) \subseteq flight  BY DEF FlightOf
  <2> QED  BY <2>1, <2>2, <2>4, <2>5, <2>6, DeviceQuiet DEF DeviceInv
<1> QED  BY <1>1, <1>2

(* What is read is the device that is there, and what is recorded was.     *)
LEMMA AttachSteps ==
  ASSUME TransferInv, NEW h \in Handlers,
         AddDevice(h) \/ \E a \in Addrs : GetDeviceInfo(h, a)
  PROVE  TransferInv'
<1>1. ASSUME NEW a \in Addrs, GetDeviceInfo(h, a) PROVE TransferInv'
  <2>1. /\ attaches[a] > 0 /\ attaches' = [attaches EXCEPT ![a] = @ - 1]
        /\ \/ read' = read
           \/ plugged[a] # None /\ read' = [read EXCEPT ![h] = <<a, plugged[a]>>]
        /\ EndFlight(FlightOf(a)) \/ UNCHANGED <<flight, answers>>
        /\ UNCHANGED <<plugged, detaches, known, crossed, deathVars, alive, call, where,
                       ctx, arrived>>
    BY <1>1 DEF GetDeviceInfo, CloseHandle
  <2>2. plugged[a] # None => <<a, plugged[a]>> \in Addrs \X Devices  BY DeviceFacts
  <2>3. attaches' \in [Addrs -> Nat]  BY <2>1, DeviceFacts
  <2>4. DeviceTypes'
    <3>1. read' \in [Handlers -> {<<>>} \union (Addrs \X Devices)]
      <4>1. CASE read' = read  BY <4>1, DeviceFacts
      <4>2. CASE plugged[a] # None /\ read' = [read EXCEPT ![h] = <<a, plugged[a]>>]
        <5> DEFINE r == <<a, plugged[a]>>
        <5>1. r \in Addrs \X Devices  BY <2>2, <4>2
        <5>2. read' = [read EXCEPT ![h] = r]  BY <4>2
        <5> HIDE DEF r
        <5> QED  BY <5>1, <5>2, DeviceFacts
      <4> QED  BY <2>1, <4>1, <4>2
    <3> QED  BY <2>1, <2>3, <3>1, DeviceFacts DEF DeviceTypes
  <2>5. KnownIsCurrent'  BY <2>1, DeviceFacts DEF KnownIsCurrent
  <2>6. ReadIsCurrent'
    <3> SUFFICES ASSUME NEW g \in Handlers, read'[g] # <<>>
                 PROVE  \/ read'[g][2] = plugged[read'[g][1]]
                        \/ detaches[read'[g][1]] > 0
                        \/ read'[g][1] \in crossed
      BY <2>1 DEF ReadIsCurrent
    <3>1. read'[g] = read[g] \/ read'[g] = <<a, plugged[a]>>  BY <2>1, DeviceFacts
    <3> QED  BY <3>1, DeviceFacts
  <2>7. FlightOf(a) \subseteq flight  BY DEF FlightOf
  <2> QED  BY <2>1, <2>4, <2>5, <2>6, <2>7, DeviceQuiet DEF DeviceInv
<1>2. CASE AddDevice(h)
  <2>1. /\ read[h] # <<>> /\ read' = [read EXCEPT ![h] = <<>>]
        /\ known' = IF known[read[h][1]] = None
                    THEN [known EXCEPT ![read[h][1]] = read[h][2]] ELSE known
        /\ UNCHANGED <<driverVars, attaches, detaches, crossed, deathVars, clientVars>>
    BY <1>2 DEF AddDevice
  <2>2. UNCHANGED <<plugged, flight, answers, alive, call, where, ctx, arrived>>
    BY <2>1 DEF driverVars, clientVars
  <2>3. read[h][1] \in Addrs /\ read[h][2] \in Devices  BY <2>1, DeviceFacts
  <2>4. known' \in [Addrs -> Devices \union {None}]  BY <2>1, <2>3, DeviceFacts
  <2>5. read' \in [Handlers -> {<<>>} \union (Addrs \X Devices)]  BY <2>1, DeviceFacts
  <2>6. DeviceTypes'  BY <2>1, <2>2, <2>4, <2>5, DeviceFacts DEF DeviceTypes
  <2>7. KnownIsCurrent'
    <3> SUFFICES ASSUME NEW b \in Addrs
                 PROVE  known'[b] \in {None, plugged[b]} \/ detaches[b] > 0 \/ b \in crossed
      BY <2>1, <2>2 DEF KnownIsCurrent
    <3>1. CASE known'[b] = known[b]  BY <3>1, DeviceFacts
    <3>2. CASE b = read[h][1] /\ known'[b] = read[h][2]  BY <2>1, <3>2, DeviceFacts
    <3>3. known'[b] = known[b] \/ (b = read[h][1] /\ known'[b] = read[h][2])
      BY <2>1, <2>3, DeviceFacts
    <3> QED  BY <3>1, <3>2, <3>3
  <2>8. ReadIsCurrent'
    <3>1. \A g \in Handlers : read'[g] # <<>> => read'[g] = read[g]  BY <2>1, DeviceFacts
    <3> QED  BY <2>1, <2>2, <3>1, DeviceFacts DEF ReadIsCurrent
  <2> QED  BY <2>1, <2>2, <2>6, <2>7, <2>8, DeviceQuiet DEF DeviceInv
<1> QED  BY <1>1, <1>2

(* A detach leaves no record, and marks what is still to be recorded.      *)
LEMMA DetachStep ==
  ASSUME TransferInv, NEW a \in Addrs, DelDevice(a)
  PROVE  TransferInv'
<1>1. /\ detaches[a] > 0 /\ detaches' = [detaches EXCEPT ![a] = @ - 1]
      /\ known' = [known EXCEPT ![a] = None]
      /\ crossed' = IF Between(a) THEN crossed \union {a} ELSE crossed \ {a}
      /\ EndFlight(FlightOf(a)) \/ UNCHANGED <<flight, answers>>
      /\ UNCHANGED <<plugged, attaches, read, deathVars, alive, call, where, ctx, arrived>>
  BY DEF DelDevice, CloseHandle
<1>2. detaches' \in [Addrs -> Nat] /\ \A b \in Addrs : b # a => detaches'[b] = detaches[b]
  BY <1>1, DeviceFacts
<1>3. /\ crossed' \subseteq Addrs
      /\ \A b \in Addrs : b # a => (b \in crossed' <=> b \in crossed)
      /\ Between(a) => a \in crossed'
  BY <1>1, DeviceFacts
<1>4. DeviceTypes'  BY <1>1, <1>2, <1>3, DeviceFacts DEF DeviceTypes
<1>5. KnownIsCurrent'  BY <1>1, <1>2, <1>3, DeviceFacts DEF KnownIsCurrent
<1>6. ReadIsCurrent'
  <2> SUFFICES ASSUME NEW g \in Handlers, read[g] # <<>>
               PROVE  \/ read[g][2] = plugged[read[g][1]]
                      \/ detaches'[read[g][1]] > 0
                      \/ read[g][1] \in crossed'
    BY <1>1 DEF ReadIsCurrent
  <2>1. CASE read[g][1] = a  BY <1>3, <2>1 DEF Between
  <2>2. CASE read[g][1] # a  BY <1>2, <1>3, <2>2, DeviceFacts
  <2> QED  BY <2>1, <2>2
<1>7. FlightOf(a) \subseteq flight  BY DEF FlightOf
<1> QED  BY <1>1, <1>4, <1>5, <1>6, <1>7, DeviceQuiet DEF DeviceInv

(***************************************************************************)
(* The invariant.                                                          *)
(***************************************************************************)
(* It holds when nothing has happened yet ...                              *)
LEMMA TransferInvInit == Init => TransferInv
<1> SUFFICES ASSUME Init PROVE TransferInv
  OBVIOUS
<1> USE DEF Init
<1>1. TypeOK
  <2>1. call \in [Threads -> {Idle} \union Calls]
    OBVIOUS
  <2>2. /\ ctx \in [Transfers -> ContextStates]
        /\ where \in [Transfers -> {<<>>} \union (Addrs \X Endpoints)]
    BY DEF ContextStates
  <2>3. DeviceTypes  BY DEF DeviceTypes
  <2> QED  BY <2>1, <2>2, <2>3 DEF TypeOK
<1>2. SubmitInv  BY DEF SubmitInv
<1>3. OnePlace /\ FlightWatched /\ ContextLive /\ OrphanCancelled
  BY DEF OnePlace, FlightWatched, ContextLive, OrphanCancelled
<1>4. DeviceInv  BY <1>1 DEF DeviceInv, KnownIsCurrent, ReadIsCurrent, TypeOK
<1> QED  BY <1>1, <1>2, <1>3, <1>4 DEF TransferInv

(* ... and every step of every layer keeps it.                             *)
LEMMA TransferInvNext == TransferInv /\ [Next]_vars => TransferInv'
<1> SUFFICES ASSUME TransferInv, [Next]_vars PROVE TransferInv'
  OBVIOUS
<1>1. CASE UNCHANGED vars
  <2>1. UNCHANGED <<plugged, eventVars, flight, answers, recipients, notices,
                    closing, late, stuck, alive, call, where, ctx, arrived>>
    BY <1>1 DEF vars, driverVars, eventVars, deathVars, clientVars
  <2>2. EndFlight({})  BY <2>1 DEF EndFlight
  <2> QED  BY <2>1, <2>2, DevicesKept, QuietStep
<1>2. ASSUME NEW c \in Clients, AppStep(c) PROVE TransferInv'
  BY <1>2, AppCalls, SubmitBegins DEF AppStep
<1>3. ASSUME NEW c \in Clients, Die(c) PROVE TransferInv'
  BY <1>3, DieStep
<1>4. ASSUME NEW c \in Clients, NEW id \in Transfers, SubmitWithoutBuffer(c, id)
      PROVE  TransferInv'
  BY <1>4, SubmitSilent
<1>5. ASSUME NEW t \in Threads, WorkerStep(t) \/ ServiceStep(t) PROVE TransferInv'
  BY <1>5, WorkerSteps, ServiceSteps
<1>6. ASSUME NEW id \in Transfers, TransferStep(id) PROVE TransferInv'
  BY <1>6, DriverSteps, ForwardStep, ReceiveStep, TaskStep, RecipientStep
     DEF TransferStep
<1>7. ASSUME NEW a \in Addrs,
             DelDevice(a) \/ Unplug(a) \/ \E d \in Devices : Plug(a, d)
      PROVE  TransferInv'
  BY <1>7, PlugSteps, DetachStep
<1>8. ASSUME NEW h \in Handlers, AddDevice(h) \/ \E a \in Addrs : GetDeviceInfo(h, a)
      PROVE  TransferInv'
  BY <1>8, AttachSteps
<1> QED  BY <1>1, <1>2, <1>3, <1>4, <1>5, <1>6, <1>7, <1>8 DEF Next

(* TransferInv holds in every state a behaviour reaches, whatever the      *)
(* processes call and whenever they die.                                   *)
THEOREM TransferInvariant == Spec => []TransferInv
BY TransferInvInit, TransferInvNext, PTL DEF Spec

(* No answer reaches a living process after its context is gone: JsCallBack*)
(* may dereference userData without a test.                                *)
THEOREM ContextsLive == Spec => []ContextLive
<1>1. TransferInv => ContextLive  BY DEF TransferInv
<1> QED  BY <1>1, TransferInvariant, PTL

(* A transfer of a dead process stays with the driver unwatched only if    *)
(* the process died between the link and the submission, or the driver     *)
(* refused the recipient's cancel.                                         *)
THEOREM OrphansCancelled == Spec => []OrphanCancelled
<1>1. TransferInv => OrphanCancelled  BY DEF TransferInv
<1> QED  BY <1>1, TransferInvariant, PTL

(* What the right is checked against is the device at the address, unless  *)
(* its detach is still waiting or was handled between an attach's read and *)
(* its record.                                                             *)
THEOREM KnownStaysCurrent == Spec => []KnownIsCurrent
<1>1. TransferInv => KnownIsCurrent  BY DEF TransferInv, DeviceInv
<1> QED  BY <1>1, TransferInvariant, PTL

(***************************************************************************)
(* A transfer is an asynchronous request.                                  *)
(***************************************************************************)
(* The life of a context: what one step may make of it.                    *)
ContextMove(id, from, to) == ctx[id] = from /\ ctx' = [ctx EXCEPT ![id] = to]

ContextLife(id) ==
  \/ ContextMove(id, "none", "built") \/ ContextMove(id, "none", "silent")
  \/ ContextMove(id, "built", "rejected") \/ ContextMove(id, "built", "lost")
  \/ ContextMove(id, "built", "queued") \/ ContextMove(id, "queued", "called")

LifeGoesOn == UNCHANGED ctx \/ \E id \in Transfers : ContextLife(id)

(* A call that is answered or fails leaves the contexts alone, or rejects  *)
(* the one it was to submit.                                               *)
LEMMA AnswerLife ==
  ASSUME TransferInv, NEW t \in Threads, Done(t) \/ Fail(t)
  PROVE  LifeGoesOn
<1>1. CASE UNCHANGED ctx  BY <1>1 DEF LifeGoesOn
<1>2. CASE ~ UNCHANGED ctx
  <2>1. /\ call[t].id # None /\ ctx[call[t].id] = "built"
        /\ ctx' = [ctx EXCEPT ![call[t].id] = "rejected"]
    BY <1>2 DEF Done, Fail
  <2>2. CASE call[t].id \in Transfers
    BY <2>1, <2>2 DEF LifeGoesOn, ContextLife, ContextMove
  <2>3. CASE call[t].id \notin Transfers
    <3>1. DOMAIN ctx = Transfers /\ ctx = [i \in Transfers |-> ctx[i]]
      BY DEF TransferInv, TypeOK
    <3>2. ctx' = ctx  BY <2>1, <2>3, <3>1
    <3> QED  BY <1>2, <3>2
  <2> QED  BY <2>2, <2>3
<1> QED  BY <1>1, <1>2

(* So does every step of a call.                                           *)
LEMMA CallLife ==
  ASSUME TransferInv, NEW t \in Threads, WorkerStep(t) \/ ServiceStep(t)
  PROVE  LifeGoesOn
<1>1. ASSUME NEW ops, Entry(t, ops) PROVE LifeGoesOn
  <2>1. UNCHANGED ctx \/ Fail(t)  BY <1>1 DEF Entry, CheckDevicePermission
  <2> QED  BY <2>1, AnswerLife DEF LifeGoesOn
<1>2. CASE \/ ServiceSession(t) \/ ServiceInterface(t) \/ ServiceDescriptor(t)
           \/ ServiceKernel(t) \/ ServiceRequest(t) \/ ServiceBulkTransfer(t)
           \/ ServiceControlTransfer(t) \/ ServiceAsync(t) \/ ServiceBulk(t)
  BY <1>1, <1>2 DEF ServiceSession, ServiceInterface, ServiceDescriptor,
                    ServiceKernel, ServiceRequest, ServiceBulkTransfer,
                    ServiceControlTransfer, ServiceAsync, ServiceBulk
<1>3. CASE \/ HostOpenDevice(t) \/ HostClose(t) \/ HostInterface(t) \/ HostDescriptor(t)
           \/ HostKernel(t) \/ HostRequest(t) \/ HostBulkRead(t)
           \/ HostRegBulkCallback(t) \/ HostUnRegBulkCallback(t) \/ HostCancelTransfer(t)
  <2>1. Done(t) \/ Fail(t)
    BY <1>3 DEF HostOpenDevice, HostClose, HostInterface, HostDescriptor, HostKernel,
                HostRequest, HostBulkRead, AskDriver, HostRegBulkCallback,
                HostUnRegBulkCallback, HostCancelTransfer
  <2> QED  BY <2>1, AnswerLife
<1>4. CASE AddDeathRecipient(t) \/ HostSubmitTransfer(t)
  <2>1. UNCHANGED ctx \/ Done(t) \/ Fail(t)
    BY <1>4 DEF AddDeathRecipient, HostSubmitTransfer
  <2> QED  BY <2>1, AnswerLife DEF LifeGoesOn
<1>5. CASE HostBulkTransfer(t) \/ HostControlTransfer(t) \/ TransferReturns(t)
  BY <1>5 DEF HostBulkTransfer, HostControlTransfer, TransferReturns, LifeGoesOn
<1>6. CASE WorkerStep(t)
  BY <1>6 DEF WorkerStep, bulkTransferExecute, controlTransferExecute,
              usbControlTransferExecute, Execute, TransferComplete, LifeGoesOn
<1> QED  BY <1>2, <1>3, <1>4, <1>5, <1>6 DEF ServiceStep

(* An answer finds its context built, for its process lives (ContextLive). *)
LEMMA AnswerWayLife ==
  ASSUME TransferInv, NEW id \in Transfers, TransferStep(id)
  PROVE  LifeGoesOn
<1>1. ASSUME Lose(id) PROVE LifeGoesOn
  BY <1>1 DEF Lose, LifeGoesOn, ContextLife, ContextMove
<1>2. CASE OnRemoteRequest(id)
  <2>1. ctx[id] = "built"
    BY <1>2 DEF OnRemoteRequest, TransferInv, ContextLive
  <2>2. Lose(id) \/ ctx' = [ctx EXCEPT ![id] = "queued"]
    BY <1>2 DEF OnRemoteRequest, JsCallBack
  <2> QED  BY <1>1, <2>1, <2>2 DEF LifeGoesOn, ContextLife, ContextMove
<1>3. CASE OnTransferCallback(id)
  <2>1. UNCHANGED ctx \/ Lose(id)  BY <1>3 DEF OnTransferCallback
  <2> QED  BY <1>1, <2>1 DEF LifeGoesOn
<1>4. CASE RunTask(id)
  BY <1>4 DEF RunTask, LifeGoesOn, ContextLife, ContextMove
<1>5. CASE DriverCompletes(id) \/ OnRemoteDied(id) \/ OnRemoteDiedClose(id)
  BY <1>5 DEF DriverCompletes, OnRemoteDied, OnRemoteDiedClose, LifeGoesOn
<1> QED  BY <1>2, <1>3, <1>4, <1>5 DEF TransferStep

(* Every step but a death moves at most one context on along its life.     *)
LEMMA StepLife ==
  ASSUME TransferInv, [Next]_vars
  PROVE  LifeGoesOn \/ \E c \in Clients : Die(c)
<1>1. CASE UNCHANGED vars  BY <1>1 DEF vars, clientVars, LifeGoesOn
<1>2. ASSUME NEW c \in Clients, AppStep(c) PROVE LifeGoesOn
  <2>1. PICK a \in Addrs, e \in Endpoints :
          \/ CoreConnectDevice(c, a, e) \/ PipeClose(c, a, e) \/ PipeResetDevice(c, a, e)
          \/ PipeInterface(c, a, e) \/ PipeDescriptor(c, a, e) \/ PipeCancel(c, a, e)
          \/ \E op \in JsOps : PipeInner(c, op, a, e)
          \/ \E id \in Transfers : SubmitTransfer(c, id, a, e)
          \/ PipeBulkTransfer(c, a, e) \/ PipeControlTransfer(c, a, e)
          \/ PipeUsbControlTransfer(c, a, e)
    BY <1>2 DEF AppStep
  <2>2. CASE \E id \in Transfers : SubmitTransfer(c, id, a, e)
    BY <2>2 DEF SubmitTransfer, LifeGoesOn, ContextLife, ContextMove
  <2>3. CASE ~ \E id \in Transfers : SubmitTransfer(c, id, a, e)
    BY <2>1, <2>3 DEF CoreConnectDevice, PipeClose, PipeResetDevice, PipeInterface,
       PipeDescriptor, PipeCancel, PipeInner, PipeBulkTransfer, PipeControlTransfer,
       PipeUsbControlTransfer, JsCall, Queue, LifeGoesOn
  <2> QED  BY <2>2, <2>3
<1>3. ASSUME NEW c \in Clients, NEW id \in Transfers, SubmitWithoutBuffer(c, id)
      PROVE  LifeGoesOn
  BY <1>3 DEF SubmitWithoutBuffer, LifeGoesOn, ContextLife, ContextMove
<1>4. ASSUME NEW a \in Addrs,
             \/ DelDevice(a) \/ Unplug(a) \/ \E d \in Devices : Plug(a, d)
             \/ \E h \in Handlers : GetDeviceInfo(h, a)
      PROVE  LifeGoesOn
  BY <1>4 DEF GetDeviceInfo, DelDevice, Unplug, Plug, clientVars, LifeGoesOn
<1>5. ASSUME NEW h \in Handlers, AddDevice(h) PROVE LifeGoesOn
  BY <1>5 DEF AddDevice, clientVars, LifeGoesOn
<1> QED  BY <1>1, <1>2, <1>3, <1>4, <1>5, CallLife, AnswerWayLife DEF Next

(* How the states of a context are seen by the application.                *)
LEMMA StatusFacts ==
  /\ StatusOf("none") = "new"
  /\ StatusOf("built") = "issued" /\ StatusOf("queued") = "issued"
  /\ StatusOf("called") = "answered" /\ StatusOf("rejected") = "refused"
  /\ StatusOf("silent") = "abandoned" /\ StatusOf("lost") = "abandoned"
  /\ StatusOf("gone") = "abandoned"
BY DEF StatusOf

(* A context that moves is a request that changes its status.              *)
LEMMA StatusMoves ==
  ASSUME TransferInv, NEW id \in Transfers, NEW from, NEW to, ContextMove(id, from, to)
  PROVE  /\ requestStatus[id] = StatusOf(from)
         /\ requestStatus' = [requestStatus EXCEPT ![id] = StatusOf(to)]
         /\ requestStatus' = [r \in Transfers |->
                                IF r \in {id} THEN StatusOf(to) ELSE requestStatus[r]]
<1>1. ctx \in [Transfers -> ContextStates]  BY DEF TransferInv, TypeOK
<1>2. requestStatus' = [r \in Transfers |-> StatusOf(ctx'[r])]
  BY DEF requestStatus
<1>3. \A r \in Transfers : ctx'[r] = IF r = id THEN to ELSE ctx[r]
  BY <1>1 DEF ContextMove
<1>4. \A r \in Transfers : requestStatus[r] = StatusOf(ctx[r])  BY DEF requestStatus
<1>5. \A r \in Transfers : StatusOf(ctx'[r]) = IF r = id THEN StatusOf(to) ELSE requestStatus[r]
  BY <1>3, <1>4
<1>6. requestStatus = [r \in Transfers |-> requestStatus[r]]  BY DEF requestStatus
<1>7. requestStatus[id] = StatusOf(from)  BY <1>4 DEF ContextMove
<1> HIDE DEF requestStatus
<1>8. requestStatus' = [requestStatus EXCEPT ![id] = StatusOf(to)]
  BY <1>2, <1>5, <1>6
<1>9. requestStatus' = [r \in Transfers |->
                          IF r \in {id} THEN StatusOf(to) ELSE requestStatus[r]]
  BY <1>2, <1>5
<1> QED  BY <1>7, <1>8, <1>9

(* A life that goes on is a step of the request.                           *)
LEMMA LifeIsRequestStep ==
  ASSUME TransferInv, LifeGoesOn
  PROVE  [Request!Next]_requestStatus
<1>1. CASE UNCHANGED ctx  BY <1>1 DEF requestStatus
<1>2. ASSUME NEW id \in Transfers, ContextLife(id) PROVE [Request!Next]_requestStatus
  <2>1. CASE ContextMove(id, "none", "built")
    <3>1. Request!Issue(id)
      BY <2>1, StatusMoves, StatusFacts DEF Request!Issue, Request!Move
    <3> QED  BY <3>1 DEF Request!Next
  <2>2. CASE ContextMove(id, "built", "rejected")
    <3>1. Request!Refuse(id)
      BY <2>2, StatusMoves, StatusFacts DEF Request!Refuse, Request!Move
    <3> QED  BY <3>1 DEF Request!Next
  <2>3. CASE ContextMove(id, "queued", "called")
    <3>1. Request!Answer(id)
      BY <2>3, StatusMoves, StatusFacts DEF Request!Answer, Request!Move
    <3> QED  BY <3>1 DEF Request!Next
  <2>4. CASE ContextMove(id, "none", "silent") \/ ContextMove(id, "built", "lost")
    <3>1. /\ requestStatus[id] \in {"new", "issued"}
          /\ requestStatus' = [r \in Transfers |->
                                 IF r \in {id} THEN "abandoned" ELSE requestStatus[r]]
      BY <2>4, StatusMoves, StatusFacts
    <3>2. Request!Abandon({id})  BY <3>1 DEF Request!Abandon
    <3>3. {id} \in SUBSET Transfers
      OBVIOUS
    <3> QED  BY <3>2, <3>3 DEF Request!Next
  <2>5. CASE ContextMove(id, "built", "queued")
    <3>1. /\ requestStatus[id] = "issued"
          /\ requestStatus' = [requestStatus EXCEPT ![id] = "issued"]
      BY <2>5, StatusMoves, StatusFacts
    <3>2. requestStatus = [r \in Transfers |-> requestStatus[r]]  BY DEF requestStatus
    <3>3. requestStatus' = requestStatus  BY <3>1, <3>2
    <3> QED  BY <3>3
  <2> QED  BY <1>2, <2>1, <2>2, <2>3, <2>4, <2>5 DEF ContextLife
<1> QED  BY <1>1, <1>2 DEF LifeGoesOn

(* A process that dies abandons what it waits for.                         *)
LEMMA DeathIsRequestStep ==
  ASSUME TransferInv, NEW c \in Clients, Die(c)
  PROVE  [Request!Next]_requestStatus
<1> DEFINE S == {id \in Transfers : OwnerOf[id] = c /\ ctx[id] \in {"built", "queued"}}
<1>1. \A id \in Transfers : ctx'[id] = IF id \in S THEN "gone" ELSE ctx[id]
  BY DEF Die
<1>2. \A id \in S : id \in Transfers /\ ctx[id] \in {"built", "queued"}
  OBVIOUS
<1>3. S \in SUBSET Transfers
  OBVIOUS
<1> HIDE DEF S
<1>4. \A r \in Transfers : requestStatus[r] = StatusOf(ctx[r])  BY DEF requestStatus
<1>5. requestStatus' = [r \in Transfers |-> StatusOf(ctx'[r])]  BY DEF requestStatus
<1>6. \A r \in Transfers :
        StatusOf(ctx'[r]) = IF r \in S THEN "abandoned" ELSE requestStatus[r]
  BY <1>1, <1>4, StatusFacts
<1>7. \A r \in S : requestStatus[r] \in {"new", "issued"}
  BY <1>2, <1>4, StatusFacts
<1> HIDE DEF requestStatus
<1>8. requestStatus' = [r \in Transfers |-> IF r \in S THEN "abandoned" ELSE requestStatus[r]]
  BY <1>5, <1>6
<1>9. Request!Abandon(S)  BY <1>7, <1>8 DEF Request!Abandon
<1> QED  BY <1>3, <1>9 DEF Request!Next

(* Through all the layers a transfer is to the application an asynchronous *)
(* request: one answer at most, none after a refusal, none after it has    *)
(* been given up.                                                          *)
THEOREM TransfersImplementRequest == Spec => ImplementsRequest
<1>1. Init => Request!Init
  <2> SUFFICES ASSUME Init PROVE requestStatus = [id \in Transfers |-> "new"]
    BY DEF Request!Init
  <2>1. \A id \in Transfers : StatusOf(ctx[id]) = "new"  BY StatusFacts DEF Init
  <2> QED  BY <2>1 DEF requestStatus
<1>2. TransferInv /\ [Next]_vars => [Request!Next]_requestStatus
  BY StepLife, LifeIsRequestStep, DeathIsRequestStep
<1> QED  BY <1>1, <1>2, TransferInvariant, PTL DEF Spec, ImplementsRequest, Request!Spec

(* What the request is for, from its own steps alone: an application's     *)
(* function is called once at most, not after SubmitTransfer has failed    *)
(* and not in a process that is gone.                                      *)
THEOREM RequestOutcomeIsFinal == ImplementsRequest => Request!OutcomeIsFinal
  <1>1. ASSUME Request!Next
        PROVE  \A r \in Transfers :
                 requestStatus[r] \in {"answered", "refused", "abandoned"} =>
                   requestStatus'[r] = requestStatus[r]
    <2>1. SUFFICES ASSUME NEW id \in Transfers,
                          requestStatus[id] \in {"answered", "refused", "abandoned"}
                   PROVE  requestStatus'[id] = requestStatus[id]
      OBVIOUS
    <2>2. DOMAIN requestStatus = Transfers
      BY DEF requestStatus
    <2>3. ASSUME NEW r \in Transfers,
                 Request!Issue(r) \/ Request!Refuse(r) \/ Request!Answer(r)
          PROVE  requestStatus'[id] = requestStatus[id]
      <3>1. PICK to : /\ requestStatus[r] \in {"new", "issued"}
                      /\ requestStatus' = [requestStatus EXCEPT ![r] = to]
        BY <2>3 DEF Request!Issue, Request!Refuse, Request!Answer, Request!Move
      <3>2. id # r
        BY <2>1, <3>1
      <3>3. QED
        BY <2>2, <3>1, <3>2
    <2>4. ASSUME NEW S \in SUBSET Transfers, Request!Abandon(S)
          PROVE  requestStatus'[id] = requestStatus[id]
      <3>1. id \notin S
        BY <2>1, <2>4 DEF Request!Abandon
      <3>2. QED
        BY <2>4, <3>1 DEF Request!Abandon
    <2>5. QED
      BY <1>1, <2>3, <2>4 DEF Request!Next
  <1>2. [Request!Next]_requestStatus =>
          [\A r \in Transfers : requestStatus[r] \in {"answered", "refused", "abandoned"} =>
                                   requestStatus'[r] = requestStatus[r]]_requestStatus
    BY <1>1
  <1>3. QED
    BY <1>2, PTL DEF ImplementsRequest, Request!Spec, Request!OutcomeIsFinal
=============================================================================
