------------------------ MODULE SerialManagerProofs ------------------------
(***************************************************************************)
(* Proofs about the serial port service, for any number of ports, client   *)
(* processes and IPC threads.                                              *)
(***************************************************************************)
EXTENDS SerialManager, TLAPS

(* A handler past its first step carries a complete call record.           *)
LEMMA BusyIsCall ==
  ASSUME TypeOK, NEW t \in Threads, call[t].pc # "idle"
  PROVE  /\ call[t] \in Calls
         /\ call[t].port \in Ports
         /\ call[t].proc \in Procs
         /\ call[t].op \in IoOps \union {"open", "close", "dump"}
  <1>1. call[t] \in Calls \union {Idle}
    BY DEF TypeOK
  <1>2. call[t] # Idle
    BY DEF Idle
  <1>3. QED
    BY <1>1, <1>2 DEF Calls

(* Moving on, returning and entering keep the thread table well typed.     *)
LEMMA CallUpdates ==
  ASSUME TypeOK, NEW t \in Threads
  PROVE  /\ \A pc \in Pcs :
              (call[t].pc # "idle" /\ Goto(t, pc)) =>
                 /\ call' \in [Threads -> Calls \union {Idle}]
                 /\ call'[t] = [call[t] EXCEPT !.pc = pc]
                 /\ \A u \in Threads \ {t} : call'[u] = call[u]
         /\ Return(t) => /\ call' \in [Threads -> Calls \union {Idle}]
                         /\ call'[t] = Idle
                         /\ \A u \in Threads \ {t} : call'[u] = call[u]
         /\ \A c \in Calls :
              Enter(t, c) => /\ call' \in [Threads -> Calls \union {Idle}]
                             /\ call'[t] = c
                             /\ \A u \in Threads \ {t} : call'[u] = call[u]
  <1>1. ASSUME NEW pc \in Pcs, call[t].pc # "idle", Goto(t, pc)
        PROVE  /\ call' \in [Threads -> Calls \union {Idle}]
               /\ call'[t] = [call[t] EXCEPT !.pc = pc]
               /\ \A u \in Threads \ {t} : call'[u] = call[u]
    <2>1. call[t] \in Calls
      BY <1>1, BusyIsCall
    <2>2. [call[t] EXCEPT !.pc = pc] \in Calls
      BY <2>1 DEF Calls
    <2>3. QED
      BY <1>1, <2>2 DEF Goto, TypeOK
  <1>2. ASSUME Return(t)
        PROVE  /\ call' \in [Threads -> Calls \union {Idle}]
               /\ call'[t] = Idle
               /\ \A u \in Threads \ {t} : call'[u] = call[u]
    BY <1>2 DEF Return, TypeOK
  <1>3. ASSUME NEW c \in Calls, Enter(t, c)
        PROVE  /\ call' \in [Threads -> Calls \union {Idle}]
               /\ call'[t] = c
               /\ \A u \in Threads \ {t} : call'[u] = call[u]
    BY <1>3 DEF Enter, TypeOK
  <1>4. QED
    BY <1>1, <1>2, <1>3

-----------------------------------------------------------------------------
(* Type correctness.                                                       *)

(* No port is owned or open and no handler runs.                           *)
LEMMA InitType == Init => TypeOK
  BY SerialAssumption DEF Init, TypeOK, Idle, AuditedOps

(* A client's call enters a handler with a complete record.                *)
LEMMA ClientCallType ==
  ASSUME TypeOK, NEW t \in Threads, NEW p \in Ports, ClientCall(t, p)
  PROVE  TypeOK'
  <1>1. CASE SerialGetAttributeDump(t, p)
    <2>1. Busy("open", "dump", Dumper, p) \in Calls
      BY SerialAssumption DEF Busy, Calls, Pcs
    <2>2. call' \in [Threads -> Calls \union {Idle}]
      BY <1>1, <2>1, CallUpdates DEF SerialGetAttributeDump
    <2>3. QED
      BY <1>1, <2>2 DEF SerialGetAttributeDump, TypeOK, clientVars, openVars, auditVars, historyVars
  <1>2. ASSUME NEW q \in Procs, OpenCall(t, q, p)
        PROVE  TypeOK'
    <2>1. Busy("open", "open", q, p) \in Calls
      BY DEF Busy, Calls, Pcs
    <2>2. call' \in [Threads -> Calls \union {Idle}]
      BY <1>2, <2>1, CallUpdates DEF OpenCall
    <2>3. links' \in [Procs \X Ports -> 0 .. MaxLinks]
      <3>1. links[<<q, p>>] \in 0 .. MaxLinks /\ links[<<q, p>>] < MaxLinks
        BY <1>2 DEF TypeOK, OpenCall
      <3>2. links[<<q, p>>] + 1 \in 0 .. MaxLinks
        BY <3>1, SerialAssumption
      <3>3. QED
        BY <1>2, <3>2 DEF TypeOK, OpenCall
    <2>4. QED
      BY <1>2, <2>2, <2>3 DEF OpenCall, TypeOK, openVars, auditVars, historyVars
  <1>3. ASSUME NEW q \in Procs, CloseCall(t, q, p)
        PROVE  TypeOK'
    <2>1. Busy("close", "close", q, p) \in Calls
      BY DEF Busy, Calls, Pcs
    <2>2. call' \in [Threads -> Calls \union {Idle}]
      BY <1>3, <2>1, CallUpdates DEF CloseCall
    <2>3. QED
      BY <1>3, <2>2 DEF CloseCall, TypeOK, clientVars, openVars, auditVars, historyVars
  <1>4. ASSUME NEW q \in Procs, CancelSerialRight(t, q, p)
        PROVE  TypeOK'
    <2>1. Busy("check", "close", q, p) \in Calls
      BY DEF Busy, Calls, Pcs
    <2>2. call' \in [Threads -> Calls \union {Idle}]
      BY <1>4, <2>1, CallUpdates DEF CancelSerialRight
    <2>3. right' \subseteq Ports \X Tokens \X {"own", "default"}
      BY <1>4 DEF CancelSerialRight, TypeOK
    <2>4. QED
      BY <1>4, <2>2, <2>3 DEF CancelSerialRight, TypeOK, clientVars, openVars, auditVars, historyVars
  <1>5. ASSUME NEW q \in Procs, NEW o \in IoOps, IoCall(t, q, p, o)
        PROVE  TypeOK'
    <2>1. Busy("io", o, q, p) \in Calls
      BY DEF Busy, Calls, Pcs
    <2>2. call' \in [Threads -> Calls \union {Idle}]
      BY <1>5, <2>1, CallUpdates DEF IoCall
    <2>3. QED
      BY <1>5, <2>2 DEF IoCall, TypeOK, clientVars, openVars, auditVars, historyVars
  <1>6. QED
    BY <1>1, <1>2, <1>3, <1>4, <1>5 DEF ClientCall

(* Each step of a handler, of SerialOpen up to the audit record.           *)
LEMMA StepType ==
  ASSUME TypeOK, NEW t \in Threads, Step(t)
  PROVE  TypeOK'
  <1>1. CASE SerialOpen(t)
    <2>1. /\ call[t].port \in Ports
          /\ CallToken(t) \in Tokens
      BY <1>1, BusyIsCall, SerialAssumption DEF SerialOpen, CallToken
    <2>2. call' \in [Threads -> Calls \union {Idle}]
      BY <1>1, CallUpdates DEF SerialOpen, AfterOpen, Pcs
    <2>3. portTokenMap' \in [Ports -> Tokens \union {NoToken}]
      BY <1>1, <2>1 DEF SerialOpen, TypeOK
    <2>4. call[t].proc \in Procs
      BY <1>1, BusyIsCall DEF SerialOpen
    <2>5. /\ opener' \in [Ports -> Procs]
          /\ late' \subseteq Ports
          /\ endedBy' \in [Ports -> {"open", "close", "death", "stale"}]
          /\ hdiOpen' \subseteq Ports
      BY <1>1, <2>1, <2>4 DEF SerialOpen, TypeOK, openVars
    <2>6. QED
      BY <1>1, <2>2, <2>3, <2>5 DEF SerialOpen, TypeOK, clientVars, auditVars
  <1>2. CASE CloseCheck(t)
    <2>1. call' \in [Threads -> Calls \union {Idle}]
      BY <1>2, CallUpdates DEF CloseCheck, Pcs
    <2>2. QED
      BY <1>2, <2>1 DEF CloseCheck, TypeOK, clientVars, openVars, auditVars, historyVars
  <1>3. CASE CloseHdi(t)
    <2>1. call' \in [Threads -> Calls \union {Idle}]
      BY <1>3, CallUpdates DEF CloseHdi, Pcs
    <2>2. QED
      BY <1>3, <2>1 DEF CloseHdi, TypeOK, clientVars, openVars, auditVars, historyVars
  <1>4. CASE ResetFirst(t)
    <2>1. call' \in [Threads -> Calls \union {Idle}]
      BY <1>4, CallUpdates DEF ResetFirst, Pcs
    <2>2. QED
      BY <1>4, <2>1 DEF ResetFirst, TypeOK, clientVars, openVars, auditVars, historyVars
  <1>5. CASE CloseErase(t)
    <2>1. call' \in [Threads -> Calls \union {Idle}]
      BY <1>5, CallUpdates DEF CloseErase
    <2>2. call[t].port \in Ports /\ Outdated(call[t].port) \subseteq Threads
      BY <1>5, BusyIsCall DEF CloseErase, Outdated
    <2>3. /\ portTokenMap' \in [Ports -> Tokens \union {NoToken}]
          /\ endedBy' \in [Ports -> {"open", "close", "death", "stale"}]
          /\ opener' \in [Ports -> Procs] /\ late' \subseteq Ports
          /\ reported' \in [AuditedOps -> SUBSET Ports]
          /\ stale' \subseteq Threads
      BY <1>5, <2>2, SerialAssumption DEF CloseErase, EndSession, TypeOK
    <2>4. QED
      BY <1>5, <2>1, <2>3 DEF CloseErase, TypeOK, clientVars
  <1>6. CASE IoHdi(t)
    <2>1. call' \in [Threads -> Calls \union {Idle}]
      BY <1>6, CallUpdates DEF IoHdi, Pcs
    <2>2. QED
      BY <1>6, <2>1 DEF IoHdi, TypeOK, clientVars, openVars, auditVars, historyVars
  <1>7. CASE QueryAndRecordFirst(t)
    <2>1. call[t].port \in Ports
      BY <1>7, BusyIsCall DEF QueryAndRecordFirst
    <2>2. call' \in [Threads -> Calls \union {Idle}]
      BY <1>7, CallUpdates DEF QueryAndRecordFirst
    <2>3. /\ portsHasBeen' \in [AuditedOps -> SUBSET Ports]
          /\ reported' \in [AuditedOps -> SUBSET Ports]
          /\ leftover' \in [AuditedOps -> SUBSET Ports]
      BY <1>7, <2>1 DEF QueryAndRecordFirst, TypeOK
    <2>4. QED
      BY <1>7, <2>2, <2>3 DEF QueryAndRecordFirst, TypeOK, clientVars, openVars
  <1>8. QED
    BY <1>1, <1>2, <1>3, <1>4, <1>5, <1>6, <1>7 DEF Step

(* OnRemoteDied takes one recipient off and frees the port.                *)
LEMMA DeathType ==
  ASSUME TypeOK, NEW q \in Procs, NEW p \in Ports, OnRemoteDied(q, p)
  PROVE  TypeOK'
  <1>1. links' \in [Procs \X Ports -> 0 .. MaxLinks]
    <2>1. links[<<q, p>>] \in 0 .. MaxLinks /\ links[<<q, p>>] > 0
      BY DEF TypeOK, OnRemoteDied
    <2>2. links[<<q, p>>] - 1 \in 0 .. MaxLinks
      BY <2>1, SerialAssumption
    <2>3. QED
      BY <2>2 DEF TypeOK, OnRemoteDied
  <1>2. /\ hdiOpen' \subseteq Ports
        /\ portTokenMap' \in [Ports -> Tokens \union {NoToken}]
        /\ endedBy' \in [Ports -> {"open", "close", "death", "stale"}]
        /\ opener' \in [Ports -> Procs] /\ late' \subseteq Ports
    BY SerialAssumption
       DEF OnRemoteDied, FreeTokenId, EndSession, historyVars, openVars, TypeOK
  <1>3. /\ reported' \in [AuditedOps -> SUBSET Ports]
        /\ leftover' \in [AuditedOps -> SUBSET Ports]
        /\ stale' \subseteq Threads
    BY DEF OnRemoteDied, FreeTokenId, EndSession, historyVars, auditVars,
           Outdated, TypeOK
  <1>4. QED
    BY <1>1, <1>2, <1>3 DEF OnRemoteDied, TypeOK

(* Every step keeps the type.                                              *)
LEMMA NextType == TypeOK /\ [Next]_vars => TypeOK'
  <1> SUFFICES ASSUME TypeOK, [Next]_vars PROVE TypeOK'
    OBVIOUS
  <1>1. CASE SerialGetPortList
    BY <1>1 DEF SerialGetPortList, TypeOK, clientVars, openVars, auditVars, historyVars
  <1>2. ASSUME NEW p \in Ports, NEW tok \in Tokens \ SystemTokens,
               NEW k \in {"own", "default"}, AddSerialRight(p, tok, k)
        PROVE  TypeOK'
    <2>1. right' \subseteq Ports \X Tokens \X {"own", "default"}
      BY <1>2 DEF AddSerialRight, TypeOK
    <2>2. QED
      BY <1>2, <2>1 DEF AddSerialRight, TypeOK, clientVars, openVars, auditVars, historyVars
  <1>3. ASSUME NEW t \in Threads, NEW p \in Ports, ClientCall(t, p)
        PROVE  TypeOK'
    BY <1>3, ClientCallType
  <1>4. ASSUME NEW t \in Threads, Step(t)
        PROVE  TypeOK'
    BY <1>4, StepType
  <1>5. ASSUME NEW q \in Procs, Die(q)
        PROVE  TypeOK'
    BY <1>5 DEF Die, TypeOK, openVars, auditVars, historyVars
  <1>6. ASSUME NEW q \in Procs, NEW p \in Ports, OnRemoteDied(q, p)
        PROVE  TypeOK'
    BY <1>6, DeathType
  <1>7. CASE UNCHANGED vars
    BY <1>7 DEF vars, TypeOK
  <1>8. QED
    BY <1>1, <1>2, <1>3, <1>4, <1>5, <1>6, <1>7 DEF Next

(* Every reachable state of the serial port service is well typed.         *)
THEOREM TypeCorrect == Spec => []TypeOK
  <1>1. QED
    BY InitType, NextType, PTL DEF Spec

-----------------------------------------------------------------------------
(* EntryBacked, with no assumption on how clients overlap their calls.     *)

(* Steps that leave the owners alone, close nothing in the driver and take *)
(* no thread out of the end of SerialClose.                                *)
LEMMA BackedFrame ==
  ASSUME EntryBacked,
         portTokenMap' = portTokenMap,
         hdiOpen \subseteq hdiOpen',
         \A t \in Threads : call[t].pc \in {"reset", "erase"} =>
            /\ call'[t].pc \in {"reset", "erase"}
            /\ call'[t].port = call[t].port
  PROVE  EntryBacked'
  BY DEF EntryBacked

(* A call that begins touches no owner and no driver handle.               *)
LEMMA BackedClientCall ==
  ASSUME TypeOK, EntryBacked, NEW t \in Threads, NEW p \in Ports,
         ClientCall(t, p)
  PROVE  EntryBacked'
  <1>1. /\ portTokenMap' = portTokenMap
        /\ hdiOpen' = hdiOpen
        /\ call[t].pc = "idle"
    BY DEF ClientCall, SerialGetAttributeDump, OpenCall, CloseCall,
           CancelSerialRight, IoCall, MayCall, Working
  <1>2. \A u \in Threads \ {t} : call'[u] = call[u]
    BY DEF ClientCall, SerialGetAttributeDump, OpenCall, CloseCall,
           CancelSerialRight, IoCall, Enter, TypeOK
  <1>3. QED
    BY <1>1, <1>2, BackedFrame

(* A handler records an owner only after the driver has opened the port,   *)
(* and closes it only under an entry it is going to erase.                 *)
LEMMA BackedStep ==
  ASSUME TypeOK, EntryBacked, NEW t \in Threads, Step(t)
  PROVE  EntryBacked'
  <1>1. CASE SerialOpen(t)
    <2>1. /\ call[t].pc = "open"
          /\ \A u \in Threads \ {t} : call'[u] = call[u]
      BY <1>1, CallUpdates DEF SerialOpen, AfterOpen, Pcs
    <2>2. CASE portTokenMap' = portTokenMap /\ hdiOpen' = hdiOpen
      BY <2>1, <2>2, BackedFrame
    <2>3. CASE /\ hdiOpen' = hdiOpen \union {call[t].port}
               /\ portTokenMap' = [portTokenMap EXCEPT
                                     ![call[t].port] = CallToken(t)]
      BY <2>1, <2>3 DEF EntryBacked, TypeOK
    <2>4. QED
      BY <1>1, <2>2, <2>3 DEF SerialOpen
  <1>2. CASE CloseCheck(t)
    BY <1>2, CallUpdates, BackedFrame DEF CloseCheck, Pcs
  <1>3. CASE CloseHdi(t)
    <2>1. CASE /\ hdiOpen' = hdiOpen \ {call[t].port}
               /\ Goto(t, "reset")
      <3>1. /\ call'[t].pc = "reset"
            /\ call'[t].port = call[t].port
            /\ \A u \in Threads \ {t} : call'[u] = call[u]
        <4>1. call[t] \in Calls
          BY <1>3, BusyIsCall DEF CloseHdi
        <4>2. /\ call'[t] = [call[t] EXCEPT !.pc = "reset"]
              /\ \A u \in Threads \ {t} : call'[u] = call[u]
          BY <1>3, <2>1, CallUpdates DEF CloseHdi, Pcs
        <4>3. QED
          BY <4>1, <4>2 DEF Calls
      <3>2. portTokenMap' = portTokenMap
        BY <1>3 DEF CloseHdi
      <3>3. QED
        BY <1>3, <2>1, <3>1, <3>2 DEF EntryBacked, CloseHdi
    <2>2. CASE Return(t) /\ UNCHANGED hdiOpen
      BY <1>3, <2>2, CallUpdates, BackedFrame DEF CloseHdi
    <2>3. QED
      BY <1>3, <2>1, <2>2 DEF CloseHdi
  <1>4. CASE ResetFirst(t)
    <2>1. call[t] \in Calls
      BY <1>4, BusyIsCall DEF ResetFirst
    <2>2. /\ call'[t] = [call[t] EXCEPT !.pc = "erase"]
          /\ \A u \in Threads \ {t} : call'[u] = call[u]
      BY <1>4, CallUpdates DEF ResetFirst, Pcs
    <2>3. call'[t].pc = "erase" /\ call'[t].port = call[t].port
      BY <2>1, <2>2 DEF Calls
    <2>4. QED
      BY <1>4, <2>2, <2>3, BackedFrame DEF ResetFirst
  <1>5. CASE CloseErase(t)
    <2>1. \A u \in Threads \ {t} : call'[u] = call[u]
      BY <1>5, CallUpdates DEF CloseErase
    <2>2. call[t].port \in Ports
      BY <1>5, BusyIsCall DEF CloseErase
    <2>3. QED
      BY <1>5, <2>1, <2>2 DEF CloseErase, EndSession, EntryBacked, TypeOK
  <1>6. CASE IoHdi(t)
    BY <1>6, CallUpdates, BackedFrame DEF IoHdi, Pcs
  <1>7. CASE QueryAndRecordFirst(t)
    BY <1>7, CallUpdates, BackedFrame DEF QueryAndRecordFirst
  <1>8. QED
    BY <1>1, <1>2, <1>3, <1>4, <1>5, <1>6, <1>7 DEF Step

(* Every step keeps a recorded owner backed by an open port.               *)
LEMMA BackedNext == TypeOK /\ EntryBacked /\ [Next]_vars => EntryBacked'
  <1> SUFFICES ASSUME TypeOK, EntryBacked, [Next]_vars PROVE EntryBacked'
    OBVIOUS
  <1>1. CASE SerialGetPortList
    BY <1>1, BackedFrame DEF SerialGetPortList
  <1>2. ASSUME NEW p \in Ports, NEW tok \in Tokens \ SystemTokens,
               NEW k \in {"own", "default"}, AddSerialRight(p, tok, k)
        PROVE  EntryBacked'
    BY <1>2, BackedFrame DEF AddSerialRight
  <1>3. ASSUME NEW t \in Threads, NEW p \in Ports, ClientCall(t, p)
        PROVE  EntryBacked'
    BY <1>3, BackedClientCall
  <1>4. ASSUME NEW t \in Threads, Step(t)
        PROVE  EntryBacked'
    BY <1>4, BackedStep
  <1>5. ASSUME NEW q \in Procs, Die(q)
        PROVE  EntryBacked'
    BY <1>5, BackedFrame DEF Die
  <1>6. ASSUME NEW q \in Procs, NEW p \in Ports, OnRemoteDied(q, p)
        PROVE  EntryBacked'
    BY <1>6 DEF OnRemoteDied, FreeTokenId, EndSession, EntryBacked, TypeOK
  <1>7. CASE UNCHANGED vars
    BY <1>7, BackedFrame DEF vars
  <1>8. QED
    BY <1>1, <1>2, <1>3, <1>4, <1>5, <1>6, <1>7 DEF Next

(* However the handlers of any number of clients overlap, an owner entry   *)
(* is backed by a port open in the driver or is about to be erased.        *)
THEOREM EntryAlwaysBacked == Spec => []EntryBacked
  <1>1. Init => EntryBacked
    BY DEF Init, EntryBacked
  <1>2. QED
    BY <1>1, InitType, NextType, BackedNext, PTL DEF Spec

-----------------------------------------------------------------------------
(* Stale calls, leaks, audit records and death recipients, with no         *)
(* assumption on how clients overlap their calls and when they die.        *)

(* What Goto leaves of a call record.                                      *)
LEMMA GotoFields ==
  ASSUME TypeOK, NEW t \in Threads, call[t].pc # "idle",
         NEW pc \in Pcs, Goto(t, pc)
  PROVE  /\ call'[t].pc = pc
         /\ call'[t].port = call[t].port
         /\ call'[t].proc = call[t].proc
         /\ call'[t].op = call[t].op
         /\ \A u \in Threads \ {t} : call'[u] = call[u]
  <1>1. call[t] \in Calls
    BY BusyIsCall
  <1>2. /\ call'[t] = [call[t] EXCEPT !.pc = pc]
        /\ \A u \in Threads \ {t} : call'[u] = call[u]
    BY CallUpdates
  <1>3. QED
    BY <1>1, <1>2 DEF Calls

(* What a return leaves of the thread table.                               *)
LEMMA ReturnFields ==
  ASSUME TypeOK, NEW t \in Threads, Return(t)
  PROVE  /\ call'[t].pc = "idle"
         /\ \A u \in Threads \ {t} : call'[u] = call[u]
  BY CallUpdates DEF Idle

(* What every client call does to the state the properties speak about.    *)
EntersWith(t, p, q, c) ==
  /\ MayCall(t, q)
  /\ Enter(t, c)
  /\ c.proc = q
  /\ c.port = p
  /\ c.pc \in {"open", "check", "close", "io"}
  /\ c.pc \in {"close", "io"} => portTokenMap[p] = TokenOf[q]
  /\ c.pc = "open" => q = Dumper \/ links'[<<q, p>>] > 0
  /\ \A x \in Procs \X Ports : links[x] > 0 => links'[x] > 0
  /\ UNCHANGED <<portTokenMap, portsHasBeen, hdiOpen, alive, historyVars>>

(* What a call record is made of.                                          *)
LEMMA BusyFields ==
  ASSUME NEW pc \in Pcs, NEW o \in IoOps \union {"open", "close", "dump"},
         NEW q \in Procs, NEW p \in Ports
  PROVE  /\ Busy(pc, o, q, p) \in Calls
         /\ Busy(pc, o, q, p).pc = pc
         /\ Busy(pc, o, q, p).op = o
         /\ Busy(pc, o, q, p).proc = q
         /\ Busy(pc, o, q, p).port = p
  BY DEF Busy, Calls

(* Every call of a client is an entry of a free thread.                    *)
LEMMA ClientCallEnters ==
  ASSUME TypeOK, NEW t \in Threads, NEW p \in Ports, ClientCall(t, p)
  PROVE  \E q \in Procs, c \in Calls : EntersWith(t, p, q, c)
  <1>1. CASE SerialGetAttributeDump(t, p)
    <2>1. EntersWith(t, p, Dumper, Busy("open", "dump", Dumper, p))
      BY <1>1, BusyFields, SerialAssumption
         DEF SerialGetAttributeDump, EntersWith, Pcs, clientVars
    <2>2. QED
      BY <2>1, BusyFields, SerialAssumption DEF Pcs
  <1>2. ASSUME NEW q \in Procs, OpenCall(t, q, p)
        PROVE  \E c \in Calls : EntersWith(t, p, q, c)
    <2>1. /\ links'[<<q, p>>] > 0
          /\ \A x \in Procs \X Ports : links[x] > 0 => links'[x] > 0
      <3>1. /\ links \in [Procs \X Ports -> 0 .. MaxLinks] /\ MaxLinks \in Nat
            /\ <<q, p>> \in Procs \X Ports
            /\ links' = [links EXCEPT ![<<q, p>>] = links[<<q, p>>] + 1]
        BY <1>2, SerialAssumption DEF TypeOK, OpenCall
      <3>2. \A x \in Procs \X Ports : links[x] \in Nat
        BY <3>1
      <3>3. QED
        BY <3>1, <3>2
    <2>2. EntersWith(t, p, q, Busy("open", "open", q, p))
      BY <1>2, <2>1, BusyFields DEF OpenCall, EntersWith, Pcs
    <2>3. QED
      BY <2>2, BusyFields DEF Pcs
  <1>3. ASSUME NEW q \in Procs, CloseCall(t, q, p)
        PROVE  \E c \in Calls : EntersWith(t, p, q, c)
    <2>1. EntersWith(t, p, q, Busy("close", "close", q, p))
      BY <1>3, BusyFields DEF CloseCall, EntersWith, CheckPortAndTokenId, Pcs,
                              clientVars
    <2>2. QED
      BY <2>1, BusyFields DEF Pcs
  <1>4. ASSUME NEW q \in Procs, CancelSerialRight(t, q, p)
        PROVE  \E c \in Calls : EntersWith(t, p, q, c)
    <2>1. EntersWith(t, p, q, Busy("check", "close", q, p))
      BY <1>4, BusyFields DEF CancelSerialRight, EntersWith, Pcs, clientVars
    <2>2. QED
      BY <2>1, BusyFields DEF Pcs
  <1>5. ASSUME NEW q \in Procs, NEW o \in IoOps, IoCall(t, q, p, o)
        PROVE  \E c \in Calls : EntersWith(t, p, q, c)
    <2>1. EntersWith(t, p, q, Busy("io", o, q, p))
      BY <1>5, BusyFields DEF IoCall, EntersWith, CheckPortAndTokenId, Pcs,
                              clientVars
    <2>2. QED
      BY <2>1, BusyFields DEF Pcs
  <1>6. QED
    BY <1>1, <1>2, <1>3, <1>4, <1>5, SerialAssumption DEF ClientCall

(* A new call is not stale and owns what it has checked.                   *)
LEMMA SerialInvClientCall ==
  ASSUME SerialInv, NEW t \in Threads, NEW p \in Ports, ClientCall(t, p)
  PROVE  SerialInv'
  <1>1. TypeOK /\ TypeOK'
    BY ClientCallType DEF SerialInv
  <1>2. PICK q \in Procs, c \in Calls : EntersWith(t, p, q, c)
    BY <1>1, ClientCallEnters
  <1>3. /\ call'[t] = c
        /\ \A u \in Threads \ {t} : call'[u] = call[u]
    BY <1>1, <1>2, CallUpdates DEF EntersWith
  <1>4. UNCHANGED <<portTokenMap, portsHasBeen, hdiOpen, alive, opener, late,
                    endedBy, stale, leftover, reported>>
    BY <1>2 DEF EntersWith, historyVars, openVars, auditVars
  <1>5. CallerOwns'
    <2>1. ~PastCheck(t) /\ t \notin stale
      BY <1>2 DEF EntersWith, MayCall, Working, PastCheck, SerialInv, CallerOwns
    <2>2. QED
      BY <1>2, <1>3, <1>4, <2>1
         DEF EntersWith, CallerOwns, PastCheck, SerialInv, CallToken
  <1>6. ClosedInDriver' /\ ResetBeforeErase'
    BY <1>2, <1>3, <1>4
       DEF EntersWith, ClosedInDriver, ResetBeforeErase, SerialInv
  <1>7. NoOrphanByClose' /\ FirstUseInSession' /\ AuditNotSilenced'
    BY <1>4 DEF NoOrphanByClose, FirstUseInSession, AuditNotSilenced, SerialInv
  <1>8. OpenerLinked'
    <2>1. \A x \in Procs, y \in Ports :
             links[<<x, y>>] > 0 => links'[<<x, y>>] > 0
      BY <1>2 DEF EntersWith
    <2>2. \A y \in Ports : opener[y] \in Procs
      BY <1>1 DEF TypeOK
    <2>3. \A u \in Threads : call[u].pc = "open" =>
             call[u].proc \in Procs /\ call[u].port \in Ports
      BY <1>1, BusyIsCall
    <2>4. c.pc = "open" => q = Dumper \/ links'[<<q, p>>] > 0
      BY <1>2 DEF EntersWith
    <2>5. c.proc = q /\ c.port = p
      BY <1>2 DEF EntersWith
    <2>6. QED
      BY <1>3, <1>4, <2>1, <2>2, <2>3, <2>4, <2>5 DEF OpenerLinked, SerialInv
  <1>9. DeadOwnerWatched'
    <2>1. \A y \in Ports : links[<<opener[y], y>>] > 0 => links'[<<opener[y], y>>] > 0
      BY <1>1, <1>2 DEF EntersWith, TypeOK
    <2>2. QED
      BY <1>4, <2>1 DEF DeadOwnerWatched, SerialInv
  <1>10. QED
    BY <1>1, <1>4, <1>5, <1>6, <1>7, <1>8, <1>9 DEF SerialInv

(* Steps that leave owners, histories and recipients alone and move one    *)
(* thread on, or end its call.                                             *)
LEMMA SerialInvMove ==
  ASSUME SerialInv, TypeOK', NEW t \in Threads, call[t].pc # "idle",
         UNCHANGED <<portTokenMap, portsHasBeen, hdiOpen, alive, links, opener,
                     late, endedBy, leftover, reported>>,
         \A u \in Threads \ {t} : call'[u] = call[u],
         \/ call'[t].pc = "idle" /\ stale' = stale \ {t}
         \/ /\ call'[t].pc \in {"check", "close", "record"}
            /\ call'[t].port = call[t].port
            /\ call'[t].proc = call[t].proc
            /\ stale' = stale
            /\ call'[t].pc = "check" => ~PastCheck(t)
            /\ call'[t].pc = "close" => portTokenMap[call[t].port] = CallToken(t)
            /\ call'[t].pc = "record" => PastCheck(t)
  PROVE  SerialInv'
  <1>1. CallerOwns'
    BY DEF SerialInv, CallerOwns, PastCheck, CallToken
  <1>2. ClosedInDriver' /\ ResetBeforeErase'
    BY DEF SerialInv, ClosedInDriver, ResetBeforeErase
  <1>3. NoOrphanByClose' /\ FirstUseInSession' /\ AuditNotSilenced'
    BY DEF SerialInv, NoOrphanByClose, FirstUseInSession, AuditNotSilenced
  <1>4. OpenerLinked' /\ DeadOwnerWatched'
    BY DEF SerialInv, OpenerLinked, DeadOwnerWatched
  <1>5. QED
    BY <1>1, <1>2, <1>3, <1>4 DEF SerialInv

(* A session begins with nobody past a check that holds, and its opener's  *)
(* recipient is registered or has already fired.                           *)
LEMMA SerialInvOpen ==
  ASSUME SerialInv, NEW t \in Threads, SerialOpen(t)
  PROVE  SerialInv'
  <1>1. TypeOK /\ TypeOK'
    BY StepType DEF SerialInv, Step
  <1>2. /\ call[t].pc = "open"
        /\ call[t].port \in Ports
        /\ call[t].proc \in Procs
        /\ CallToken(t) \in Tokens /\ CallToken(t) # NoToken
    BY <1>1, BusyIsCall, SerialAssumption DEF SerialOpen, CallToken
  <1>3. /\ \/ call'[t].pc = "idle"
           \/ /\ call'[t].pc = "check"
              /\ call'[t].proc = call[t].proc
              /\ call'[t].port = call[t].port
        /\ \A u \in Threads \ {t} : call'[u] = call[u]
    <2>1. CASE Return(t)
      BY <1>1, <2>1, ReturnFields
    <2>2. CASE Goto(t, "check")
      BY <1>1, <1>2, <2>2, GotoFields DEF Pcs
    <2>3. QED
      BY <2>1, <2>2 DEF SerialOpen, AfterOpen
  <1>4. /\ UNCHANGED <<portsHasBeen, alive, links, stale, leftover, reported>>
        /\ t \notin stale
    BY <1>2 DEF SerialOpen, clientVars, auditVars, SerialInv, CallerOwns, PastCheck
  <1>5. CASE UNCHANGED <<portTokenMap, hdiOpen, openVars, endedBy>>
    <2>1. stale' = stale \ {t}
      BY <1>4
    <2>2. QED
      BY <1>1, <1>2, <1>3, <1>4, <1>5, <2>1, SerialInvMove DEF openVars, PastCheck
  <1>6. CASE /\ portTokenMap[call[t].port] = NoToken
             /\ hdiOpen' = hdiOpen \union {call[t].port}
             /\ portTokenMap' = [portTokenMap EXCEPT ![call[t].port] = CallToken(t)]
             /\ opener' = [opener EXCEPT ![call[t].port] = call[t].proc]
             /\ late' = IF \/ call[t].proc \in alive
                           \/ links[<<call[t].proc, call[t].port>>] > 0
                        THEN late \ {call[t].port}
                        ELSE late \union {call[t].port}
             /\ endedBy' = [endedBy EXCEPT ![call[t].port] = "open"]
    <2> DEFINE p == call[t].port
    <2>1. \A u \in Threads \ stale : PastCheck(u) => call[u].port # p
      <3>1. ASSUME NEW u \in Threads \ stale, PastCheck(u)
            PROVE  portTokenMap[call[u].port] # NoToken
        <4>1. call[u].proc \in Procs
          BY <1>1, <3>1, BusyIsCall DEF PastCheck
        <4>2. portTokenMap[call[u].port] = TokenOf[call[u].proc]
          BY <3>1 DEF SerialInv, CallerOwns, CallToken
        <4>3. QED
          BY <4>1, <4>2, SerialAssumption
      <3>2. QED
        BY <1>6, <3>1
    <2>2. \A u \in Threads : PastCheck(u)' => u # t /\ call'[u] = call[u] /\ PastCheck(u)
      BY <1>3 DEF PastCheck
    <2>3. CallerOwns'
      <3>1. \A u \in Threads : u \in stale' => PastCheck(u)'
        BY <1>3, <1>4 DEF SerialInv, CallerOwns, PastCheck
      <3>2. ASSUME NEW u \in Threads, PastCheck(u)', u \notin stale'
            PROVE  portTokenMap'[call'[u].port] = TokenOf[call'[u].proc]
        <4>1. u \notin stale /\ PastCheck(u) /\ call'[u] = call[u]
          BY <1>4, <2>2, <3>2
        <4>2. call[u].port \in Ports /\ call[u].port # p
          BY <1>1, <2>1, <4>1, BusyIsCall DEF PastCheck
        <4>3. portTokenMap[call[u].port] = TokenOf[call[u].proc]
          BY <4>1 DEF SerialInv, CallerOwns, CallToken
        <4>4. QED
          BY <1>1, <1>6, <4>1, <4>2, <4>3 DEF TypeOK
      <3>3. QED
        BY <3>1, <3>2 DEF CallerOwns, CallToken
    <2>4. ClosedInDriver'
      <3>1. ASSUME NEW u \in Threads, call'[u].pc \in {"reset", "erase"},
                   u \notin stale'
            PROVE  call'[u].port \notin hdiOpen'
        <4>1. u \notin stale /\ PastCheck(u) /\ call'[u] = call[u]
          BY <1>4, <2>2, <3>1 DEF PastCheck
        <4>2. QED
          BY <1>6, <2>1, <3>1, <4>1 DEF SerialInv, ClosedInDriver
      <3>2. QED
        BY <3>1 DEF ClosedInDriver
    <2>5. ResetBeforeErase' /\ AuditNotSilenced'
      BY <1>3, <1>4 DEF SerialInv, ResetBeforeErase, AuditNotSilenced
    <2>6. NoOrphanByClose'
      BY <1>1, <1>2, <1>6 DEF SerialInv, NoOrphanByClose, TypeOK
    <2>7. FirstUseInSession'
      BY <1>1, <1>2, <1>4, <1>6 DEF SerialInv, FirstUseInSession, TypeOK
    <2>8. OpenerLinked'
      <3>1. ASSUME NEW y \in Ports, portTokenMap'[y] # NoToken
            PROVE  /\ portTokenMap'[y] = TokenOf[opener'[y]]
                   /\ opener'[y] \in alive' \ {Dumper} => links'[<<opener'[y], y>>] > 0
        <4>1. CASE y = p
          <5>1. portTokenMap'[p] = CallToken(t) /\ opener'[p] = call[t].proc
            BY <1>1, <1>2, <1>6 DEF TypeOK
          <5>2. call[t].proc \in alive \ {Dumper} => links[<<call[t].proc, p>>] > 0
            BY <1>2 DEF SerialInv, OpenerLinked
          <5>3. QED
            BY <1>4, <4>1, <5>1, <5>2 DEF CallToken
        <4>2. CASE y # p
          <5>1. portTokenMap'[y] = portTokenMap[y] /\ opener'[y] = opener[y]
            BY <1>1, <1>6, <4>2 DEF TypeOK
          <5>2. QED
            BY <1>4, <3>1, <5>1 DEF SerialInv, OpenerLinked
        <4>3. QED
          BY <4>1, <4>2
      <3>2. ASSUME NEW u \in Threads, call'[u].pc = "open",
                   call'[u].proc \in alive' \ {Dumper}
            PROVE  links'[<<call'[u].proc, call'[u].port>>] > 0
        <4>1. call'[u] = call[u]
          BY <1>3, <3>2
        <4>2. QED
          BY <1>4, <3>2, <4>1 DEF SerialInv, OpenerLinked
      <3>3. QED
        BY <3>1, <3>2 DEF OpenerLinked
    <2>9. DeadOwnerWatched'
      <3>1. ASSUME NEW y \in Ports, portTokenMap'[y] # NoToken,
                   opener'[y] \notin alive'
            PROVE  links'[<<opener'[y], y>>] > 0 \/ y \in late'
        <4>1. CASE y = p
          <5>1. opener'[p] = call[t].proc
            BY <1>1, <1>2, <1>6 DEF TypeOK
          <5>2. QED
            BY <1>4, <1>6, <3>1, <4>1, <5>1
        <4>2. CASE y # p
          <5>1. portTokenMap'[y] = portTokenMap[y] /\ opener'[y] = opener[y]
            BY <1>1, <1>6, <4>2 DEF TypeOK
          <5>2. links[<<opener[y], y>>] > 0 \/ y \in late
            BY <1>4, <3>1, <5>1 DEF SerialInv, DeadOwnerWatched
          <5>3. QED
            BY <1>4, <1>6, <4>2, <5>1, <5>2
        <4>3. QED
          BY <4>1, <4>2
      <3>2. QED
        BY <3>1 DEF DeadOwnerWatched
    <2>10. QED
      BY <1>1, <1>4, <2>3, <2>4, <2>5, <2>6, <2>7, <2>8, <2>9 DEF SerialInv
  <1>7. QED
    BY <1>5, <1>6 DEF SerialOpen

(* What the end of a session does, whoever ends it.                        *)
LEMMA SessionEnds ==
  ASSUME SerialInv, TypeOK', NEW p \in Ports, NEW how \in {"close", "death", "stale"},
         EndSession(p, how),
         how = "close" => p \notin hdiOpen,
         hdiOpen' \subseteq hdiOpen,
         UNCHANGED <<portsHasBeen, alive>>,
         \A o \in AuditedOps : leftover[o] \subseteq leftover'[o],
         \A o \in AuditedOps : p \in portsHasBeen[o] => p \in leftover'[o],
         \A u \in Threads : u \in stale' => PastCheck(u)',
         \A u \in Threads : call'[u].pc = "idle" \/ call'[u] = call[u],
         \A u \in Threads : (PastCheck(u)' /\ u \notin stale') =>
                               u \notin stale /\ call[u].port # p,
         \A x \in Procs, y \in Ports :
            (y # p \/ x \in alive) => links'[<<x, y>>] = links[<<x, y>>]
  PROVE  SerialInv'
  <1>1. TypeOK
    BY DEF SerialInv
  <1>2. /\ portTokenMap' = [portTokenMap EXCEPT ![p] = NoToken]
        /\ endedBy' = [endedBy EXCEPT ![p] = how]
        /\ opener' = [opener EXCEPT ![p] = Dumper]
        /\ late' = late \ {p}
        /\ reported' = [o \in AuditedOps |-> reported[o] \ {p}]
    BY DEF EndSession
  <1>3. \A y \in Ports \ {p} : /\ portTokenMap'[y] = portTokenMap[y]
                               /\ endedBy'[y] = endedBy[y]
                               /\ opener'[y] = opener[y]
    BY <1>1, <1>2 DEF TypeOK
  <1>4. portTokenMap'[p] = NoToken /\ endedBy'[p] = how
    BY <1>1, <1>2 DEF TypeOK
  <1>5. CallerOwns'
    <2>1. ASSUME NEW u \in Threads, PastCheck(u)', u \notin stale'
          PROVE  portTokenMap'[call'[u].port] = TokenOf[call'[u].proc]
      <3>1. call'[u] = call[u] /\ u \notin stale /\ call[u].port # p /\ PastCheck(u)
        BY <2>1 DEF PastCheck
      <3>2. call[u].port \in Ports
        BY <1>1, <3>1, BusyIsCall DEF PastCheck
      <3>3. QED
        BY <1>3, <3>1, <3>2 DEF SerialInv, CallerOwns, CallToken
    <2>2. QED
      BY <2>1 DEF CallerOwns, CallToken
  <1>6. ClosedInDriver'
    <2>1. ASSUME NEW u \in Threads, call'[u].pc \in {"reset", "erase"}, u \notin stale'
          PROVE  call'[u].port \notin hdiOpen'
      <3>1. call'[u] = call[u] /\ PastCheck(u)'
        BY <2>1 DEF PastCheck
      <3>2. QED
        BY <2>1, <3>1 DEF SerialInv, ClosedInDriver
    <2>2. QED
      BY <2>1 DEF ClosedInDriver
  <1>7. ResetBeforeErase'
    BY DEF SerialInv, ResetBeforeErase
  <1>8. NoOrphanByClose'
    <2>1. \A y \in hdiOpen' : y \in Ports
      BY DEF TypeOK
    <2>2. QED
      BY <1>3, <1>4, <2>1 DEF SerialInv, NoOrphanByClose
  <1>9. FirstUseInSession' /\ AuditNotSilenced'
    <2>1. ASSUME NEW o \in AuditedOps, NEW y \in portsHasBeen'[o] \ leftover'[o]
          PROVE  portTokenMap'[y] # NoToken /\ y \in reported'[o]
      <3>1. y \in Ports /\ y # p /\ y \in portsHasBeen[o] \ leftover[o]
        BY <1>1, <2>1 DEF TypeOK
      <3>2. portTokenMap[y] # NoToken /\ y \in reported[o]
        BY <2>1, <3>1 DEF SerialInv, FirstUseInSession, AuditNotSilenced
      <3>3. QED
        BY <1>2, <1>3, <2>1, <3>1, <3>2
    <2>2. QED
      BY <2>1 DEF FirstUseInSession, AuditNotSilenced
  <1>10. OpenerLinked'
    <2>1. ASSUME NEW y \in Ports, portTokenMap'[y] # NoToken
          PROVE  /\ portTokenMap'[y] = TokenOf[opener'[y]]
                 /\ opener'[y] \in alive' \ {Dumper} => links'[<<opener'[y], y>>] > 0
      <3>1. y # p /\ opener[y] \in Procs
        BY <1>1, <1>4, <2>1 DEF TypeOK
      <3>2. QED
        BY <1>3, <2>1, <3>1 DEF SerialInv, OpenerLinked
    <2>2. ASSUME NEW u \in Threads, call'[u].pc = "open",
                 call'[u].proc \in alive' \ {Dumper}
          PROVE  links'[<<call'[u].proc, call'[u].port>>] > 0
      <3>1. call'[u] = call[u]
        BY <2>2
      <3>2. call[u].proc \in Procs /\ call[u].port \in Ports
        BY <1>1, <2>2, <3>1, BusyIsCall
      <3>3. links[<<call[u].proc, call[u].port>>] > 0
        BY <2>2, <3>1 DEF SerialInv, OpenerLinked
      <3>4. QED
        BY <2>2, <3>1, <3>2, <3>3
    <2>3. QED
      BY <2>1, <2>2 DEF OpenerLinked
  <1>11. DeadOwnerWatched'
    <2>1. ASSUME NEW y \in Ports, portTokenMap'[y] # NoToken, opener'[y] \notin alive'
          PROVE  links'[<<opener'[y], y>>] > 0 \/ y \in late'
      <3>1. y # p /\ opener[y] \in Procs
        BY <1>1, <1>4, <2>1 DEF TypeOK
      <3>2. links[<<opener[y], y>>] > 0 \/ y \in late
        BY <1>3, <2>1, <3>1 DEF SerialInv, DeadOwnerWatched
      <3>3. QED
        BY <1>2, <1>3, <2>1, <3>1, <3>2
    <2>2. QED
      BY <2>1 DEF DeadOwnerWatched
  <1>12. QED
    BY <1>5, <1>6, <1>7, <1>8, <1>9, <1>10, <1>11 DEF SerialInv

(* The erase of a SerialClose that is not stale ends its own session, and  *)
(* every other call past its check on the port is stale from then on.      *)
LEMMA SerialInvErase ==
  ASSUME SerialInv, NEW t \in Threads, CloseErase(t)
  PROVE  SerialInv'
  <1>1. TypeOK /\ TypeOK'
    BY StepType DEF SerialInv, Step
  <1>2. /\ call[t].pc = "erase" /\ call[t].port \in Ports
        /\ call'[t].pc = "idle"
        /\ \A u \in Threads \ {t} : call'[u] = call[u]
    BY <1>1, BusyIsCall, ReturnFields DEF CloseErase
  <1>3. /\ UNCHANGED <<portsHasBeen, hdiOpen, alive, links, leftover>>
        /\ stale' = (stale \union Outdated(call[t].port)) \ {t}
    BY DEF CloseErase, clientVars
  <1>4. \E how \in {"close", "stale"} :
           /\ EndSession(call[t].port, how)
           /\ how = "close" => t \notin stale
    BY DEF CloseErase
  <1>5. PICK how \in {"close", "stale"} :
           /\ EndSession(call[t].port, how)
           /\ how = "close" => t \notin stale
    BY <1>4
  <1>6. how = "close" => call[t].port \notin hdiOpen
    BY <1>2, <1>5 DEF SerialInv, ClosedInDriver
  <1>7. \A o \in AuditedOps : call[t].port \in portsHasBeen[o] => call[t].port \in leftover[o]
    BY <1>2 DEF SerialInv, ResetBeforeErase
  <1>8. \A u \in Threads : u \in stale' => PastCheck(u)'
    BY <1>2, <1>3 DEF Outdated, PastCheck, SerialInv, CallerOwns
  <1>9. \A u \in Threads : (PastCheck(u)' /\ u \notin stale') =>
                              u \notin stale /\ call[u].port # call[t].port
    BY <1>2, <1>3 DEF Outdated, PastCheck
  <1>10. \A u \in Threads : call'[u].pc = "idle" \/ call'[u] = call[u]
    BY <1>2
  <1>11. QED
    BY <1>1, <1>2, <1>3, <1>5, <1>6, <1>7, <1>8, <1>9, <1>10, SessionEnds

(* Each step of a handler keeps the invariant.                             *)
LEMMA SerialInvStep ==
  ASSUME SerialInv, NEW t \in Threads, Step(t)
  PROVE  SerialInv'
  <1>1. TypeOK /\ TypeOK'
    BY StepType DEF SerialInv
  <1>2. CASE SerialOpen(t)
    BY <1>2, SerialInvOpen
  <1>3. CASE CloseCheck(t)
    <2>1. /\ call[t].pc = "check" /\ t \notin stale
          /\ UNCHANGED <<portTokenMap, portsHasBeen, hdiOpen, alive, links, opener,
                         late, endedBy, stale, leftover, reported>>
      BY <1>3 DEF CloseCheck, clientVars, historyVars, openVars, auditVars,
                  SerialInv, CallerOwns, PastCheck
    <2>2. /\ \/ call'[t].pc = "idle"
             \/ /\ call'[t].pc = "close"
                /\ call'[t].proc = call[t].proc
                /\ call'[t].port = call[t].port
                /\ portTokenMap[call[t].port] = CallToken(t)
          /\ \A u \in Threads \ {t} : call'[u] = call[u]
      <3>1. CASE Return(t)
        BY <1>1, <3>1, ReturnFields
      <3>2. CASE Goto(t, "close") /\ portTokenMap[call[t].port] = CallToken(t)
        BY <1>1, <2>1, <3>2, GotoFields DEF Pcs
      <3>3. QED
        BY <1>3, <3>1, <3>2 DEF CloseCheck, CheckPortAndTokenId, CallToken
    <2>3. stale' = stale /\ stale' = stale \ {t}
      BY <2>1
    <2>4. QED
      BY <1>1, <2>1, <2>2, <2>3, SerialInvMove
  <1>4. CASE CloseHdi(t)
    <2>1. /\ call[t].pc = "close" /\ call[t].port \in Ports
          /\ UNCHANGED <<portTokenMap, portsHasBeen, alive, links, opener,
                         late, endedBy, leftover, reported>>
      BY <1>1, <1>4, BusyIsCall DEF CloseHdi, clientVars, openVars, auditVars
    <2>2. CASE /\ hdiOpen' = hdiOpen \ {call[t].port}
               /\ Goto(t, "reset")
               /\ UNCHANGED stale
      <3>1. /\ call'[t].pc = "reset"
            /\ call'[t].proc = call[t].proc
            /\ call'[t].port = call[t].port
            /\ \A u \in Threads \ {t} : call'[u] = call[u]
        BY <1>1, <2>1, <2>2, GotoFields DEF Pcs
      <3>2. CallerOwns' /\ ClosedInDriver'
        BY <2>1, <2>2, <3>1
           DEF SerialInv, CallerOwns, PastCheck, CallToken, ClosedInDriver
      <3>3. NoOrphanByClose' /\ FirstUseInSession' /\ AuditNotSilenced'
        BY <2>1, <2>2
           DEF SerialInv, NoOrphanByClose, FirstUseInSession, AuditNotSilenced
      <3>4. ResetBeforeErase' /\ OpenerLinked' /\ DeadOwnerWatched'
        BY <2>1, <3>1
           DEF SerialInv, ResetBeforeErase, OpenerLinked, DeadOwnerWatched
      <3>5. QED
        BY <1>1, <2>1, <3>2, <3>3, <3>4 DEF SerialInv
    <2>3. CASE Return(t) /\ stale' = stale \ {t} /\ UNCHANGED hdiOpen
      BY <1>1, <2>1, <2>3, ReturnFields, SerialInvMove
    <2>4. QED
      BY <1>4, <2>2, <2>3 DEF CloseHdi
  <1>5. CASE ResetFirst(t)
    <2>1. /\ call[t].pc = "reset"
          /\ call'[t].pc = "erase"
          /\ call'[t].proc = call[t].proc
          /\ call'[t].port = call[t].port
          /\ \A u \in Threads \ {t} : call'[u] = call[u]
      BY <1>1, <1>5, GotoFields DEF ResetFirst, Pcs
    <2>2. UNCHANGED <<portTokenMap, hdiOpen, alive, links, opener, late, endedBy,
                      stale, reported>>
      BY <1>5 DEF ResetFirst, clientVars, openVars
    <2>3. \A o \in AuditedOps :
            /\ portsHasBeen'[o] = portsHasBeen[o] \ {call[t].port}
            /\ leftover'[o] = leftover[o] \ {call[t].port}
      BY <1>5 DEF ResetFirst
    <2>4. CallerOwns' /\ ClosedInDriver'
      BY <2>1, <2>2 DEF SerialInv, CallerOwns, PastCheck, CallToken, ClosedInDriver
    <2>5. NoOrphanByClose' /\ FirstUseInSession' /\ AuditNotSilenced'
      BY <2>2, <2>3
         DEF SerialInv, NoOrphanByClose, FirstUseInSession, AuditNotSilenced
    <2>6. ResetBeforeErase'
      BY <2>1, <2>3 DEF SerialInv, ResetBeforeErase
    <2>7. OpenerLinked' /\ DeadOwnerWatched'
      BY <2>1, <2>2 DEF SerialInv, OpenerLinked, DeadOwnerWatched
    <2>8. QED
      BY <1>1, <2>2, <2>4, <2>5, <2>6, <2>7 DEF SerialInv
  <1>6. CASE CloseErase(t)
    BY <1>6, SerialInvErase
  <1>7. CASE IoHdi(t)
    <2>1. /\ call[t].pc = "io"
          /\ UNCHANGED <<portTokenMap, portsHasBeen, hdiOpen, alive, links, opener,
                         late, endedBy, leftover, reported>>
      BY <1>7 DEF IoHdi, clientVars, openVars, auditVars
    <2>2. CASE Goto(t, "record") /\ UNCHANGED stale
      <3>1. /\ call'[t].pc = "record"
            /\ call'[t].proc = call[t].proc
            /\ call'[t].port = call[t].port
            /\ \A u \in Threads \ {t} : call'[u] = call[u]
        BY <1>1, <2>1, <2>2, GotoFields DEF Pcs
      <3>2. QED
        BY <1>1, <2>1, <2>2, <3>1, SerialInvMove DEF PastCheck
    <2>3. CASE Return(t) /\ stale' = stale \ {t}
      BY <1>1, <2>1, <2>3, ReturnFields, SerialInvMove
    <2>4. QED
      BY <1>7, <2>2, <2>3 DEF IoHdi
  <1>8. CASE QueryAndRecordFirst(t)
    <2> DEFINE p == call[t].port
               o == call[t].op
    <2>1. /\ call[t].pc = "record" /\ PastCheck(t)
          /\ call'[t].pc = "idle"
          /\ \A u \in Threads \ {t} : call'[u] = call[u]
          /\ p \in Ports /\ call[t].proc \in Procs
      BY <1>1, <1>8, ReturnFields, BusyIsCall DEF QueryAndRecordFirst, PastCheck
    <2>2. UNCHANGED <<portTokenMap, hdiOpen, alive, links, opener, late, endedBy>>
      BY <1>8 DEF QueryAndRecordFirst, clientVars, openVars
    <2>3. stale' = stale \ {t}
      BY <1>8 DEF QueryAndRecordFirst
    <2>4. /\ \A o1 \in AuditedOps : portsHasBeen'[o1] \subseteq portsHasBeen[o1] \union {p}
          /\ \A o1 \in AuditedOps : reported[o1] \subseteq reported'[o1]
          /\ \A o1 \in AuditedOps : leftover[o1] \subseteq leftover'[o1]
          /\ \A o1 \in AuditedOps : portsHasBeen'[o1] # portsHasBeen[o1] => o1 = o
      BY <1>1, <1>8 DEF QueryAndRecordFirst, TypeOK
    <2>5. o \in AuditedOps =>
            ((t \in stale \/ \E u \in Outdated(p) : call[u].pc = "erase") =>
               p \in leftover'[o])
      BY <1>1, <1>8 DEF QueryAndRecordFirst, TypeOK
    <2>6. o \in AuditedOps =>
            ((p \notin portsHasBeen[o] /\ t \notin stale) => p \in reported'[o])
      BY <1>1, <1>8 DEF QueryAndRecordFirst, TypeOK
    <2>7. t \notin stale => portTokenMap[p] # NoToken
      BY <2>1, SerialAssumption DEF SerialInv, CallerOwns, CallToken
    <2>8. CallerOwns' /\ ClosedInDriver' /\ NoOrphanByClose'
      BY <2>1, <2>2, <2>3
         DEF SerialInv, CallerOwns, PastCheck, CallToken, ClosedInDriver,
             NoOrphanByClose
    <2>9. ASSUME NEW u \in Threads, NEW o1 \in AuditedOps, call'[u].pc = "erase",
                 call'[u].port \in portsHasBeen'[o1]
          PROVE  call'[u].port \in leftover'[o1]
      <3>1. u # t /\ call'[u] = call[u]
        BY <2>1, <2>9
      <3>2. CASE call[u].port \in portsHasBeen[o1]
        BY <2>4, <2>9, <3>1, <3>2 DEF SerialInv, ResetBeforeErase
      <3>3. CASE call[u].port \notin portsHasBeen[o1]
        <4>1. call[u].port = p /\ o1 = o
          BY <2>4, <2>9, <3>1, <3>3
        <4>2. u \in Outdated(p)
          BY <2>9, <3>1, <4>1 DEF Outdated, PastCheck
        <4>3. QED
          BY <2>5, <2>9, <3>1, <4>1, <4>2
      <3>4. QED
        BY <3>2, <3>3
    <2>10. ASSUME NEW o1 \in AuditedOps, NEW y \in portsHasBeen'[o1] \ leftover'[o1]
           PROVE  portTokenMap'[y] # NoToken /\ y \in reported'[o1]
      <3>1. CASE y \in portsHasBeen[o1]
        BY <2>2, <2>4, <2>10, <3>1
           DEF SerialInv, FirstUseInSession, AuditNotSilenced
      <3>2. CASE y \notin portsHasBeen[o1]
        <4>1. y = p /\ o1 = o
          BY <2>4, <2>10, <3>2
        <4>2. QED
          BY <2>2, <2>5, <2>6, <2>7, <2>10, <3>2, <4>1
      <3>3. QED
        BY <3>1, <3>2
    <2>11. OpenerLinked' /\ DeadOwnerWatched'
      BY <2>1, <2>2 DEF SerialInv, OpenerLinked, DeadOwnerWatched
    <2>12. ResetBeforeErase' /\ FirstUseInSession' /\ AuditNotSilenced'
      BY <2>9, <2>10 DEF ResetBeforeErase, FirstUseInSession, AuditNotSilenced
    <2>13. QED
      BY <1>1, <2>2, <2>8, <2>11, <2>12 DEF SerialInv
  <1>9. QED
    BY <1>2, <1>3, <1>4, <1>5, <1>6, <1>7, <1>8 DEF Step

(* The recipient takes the port of the dead token, and every call past its *)
(* check on the port is stale from then on.                                *)
LEMMA SerialInvDeath ==
  ASSUME SerialInv, NEW q \in Procs, NEW p \in Ports, OnRemoteDied(q, p)
  PROVE  SerialInv'
  <1>1. TypeOK /\ TypeOK'
    BY DeathType DEF SerialInv
  <1>2. /\ UNCHANGED <<portsHasBeen, alive, call>>
        /\ q \notin alive
    BY DEF OnRemoteDied
  <1>3. \A x \in Procs, y \in Ports : <<x, y>> # <<q, p>> => links'[<<x, y>>] = links[<<x, y>>]
    BY <1>1 DEF OnRemoteDied, TypeOK
  <1>4. CASE /\ portTokenMap[p] = TokenOf[q]
             /\ hdiOpen' \in {hdiOpen, hdiOpen \ {p}}
             /\ EndSession(p, "death")
             /\ stale' = stale \union Outdated(p)
             /\ leftover' = [o \in AuditedOps |->
                               leftover[o] \union (portsHasBeen[o] \intersect {p})]
    <2>1. \A u \in Threads : u \in stale' => PastCheck(u)'
      BY <1>2, <1>4 DEF Outdated, PastCheck, SerialInv, CallerOwns
    <2>2. \A u \in Threads : (PastCheck(u)' /\ u \notin stale') =>
                                u \notin stale /\ call[u].port # p
      BY <1>2, <1>4 DEF Outdated, PastCheck
    <2>3. \A o \in AuditedOps : /\ leftover[o] \subseteq leftover'[o]
                                /\ p \in portsHasBeen[o] => p \in leftover'[o]
      BY <1>4
    <2>4. \A x \in Procs, y \in Ports :
             (y # p \/ x \in alive) => links'[<<x, y>>] = links[<<x, y>>]
      BY <1>2, <1>3
    <2>5. hdiOpen' \subseteq hdiOpen /\ \A u \in Threads : call'[u] = call[u]
      BY <1>2, <1>4
    <2>6. QED
      BY <1>1, <1>2, <1>4, <2>1, <2>2, <2>3, <2>4, <2>5, SessionEnds
  <1>5. CASE portTokenMap[p] # TokenOf[q] /\ UNCHANGED <<hdiOpen, portTokenMap, historyVars>>
    <2>1. UNCHANGED <<opener, late, endedBy, stale, leftover, reported>>
      BY <1>5 DEF historyVars, openVars, auditVars
    <2>2. CallerOwns' /\ ClosedInDriver' /\ ResetBeforeErase'
      BY <1>2, <1>5, <2>1
         DEF SerialInv, CallerOwns, PastCheck, CallToken, ClosedInDriver,
             ResetBeforeErase
    <2>3. NoOrphanByClose' /\ FirstUseInSession' /\ AuditNotSilenced'
      BY <1>2, <1>5, <2>1
         DEF SerialInv, NoOrphanByClose, FirstUseInSession, AuditNotSilenced
    <2>4. \A y \in Ports : portTokenMap[y] # NoToken =>
             links'[<<opener[y], y>>] = links[<<opener[y], y>>]
      <3>1. ASSUME NEW y \in Ports, portTokenMap[y] # NoToken
            PROVE  <<opener[y], y>> # <<q, p>>
        BY <1>5, <3>1 DEF SerialInv, OpenerLinked
      <3>2. \A y \in Ports : opener[y] \in Procs
        BY <1>1 DEF TypeOK
      <3>3. QED
        BY <1>3, <3>1, <3>2
    <2>5. \A x \in Procs, y \in Ports : x \in alive => links'[<<x, y>>] = links[<<x, y>>]
      BY <1>2, <1>3
    <2>6. \A u \in Threads : call[u].pc = "open" =>
             call[u].proc \in Procs /\ call[u].port \in Ports
      BY <1>1, BusyIsCall
    <2>7. OpenerLinked'
      BY <1>2, <1>5, <2>1, <2>4, <2>5, <2>6 DEF SerialInv, OpenerLinked
    <2>8. DeadOwnerWatched'
      BY <1>2, <1>5, <2>1, <2>4 DEF SerialInv, DeadOwnerWatched
    <2>9. QED
      BY <1>1, <1>2, <2>2, <2>3, <2>7, <2>8 DEF SerialInv
  <1>6. QED
    BY <1>4, <1>5 DEF OnRemoteDied, FreeTokenId

(* Every step keeps the invariant.                                         *)
LEMMA SerialInvNext == SerialInv /\ [Next]_vars => SerialInv'
  <1> SUFFICES ASSUME SerialInv, [Next]_vars PROVE SerialInv'
    OBVIOUS
  <1>1. TypeOK'
    BY NextType DEF SerialInv
  <1>2. ASSUME UNCHANGED <<portTokenMap, portsHasBeen, hdiOpen, alive, links, call,
                           historyVars>>
        PROVE  SerialInv'
    BY <1>1, <1>2
       DEF SerialInv, CallerOwns, PastCheck, CallToken, ClosedInDriver,
           NoOrphanByClose, ResetBeforeErase, FirstUseInSession,
           AuditNotSilenced, OpenerLinked, DeadOwnerWatched, historyVars,
           openVars, auditVars
  <1>3. CASE SerialGetPortList
    BY <1>2, <1>3 DEF SerialGetPortList, clientVars
  <1>4. ASSUME NEW p \in Ports, NEW tok \in Tokens \ SystemTokens,
               NEW k \in {"own", "default"}, AddSerialRight(p, tok, k)
        PROVE  SerialInv'
    BY <1>2, <1>4 DEF AddSerialRight, clientVars
  <1>5. ASSUME NEW q \in Procs \ {Dumper}, Die(q)
        PROVE  SerialInv'
    <2>1. /\ UNCHANGED <<portTokenMap, portsHasBeen, hdiOpen, links, call, opener,
                         late, endedBy, stale, leftover, reported>>
          /\ alive' = alive \ {q}
      BY <1>5 DEF Die, historyVars, openVars, auditVars
    <2>2. CallerOwns' /\ ClosedInDriver' /\ ResetBeforeErase' /\ NoOrphanByClose'
      BY <2>1 DEF SerialInv, CallerOwns, PastCheck, CallToken, ClosedInDriver,
                  ResetBeforeErase, NoOrphanByClose
    <2>3. FirstUseInSession' /\ AuditNotSilenced'
      BY <2>1 DEF SerialInv, FirstUseInSession, AuditNotSilenced
    <2>4. OpenerLinked'
      BY <2>1 DEF SerialInv, OpenerLinked
    <2>5. DeadOwnerWatched'
      <3>1. ASSUME NEW p \in Ports, portTokenMap[p] # NoToken, opener[p] \notin alive'
            PROVE  links[<<opener[p], p>>] > 0 \/ p \in late
        <4>1. CASE opener[p] \notin alive
          BY <3>1, <4>1 DEF SerialInv, DeadOwnerWatched
        <4>2. CASE opener[p] \in alive
          BY <2>1, <3>1, <4>2 DEF SerialInv, OpenerLinked
        <4>3. QED
          BY <4>1, <4>2
      <3>2. QED
        BY <2>1, <3>1 DEF DeadOwnerWatched
    <2>6. QED
      BY <1>1, <2>1, <2>2, <2>3, <2>4, <2>5 DEF SerialInv
  <1>6. CASE UNCHANGED vars
    BY <1>2, <1>6 DEF vars, historyVars, openVars, auditVars
  <1>7. QED
    BY <1>3, <1>4, <1>5, <1>6, SerialInvClientCall, SerialInvStep, SerialInvDeath
       DEF Next

(* The invariant holds before the first call.                              *)
LEMMA SerialInvInit == Init => SerialInv
  <1> SUFFICES ASSUME Init PROVE SerialInv
    OBVIOUS
  <1>1. TypeOK
    BY InitType
  <1>2. CallerOwns /\ ClosedInDriver /\ ResetBeforeErase
    BY DEF Init, CallerOwns, PastCheck, ClosedInDriver, ResetBeforeErase, Idle
  <1>3. NoOrphanByClose /\ FirstUseInSession /\ AuditNotSilenced
    BY DEF Init, NoOrphanByClose, FirstUseInSession, AuditNotSilenced
  <1>4. OpenerLinked /\ DeadOwnerWatched
    BY DEF Init, OpenerLinked, DeadOwnerWatched, Idle
  <1>5. Dumper \in alive
    BY SerialAssumption DEF Init
  <1>6. QED
    BY <1>1, <1>2, <1>3, <1>4, <1>5 DEF SerialInv

(* SerialClose leaks no port unless it is stale, however its steps overlap *)
(* other calls and deaths.                                                 *)
THEOREM CloseLeaksNothing == Spec => []NoOrphanByClose
  <1>1. SerialInv => NoOrphanByClose
    BY DEF SerialInv
  <1>2. QED
    BY <1>1, SerialInvNext, SerialInvInit, PTL DEF Spec

(* A record that silences the audit stands for a use audited in the same   *)
(* session, unless it is left over from a death or an overtaken reset.     *)
THEOREM FirstUsesAudited == Spec => []AuditNotSilenced
  <1>1. SerialInv => AuditNotSilenced
    BY DEF SerialInv
  <1>2. QED
    BY <1>1, SerialInvNext, SerialInvInit, PTL DEF Spec

(* A port whose opener has died is going to be freed by a recipient, or    *)
(* was opened after the last one fired.                                    *)
THEOREM DeathIsWatched == Spec => []DeadOwnerWatched
  <1>1. SerialInv => DeadOwnerWatched
    BY DEF SerialInv
  <1>2. QED
    BY <1>1, SerialInvNext, SerialInvInit, PTL DEF Spec

-----------------------------------------------------------------------------
(* A port is a lock: SerialManager implements OwnedPort.                   *)

lockVars == <<portTokenMap, portWork, stale, deadTokens>>

(* What a thread's move does to the work in progress.                      *)
LEMMA WorkMoves ==
  ASSUME NEW t \in Threads, \A u \in Threads \ {t} : call'[u] = call[u]
  PROVE  /\ ~PastCheck(t)' => portWork' = [portWork EXCEPT ![t] = <<>>]
         /\ PastCheck(t)' =>
              portWork' = [portWork EXCEPT ![t] =
                             <<call'[t].port, TokenOf[call'[t].proc]>>]
         /\ ~PastCheck(t) => portWork[t] = <<>>
         /\ PastCheck(t) => portWork[t] = <<call[t].port, CallToken(t)>>
  <1>1. \A u \in Threads \ {t} : /\ PastCheck(u)' <=> PastCheck(u)
                                 /\ CallToken(u)' = CallToken(u)
                                 /\ call'[u].port = call[u].port
    BY DEF PastCheck, CallToken
  <1>2. \A u \in Threads \ {t} : portWork'[u] = portWork[u]
    BY <1>1 DEF portWork
  <1>3. /\ portWork = [u \in Threads |-> portWork[u]]
        /\ portWork' = [u \in Threads |-> portWork'[u]]
    BY DEF portWork
  <1>4. /\ ~PastCheck(t)' => portWork'[t] = <<>>
        /\ PastCheck(t)' => portWork'[t] = <<call'[t].port, TokenOf[call'[t].proc]>>
        /\ ~PastCheck(t) => portWork[t] = <<>>
        /\ PastCheck(t) => portWork[t] = <<call[t].port, CallToken(t)>>
    BY DEF portWork, CallToken
  <1>5. QED
    BY <1>2, <1>3, <1>4

(* Work in progress is on a port, and is what Outdated speaks of.          *)
LEMMA WorkOn ==
  ASSUME NEW p \in Ports
  PROVE  Lock!On(p) = Outdated(p)
  <1>1. \A t \in Threads : PastCheck(t) <=> portWork[t] # <<>>
    <2>1. ASSUME NEW t \in Threads, PastCheck(t) PROVE portWork[t] # <<>>
      <3>1. portWork[t] = <<call[t].port, CallToken(t)>>
        BY <2>1 DEF portWork
      <3>2. QED
        BY <3>1
    <2>2. QED
      BY <2>1 DEF portWork
  <1>2. \A t \in Threads : PastCheck(t) => portWork[t][1] = call[t].port
    BY DEF portWork
  <1>3. QED
    BY <1>1, <1>2 DEF Lock!On, Outdated

(* A busy handler's port and token.                                        *)
LEMMA CallerTyped ==
  ASSUME SerialInv, NEW t \in Threads, call[t].pc # "idle"
  PROVE  call[t].port \in Ports /\ CallToken(t) \in Tokens
  BY BusyIsCall, SerialAssumption DEF SerialInv, CallToken

(* A thread that is not past its check before and after a step has no      *)
(* work.                                                                   *)
LEMMA NoWorkMoves ==
  ASSUME NEW t \in Threads, \A u \in Threads \ {t} : call'[u] = call[u],
         ~PastCheck(t), ~PastCheck(t)'
  PROVE  portWork' = portWork
  <1>1. portWork' = [portWork EXCEPT ![t] = <<>>] /\ portWork[t] = <<>>
    BY WorkMoves
  <1>2. portWork = [u \in Threads |-> portWork[u]]
    BY DEF portWork
  <1>3. QED
    BY <1>1, <1>2

(* A client's call is the beginning of a piece of work, or nothing yet.    *)
LEMMA LockClientCall ==
  ASSUME SerialInv, NEW t \in Threads, NEW p \in Ports, ClientCall(t, p)
  PROVE  [Lock!Next]_lockVars
  <1>1. PICK q \in Procs, c \in Calls : EntersWith(t, p, q, c)
    BY ClientCallEnters DEF SerialInv
  <1>2. call'[t] = c /\ \A u \in Threads \ {t} : call'[u] = call[u]
    BY <1>1, CallUpdates DEF EntersWith, SerialInv
  <1>3. /\ UNCHANGED <<portTokenMap, stale, deadTokens>>
        /\ ~PastCheck(t)
        /\ c.port = p /\ c.proc = q
        /\ c.pc \in {"open", "check", "close", "io"}
        /\ c.pc \in {"close", "io"} => portTokenMap[p] = TokenOf[q]
    BY <1>1 DEF EntersWith, MayCall, deadTokens, PastCheck, Working, historyVars
  <1>4. CASE c.pc \in {"open", "check"}
    <2>1. portWork' = portWork
      BY <1>2, <1>3, <1>4, NoWorkMoves DEF PastCheck
    <2>2. QED
      BY <1>3, <2>1 DEF lockVars
  <1>5. CASE c.pc \in {"close", "io"}
    <2>1. PastCheck(t)'
      BY <1>2, <1>5 DEF PastCheck
    <2>2. /\ portWork' = [portWork EXCEPT ![t] = <<p, TokenOf[q]>>]
          /\ portWork[t] = <<>>
      BY <1>2, <1>3, <2>1, WorkMoves
    <2>3. TokenOf[q] \in Tokens
      BY SerialAssumption
    <2>4. Lock!Begin(t, p, TokenOf[q])
      BY <1>3, <1>5, <2>2 DEF Lock!Begin
    <2>5. QED
      BY <2>3, <2>4 DEF Lock!Next
  <1>6. QED
    BY <1>3, <1>4, <1>5

(* SerialOpen takes a free port, or nothing.                               *)
LEMMA LockSerialOpen ==
  ASSUME SerialInv, NEW t \in Threads, SerialOpen(t)
  PROVE  [Lock!Next]_lockVars
  <1>1. /\ call[t].pc = "open" /\ ~PastCheck(t) /\ TypeOK
    BY DEF SerialOpen, PastCheck, SerialInv
  <1>2. ~PastCheck(t)' /\ \A u \in Threads \ {t} : call'[u] = call[u]
    <2>1. CASE Return(t)
      BY <1>1, <2>1, ReturnFields DEF PastCheck
    <2>2. CASE Goto(t, "check")
      BY <1>1, <2>2, GotoFields DEF PastCheck, Pcs
    <2>3. QED
      BY <2>1, <2>2 DEF SerialOpen, AfterOpen
  <1>3. portWork' = portWork /\ UNCHANGED <<stale, deadTokens>>
    BY <1>1, <1>2, NoWorkMoves DEF SerialOpen, clientVars, deadTokens
  <1>4. CASE portTokenMap' = portTokenMap
    BY <1>3, <1>4 DEF lockVars
  <1>5. CASE /\ portTokenMap[call[t].port] = NoToken
             /\ portTokenMap' = [portTokenMap EXCEPT ![call[t].port] = CallToken(t)]
    <2>1. Lock!Acquire(call[t].port, CallToken(t))
      BY <1>3, <1>5 DEF Lock!Acquire
    <2>2. QED
      BY <1>1, <2>1, CallerTyped DEF Lock!Next
  <1>6. QED
    BY <1>4, <1>5 DEF SerialOpen

(* CloseCheck begins work on a port the caller owns.                       *)
LEMMA LockCloseCheck ==
  ASSUME SerialInv, NEW t \in Threads, CloseCheck(t)
  PROVE  [Lock!Next]_lockVars
  <1>1. /\ call[t].pc = "check" /\ ~PastCheck(t) /\ TypeOK
        /\ UNCHANGED <<portTokenMap, stale, deadTokens>>
    BY DEF CloseCheck, PastCheck, SerialInv, clientVars, deadTokens, historyVars
  <1>2. CASE /\ portTokenMap[call[t].port] = CallToken(t)
             /\ Goto(t, "close")
    <2>1. /\ call'[t].pc = "close" /\ call'[t].port = call[t].port
          /\ call'[t].proc = call[t].proc
          /\ \A u \in Threads \ {t} : call'[u] = call[u]
      BY <1>1, <1>2, GotoFields DEF Pcs
    <2>2. PastCheck(t)'
      BY <2>1 DEF PastCheck
    <2>3. /\ portWork' = [portWork EXCEPT ![t] = <<call[t].port, CallToken(t)>>]
          /\ portWork[t] = <<>>
      BY <1>1, <2>1, <2>2, WorkMoves DEF CallToken
    <2>4. Lock!Begin(t, call[t].port, CallToken(t))
      BY <1>1, <1>2, <2>3 DEF Lock!Begin
    <2>5. QED
      BY <1>1, <2>4, CallerTyped DEF Lock!Next
  <1>3. CASE Return(t)
    <2>1. ~PastCheck(t)' /\ \A u \in Threads \ {t} : call'[u] = call[u]
      BY <1>1, <1>3, ReturnFields DEF PastCheck
    <2>2. portWork' = portWork
      BY <1>1, <2>1, NoWorkMoves
    <2>3. QED
      BY <1>1, <2>2 DEF lockVars
  <1>4. QED
    BY <1>2, <1>3 DEF CloseCheck, CheckPortAndTokenId, CallToken

(* The erase at the end of SerialClose gives the port up, or breaks the    *)
(* session of somebody else if it is stale.                                *)
LEMMA LockCloseErase ==
  ASSUME SerialInv, NEW t \in Threads, CloseErase(t)
  PROVE  [Lock!Next]_lockVars
  <1>1. /\ call[t].pc = "erase" /\ PastCheck(t) /\ TypeOK /\ deadTokens' = deadTokens
        /\ call[t].port \in Ports
    BY CallerTyped DEF CloseErase, PastCheck, SerialInv, clientVars, deadTokens
  <1>2. ~PastCheck(t)' /\ \A u \in Threads \ {t} : call'[u] = call[u]
    BY <1>1, ReturnFields DEF PastCheck, CloseErase
  <1>3. portWork' = [portWork EXCEPT ![t] = <<>>]
    BY <1>2, WorkMoves
  <1>4. /\ portTokenMap' = [portTokenMap EXCEPT ![call[t].port] = NoToken]
        /\ stale' = (stale \union Outdated(call[t].port)) \ {t}
    BY DEF CloseErase, EndSession
  <1>5. t \in Outdated(call[t].port)
    BY <1>1 DEF Outdated
  <1>6. Lock!GiveUp(t, call[t].port)
    BY <1>1, <1>3, <1>4, <1>5, WorkOn DEF Lock!GiveUp
  <1>7. QED
    BY <1>1, <1>6 DEF Lock!Next, Lock!Release, Lock!Break

(* The steps of a handler past its check that leave the owners alone go on *)
(* with the work or end it.                                                *)
LEMMA LockWork ==
  ASSUME SerialInv, NEW t \in Threads,
         CloseHdi(t) \/ ResetFirst(t) \/ IoHdi(t) \/ QueryAndRecordFirst(t)
  PROVE  [Lock!Next]_lockVars
  <1>1. /\ call[t].pc # "idle" /\ PastCheck(t) /\ TypeOK
        /\ UNCHANGED <<portTokenMap, deadTokens>>
        /\ \/ Return(t) /\ stale' = stale \ {t}
           \/ /\ Goto(t, "reset") \/ Goto(t, "erase") \/ Goto(t, "record")
              /\ stale' = stale
    BY DEF CloseHdi, ResetFirst, IoHdi, QueryAndRecordFirst, PastCheck,
           SerialInv, clientVars, deadTokens
  <1>2. CASE Return(t) /\ stale' = stale \ {t}
    <2>1. ~PastCheck(t)' /\ \A u \in Threads \ {t} : call'[u] = call[u]
      BY <1>1, <1>2, ReturnFields DEF PastCheck
    <2>2. /\ portWork' = [portWork EXCEPT ![t] = <<>>]
          /\ portWork[t] = <<call[t].port, CallToken(t)>>
      BY <1>1, <2>1, WorkMoves
    <2>3. Lock!End(t)
      BY <1>1, <1>2, <2>2 DEF Lock!End
    <2>4. QED
      BY <2>3 DEF Lock!Next
  <1>3. ASSUME NEW pc \in {"reset", "erase", "record"}, Goto(t, pc), stale' = stale
        PROVE  UNCHANGED lockVars
    <2>1. /\ PastCheck(t)' /\ call'[t].port = call[t].port
          /\ call'[t].proc = call[t].proc
          /\ \A u \in Threads \ {t} : call'[u] = call[u]
      BY <1>1, <1>3, GotoFields DEF Pcs, PastCheck
    <2>2. /\ portWork' = [portWork EXCEPT ![t] = <<call[t].port, CallToken(t)>>]
          /\ portWork[t] = <<call[t].port, CallToken(t)>>
      BY <1>1, <2>1, WorkMoves DEF CallToken
    <2>3. portWork = [u \in Threads |-> portWork[u]]
      BY DEF portWork
    <2>4. portWork' = portWork
      BY <2>2, <2>3
    <2>5. QED
      BY <1>1, <1>3, <2>4 DEF lockVars
  <1>4. QED
    BY <1>1, <1>2, <1>3

(* A client dies, inside a call or outside; its recipient frees the port.  *)
LEMMA LockDeath ==
  ASSUME SerialInv, NEW q \in Procs,
         Die(q) \/ \E p \in Ports : OnRemoteDied(q, p)
  PROVE  [Lock!Next]_lockVars
  <1>1. portWork' = portWork
    BY DEF Die, OnRemoteDied, portWork, PastCheck, CallToken
  <1>2. CASE Die(q)
    <2>1. /\ UNCHANGED <<portTokenMap, stale>>
          /\ deadTokens' = deadTokens \union {TokenOf[q]}
      BY <1>2 DEF Die, deadTokens, historyVars
    <2>2. Lock!Die(TokenOf[q])
      BY <1>1, <2>1 DEF Lock!Die
    <2>3. QED
      BY <2>2, SerialAssumption DEF Lock!Next
  <1>3. ASSUME NEW p \in Ports, OnRemoteDied(q, p)
        PROVE  [Lock!Next]_lockVars
    <2>1. deadTokens' = deadTokens /\ TokenOf[q] \in deadTokens
      BY <1>3 DEF OnRemoteDied, deadTokens
    <2>2. CASE /\ portTokenMap[p] = TokenOf[q]
               /\ EndSession(p, "death")
               /\ stale' = stale \union Outdated(p)
      <3>1. Lock!Expire(p)
        BY <1>1, <2>1, <2>2, WorkOn DEF Lock!Expire, EndSession
      <3>2. QED
        BY <3>1 DEF Lock!Next
    <2>3. CASE UNCHANGED <<portTokenMap, historyVars>>
      BY <1>1, <2>1, <2>3 DEF lockVars, historyVars
    <2>4. QED
      BY <1>3, <2>2, <2>3 DEF OnRemoteDied, FreeTokenId
  <1>4. QED
    BY <1>2, <1>3

(* Every step of the service is a step of the lock or none.                *)
LEMMA LockStep == SerialInv /\ [Next]_vars => [Lock!Next]_lockVars
  <1> SUFFICES ASSUME SerialInv, [Next]_vars PROVE [Lock!Next]_lockVars
    OBVIOUS
  <1>1. ASSUME UNCHANGED <<portTokenMap, alive, call, stale>>
        PROVE  UNCHANGED lockVars
    BY <1>1 DEF lockVars, portWork, deadTokens, PastCheck, CallToken
  <1>2. CASE SerialGetPortList
    BY <1>1, <1>2 DEF SerialGetPortList, clientVars, historyVars
  <1>3. ASSUME NEW p \in Ports, NEW tok \in Tokens \ SystemTokens,
               NEW k \in {"own", "default"}, AddSerialRight(p, tok, k)
        PROVE  UNCHANGED lockVars
    BY <1>1, <1>3 DEF AddSerialRight, clientVars, historyVars
  <1>4. CASE UNCHANGED vars
    BY <1>1, <1>4 DEF vars
  <1>5. ASSUME NEW t \in Threads, Step(t)
        PROVE  [Lock!Next]_lockVars
    BY <1>5, LockSerialOpen, LockCloseCheck, LockCloseErase, LockWork DEF Step
  <1>6. QED
    BY <1>2, <1>3, <1>4, <1>5, LockClientCall, LockDeath DEF Next

(* The service implements the lock: SerialOpen, the ownership check, the   *)
(* steps of SerialClose and FreeTokenId are its steps, whatever calls and  *)
(* deaths overlap.                                                         *)
THEOREM ServiceImplementsLock == Spec => ImplementsLock
  <1>1. Init => Lock!Init
    <2>1. Init => portWork = [t \in Threads |-> <<>>]
      BY DEF Init, portWork, PastCheck, Idle
    <2>2. Init => deadTokens = {}
      BY DEF Init, deadTokens
    <2>3. QED
      BY <2>1, <2>2 DEF Init, Lock!Init
  <1>2. QED
    BY <1>1, LockStep, SerialInvNext, SerialInvInit, PTL
       DEF Spec, ImplementsLock, Lock!Spec, lockVars

(* The lock's own steps keep work that is not stale to the owner.          *)
LEMMA LockKeepsExclusion ==
  ASSUME Lock!TypeOK, Lock!Exclusive, [Lock!Next]_lockVars
  PROVE  (Lock!TypeOK /\ Lock!Exclusive)'
  <1>1. /\ portTokenMap \in [Ports -> Tokens \union {NoToken}]
        /\ portWork \in [Threads -> (Ports \X Tokens) \union {<<>>}]
        /\ stale \subseteq {w \in Threads : portWork[w] # <<>>}
        /\ deadTokens \subseteq Tokens
        /\ NoToken \notin Tokens
    BY SerialAssumption DEF Lock!TypeOK
  <1>2. ASSUME NEW w \in Threads, portWork[w] # <<>>
        PROVE  portWork[w][1] \in Ports /\ portWork[w][2] \in Tokens
    BY <1>1, <1>2
  <1>3. \A w \in Threads \ stale :
           portWork[w] # <<>> => portTokenMap[portWork[w][1]] = portWork[w][2]
    BY DEF Lock!Exclusive
  <1>4. ASSUME NEW p \in Ports, NEW o \in Tokens, Lock!Acquire(p, o)
        PROVE  (Lock!TypeOK /\ Lock!Exclusive)'
    <2>1. /\ portTokenMap' = [portTokenMap EXCEPT ![p] = o]
          /\ portWork' = portWork /\ deadTokens' = deadTokens /\ stale' = stale
          /\ portTokenMap[p] = NoToken
      BY <1>4 DEF Lock!Acquire
    <2>2. \A w \in Threads \ stale : portWork[w] # <<>> => portWork[w][1] # p
      BY <1>1, <1>2, <1>3, <2>1
    <2>3. \A w \in Threads \ stale :
             portWork[w] # <<>> => portTokenMap'[portWork[w][1]] = portWork[w][2]
      BY <1>1, <1>2, <1>3, <2>1, <2>2
    <2>4. portTokenMap' \in [Ports -> Tokens \union {NoToken}]
      BY <1>1, <2>1
    <2>5. QED
      BY <1>1, <2>1, <2>3, <2>4 DEF Lock!TypeOK, Lock!Exclusive
  <1>5. ASSUME NEW t \in Threads, NEW p \in Ports, NEW o \in Tokens,
               Lock!Begin(t, p, o)
        PROVE  (Lock!TypeOK /\ Lock!Exclusive)'
    <2>1. /\ portTokenMap' = portTokenMap /\ deadTokens' = deadTokens
          /\ portWork' = [portWork EXCEPT ![t] = <<p, o>>] /\ stale' = stale
          /\ portTokenMap[p] = o
      BY <1>5 DEF Lock!Begin
    <2>2. portWork' \in [Threads -> (Ports \X Tokens) \union {<<>>}]
      BY <1>1, <2>1
    <2>3. portWork'[t] = <<p, o>> /\ \A w \in Threads \ {t} : portWork'[w] = portWork[w]
      BY <1>1, <2>1
    <2>4. <<p, o>> # <<>> /\ <<p, o>>[1] = p /\ <<p, o>>[2] = o
      OBVIOUS
    <2>5. stale' \subseteq {w \in Threads : portWork'[w] # <<>>}
      BY <1>1, <2>1, <2>3, <2>4
    <2>6. \A w \in Threads \ stale' :
             portWork'[w] # <<>> => portTokenMap'[portWork'[w][1]] = portWork'[w][2]
      BY <1>3, <2>1, <2>3, <2>4
    <2>7. QED
      BY <1>1, <2>1, <2>2, <2>5, <2>6 DEF Lock!TypeOK, Lock!Exclusive
  <1>6. ASSUME NEW t \in Threads, Lock!End(t)
        PROVE  (Lock!TypeOK /\ Lock!Exclusive)'
    <2>1. /\ portTokenMap' = portTokenMap /\ deadTokens' = deadTokens
          /\ portWork' = [portWork EXCEPT ![t] = <<>>] /\ stale' = stale \ {t}
      BY <1>6 DEF Lock!End
    <2>2. /\ portWork' \in [Threads -> (Ports \X Tokens) \union {<<>>}]
          /\ portWork'[t] = <<>>
          /\ \A w \in Threads \ {t} : portWork'[w] = portWork[w]
      BY <1>1, <2>1
    <2>3. stale' \subseteq {w \in Threads : portWork'[w] # <<>>}
      BY <1>1, <2>1, <2>2
    <2>4. \A w \in Threads \ stale' :
             portWork'[w] # <<>> => portTokenMap'[portWork'[w][1]] = portWork'[w][2]
      BY <1>3, <2>1, <2>2
    <2>5. QED
      BY <1>1, <2>1, <2>2, <2>3, <2>4 DEF Lock!TypeOK, Lock!Exclusive
  <1>7. ASSUME NEW t \in Threads, NEW p \in Ports, Lock!GiveUp(t, p)
        PROVE  (Lock!TypeOK /\ Lock!Exclusive)'
    <2>1. /\ portTokenMap' = [portTokenMap EXCEPT ![p] = NoToken]
          /\ deadTokens' = deadTokens
          /\ portWork' = [portWork EXCEPT ![t] = <<>>]
          /\ stale' = (stale \union Lock!On(p)) \ {t}
      BY <1>7 DEF Lock!GiveUp
    <2>2. /\ portWork' \in [Threads -> (Ports \X Tokens) \union {<<>>}]
          /\ portTokenMap' \in [Ports -> Tokens \union {NoToken}]
          /\ portWork'[t] = <<>>
          /\ \A w \in Threads \ {t} : portWork'[w] = portWork[w]
      BY <1>1, <2>1
    <2>3. stale' \subseteq {w \in Threads : portWork'[w] # <<>>}
      BY <1>1, <2>1, <2>2 DEF Lock!On
    <2>4. ASSUME NEW w \in Threads \ stale', portWork'[w] # <<>>
          PROVE  portTokenMap'[portWork'[w][1]] = portWork'[w][2]
      <3>1. w # t /\ portWork'[w] = portWork[w] /\ portWork[w][1] \in Ports
        BY <1>2, <2>2, <2>4
      <3>2. w \notin stale /\ portWork[w][1] # p
        BY <2>1, <2>4, <3>1 DEF Lock!On
      <3>3. QED
        BY <1>1, <1>3, <2>1, <2>4, <3>1, <3>2
    <2>5. QED
      BY <1>1, <2>1, <2>2, <2>3, <2>4 DEF Lock!TypeOK, Lock!Exclusive
  <1>8. ASSUME NEW o \in Tokens, Lock!Die(o)
        PROVE  (Lock!TypeOK /\ Lock!Exclusive)'
    BY <1>1, <1>3, <1>8 DEF Lock!Die, Lock!TypeOK, Lock!Exclusive
  <1>9. ASSUME NEW p \in Ports, Lock!Expire(p)
        PROVE  (Lock!TypeOK /\ Lock!Exclusive)'
    <2>1. /\ portTokenMap' = [portTokenMap EXCEPT ![p] = NoToken]
          /\ portWork' = portWork /\ deadTokens' = deadTokens
          /\ stale' = stale \union Lock!On(p)
      BY <1>9 DEF Lock!Expire
    <2>2. portTokenMap' \in [Ports -> Tokens \union {NoToken}]
      BY <1>1, <2>1
    <2>3. stale' \subseteq {w \in Threads : portWork'[w] # <<>>}
      BY <1>1, <2>1 DEF Lock!On
    <2>4. ASSUME NEW w \in Threads \ stale', portWork'[w] # <<>>
          PROVE  portTokenMap'[portWork'[w][1]] = portWork'[w][2]
      <3>1. portWork[w][1] \in Ports /\ w \notin stale /\ portWork[w][1] # p
        BY <1>2, <2>1, <2>4 DEF Lock!On
      <3>2. QED
        BY <1>1, <1>3, <2>1, <2>4, <3>1
    <2>5. QED
      BY <1>1, <2>1, <2>2, <2>3, <2>4 DEF Lock!TypeOK, Lock!Exclusive
  <1>10. CASE UNCHANGED lockVars
    BY <1>10 DEF lockVars, Lock!TypeOK, Lock!Exclusive
  <1>11. QED
    BY <1>4, <1>5, <1>6, <1>7, <1>8, <1>9, <1>10
       DEF Lock!Next, Lock!Release, Lock!Break

(* A step of the lock takes a port from its owner only by setting it free, *)
(* and only because a token died or a piece of work on that port ended.    *)
LEMMA LockLosesToWork ==
  ASSUME Lock!TypeOK, [Lock!Next]_lockVars
  PROVE  Lock!LostToWork
  <1>1. /\ portTokenMap \in [Ports -> Tokens \union {NoToken}]
        /\ portWork \in [Threads -> (Ports \X Tokens) \union {<<>>}]
    BY DEF Lock!TypeOK
  <1>2. ASSUME NEW p \in Ports, NEW o \in Tokens, Lock!Acquire(p, o)
        PROVE  Lock!LostToWork
    BY <1>1, <1>2 DEF Lock!Acquire, Lock!LostToWork
  <1>3. ASSUME NEW t \in Threads, NEW p \in Ports, Lock!GiveUp(t, p)
        PROVE  Lock!LostToWork
    <2>1. \A y \in Ports \ {p} : portTokenMap'[y] = portTokenMap[y]
      BY <1>1, <1>3 DEF Lock!GiveUp
    <2>2. /\ portTokenMap'[p] = NoToken
          /\ t \in Lock!On(p) /\ portWork'[t] = <<>>
      BY <1>1, <1>3 DEF Lock!GiveUp
    <2>3. QED
      BY <2>1, <2>2 DEF Lock!LostToWork
  <1>4. ASSUME NEW p \in Ports, Lock!Expire(p)
        PROVE  Lock!LostToWork
    BY <1>1, <1>4 DEF Lock!Expire, Lock!LostToWork
  <1>5. ASSUME UNCHANGED portTokenMap
        PROVE  Lock!LostToWork
    BY <1>5 DEF Lock!LostToWork
  <1>6. QED
    BY <1>2, <1>3, <1>4, <1>5
       DEF Lock!Next, Lock!Begin, Lock!End, Lock!Die, Lock!Release, Lock!Break,
           lockVars

(* What the lock is for, from its own steps alone: work that is not stale  *)
(* is the present owner's, and an owner that lives loses a port only to a  *)
(* piece of work on it, never to an open by somebody else.                 *)
THEOREM LockIsExclusive ==
  ImplementsLock => []Lock!Exclusive /\ [][Lock!LostToWork]_lockVars
  <1> DEFINE Inv == Lock!TypeOK /\ Lock!Exclusive
  <1>1. Lock!Init => Inv
    BY DEF Lock!Init, Lock!TypeOK, Lock!Exclusive
  <1>2. Inv /\ [Lock!Next]_lockVars => Inv'
    BY LockKeepsExclusion
  <1>3. Inv /\ [Lock!Next]_lockVars => [Lock!LostToWork]_lockVars
    BY LockLosesToWork
  <1>4. Inv => Lock!Exclusive
    OBVIOUS
  <1>5. QED
    BY <1>1, <1>2, <1>3, <1>4, PTL DEF ImplementsLock, Lock!Spec, lockVars
=============================================================================
