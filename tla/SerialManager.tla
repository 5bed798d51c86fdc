--------------------------- MODULE SerialManager ---------------------------
(***************************************************************************)
(* The serial port service: SerialManager (serial_manager.cpp) together    *)
(* with the UsbService entry points that validate, check the right and     *)
(* link the client's death before they call it (usb_service.cpp).          *)
(*                                                                         *)
(* IPC handlers run on the threads of the service's pool.  A handler is    *)
(* split where it releases portTokenMapMutex_ or calls the driver (HDI)    *)
(* outside it; what it does under one lock is one action.  A call that     *)
(* returns an error before it changes anything is a stuttering step and    *)
(* has no action.                                                          *)
(***************************************************************************)
EXTENDS Naturals, FiniteSets

CONSTANTS
  Ports,         \* serial port ids
  Procs,         \* client processes; a restarted application is a new process
  Tokens,        \* access token ids
  TokenOf,       \* the token a process calls with
  SystemTokens,  \* tokens of system applications and system abilities
  Dumper,        \* the process that runs the service's dump command
  Threads,       \* IPC threads of the service
  IoOps,         \* I/O operations: some of "read", "write", "attr"
  NoToken,       \* "no entry in portTokenMap_"
  MaxLinks       \* bound on death recipients per process and port

ASSUME SerialAssumption ==
  /\ TokenOf \in [Procs -> Tokens]
  /\ NoToken \notin Tokens
  /\ SystemTokens \subseteq Tokens
  /\ Dumper \in Procs
  /\ IoOps \subseteq {"read", "write", "attr"}
  /\ MaxLinks \in Nat

VARIABLES
  serialPortMap,  \* set of ports the service has listed (serialPortMap_ keys)
  portTokenMap,   \* owner token of each port, or NoToken (portTokenMap_)
  portsHasBeen,   \* portsHasBeenRead_ and portsHasBeenWritten_, by operation
  right,          \* right records: <<port, token, "own" | "default">>
  hdiOpen,        \* ports the serial driver has open (external)
  alive,          \* client processes that have not died
  links,          \* death recipients registered and not yet fired
  call,           \* what each IPC thread is executing
  opener,         \* history: the process that opened the port (Dumper if closed)
  late,           \* history: ports opened after every notice of the opener's death
  endedBy,        \* history: how the port's last session ended, or "open"
  stale,          \* history: calls whose check another call or a death outdated
  leftover,       \* history: first-use records no SerialClose will reset
  reported        \* history: first uses audited in the current session

vars == <<serialPortMap, portTokenMap, portsHasBeen, right, hdiOpen, alive,
          links, call, opener, late, endedBy, stale, leftover, reported>>

clientVars  == <<alive, links>>
openVars    == <<opener, late>>
auditVars   == <<leftover, reported>>
historyVars == <<openVars, endedBy, stale, auditVars>>

(* The operations whose first use in a session is audited. *)
AuditedOps == IoOps \ {"attr"}

Idle == [pc |-> "idle"]

Busy(pc, op, q, p) == [pc |-> pc, op |-> op, proc |-> q, port |-> p]

Pcs == {"open", "check", "close", "reset", "erase", "io", "record"}

Calls == [pc : Pcs, op : IoOps \union {"open", "close", "dump"},
          proc : Procs, port : Ports]

Working(t) == call[t].pc # "idle"

CallToken(t) == TokenOf[call[t].proc]

(* A handler that has passed its ownership check.                          *)
PastCheck(t) == call[t].pc \in {"close", "reset", "erase", "io", "record"}

(* The calls whose check the end of a session on port p outdates.          *)
Outdated(p) == {t \in Threads : PastCheck(t) /\ call[t].port = p}

Init ==
  /\ serialPortMap = {}
  /\ portTokenMap = [p \in Ports |-> NoToken]
  /\ portsHasBeen = [o \in AuditedOps |-> {}]
  /\ right = {}
  /\ hdiOpen = {}
  /\ alive = Procs
  /\ links = [qp \in Procs \X Ports |-> 0]
  /\ call = [t \in Threads |-> Idle]
  /\ opener = [p \in Ports |-> Dumper]
  /\ late = {}
  /\ endedBy = [p \in Ports |-> "close"]
  /\ stale = {}
  /\ leftover = [o \in AuditedOps |-> {}]
  /\ reported = [o \in AuditedOps |-> {}]

(***************************************************************************)
(* What a client may do.  The bindings run reads and writes on worker      *)
(* threads, so a process may have several calls in flight.                 *)
(***************************************************************************)
MayCall(t, q) ==
  /\ ~Working(t)
  /\ q \in alive

HasSerialRight(q, p) ==
  \/ TokenOf[q] \in SystemTokens
  \/ \E k \in {"own", "default"} : <<p, TokenOf[q], k>> \in right

CheckPortAndTokenId(q, p) == portTokenMap[p] = TokenOf[q]

Goto(t, pc)  == call' = [call EXCEPT ![t].pc = pc]
Return(t)    == call' = [call EXCEPT ![t] = Idle]
Enter(t, c)  == call' = [call EXCEPT ![t] = c]

(***************************************************************************)
(* Listing the ports.  The driver's answer only ever adds to the map.      *)
(***************************************************************************)
SerialGetPortList ==
  /\ \E listed \in SUBSET Ports : serialPortMap' = serialPortMap \union listed
  /\ UNCHANGED <<portTokenMap, portsHasBeen, right, hdiOpen, clientVars, call,
                 historyVars>>

(***************************************************************************)
(* Rights: AddSerialRight or an agreed RequestSerialRight writes the       *)
(* token's own record; AddRight by bundle name writes the default one.     *)
(***************************************************************************)
AddSerialRight(p, tok, kind) ==
  /\ p \in serialPortMap
  /\ right' = right \union {<<p, tok, kind>>}
  /\ UNCHANGED <<serialPortMap, portTokenMap, portsHasBeen, hdiOpen,
                 clientVars, call, historyVars>>

(* RemoveDeviceRight on the own record, on the default one only if there   *)
(* was no own record; without any record the call ends with an error.      *)
CancelSerialRight(t, q, p) ==
  /\ MayCall(t, q)
  /\ p \in serialPortMap
  /\ TokenOf[q] \notin SystemTokens
  /\ \/ /\ <<p, TokenOf[q], "own">> \in right
        /\ right' = right \ {<<p, TokenOf[q], "own">>}
     \/ /\ <<p, TokenOf[q], "own">> \notin right
        /\ <<p, TokenOf[q], "default">> \in right
        /\ right' = right \ {<<p, TokenOf[q], "default">>}
  /\ Enter(t, Busy("check", "close", q, p))
  /\ UNCHANGED <<serialPortMap, portTokenMap, portsHasBeen, hdiOpen,
                 clientVars, historyVars>>

(***************************************************************************)
(* Open: UsbService validates, checks the right and links the client's     *)
(* death; then SerialManager opens under portTokenMapMutex_.               *)
(***************************************************************************)
(* Mutant: the client's death is not linked.                               *)
OpenCallMutant(t, q, p) ==
  /\ MayCall(t, q)
  /\ p \in serialPortMap
  /\ HasSerialRight(q, p)
  /\ Enter(t, Busy("open", "open", q, p))
  /\ UNCHANGED <<serialPortMap, portTokenMap, portsHasBeen, right, hdiOpen,
                 clientVars, historyVars>>

OpenCall(t, q, p) ==
  /\ MayCall(t, q)
  /\ p \in serialPortMap
  /\ HasSerialRight(q, p)
  /\ links[<<q, p>>] < MaxLinks
  /\ links' = [links EXCEPT ![<<q, p>>] = @ + 1]
  /\ Enter(t, Busy("open", "open", q, p))
  /\ UNCHANGED <<serialPortMap, portTokenMap, portsHasBeen, right, hdiOpen,
                 alive, historyVars>>

(* The dump command reads the attributes, and if that fails (not the owner, *)
(* or the driver's error) opens the port itself, without a right check or a *)
(* death recipient, and closes it.  The dump of one port takes any number,  *)
(* listed or not.                                                           *)
SerialGetAttributeDump(t, p) ==
  /\ MayCall(t, Dumper)
  /\ Enter(t, Busy("open", "dump", Dumper, p))
  /\ UNCHANGED <<serialPortMap, portTokenMap, portsHasBeen, right, hdiOpen,
                 clientVars, historyVars>>

(* After its open the dump of all ports goes on to SerialClose whatever    *)
(* the open returned; the dump of one port does so if the open succeeded.  *)
AfterOpen(t) ==
  \/ call[t].op = "dump" /\ Goto(t, "check")
  \/ call[t].op = "dump" /\ portTokenMap' = portTokenMap /\ Return(t)
  \/ call[t].op # "dump" /\ Return(t)

SerialOpen(t) ==
  LET p == call[t].port IN
  /\ call[t].pc = "open"
  /\ \/ /\ portTokenMap[p] # NoToken              \* REPEAT_OPEN
        /\ UNCHANGED <<portTokenMap, hdiOpen, openVars, endedBy>>
     \/ /\ portTokenMap[p] = NoToken              \* the driver refuses
        /\ UNCHANGED <<portTokenMap, hdiOpen, openVars, endedBy>>
     \/ /\ portTokenMap[p] = NoToken              \* opened
        /\ hdiOpen' = hdiOpen \union {p}
        /\ portTokenMap' = [portTokenMap EXCEPT ![p] = CallToken(t)]
        /\ opener' = [opener EXCEPT ![p] = call[t].proc]
        /\ late' = IF call[t].proc \in alive \/ links[<<call[t].proc, p>>] > 0
                   THEN late \ {p} ELSE late \union {p}
        /\ endedBy' = [endedBy EXCEPT ![p] = "open"]
  /\ AfterOpen(t)
  /\ UNCHANGED <<serialPortMap, portsHasBeen, right, clientVars, stale,
                 auditVars>>

(***************************************************************************)
(* Close: check under the lock, driver close, audit reset, erase.          *)
(***************************************************************************)
(* Mutant: any caller may close an open port.                              *)
CloseCallMutant(t, q, p) ==
  /\ MayCall(t, q)
  /\ p \in serialPortMap
  /\ portTokenMap[p] # NoToken
  /\ Enter(t, Busy("close", "close", q, p))
  /\ UNCHANGED <<serialPortMap, portTokenMap, portsHasBeen, right, hdiOpen,
                 clientVars, historyVars>>

CloseCall(t, q, p) ==
  /\ MayCall(t, q)
  /\ p \in serialPortMap
  /\ CheckPortAndTokenId(q, p)
  /\ Enter(t, Busy("close", "close", q, p))
  /\ UNCHANGED <<serialPortMap, portTokenMap, portsHasBeen, right, hdiOpen,
                 clientVars, historyVars>>

(* The same check where SerialClose is reached from inside a longer call.  *)
CloseCheck(t) ==
  /\ call[t].pc = "check"
  /\ IF CheckPortAndTokenId(call[t].proc, call[t].port)
     THEN Goto(t, "close")
     ELSE Return(t)
  /\ UNCHANGED <<serialPortMap, portTokenMap, portsHasBeen, right, hdiOpen,
                 clientVars, historyVars>>

(* Mutant: the driver's failure to close is ignored, as in FreeTokenId.    *)
CloseHdiMutant(t) ==
  /\ call[t].pc = "close"
  /\ hdiOpen' \in {hdiOpen, hdiOpen \ {call[t].port}}
  /\ Goto(t, "reset")
  /\ UNCHANGED <<serialPortMap, portTokenMap, portsHasBeen, right, clientVars,
                 historyVars>>

CloseHdi(t) ==
  /\ call[t].pc = "close"
  /\ \/ /\ call[t].port \in hdiOpen
        /\ hdiOpen' = hdiOpen \ {call[t].port}
        /\ Goto(t, "reset")
        /\ UNCHANGED stale
     \/ /\ Return(t)                              \* the driver fails
        /\ stale' = stale \ {t}
        /\ UNCHANGED hdiOpen
  /\ UNCHANGED <<serialPortMap, portTokenMap, portsHasBeen, right, clientVars,
                 openVars, endedBy, auditVars>>

(* Mutant: the first-use records survive the close.                        *)
ResetFirstMutant(t) ==
  /\ call[t].pc = "reset"
  /\ Goto(t, "erase")
  /\ UNCHANGED <<serialPortMap, portTokenMap, portsHasBeen, right, hdiOpen,
                 clientVars, historyVars>>

ResetFirst(t) ==
  /\ call[t].pc = "reset"
  /\ portsHasBeen' = [o \in AuditedOps |-> portsHasBeen[o] \ {call[t].port}]
  /\ leftover' = [o \in AuditedOps |-> leftover[o] \ {call[t].port}]
  /\ Goto(t, "erase")
  /\ UNCHANGED <<serialPortMap, portTokenMap, right, hdiOpen, clientVars,
                 openVars, endedBy, stale, reported>>

(* The owner's entry goes; what the histories say of the session goes too. *)
EndSession(p, how) ==
  /\ portTokenMap' = [portTokenMap EXCEPT ![p] = NoToken]
  /\ endedBy' = [endedBy EXCEPT ![p] = how]
  /\ opener' = [opener EXCEPT ![p] = Dumper]
  /\ late' = late \ {p}
  /\ reported' = [o \in AuditedOps |-> reported[o] \ {p}]

(* Mutant: the entry survives the close.                                   *)
CloseEraseMutant(t) ==
  /\ call[t].pc = "erase"
  /\ Return(t)
  /\ stale' = stale \ {t}
  /\ UNCHANGED <<serialPortMap, portTokenMap, portsHasBeen, right, hdiOpen,
                 clientVars, openVars, endedBy, auditVars>>

CloseErase(t) ==
  /\ call[t].pc = "erase"
  /\ EndSession(call[t].port, IF t \in stale THEN "stale" ELSE "close")
  /\ stale' = (stale \union Outdated(call[t].port)) \ {t}
  /\ Return(t)
  /\ UNCHANGED <<serialPortMap, portsHasBeen, right, hdiOpen, clientVars,
                 leftover>>

(***************************************************************************)
(* Read, write, set attribute: check under the lock, driver call, and for  *)
(* read and write the first-use record that decides the audit report.      *)
(***************************************************************************)
IoCall(t, q, p, o) ==
  /\ MayCall(t, q)
  /\ p \in serialPortMap
  /\ CheckPortAndTokenId(q, p)
  /\ Enter(t, Busy("io", o, q, p))
  /\ UNCHANGED <<serialPortMap, portTokenMap, portsHasBeen, right, hdiOpen,
                 clientVars, historyVars>>

IoHdi(t) ==
  /\ call[t].pc = "io"
  /\ \/ /\ call[t].port \in hdiOpen
        /\ call[t].op \in AuditedOps
        /\ Goto(t, "record")
        /\ UNCHANGED stale
     \/ /\ Return(t)                   \* failed, or nothing to record
        /\ stale' = stale \ {t}
  /\ UNCHANGED <<serialPortMap, portTokenMap, portsHasBeen, right, hdiOpen,
                 clientVars, openVars, endedBy, auditVars>>

(* The record is left over if its session has ended or a SerialClose has   *)
(* already reset the records and is about to end it.                       *)
QueryAndRecordFirst(t) ==
  LET p == call[t].port
      o == call[t].op
  IN
  /\ call[t].pc = "record"
  /\ portsHasBeen' = [portsHasBeen EXCEPT ![o] = @ \union {p}]
  /\ reported' = IF p \in portsHasBeen[o] \/ t \in stale THEN reported
                 ELSE [reported EXCEPT ![o] = @ \union {p}]
  /\ leftover' =
       IF t \in stale \/ \E u \in Outdated(p) : call[u].pc = "erase"
       THEN [leftover EXCEPT ![o] = @ \union {p}]
       ELSE leftover
  /\ Return(t)
  /\ stale' = stale \ {t}
  /\ UNCHANGED <<serialPortMap, portTokenMap, right, hdiOpen, clientVars,
                 openVars, endedBy>>

(***************************************************************************)
(* A client dies, in the middle of a call or outside; every recipient it   *)
(* registered fires once.  A call of it goes on in the service.  FreeTokenId *)
(* ignores the driver's answer and leaves the first-use records alone.     *)
(* The CancelSerialRight that follows runs with the service's own token,   *)
(* which is a system ability's, and returns before it changes anything.    *)
(***************************************************************************)
Die(q) ==
  /\ q \in alive
  /\ alive' = alive \ {q}
  /\ UNCHANGED <<serialPortMap, portTokenMap, portsHasBeen, right, hdiOpen,
                 links, call, historyVars>>

FreeTokenId(p, tok) ==
  IF portTokenMap[p] = tok
  THEN /\ hdiOpen' \in {hdiOpen, hdiOpen \ {p}}
       /\ EndSession(p, "death")
       /\ stale' = stale \union Outdated(p)
       /\ leftover' = [o \in AuditedOps |->
                         leftover[o] \union (portsHasBeen[o] \intersect {p})]
  ELSE UNCHANGED <<hdiOpen, portTokenMap, historyVars>>

OnRemoteDied(q, p) ==
  /\ q \notin alive
  /\ links[<<q, p>>] > 0
  /\ links' = [links EXCEPT ![<<q, p>>] = @ - 1]
  /\ FreeTokenId(p, TokenOf[q])
  /\ UNCHANGED <<serialPortMap, portsHasBeen, right, alive, call>>

(***************************************************************************)
(* The specification                                                       *)
(***************************************************************************)
Step(t) ==
  \/ SerialOpen(t) \/ CloseCheck(t) \/ CloseHdi(t) \/ ResetFirst(t)
  \/ CloseErase(t) \/ IoHdi(t) \/ QueryAndRecordFirst(t)

ClientCall(t, p) ==
  \/ SerialGetAttributeDump(t, p)
  \/ \E q \in Procs \ {Dumper} :
        \/ OpenCall(t, q, p)
        \/ CloseCall(t, q, p)
        \/ CancelSerialRight(t, q, p)
        \/ \E o \in IoOps : IoCall(t, q, p, o)

Next ==
  \/ SerialGetPortList
  \/ \E p \in Ports, tok \in Tokens \ SystemTokens, k \in {"own", "default"} :
        AddSerialRight(p, tok, k)
  \/ \E t \in Threads, p \in Ports : ClientCall(t, p)
  \/ \E t \in Threads : Step(t)
  \/ \E q \in Procs \ {Dumper} : Die(q)
  \/ \E q \in Procs, p \in Ports : OnRemoteDied(q, p)

(* Handlers run to their end and the kernel delivers death notices; no     *)
(* client is obliged to call, to die or to be granted anything.            *)
Fairness ==
  /\ \A t \in Threads : WF_vars(Step(t))
  /\ \A q \in Procs, p \in Ports : WF_vars(OnRemoteDied(q, p))

Spec == Init /\ [][Next]_vars /\ Fairness

(***************************************************************************)
(* Properties                                                              *)
(***************************************************************************)
TypeOK ==
  /\ serialPortMap \subseteq Ports
  /\ portTokenMap \in [Ports -> Tokens \union {NoToken}]
  /\ portsHasBeen \in [AuditedOps -> SUBSET Ports]
  /\ right \subseteq Ports \X Tokens \X {"own", "default"}
  /\ hdiOpen \subseteq Ports
  /\ alive \subseteq Procs
  /\ links \in [Procs \X Ports -> 0 .. MaxLinks]
  /\ call \in [Threads -> Calls \union {Idle}]
  /\ opener \in [Ports -> Procs]
  /\ late \subseteq Ports
  /\ endedBy \in [Ports -> {"open", "close", "death", "stale"}]
  /\ stale \subseteq Threads
  /\ leftover \in [AuditedOps -> SUBSET Ports]
  /\ reported \in [AuditedOps -> SUBSET Ports]

(* An owner entry stands for a port the driver has open, except while a    *)
(* SerialClose that has closed the port in the driver has not yet erased   *)
(* an entry: whatever overlaps, no application keeps a port it cannot use  *)
(* and cannot reopen.                                                      *)
EntryBacked ==
  \A p \in Ports :
     portTokenMap[p] # NoToken =>
        \/ p \in hdiOpen
        \/ \E t \in Threads : /\ call[t].pc \in {"reset", "erase"}
                              /\ call[t].port = p

portWork ==
  [t \in Threads |-> IF PastCheck(t) THEN <<call[t].port, CallToken(t)>> ELSE <<>>]

deadTokens == {TokenOf[q] : q \in Procs \ alive}

Lock == INSTANCE OwnedPort WITH
          Works <- Threads, Owners <- Tokens, Free <- NoToken,
          owner <- portTokenMap, work <- portWork, gone <- deadTokens

(* A port is a lock: SerialOpen gets a free port only, only the owner's    *)
(* reads, writes and closes get past CheckPortAndTokenId, and the owner    *)
(* loses the port by the end of a close or by a death of its token; the    *)
(* calls under way then are stale, and what the lock still lets a stale    *)
(* SerialClose do is to end the session that came after its own.           *)
ImplementsLock == Lock!Spec

(* A port the driver has open and nobody owns was left so by FreeTokenId,  *)
(* which ignores the driver's answer, or by a stale SerialClose, which     *)
(* erases the entry of a session that began after its driver close; a      *)
(* SerialClose whose check still holds never leaks a port, whatever other  *)
(* calls and deaths it overlaps.                                           *)
NoOrphanByClose ==
  \A p \in hdiOpen : portTokenMap[p] = NoToken => endedBy[p] # "close"

(* A first-use record, which keeps every later read or write of the port   *)
(* from being audited, stands for one that was audited in the present      *)
(* session, unless it is left over: from a session that a death ended, or  *)
(* from a read or write that ran past the reset of the SerialClose that    *)
(* ended its session.                                                      *)
AuditNotSilenced ==
  \A o \in AuditedOps : portsHasBeen[o] \ leftover[o] \subseteq reported[o]

(* A port whose opener has died still has a death recipient to come that   *)
(* frees it, unless its SerialOpen finished after the last of them had     *)
(* fired (late): then nothing is left that would ever free it.             *)
DeadOwnerWatched ==
  \A p \in Ports :
     (portTokenMap[p] # NoToken /\ opener[p] \notin alive) =>
        links[<<opener[p], p>>] > 0 \/ p \in late

(* A port whose opener died is freed, by the recipient or by the end of a  *)
(* close, unless it was opened after the last recipient had fired.         *)
DeadOwnerFreed ==
  \A q \in Procs \ {Dumper}, p \in Ports :
     (q \notin alive /\ opener[p] = q /\ portTokenMap[p] # NoToken /\ p \notin late)
        ~> (portTokenMap[p] = NoToken \/ opener[p] # q \/ p \in late)

(***************************************************************************)
(* The inductive strengthening of the properties above.                    *)
(***************************************************************************)
(* A call is stale only past its check, and owns its port until then.      *)
CallerOwns ==
  \A t \in Threads :
     /\ t \in stale => PastCheck(t)
     /\ (PastCheck(t) /\ t \notin stale) =>
           portTokenMap[call[t].port] = CallToken(t)

ClosedInDriver ==
  \A t \in Threads :
     (call[t].pc \in {"reset", "erase"} /\ t \notin stale) =>
        call[t].port \notin hdiOpen

(* What a SerialClose that has reset the records leaves is left over.      *)
ResetBeforeErase ==
  \A t \in Threads, o \in AuditedOps :
     (call[t].pc = "erase" /\ call[t].port \in portsHasBeen[o]) =>
        call[t].port \in leftover[o]

FirstUseInSession ==
  \A o \in AuditedOps : \A p \in portsHasBeen[o] \ leftover[o] :
     portTokenMap[p] # NoToken

(* The process that opened a port owns it, and while it lives, and while   *)
(* it is inside SerialOpen, its recipient is registered.                   *)
OpenerLinked ==
  /\ \A p \in Ports :
        portTokenMap[p] # NoToken =>
           /\ portTokenMap[p] = TokenOf[opener[p]]
           /\ opener[p] \in alive \ {Dumper} => links[<<opener[p], p>>] > 0
  /\ \A t \in Threads :
        (call[t].pc = "open" /\ call[t].proc \in alive \ {Dumper}) =>
           links[<<call[t].proc, call[t].port>>] > 0

SerialInv ==
  /\ TypeOK
  /\ Dumper \in alive
  /\ CallerOwns
  /\ ClosedInDriver
  /\ NoOrphanByClose
  /\ ResetBeforeErase
  /\ FirstUseInSession
  /\ AuditNotSilenced
  /\ OpenerLinked
  /\ DeadOwnerWatched

=============================================================================
