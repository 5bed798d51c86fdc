----------------------- MODULE UsbFunctionSwitchWindow -----------------------
(***************************************************************************)
(* The function switch window (usb_function_switch_window.cpp): when a     *)
(* host is connected the user is asked what the cable is for, when it is   *)
(* gone the window is taken down.  A window needs three things that come   *)
(* in any order: somebody asked (windowAction_), the dialog's bundle is    *)
(* known (isDialogInstalled_), the system has booted.  Whoever brings the  *)
(* last of them has to show it.                                            *)
(*                                                                         *)
(* PopUp, Dismiss and the boot callback hold opMutex_.  The install check  *)
(* (a timer task, later the handler of BUNDLE_SCAN_FINISHED) takes no lock *)
(* and shares windowAction_ and usbFuncAbilityConn with them.  The window  *)
(* itself belongs to the system's dialog host, which answers through the   *)
(* callbacks of the connection object.                                     *)
(***************************************************************************)
EXTENDS Naturals, Sequences, FiniteSets

CONSTANTS
  MaxCalls,  \* bound on PopUp and Dismiss calls
  MaxConns,  \* bound on connection objects
  MaxRetry   \* MAX_RETRY_TIMES

ASSUME WindowAssumption ==
  /\ MaxCalls \in Nat
  /\ MaxConns \in Nat \ {0}
  /\ MaxRetry \in Nat \ {0}

Conns == 1 .. MaxConns
Null  == 0

(* caller: the device manager's timer and event threads, which only meet   *)
(* under opMutex_; boot: the parameter watcher; check: the install check.  *)
Threads == {"caller", "boot", "check"}

VARIABLES
  windowAction,   \* windowAction_: "default", "show", "dismiss"
  installed,      \* isDialogInstalled_
  conn,           \* usbFuncAbilityConn: a connection object or Null
  used,           \* connection objects created so far
  abort,          \* isAbortDialog_ of each connection object
  remote,         \* remoteObject_ of each connection object is set
  queue,          \* callbacks the ability manager owes each object (external)
  callback,       \* progress of the callback each object runs
  shown,          \* objects whose window the dialog host displays (external)
  pc,             \* progress of each thread
  opMutex,        \* thread that holds opMutex_, or "none"
  tries,          \* queries the install check has made in this round
  boot,           \* bootevent.boot.completed (external)
  bundle,         \* the bundle manager knows the dialog (external)
  watch,          \* the boot parameter is watched
  subscribed,     \* BUNDLE_SCAN_FINISHED is subscribed
  calls,          \* PopUp and Dismiss calls so far
  crashed,        \* the process used a null or freed pointer
  prompted,       \* history: displayed since the last PopUp
  refused,        \* history: host or ability manager failed since then
  missed,         \* history: boot or scan event before its subscription
  hurried,        \* history: a Dismiss with a connect callback outstanding
  raced,          \* history: the install check met an opMutex_ holder
  orphaned        \* history: a connection in use was given up, or its window
                  \* did not obey the close command

connVars    == <<conn, used, abort, remote>>
hostVars    == <<queue, callback, shown>>
outsideVars == <<boot, bundle>>
eventVars   == <<watch, subscribed>>
historyVars == <<prompted, refused, missed, hurried, raced, orphaned>>
vars == <<windowAction, installed, connVars, hostVars, pc, opMutex, tries,
          outsideVars, eventVars, calls, crashed, historyVars>>

(* UsbFunctionSwitchWindow::Init: the check is registered as a task, or    *)
(* runs at once when there is no timer.                                    *)
Init ==
  /\ windowAction = "default"
  /\ installed = FALSE
  /\ conn = Null
  /\ used = 0
  /\ abort  = [c \in Conns |-> FALSE]
  /\ remote = [c \in Conns |-> FALSE]
  /\ queue  = [c \in Conns |-> <<>>]
  /\ callback = [c \in Conns |-> "idle"]
  /\ shown = {}
  /\ pc = [caller |-> "idle", boot |-> "idle", check |-> "query"]
  /\ opMutex = "none"
  /\ tries = 0
  /\ boot \in BOOLEAN
  /\ bundle \in BOOLEAN
  /\ watch = FALSE
  /\ subscribed = FALSE
  /\ calls = 0
  /\ crashed = FALSE
  /\ prompted = FALSE
  /\ refused = FALSE
  /\ missed = FALSE
  /\ hurried = FALSE
  /\ raced = FALSE
  /\ orphaned = FALSE

Goto(t, l) == pc' = [pc EXCEPT ![t] = l]

(* The thread's call returns; the lock guard releases opMutex_.            *)
Return(t) ==
  /\ Goto(t, "idle")
  /\ opMutex' = IF opMutex = t THEN "none" ELSE opMutex

(* Between these points a thread reads or writes usbFuncAbilityConn.       *)
UsesConn == {"conn", "create", "reopen", "connect", "giveUp", "close", "send",
             "disconnect"}

Overlap(t) == \E u \in Threads \ {t} : pc[u] \in UsesConn

Waits(c, what) == \E i \in 1 .. Len(queue[c]) : queue[c][i] = what

(* A callback that has yet to display or to record its window.             *)
Outstanding(c) == callback[c] # "idle" \/ Waits(c, "connect")

(***************************************************************************)
(* CheckDialogInstallStatus.  No lock is held; the result is published     *)
(* before windowAction_ is read.                                           *)
(***************************************************************************)
(* One query of the bundle manager; a failing one is repeated after a      *)
(* second, and after the last one the timer task goes on to subscribe.     *)
Query ==
  /\ pc["check"] = "query"
  /\ tries < MaxRetry
  /\ installed' = bundle
  /\ tries' = tries + 1
  /\ Goto("check", IF bundle THEN "action"
                   ELSE IF tries + 1 < MaxRetry THEN "query"
                   ELSE IF subscribed THEN "idle" ELSE "subscribe")
  /\ UNCHANGED <<windowAction, connVars, hostVars, opMutex, outsideVars,
                 eventVars, calls, crashed, historyVars>>

(* Mutant: the check does not ask whether somebody waits for it.           *)
CheckDialogInstallStatusMutant ==
  /\ pc["check"] = "action"
  /\ Goto("check", "idle")
  /\ UNCHANGED <<windowAction, installed, connVars, hostVars, opMutex, tries,
                 outsideVars, eventVars, calls, crashed, historyVars>>

CheckDialogInstallStatus ==
  /\ pc["check"] = "action"
  /\ Goto("check", IF windowAction = "show" THEN "booted" ELSE "idle")
  /\ UNCHANGED <<windowAction, installed, connVars, hostVars, opMutex, tries,
                 outsideVars, eventVars, calls, crashed, historyVars>>

CheckBoot ==
  /\ pc["check"] = "booted"
  /\ Goto("check", IF boot THEN "show" ELSE "idle")
  /\ UNCHANGED <<windowAction, installed, connVars, hostVars, opMutex, tries,
                 outsideVars, eventVars, calls, crashed, historyVars>>

(* The scan may have finished since the last query: its event is missed.   *)
SubscribeCommonEvent ==
  /\ pc["check"] = "subscribe"
  /\ subscribed' \in BOOLEAN
  /\ missed' = (missed \/ bundle \/ ~subscribed')
  /\ Goto("check", "idle")
  /\ UNCHANGED <<windowAction, installed, connVars, hostVars, opMutex, tries,
                 outsideVars, watch, calls, crashed, prompted, refused, hurried,
                 raced, orphaned>>

(* BUNDLE_SCAN_FINISHED, which FuncSwitchSubscriber answers by a new check.*)
OnReceiveEvent ==
  /\ ~bundle
  /\ bundle' = TRUE
  /\ IF subscribed
     THEN Goto("check", "query") /\ tries' = 0
     ELSE UNCHANGED <<pc, tries>>
  /\ UNCHANGED <<windowAction, installed, connVars, hostVars, opMutex, boot,
                 eventVars, calls, crashed, historyVars>>

(***************************************************************************)
(* PopUpFunctionSwitchWindow.  A pop-up that the prompt parameters or the  *)
(* supported functions forbid touches none of this state (it enables the   *)
(* prompt again) and is not a step.  Nobody assigns                        *)
(* FUNCTION_SWITCH_WINDOW_ACTION_FORBID.                                   *)
(***************************************************************************)
PopUpFunctionSwitchWindow ==
  /\ pc["caller"] = "idle"
  /\ opMutex = "none"
  /\ calls < MaxCalls
  /\ calls' = calls + 1
  /\ opMutex' = "caller"
  /\ windowAction' = "show"
  /\ Goto("caller", "booted")
  /\ prompted' = FALSE
  /\ refused' = FALSE
  /\ UNCHANGED <<installed, connVars, hostVars, tries, outsideVars, eventVars,
                 crashed, missed, hurried, raced, orphaned>>

(* Whether the set-up assistant is finished is only logged.                *)
PopUpBoot ==
  /\ pc["caller"] = "booted"
  /\ Goto("caller", IF boot THEN "show" ELSE "watch")
  /\ UNCHANGED <<windowAction, installed, connVars, hostVars, opMutex, tries,
                 outsideVars, eventVars, calls, crashed, historyVars>>

(* The system may have booted since the parameter was read.                *)
WatchBoot ==
  /\ pc["caller"] = "watch"
  /\ \E ok \in BOOLEAN :
       /\ watch' = (watch \/ ok)
       /\ missed' = (missed \/ boot \/ ~ok)
  /\ Return("caller")
  /\ UNCHANGED <<windowAction, installed, connVars, hostVars, tries,
                 outsideVars, subscribed, calls, crashed, prompted, refused,
                 hurried, raced, orphaned>>

BootCompletes ==
  /\ ~boot
  /\ boot' = TRUE
  /\ IF watch THEN Goto("boot", "lock") ELSE UNCHANGED pc
  /\ UNCHANGED <<windowAction, installed, connVars, hostVars, opMutex, tries,
                 bundle, eventVars, calls, crashed, historyVars>>

(* BootCompletedEventCallback and ShowWindowIfConnected.                   *)
ShowWindowIfConnected ==
  /\ pc["boot"] = "lock"
  /\ opMutex = "none"
  /\ IF windowAction = "show"
     THEN Goto("boot", "show") /\ opMutex' = "boot"
     ELSE Goto("boot", "idle") /\ UNCHANGED opMutex
  /\ UNCHANGED <<windowAction, installed, connVars, hostVars, tries,
                 outsideVars, eventVars, calls, crashed, historyVars>>

(***************************************************************************)
(* ShowFunctionSwitchWindow, on any of the threads.                        *)
(***************************************************************************)
ShowFunctionSwitchWindow(t) ==
  /\ pc[t] = "show"
  /\ IF installed
     THEN /\ Goto(t, "conn")
          /\ raced' = (raced \/ Overlap(t))
          /\ UNCHANGED opMutex
     ELSE Return(t) /\ UNCHANGED raced
  /\ UNCHANGED <<windowAction, installed, connVars, hostVars, tries,
                 outsideVars, eventVars, calls, crashed, prompted, refused,
                 missed, hurried, orphaned>>

TestConn(t) ==
  /\ pc[t] = "conn"
  /\ Goto(t, IF conn = Null THEN "create" ELSE "reopen")
  /\ UNCHANGED <<windowAction, installed, connVars, hostVars, opMutex, tries,
                 outsideVars, eventVars, calls, crashed, historyVars>>

CreateConn(t) ==
  /\ pc[t] = "create"
  /\ used < MaxConns
  /\ used' = used + 1
  /\ conn' = used'
  /\ Goto(t, "reopen")
  /\ UNCHANGED <<windowAction, installed, abort, remote, hostVars, opMutex,
                 tries, outsideVars, eventVars, calls, crashed, historyVars>>

(* Mutant: the abort of an earlier Dismiss stays.                          *)
ReopenDialogMutant(t) ==
  /\ pc[t] = "reopen"
  /\ IF conn = Null
     THEN crashed' = TRUE /\ UNCHANGED pc
     ELSE Goto(t, "connect") /\ UNCHANGED crashed
  /\ UNCHANGED <<windowAction, installed, connVars, hostVars, opMutex,
                 tries, outsideVars, eventVars, calls, historyVars>>

(* The member is read again: another thread may have reset it.             *)
ReopenDialog(t) ==
  /\ pc[t] = "reopen"
  /\ IF conn = Null
     THEN crashed' = TRUE /\ UNCHANGED <<pc, abort>>
     ELSE /\ abort' = [abort EXCEPT ![conn] = FALSE]
          /\ Goto(t, "connect")
          /\ UNCHANGED crashed
  /\ UNCHANGED <<windowAction, installed, conn, used, remote, hostVars, opMutex,
                 tries, outsideVars, eventVars, calls, historyVars>>

(* The scene board or, failing that, the system UI takes the request.      *)
ConnectAbility(t) ==
  /\ pc[t] = "connect"
  /\ \/ /\ conn # Null
        /\ queue' = [queue EXCEPT ![conn] = Append(@, "connect")]
        /\ Return(t)
     \/ Goto(t, "giveUp") /\ UNCHANGED <<queue, opMutex>>
  /\ UNCHANGED <<windowAction, installed, connVars, callback, shown, tries,
                 outsideVars, eventVars, calls, crashed, historyVars>>

(* Both refused: the object is dropped, even one that is connected.        *)
GiveUp(t) ==
  /\ pc[t] = "giveUp"
  /\ conn' = Null
  /\ refused' = TRUE
  /\ orphaned' = (orphaned \/ (conn # Null /\ (conn \in shown \/ Outstanding(conn))))
  /\ Return(t)
  /\ UNCHANGED <<windowAction, installed, used, abort, remote, hostVars, tries,
                 outsideVars, eventVars, calls, crashed, prompted, missed,
                 hurried, raced>>

(***************************************************************************)
(* DismissFunctionSwitchWindow and UnShowFunctionSwitchWindow.             *)
(***************************************************************************)
DismissFunctionSwitchWindow ==
  /\ pc["caller"] = "idle"
  /\ opMutex = "none"
  /\ calls < MaxCalls
  /\ calls' = calls + 1
  /\ opMutex' = "caller"
  /\ windowAction' = "dismiss"
  /\ Goto("caller", "close")
  /\ hurried' = (hurried \/ \E c \in Conns : Outstanding(c))
  /\ raced' = (raced \/ pc["check"] \in UsesConn \union {"booted", "show"})
  /\ UNCHANGED <<installed, connVars, hostVars, tries, outsideVars, eventVars,
                 crashed, prompted, refused, missed, orphaned>>

UnShowFunctionSwitchWindow ==
  /\ pc["caller"] = "close"
  /\ IF conn = Null
     THEN Return("caller") /\ UNCHANGED abort
     ELSE /\ abort' = [abort EXCEPT ![conn] = TRUE]
          /\ Goto("caller", "send")
          /\ UNCHANGED opMutex
  /\ UNCHANGED <<windowAction, installed, conn, used, remote, hostVars, tries,
                 outsideVars, eventVars, calls, crashed, historyVars>>

(* Mutant: the window is left to the disconnection.                        *)
CloseDialogMutant ==
  /\ pc["caller"] = "send"
  /\ Goto("caller", "disconnect")
  /\ UNCHANGED <<windowAction, installed, connVars, hostVars, opMutex, tries,
                 outsideVars, eventVars, calls, crashed, historyVars>>

(* Under remoteMutex_.  A failed command or reply is only logged; the      *)
(* window of a host that lives may stay.                                   *)
CloseDialog ==
  /\ pc["caller"] = "send"
  /\ IF conn = Null
     THEN crashed' = TRUE /\ UNCHANGED <<pc, shown, orphaned>>
     ELSE /\ \/ /\ shown' = IF remote[conn] THEN shown \ {conn} ELSE shown
                /\ UNCHANGED orphaned
             \/ conn \in shown /\ UNCHANGED shown /\ orphaned' = TRUE
          /\ Goto("caller", "disconnect")
          /\ UNCHANGED crashed
  /\ UNCHANGED <<windowAction, installed, connVars, queue, callback, opMutex,
                 tries, outsideVars, eventVars, calls, prompted, refused, missed,
                 hurried, raced>>

(* Refused when there is no connection.                                    *)
DisconnectAbility ==
  /\ pc["caller"] = "disconnect"
  /\ queue' \in {queue, IF conn = Null THEN queue
                        ELSE [queue EXCEPT ![conn] = Append(@, "disconnect")]}
  /\ Return("caller")
  /\ UNCHANGED <<windowAction, installed, connVars, callback, shown, tries,
                 outsideVars, eventVars, calls, crashed, historyVars>>

(***************************************************************************)
(* The callbacks of a connection object, one at a time and in order.       *)
(***************************************************************************)
OnAbilityConnectDone(c) ==
  /\ callback[c] = "idle"
  /\ queue[c] # <<>>
  /\ Head(queue[c]) = "connect"
  /\ queue' = [queue EXCEPT ![c] = Tail(@)]
  /\ \/ /\ callback' = [callback EXCEPT ![c] = IF abort[c] THEN "abort"
                                                ELSE "display"]
        /\ UNCHANGED refused
     \/ refused' = TRUE /\ UNCHANGED callback
  /\ UNCHANGED <<windowAction, installed, connVars, shown, pc, opMutex, tries,
                 outsideVars, eventVars, calls, crashed, prompted, missed,
                 hurried, raced, orphaned>>

(* The close command goes to remoteObject_, which is still null on the     *)
(* first connection, not to the object just received.                      *)
AbortDialog(c) ==
  /\ callback[c] = "abort"
  /\ IF remote[c]
     THEN shown' = shown \ {c} /\ UNCHANGED crashed
     ELSE crashed' = TRUE /\ UNCHANGED shown
  /\ callback' = [callback EXCEPT ![c] = "idle"]
  /\ UNCHANGED <<windowAction, installed, connVars, queue, pc, opMutex, tries,
                 outsideVars, eventVars, calls, historyVars>>

DisplayDialog(c) ==
  /\ callback[c] = "display"
  /\ \/ /\ shown' = shown \union {c}
        /\ prompted' = TRUE
        /\ callback' = [callback EXCEPT ![c] = "record"]
        /\ UNCHANGED refused
     \/ /\ refused' = TRUE
        /\ callback' = [callback EXCEPT ![c] = "idle"]
        /\ UNCHANGED <<shown, prompted>>
  /\ UNCHANGED <<windowAction, installed, connVars, queue, pc, opMutex, tries,
                 outsideVars, eventVars, calls, crashed, missed, hurried, raced,
                 orphaned>>

(* Under remoteMutex_.                                                     *)
RecordRemote(c) ==
  /\ callback[c] = "record"
  /\ remote' = [remote EXCEPT ![c] = TRUE]
  /\ callback' = [callback EXCEPT ![c] = "idle"]
  /\ UNCHANGED <<windowAction, installed, conn, used, abort, queue, shown, pc,
                 opMutex, tries, outsideVars, eventVars, calls, crashed,
                 historyVars>>

OnAbilityDisconnectDone(c) ==
  /\ callback[c] = "idle"
  /\ queue[c] # <<>>
  /\ Head(queue[c]) = "disconnect"
  /\ queue' = [queue EXCEPT ![c] = Tail(@)]
  /\ remote' = [remote EXCEPT ![c] = FALSE]
  /\ UNCHANGED <<windowAction, installed, conn, used, abort, callback, shown,
                 pc, opMutex, tries, outsideVars, eventVars, calls, crashed,
                 historyVars>>

(***************************************************************************)
(* The outside: the user answers; the dialog host dies; two threads touch  *)
(* usbFuncAbilityConn at once, an unsynchronised sptr.                     *)
(***************************************************************************)
UserAnswers(c) ==
  /\ c \in shown
  /\ shown' = shown \ {c}
  /\ UNCHANGED <<windowAction, installed, connVars, queue, callback, pc,
                 opMutex, tries, outsideVars, eventVars, calls, crashed,
                 historyVars>>

(* With a callback outstanding it would only fail that one too.            *)
HostDies ==
  /\ shown # {}
  /\ \A c \in shown : ~Outstanding(c)
  /\ shown' = {}
  /\ queue' = [c \in Conns |-> IF c \in shown THEN Append(queue[c], "disconnect")
                               ELSE queue[c]]
  /\ UNCHANGED <<windowAction, installed, connVars, callback, pc, opMutex,
                 tries, outsideVars, eventVars, calls, crashed, historyVars>>

ConnRace ==
  /\ \E t \in Threads : pc[t] \in UsesConn /\ Overlap(t)
  /\ crashed' = TRUE
  /\ UNCHANGED <<windowAction, installed, connVars, hostVars, pc, opMutex,
                 tries, outsideVars, eventVars, calls, historyVars>>

Show(t) == \/ ShowFunctionSwitchWindow(t) \/ TestConn(t) \/ CreateConn(t)
           \/ ReopenDialog(t) \/ ConnectAbility(t) \/ GiveUp(t)

Callback(c) == \/ OnAbilityConnectDone(c) \/ AbortDialog(c) \/ DisplayDialog(c)
               \/ RecordRemote(c) \/ OnAbilityDisconnectDone(c)

Next ==
  /\ ~crashed
  /\ \/ Query \/ CheckDialogInstallStatus \/ CheckBoot \/ SubscribeCommonEvent
     \/ OnReceiveEvent
     \/ PopUpFunctionSwitchWindow \/ PopUpBoot \/ WatchBoot
     \/ BootCompletes \/ ShowWindowIfConnected
     \/ DismissFunctionSwitchWindow \/ UnShowFunctionSwitchWindow
     \/ CloseDialog \/ DisconnectAbility
     \/ \E t \in Threads : Show(t)
     \/ \E c \in Conns : Callback(c) \/ UserAnswers(c)
     \/ HostDies \/ ConnRace

Spec == Init /\ [][Next]_vars

-----------------------------------------------------------------------------
Quiet ==
  /\ ~crashed
  /\ \A t \in Threads : pc[t] = "idle"
  /\ \A c \in Conns : queue[c] = <<>> /\ callback[c] = "idle"

(* Whatever comes last, the request, the installation or the end of the    *)
(* boot, the window is displayed: once everything is quiet a requested     *)
(* window was shown, unless host or ability manager failed or an event was *)
(* published before it was subscribed.                                     *)
PromptNotLost ==
  Quiet /\ windowAction = "show" /\ boot /\ bundle /\ ~refused /\ ~missed
    => prompted

(* After a Dismiss no window stays, unless the Dismiss came between the    *)
(* request and its callback, met the unlocked install check, followed a    *)
(* refused second connection, which drops the object of the first, or the  *)
(* host did not obey the close command, whose failure is only logged.      *)
NoWindowLeft ==
  Quiet /\ shown # {} /\ ~hurried /\ ~raced /\ ~orphaned
    => windowAction = "show" /\ shown = {conn}

(* Only a Dismiss before the connect callback, or the unlocked check, can  *)
(* make the service use a null or freed pointer.                           *)
CrashOnlyHurried == crashed => hurried \/ raced

-----------------------------------------------------------------------------
(***************************************************************************)
(* The strengthening that makes the three invariants inductive.            *)
(***************************************************************************)
(* A thread on the way from the decision to show to the ability manager.   *)
Opening == {"conn", "create", "reopen", "connect", "giveUp"}

(* A thread that takes a window down.                                      *)
Closing == {"close", "send", "disconnect"}

(* Where each thread can be.                                               *)
CallerAt == {"idle", "booted", "watch", "show"} \union Opening \union Closing
BootAt   == {"idle", "lock", "show"} \union Opening
CheckAt  == {"idle", "query", "subscribe", "action", "booted", "show"} \union Opening

WindowTypeOK ==
  /\ windowAction \in {"default", "show", "dismiss"}
  /\ used \in Nat /\ conn \in {Null} \union Conns /\ conn <= used
  /\ abort \in [Conns -> BOOLEAN] /\ remote \in [Conns -> BOOLEAN]
  /\ \A c \in Conns : abort[c] => c <= used
  /\ queue \in [Conns -> Seq({"connect", "disconnect"})]
  /\ callback \in [Conns -> {"idle", "abort", "display", "record"}]
  /\ shown \subseteq Conns
  /\ pc \in [Threads -> CallerAt \union BootAt \union CheckAt]
  /\ pc["caller"] \in CallerAt /\ pc["boot"] \in BootAt /\ pc["check"] \in CheckAt
  /\ opMutex \in {"none", "caller", "boot"}

(* opMutex_ keeps the caller and the boot callback apart.                  *)
LockInv ==
  /\ pc["caller"] # "idle" <=> opMutex = "caller"
  /\ pc["boot"] \notin {"idle", "lock"} <=> opMutex = "boot"

(* What a thread has found out stays true: the boot and the installation   *)
(* are not taken back, and nobody shows what was dismissed under its lock. *)
FoundInv ==
  /\ installed => bundle
  /\ pc["boot"] # "idle" => boot
  /\ \A t \in Threads :
       /\ pc[t] \in {"show"} \union Opening => boot
       /\ pc[t] \in Opening => installed
  /\ pc["check"] \in {"action", "booted", "show"} => installed
  /\ conn # Null => boot /\ installed
  /\ pc["caller"] \in Closing => windowAction = "dismiss"
  /\ raced \/ windowAction = "show"
       \/ \A t \in Threads : pc[t] \notin {"booted", "show"} \union Opening

(* Without a race one thread at a time uses usbFuncAbilityConn, and it     *)
(* finds there what it has seen or put there.                              *)
ConnInv ==
  raced \/
    /\ \A t, u \in Threads : pc[t] \in UsesConn /\ pc[u] \in UsesConn => t = u
    /\ \A t \in Threads :
         /\ pc[t] = "create" => conn = Null
         /\ pc[t] \in {"reopen", "connect", "giveUp", "send", "disconnect"} => conn # Null
         /\ pc[t] = "connect" => ~abort[conn]

(* A Dismiss that is not hurried finds no callback outstanding, and none   *)
(* comes until the next window is requested.                               *)
CallbackInv ==
  hurried \/ raced \/
    /\ \A c \in Conns : abort[c] => ~Outstanding(c)
    /\ \A c \in Conns : callback[c] # "abort"
    /\ pc["caller"] \in Closing => \A c \in Conns : ~Outstanding(c)

(* A window belongs to the connection in use, which has its remote object, *)
(* and no disconnection is under way behind it.  After a Dismiss there is  *)
(* none.                                                                   *)
ShownInv ==
  hurried \/ raced \/ orphaned \/
    /\ \A c \in Conns : c \in shown \/ Outstanding(c) => c = conn
    /\ \A c \in shown : remote[c] \/ callback[c] = "record"
    /\ \A c \in Conns : c \in shown \/ callback[c] # "idle" => ~Waits(c, "disconnect")
    /\ \A c \in Conns : \A i, j \in 1 .. Len(queue[c]) :
         queue[c][i] = "connect" /\ queue[c][j] = "disconnect" => j < i
    /\ windowAction # "show" =>
         /\ \A c \in Conns : ~Outstanding(c)
         /\ pc["caller"] \notin {"close", "send"} => shown = {}

(* What will bring the boot and the installation to the window.            *)
AwaitedInv ==
  missed \/
    /\ windowAction = "show" /\ ~boot => watch \/ pc["caller"] \in {"booted", "watch"}
    /\ ~installed => pc["check"] \in {"query", "subscribe"} \/ (subscribed /\ ~bundle)

(* The abort of an earlier Dismiss is taken back before anybody connects.  *)
ReopenInv ==
  windowAction = "show" /\ conn # Null /\ abort[conn] =>
    pc["caller"] \in {"booted", "show", "conn", "create", "reopen"}

(* Somebody is on the way to the window.                                   *)
OnTheWay ==
  \/ \E c \in Conns : callback[c] = "display" \/ (Waits(c, "connect") /\ ~abort[c])
  \/ \E t \in Threads : pc[t] \in {"booted", "show"} \union Opening
  \/ pc["caller"] = "watch" \/ pc["boot"] = "lock" \/ pc["check"] = "action"

PromptInv ==
  windowAction = "show" /\ boot /\ installed /\ ~refused /\ ~missed /\ ~crashed =>
    prompted \/ OnTheWay

WindowInv ==
  /\ WindowTypeOK /\ LockInv /\ FoundInv /\ ConnInv /\ CallbackInv /\ ShownInv
  /\ AwaitedInv /\ ReopenInv /\ PromptInv /\ CrashOnlyHurried
=============================================================================
