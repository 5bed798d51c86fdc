---------------------------- MODULE MCUsbPrompts ----------------------------
(***************************************************************************)
(* The function switch window, and the port with its notice.  They share   *)
(* no state, so that each is checked with the other at rest: the behaviour *)
(* is chosen with the initial state.                                       *)
(*                                                                         *)
(* Three calls show, dismiss and show again around the boot, the install   *)
(* check and late callbacks; four switches of the role pass a query twice. *)
(* The users of the notice meet the port only through portMap_, which a    *)
(* switch of users reads: two of the gadget's threads at a time are        *)
(* checked with the moving port, and one at a time with the devices of     *)
(* host mode, two of them and two policies at once.                        *)
(***************************************************************************)
EXTENDS UsbFunctionSwitchWindow, UsbPortManager

VARIABLE part

MCInit ==
  /\ Init
  /\ PortInit
  /\ \/ part = "window" /\ driverRole = "sink"
     \/ part \in {"port", "notice"} /\ boot /\ bundle

(* At most n threads of the device manager are at work.                    *)
Gadget(n) ==
  /\ GadgetNext
  /\ Cardinality({t \in Notifiers : notifying'[t] # "idle"}) <= n

Listing == InitQuery \/ InitAdd

MCNext ==
  \/ part = "window" /\ Next /\ UNCHANGED <<portVars, part>>
  \/ part = "port" /\ (MapNext \/ Gadget(2)) /\ UNCHANGED <<vars, part>>
  \/ part = "notice" /\ (Listing \/ HostNext \/ Gadget(1)) /\ UNCHANGED <<vars, part>>

MCSpec == MCInit /\ [][MCNext]_<<vars, portVars, part>>
=============================================================================
