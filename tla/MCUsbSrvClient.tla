--------------------------- MODULE MCUsbSrvClient ---------------------------
(* Five instances in one: the service among its events, policies and       *)
(* refusals; the client's calls over a crash and over unloadings; a call   *)
(* where an event keeps the service or ends it; two calls, of which a      *)
(* service with a device may keep one; a call among refusals.              *)
EXTENDS UsbSrvClient

Busy    == [events |-> 3, calls |-> 0, crashes |-> 0, policies |-> 1, refusals |-> 1]
Called  == [events |-> 0, calls |-> 3, crashes |-> 1, policies |-> 0, refusals |-> 0]
Both    == [events |-> 1, calls |-> 1, crashes |-> 1, policies |-> 0, refusals |-> 0]
Keeping == [events |-> 1, calls |-> 2, crashes |-> 0, policies |-> 0, refusals |-> 0]
Refused == [events |-> 0, calls |-> 2, crashes |-> 1, policies |-> 0, refusals |-> 1]

MCBudgets == {Busy, Called, Both, Keeping, Refused}
=============================================================================
