---------------------------- MODULE MCUsbRightDb ----------------------------
(* Grants by name while the clock moves and the service restarts; one      *)
(* application while lookups and transactions fail; two applications,      *)
(* installed twice, while nothing fails.                                   *)
EXTENDS UsbRightDb

CONSTANTS u1, a1, a2, d1

MCScenarios ==
  {[faults |-> {"db", "clock", "restart", "notInstalled"}, apps |-> {a1},
    time |-> 3, installs |-> 0],
   [faults |-> {"db", "lookup", "restart"}, apps |-> {a1},
    time |-> 2, installs |-> 1],
   [faults |-> {}, apps |-> {a1, a2}, time |-> 1, installs |-> 2]}

RemovedScenarios ==
  {[faults |-> {}, apps |-> {a1}, time |-> 2, installs |-> 1]}
=============================================================================
