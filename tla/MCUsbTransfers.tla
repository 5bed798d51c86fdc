--------------------------- MODULE MCUsbTransfers ---------------------------
(* Two processes share one address and submit and cancel, or transfer, or  *)
(* use the calls of the inner kit, while a device comes and goes; or they  *)
(* submit, or use the session, while two devices take turns on the address.*)
EXTENDS UsbTransfers, TLC

CONSTANTS App, Sys, T1, T2

Submitting ==
  App :> {"OpenDevice", "UsbSubmitTransfer", "UsbCancelTransfer"}
  @@ Sys :> {"UsbSubmitTransfer"}

Transferring ==
  App :> {"OpenDevice", "ControlTransfer"}
  @@ Sys :> {"ResetDevice", "UsbControlTransfer"}

Using ==
  App :> {"OpenDevice", "Close", "descriptor", "BulkTransfer"}
  @@ Sys :> {"interface"}

Inner ==
  App :> {"OpenDevice", "RegBulkCallback", "UnRegBulkCallback", "BulkRead"}
  @@ Sys :> {"RegBulkCallback", "kernel", "request"}

Replugging ==
  App :> {"OpenDevice", "UsbSubmitTransfer", "UsbCancelTransfer"} @@ Sys :> {}

MCPrograms == {Submitting, Transferring, Using, Inner, Replugging}

MCMaxPlugs == [p \in MCPrograms |-> IF p \in {Using, Replugging} THEN 2 ELSE 1]

MCOwnerOf == T1 :> App @@ T2 :> Sys
=============================================================================
