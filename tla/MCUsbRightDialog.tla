-------------------------- MODULE MCUsbRightDialog --------------------------
(* Three RequestRight calls: two of one application, one of another.       *)
EXTENDS UsbRightDialog, TLC

CONSTANTS r1, r2, r3, k1, k2

MCKeyOf == r1 :> k1 @@ r2 :> k1 @@ r3 :> k2
=============================================================================
