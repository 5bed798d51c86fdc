------------------------ MODULE MCUsbAccessoryManager ------------------------
(* Two function sets without and one with the accessory function.          *)
EXTENDS UsbAccessoryManager

MCChoices == {{"hdc"}, {"hdc", "mtp"}, {"hdc", "accessory"}}
=============================================================================
