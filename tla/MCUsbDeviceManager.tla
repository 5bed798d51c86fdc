------------------------- MODULE MCUsbDeviceManager -------------------------
(* Function sets with and without transfer, alone and with HDC.            *)
EXTENDS UsbDeviceManager

MCFunctions == {"hdc", "mtp", "storage", "devmode_auth"}
MCChoices == {{"hdc"}, {"hdc", "mtp"}, {"devmode_auth"}}
=============================================================================
