------------------------------ MODULE MCUsbBulk ------------------------------
(* UsbBulk for TLC.                                                        *)
EXTENDS UsbBulk
=============================================================================
