----------------------------- MODULE MCUsbControl -----------------------------
(* UsbControl for TLC, with packets of two units: answers of one packet,   *)
(* of three, of exactly wLength, truncated to wLength, empty, and one that *)
(* fills the control buffer of six units with wLength not reached.         *)
EXTENDS UsbControl

Read(n, w) == [kind |-> "read", len |-> n, wLength |-> w]
Plain(k)   == [kind |-> k, len |-> 0, wLength |-> 0]

AllKinds == {Read(0, 4), Read(5, 6), Read(5, 4), Read(7, 8)}
            \cup {Plain(k) : k \in {"address", "config", "refuse", "ignore"}}
===============================================================================
