------------------------------ MODULE MCSerial ------------------------------
(* Serial for TLC.                                                         *)
EXTENDS Serial
=============================================================================
