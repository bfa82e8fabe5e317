------------------------------ MODULE MCEmacRx ------------------------------
(* EmacRx for TLC.                                                         *)
EXTENDS EmacRx
=============================================================================
