------------------------------ MODULE MCEmacTx ------------------------------
(* EmacTx for TLC, with the code's four descriptors.                       *)
EXTENDS EmacTx
=============================================================================
