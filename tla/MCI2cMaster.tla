----------------------------- MODULE MCI2cMaster -----------------------------
(* I2cMaster for TLC: FIFOs of four bytes, and lengths from empty to one   *)
(* byte beyond two FIFOs, so that every way to cut a transfer occurs.      *)
EXTENDS I2cMaster

AllWriteLens == 0 .. 2 * Depth
AllReadLens  == 0 .. 2 * Depth + 1
=============================================================================
