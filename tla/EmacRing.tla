------------------------------ MODULE EmacRing ------------------------------
(***************************************************************************)
(* What the two descriptor rings of the Ethernet driver have in common     *)
(* (machine_esp32p4_emac.go): each is an array of N descriptors that the   *)
(* driver and the DMA walk in the same direction, and the OWN bit of a     *)
(* descriptor says which of the two it belongs to.                         *)
(***************************************************************************)
EXTENDS Naturals, Sequences

CONSTANTS N,          \* emacTxDescCount, emacRxDescCount (4 in the code)
          Frame,      \* frames of a length Send and Recv accept
          Nothing,    \* content of a buffer never written
          MaxFrames   \* bound: frames that reach a descriptor in a run

ASSUME RingAssumption ==
  N \in Nat \ {0} /\ MaxFrames \in Nat /\ Nothing \notin Frame

Slot == 0 .. (N - 1)

(* Mutant: the index does not wrap.                                        *)
After_NoWrap(i) == i + 1

After(i) == (i + 1) % N
=============================================================================
