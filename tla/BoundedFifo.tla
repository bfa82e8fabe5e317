---------------------------- MODULE BoundedFifo ----------------------------
(***************************************************************************)
(* What the firmware's three hand-over paths promise, whatever carries     *)
(* them: items are taken out in the order they were put in, none twice,    *)
(* none invented, at most Capacity of them under way at any time, and only *)
(* a restart forgets any.  PowerControl (the power action channel),        *)
(* EmacTx (the transmit ring) and EmacRx (the receive ring) implement it.  *)
(* The state is the two histories; the items under way are what put has    *)
(* and got has not.                                                        *)
(***************************************************************************)
EXTENDS Naturals, Sequences

CONSTANTS Item,      \* what is handed over
          Capacity   \* how many items may be under way

VARIABLES put,       \* every item put in since the last restart
          got        \* every item taken out since the last restart

fifoVars == <<put, got>>

UnderWay == Len(put) - Len(got)

FifoInit == put = << >> /\ got = << >>

Put(x) == /\ UnderWay < Capacity
          /\ put' = Append(put, x)
          /\ UNCHANGED got

Get == /\ UnderWay > 0
       /\ got' = Append(got, put[Len(got) + 1])
       /\ UNCHANGED put

Restart == put' = << >> /\ got' = << >>

FifoNext == Get \/ Restart \/ \E x \in Item : Put(x)

FifoSpec == FifoInit /\ [][FifoNext]_fifoVars
=============================================================================
