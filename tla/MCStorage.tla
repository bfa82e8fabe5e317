----------------------------- MODULE MCStorage -----------------------------
(* Storage for TLC, and the SPI clock divider against what it should find. *)
EXTENDS Storage

(* Around both ends of the range, the two clocks initStorage asks for, and *)
(* some that no divider meets.                                             *)
SomeHz == {78124, 78125, 78126, 100000, 399999, 400000, 400001, 1000000, 3333333,
           20000000, 26000000, 39999999, 40000000, 40000001, 79999999, 80000000}

(* The card is initialised at exactly 400 kHz and run at exactly 20 MHz;   *)
(* within the range no divider is nearer to what was asked for, the fields *)
(* fit their width, and the clock is high for about half the period.       *)
ASSUME ClockAsAsked ==
  /\ Spi!RegisterHz(Spi!freqToClockDiv(400000)) = 400000
  /\ Spi!RegisterHz(Spi!freqToClockDiv(20000000)) = 20000000
  /\ \A hz \in SomeHz :
       LET reg == Spi!freqToClockDiv(hz)
       IN /\ reg.pre \in 0 .. 15 /\ reg.n \in 0 .. 63 /\ reg.h <= reg.n /\ reg.l = reg.n
          /\ hz < Spi!pplClockFreq =>
               /\ reg.h + 1 \in {reg.n \div 2, (reg.n + 1) \div 2}
               /\ hz >= 78125 => \A d \in Spi!Dividers : Spi!Off(hz, <<reg.pre, reg.n + 1>>) <= Spi!Off(hz, d)
=============================================================================
