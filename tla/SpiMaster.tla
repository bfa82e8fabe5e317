------------------------------ MODULE SpiMaster ------------------------------
(***************************************************************************)
(* The SPI master (machine_esp32p4_spi.go) as functions: what one call of  *)
(* Tx puts on the wire and brings back, cut into loads of the FIFO, and    *)
(* the clock that freqToClockDiv chooses.  The core waits for every load   *)
(* in a busy loop, so nothing interleaves with a call.  Bytes are counted  *)
(* in units of which Depth fill the FIFO (64 bytes in the code).           *)
(***************************************************************************)
EXTENDS Naturals, Sequences

CONSTANTS Depth,   \* units the FIFO holds
          Zero     \* the unit spiTxFillBuffer pads with

Least(a, b)    == IF a < b THEN a ELSE b
Greatest(a, b) == IF a > b THEN a ELSE b

(* Calls transfer as many units as the longer of w and r has.              *)
Amount(w, n) == Greatest(Len(w), n)
Loads(amount) == (amount + Depth - 1) \div Depth
LoadSize(amount, k) == Least(Depth, amount - (k - 1) * Depth)

(* spiTxFillBuffer: the FIFO before load k, what is left of w padded.      *)
spiTxFillBuffer(w, k) ==
  [i \in 1 .. Depth |-> IF (k - 1) * Depth + i <= Len(w) THEN w[(k - 1) * Depth + i] ELSE Zero]

(* Mutant: w is not advanced.                                              *)
Tx_SameLoad(w, n) ==
  LET wire[k \in 0 .. Loads(Amount(w, n))] ==
        IF k = 0 THEN << >>
        ELSE wire[k - 1] \o SubSeq(spiTxFillBuffer(w, 1), 1, LoadSize(Amount(w, n), k))
  IN wire[Loads(Amount(w, n))]

(* Tx(w, r) with n units of room in r: what the device sees, load by load. *)
Tx(w, n) ==
  LET wire[k \in 0 .. Loads(Amount(w, n))] ==
        IF k = 0 THEN << >>
        ELSE wire[k - 1] \o SubSeq(spiTxFillBuffer(w, k), 1, LoadSize(Amount(w, n), k))
  IN wire[Loads(Amount(w, n))]

(* What Tx leaves in r, when the device answers with `in`: after each load *)
(* as many units as the FIFO or the rest of r holds are copied.            *)
TxReceived(in, n) ==
  LET fifo(k) == [i \in 1 .. Depth |-> IF (k - 1) * Depth + i <= Len(in)
                                       THEN in[(k - 1) * Depth + i] ELSE Zero]
      r[k \in 0 .. Loads(n)] ==
        IF k = 0 THEN << >>
        ELSE r[k - 1] \o SubSeq(fifo(k), 1, Least(Depth, n - (k - 1) * Depth))
  IN r[Loads(n)]

-----------------------------------------------------------------------------
(* freqToClockDiv.                                                         *)

pplClockFreq == 80000000
Dividers == (0 .. 15) \X (2 .. 64)

ClockHz(d) == (pplClockFreq \div (d[1] + 1)) \div d[2]
Off(hz, d) == IF ClockHz(d) > hz THEN ClockHz(d) - hz ELSE hz - ClockHz(d)

(* In the order of the two loops.                                          *)
Before(d, e) == d[1] < e[1] \/ (d[1] = e[1] /\ d[2] < e[2])

(* The register's fields; bypass is bit 31.  The search keeps the first of *)
(* the dividers nearest to hz.                                             *)
freqToClockDiv(hz) ==
  IF hz >= pplClockFreq THEN [bypass |-> TRUE, pre |-> 0, n |-> 0, h |-> 0, l |-> 0]
  ELSE IF hz < pplClockFreq \div (16 * 64)
         THEN [bypass |-> FALSE, pre |-> 15, n |-> 63, h |-> 31, l |-> 63]
  ELSE LET least == CHOOSE o \in {Off(hz, d) : d \in Dividers} :
                      \A d \in Dividers : o <= Off(hz, d)
           best  == CHOOSE d \in Dividers :
                      /\ Off(hz, d) = least
                      /\ \A e \in Dividers : Off(hz, e) = least => ~Before(e, d)
       IN [bypass |-> FALSE, pre |-> best[1], n |-> best[2] - 1,
           h |-> best[2] \div 2 - 1, l |-> best[2] - 1]

(* What the controller makes of the register.                              *)
RegisterHz(reg) == IF reg.bypass THEN pplClockFreq ELSE ClockHz(<<reg.pre, reg.n + 1>>)
=============================================================================
