----------------------------- MODULE EmacProofs -----------------------------
(***************************************************************************)
(* Proofs about the two descriptor rings of the Ethernet driver (EmacTx    *)
(* and EmacRx), for every number of descriptors and every number of        *)
(* frames: type correctness, the agreement of each ring with its           *)
(* histories or counters, how long a received slice stays intact, and that *)
(* each ring implements BoundedFifo, the receive ring although bad frames  *)
(* are dropped on the way.                                                 *)
(*                                                                         *)
(* The argument counts frames instead of slots.  Frame number k lives in   *)
(* slot k % N.  With s frames given to the transmit DMA and w of them on   *)
(* the wire, the numbers w .. s-1 are the DMA's and hold their frames, the *)
(* numbers s .. w+N-1 are the CPU's; with r frames recycled and c          *)
(* completed, the numbers r .. c-1 are Recv's, the numbers c .. r+N-1 the  *)
(* receive DMA's.  Fewer than N apart, two numbers have different slots,   *)
(* so a store to one slot leaves the others alone.                         *)
(*                                                                         *)
(* A dropped frame makes the position of a later one in the receive        *)
(* history differ from its number: a rank, which the invariant says        *)
(* exists, gives that position.                                            *)
(***************************************************************************)
EXTENDS EmacTx, EmacRx, Integers, TLAPS

-----------------------------------------------------------------------------
(* A ring of n slots: counters that only grow, taken modulo n.             *)

(* The quotient of a counter is the only one that fits.                    *)
LEMMA Quotient ==
  ASSUME NEW n \in Nat \ {0}, NEW a \in Nat
  PROVE  a % n \in 0 .. n - 1 /\ a \div n \in Nat /\ a = n * (a \div n) + (a % n)
OBVIOUS

(* Two ways to write a number as n * q + r are the same.                   *)
LEMMA QuotientUnique ==
  ASSUME NEW n \in Nat \ {0}, NEW p \in Nat, NEW q \in Nat,
         NEW r \in 0 .. n - 1, NEW t \in 0 .. n - 1, n * p + r = n * q + t
  PROVE  p = q /\ r = t
<1>1. ASSUME NEW x \in Nat, NEW y \in Nat, x < y PROVE n * x + n <= n * y
  <2>1. x + 1 <= y
    BY <1>1
  <2>2. PICK d \in Nat : y = x + 1 + d
    <3>1. y - (x + 1) \in Nat /\ y = x + 1 + (y - (x + 1))
      BY <2>1
    <3> QED BY <3>1
  <2>3. n * y = n * x + n + n * d
    BY <2>2
  <2>4. n * d \in Nat /\ n * x \in Nat
    OBVIOUS
  <2> QED BY <2>3, <2>4
<1>2. n * p \in Nat /\ n * q \in Nat
  OBVIOUS
<1>3. ~(p < q)
  <2> SUFFICES ASSUME p < q PROVE FALSE
    OBVIOUS
  <2>1. n * p + n <= n * q
    BY <1>1
  <2> QED BY <1>2, <2>1
<1>4. ~(q < p)
  <2> SUFFICES ASSUME q < p PROVE FALSE
    OBVIOUS
  <2>1. n * q + n <= n * p
    BY <1>1
  <2> QED BY <1>2, <2>1
<1>5. p = q
  BY <1>3, <1>4
<1>6. n * p = n * q
  BY <1>5
<1> QED BY <1>2, <1>5, <1>6

(* A slot counted on from a counter's slot is the slot of the sum.         *)
LEMMA SlotOfSum ==
  ASSUME NEW n \in Nat \ {0}, NEW a \in Nat, NEW k \in Nat
  PROVE  ((a % n) + k) % n = (a + k) % n
<1> DEFINE r == a % n
           p == a \div n
           b == r + k
           q == b \div n
           t == b % n
           c == a + k
<1>1. r \in 0 .. n - 1 /\ p \in Nat /\ a = n * p + r
  BY Quotient
<1>2. b \in Nat
  BY <1>1
<1>3. t \in 0 .. n - 1 /\ q \in Nat /\ b = n * q + t
  BY <1>2, Quotient
<1>4. c \in Nat
  OBVIOUS
<1>5. c % n \in 0 .. n - 1 /\ c \div n \in Nat /\ c = n * (c \div n) + (c % n)
  BY <1>4, Quotient
<1>6. c = n * (p + q) + t
  <2>1. c = n * p + b
    BY <1>1
  <2>2. n * (p + q) = n * p + n * q
    BY <1>1, <1>3
  <2>3. n * p \in Nat /\ n * q \in Nat
    BY <1>1, <1>3
  <2> HIDE DEF p, q, b, t, c
  <2> QED BY <1>3, <2>1, <2>2, <2>3
<1>7. p + q \in Nat
  BY <1>1, <1>3
<1> HIDE DEF p, q, b, t, c, r
<1>8. c % n = t
  <2>1. PICK u \in 0 .. n - 1, v \in Nat : u = c % n /\ v = c \div n
    BY <1>5
  <2>2. PICK y \in Nat : y = p + q
    BY <1>7
  <2>3. n * v + u = n * y + t
    BY <1>5, <1>6, <2>1, <2>2
  <2>4. u = t
    BY <1>3, <2>3, QuotientUnique
  <2> QED BY <2>1, <2>4
<1> QED BY <1>8 DEF b, t, c, r

(* Fewer than n apart, two different counters have different slots.        *)
LEMMA SlotsDiffer ==
  ASSUME NEW n \in Nat \ {0}, NEW a \in Nat, NEW b \in Nat, a < b, b < a + n
  PROVE  a % n # b % n
<1> SUFFICES ASSUME a % n = b % n PROVE FALSE
  OBVIOUS
<1>1. /\ a % n \in 0 .. n - 1 /\ a \div n \in Nat /\ a = n * (a \div n) + (a % n)
      /\ b % n \in 0 .. n - 1 /\ b \div n \in Nat /\ b = n * (b \div n) + (b % n)
  BY Quotient
<1>2. PICK d \in Nat : b = a + d /\ d \in 1 .. n - 1
  <2>1. b - a \in Nat /\ b = a + (b - a) /\ b - a \in 1 .. n - 1
    OBVIOUS
  <2> QED BY <2>1
<1>3. PICK p \in Nat, q \in Nat : p = a \div n /\ q = b \div n
  BY <1>1
<1>4. n * p + d = n * q + 0
  <2>1. n * p \in Nat /\ n * q \in Nat
    OBVIOUS
  <2> QED BY <1>1, <1>2, <1>3, <2>1
<1>5. 0 \in 0 .. n - 1
  OBVIOUS
<1>6. d = 0
  BY <1>2, <1>4, <1>5, QuotientUnique
<1> QED BY <1>2, <1>6

(* Once round the ring is the same slot.                                   *)
LEMMA SlotRound ==
  ASSUME NEW n \in Nat \ {0}, NEW a \in Nat
  PROVE  (a + n) % n = a % n
<1> DEFINE c == a + n
<1>1. a % n \in 0 .. n - 1 /\ a \div n \in Nat /\ a = n * (a \div n) + (a % n)
  BY Quotient
<1>2. c \in Nat
  OBVIOUS
<1>3. c % n \in 0 .. n - 1 /\ c \div n \in Nat /\ c = n * (c \div n) + (c % n)
  BY <1>2, Quotient
<1>4. PICK p \in Nat, r \in 0 .. n - 1 : p = a \div n /\ r = a % n
  BY <1>1
<1>5. c = n * (p + 1) + r
  <2>1. n * (p + 1) = n * p + n
    OBVIOUS
  <2> QED BY <1>1, <1>4, <2>1
<1> HIDE DEF c
<1>6. c % n = r
  <2>1. PICK u \in 0 .. n - 1, v \in Nat : u = c % n /\ v = c \div n
    BY <1>3
  <2>2. PICK y \in Nat : y = p + 1
    OBVIOUS
  <2>3. n * v + u = n * y + r
    BY <1>3, <1>5, <2>1, <2>2
  <2>4. u = r
    BY <2>3, QuotientUnique
  <2> QED BY <2>1, <2>4
<1> QED BY <1>4, <1>6 DEF c

-----------------------------------------------------------------------------
(* The slot of frame number k, and its four facts.                         *)
At(k) == k % N

(* It is a slot.                                                           *)
LEMMA AtSlot ==
  ASSUME NEW k \in Nat
  PROVE  At(k) \in Slot
BY RingAssumption, Quotient DEF At, Slot

(* The next number has the next slot.                                      *)
LEMMA AtNext ==
  ASSUME NEW k \in Nat
  PROVE  After(At(k)) = At(k + 1)
BY RingAssumption, SlotOfSum DEF At, After

(* Fewer than N apart, two numbers have different slots.                   *)
LEMMA AtDiffer ==
  ASSUME NEW j \in Nat, NEW k \in Nat, j < k, k < j + N
  PROVE  At(j) # At(k)
BY RingAssumption, SlotsDiffer DEF At

(* N further on it is the same slot.                                       *)
LEMMA AtRound ==
  ASSUME NEW k \in Nat
  PROVE  At(k + N) = At(k)
BY RingAssumption, SlotRound DEF At

-----------------------------------------------------------------------------
(* The transmit ring: its inductive invariant.                             *)
S == Len(sent)
W == Len(wire)

(* The two counters and the indices that follow from them.                 *)
TxCountersOK ==
  /\ W <= S /\ S <= W + N
  /\ txDmaIdx = At(W)
  /\ send = "advance" => S > 0 /\ txIdx = At(S - 1)
  /\ send # "advance" => txIdx = At(S)

(* Whose each descriptor is; Send works on one that is free; the DMA       *)
(* transmits one it owns.                                                  *)
TxOwnersOK ==
  /\ \A k \in W .. (S - 1) : txOwn[At(k)] = "dma"
  /\ \A k \in S .. (W + N - 1) : txOwn[At(k)] = "cpu"
  /\ send \in {"copy", "length", "own"} => S < W + N
  /\ txDma = "transmitting" => W < S

(* What the descriptors under way, the one Send works on, the one the DMA  *)
(* transmits and the wire hold.                                            *)
TxContentsOK ==
  /\ \A k \in W .. (S - 1) : txBufs[At(k)] = sent[k + 1].data /\ len[At(k)] = sent[k + 1].len
  /\ send \in {"copy", "length", "own"} => frame \in Frame
  /\ send \in {"length", "own"} => txBufs[At(S)] = frame
  /\ send = "own" => len[At(S)] = frame
  /\ txDma = "transmitting" => line = sent[W + 1]
  /\ \A k \in 1 .. S : \E f \in Frame : sent[k] = Whole(f)

TxInv == TxTypeOK /\ TxCountersOK /\ TxOwnersOK /\ TxContentsOK

(* The counters are numbers.                                               *)
LEMMA Lengths ==
  ASSUME TxTypeOK
  PROVE  S \in Nat /\ W \in Nat
BY DEF TxTypeOK, S, W

(* What Append does to a history.                                          *)
LEMMA TxAppended ==
  ASSUME NEW q \in Seq(Packet), NEW e \in Packet
  PROVE  /\ Append(q, e) \in Seq(Packet)
         /\ Len(Append(q, e)) = Len(q) + 1
         /\ \A k \in 1 .. Len(q) : Append(q, e)[k] = q[k]
         /\ Append(q, e)[Len(q) + 1] = e
OBVIOUS

(* Bytes and length of one frame.                                          *)
LEMMA WholePacket ==
  ASSUME NEW f \in Frame
  PROVE  Whole(f) \in Packet /\ Whole(f).data = f /\ Whole(f).len = f
BY DEF Whole, Packet

(* The invariant holds after Init.                                         *)
LEMMA TxInvInit == TxInit => TxInv
<1> SUFFICES ASSUME TxInit PROVE TxInv
  OBVIOUS
<1> USE RingAssumption
<1>1. TxTypeOK
  BY DEF TxInit, TxTypeOK, Slot, Packet, Whole
<1>2. S = 0 /\ W = 0
  BY DEF TxInit, S, W
<1>3. At(0) = 0
  BY QuotientUnique, Quotient DEF At
<1>4. TxCountersOK
  BY <1>2, <1>3 DEF TxInit, TxCountersOK
<1>5. TxOwnersOK
  <2>1. \A k \in S .. (W + N - 1) : txOwn[At(k)] = "cpu"
    <3> SUFFICES ASSUME NEW k \in S .. (W + N - 1) PROVE txOwn[At(k)] = "cpu"
      OBVIOUS
    <3>1. k \in Nat
      BY <1>2
    <3> QED BY <3>1, AtSlot DEF TxInit
  <2> QED BY <1>2, <2>1 DEF TxInit, TxOwnersOK
<1>6. TxContentsOK
  BY <1>2 DEF TxInit, TxContentsOK
<1> QED BY <1>1, <1>4, <1>5, <1>6 DEF TxInv

-----------------------------------------------------------------------------
(* The transmit ring: one lemma per action.                                *)

(* Send starts only on a free descriptor: fewer than N are under way.      *)
LEMMA SendKeeps ==
  ASSUME TxInv, NEW f \in Frame, Send(f)
  PROVE  TxInv'
<1> USE RingAssumption
<1>1. S \in Nat /\ W \in Nat
  BY Lengths DEF TxInv
<1>2. send = "idle" /\ txOwn[txIdx] = "cpu" /\ send' = "copy" /\ frame' = f
  BY DEF Send
<1>3. /\ txIdx' = txIdx /\ sent' = sent /\ wire' = wire /\ txDmaIdx' = txDmaIdx
      /\ txDma' = txDma /\ line' = line /\ txOwn' = txOwn /\ txBufs' = txBufs /\ len' = len
  BY DEF Send, txDmaVars, txRingVars
<1>4. S' = S /\ W' = W
  BY <1>3 DEF S, W
<1>5. TxTypeOK'
  BY <1>2, <1>3 DEF TxTypeOK, TxInv
<1>6. TxCountersOK'
  BY <1>2, <1>3, <1>4 DEF TxCountersOK, TxInv
<1>7. S < W + N
  <2> SUFFICES ASSUME S = W + N PROVE FALSE
    BY <1>1 DEF TxInv, TxCountersOK
  <2>1. txOwn[At(W)] = "dma"
    BY <1>1 DEF TxInv, TxOwnersOK
  <2>2. txIdx = At(W)
    BY <1>1, <1>2, AtRound DEF TxInv, TxCountersOK
  <2> QED BY <1>2, <2>1, <2>2
<1>8. TxOwnersOK'
  BY <1>2, <1>3, <1>4, <1>7 DEF TxOwnersOK, TxInv
<1>9. TxContentsOK'
  BY <1>2, <1>3, <1>4 DEF TxContentsOK, TxInv
<1> QED BY <1>5, <1>6, <1>8, <1>9 DEF TxInv

(* A store to the descriptor Send works on leaves the DMA's ones alone.    *)
LEMMA OthersUntouched ==
  ASSUME TxInv, S < W + N, NEW k \in W .. (S - 1)
  PROVE  At(k) # At(S) /\ At(k) \in Slot /\ At(S) \in Slot
<1> USE RingAssumption
<1>1. S \in Nat /\ W \in Nat
  BY Lengths DEF TxInv
<1>2. k \in Nat /\ k < S /\ S < k + N
  BY <1>1
<1> QED BY <1>1, <1>2, AtDiffer, AtSlot

(* The copy goes into the free descriptor.                                 *)
LEMMA CopyFrameKeeps ==
  ASSUME TxInv, CopyFrame
  PROVE  TxInv'
<1> USE RingAssumption
<1>1. S \in Nat /\ W \in Nat
  BY Lengths DEF TxInv
<1>2. /\ send = "copy" /\ send' = "length" /\ txBufs' = [txBufs EXCEPT ![txIdx] = frame]
      /\ txIdx' = txIdx /\ sent' = sent /\ wire' = wire /\ txDmaIdx' = txDmaIdx
      /\ txDma' = txDma /\ line' = line /\ txOwn' = txOwn /\ len' = len /\ frame' = frame
  BY DEF CopyFrame, txDmaVars
<1>3. S' = S /\ W' = W
  BY <1>2 DEF S, W
<1>4. TxTypeOK'
  BY <1>2 DEF TxTypeOK, TxInv
<1>5. TxCountersOK' /\ TxOwnersOK'
  BY <1>2, <1>3 DEF TxCountersOK, TxOwnersOK, TxInv
<1>6. txIdx = At(S) /\ S < W + N /\ frame \in Frame
  BY <1>2 DEF TxInv, TxCountersOK, TxOwnersOK, TxContentsOK
<1>7. txBufs'[At(S)] = frame
  BY <1>1, <1>2, <1>6, AtSlot DEF TxInv, TxTypeOK
<1>8. \A k \in W .. (S - 1) : txBufs'[At(k)] = txBufs[At(k)]
  BY <1>2, <1>6, OthersUntouched DEF TxInv, TxTypeOK
<1>9. TxContentsOK'
  BY <1>2, <1>3, <1>6, <1>7, <1>8 DEF TxContentsOK, TxInv
<1> QED BY <1>4, <1>5, <1>9 DEF TxInv

(* So does the length.                                                     *)
LEMMA SetLengthKeeps ==
  ASSUME TxInv, SetLength
  PROVE  TxInv'
<1> USE RingAssumption
<1>1. S \in Nat /\ W \in Nat
  BY Lengths DEF TxInv
<1>2. /\ send = "length" /\ send' = "own" /\ len' = [len EXCEPT ![txIdx] = frame]
      /\ txIdx' = txIdx /\ sent' = sent /\ wire' = wire /\ txDmaIdx' = txDmaIdx
      /\ txDma' = txDma /\ line' = line /\ txOwn' = txOwn /\ txBufs' = txBufs /\ frame' = frame
  BY DEF SetLength, txDmaVars
<1>3. S' = S /\ W' = W
  BY <1>2 DEF S, W
<1>4. TxTypeOK'
  BY <1>2 DEF TxTypeOK, TxInv
<1>5. TxCountersOK' /\ TxOwnersOK'
  BY <1>2, <1>3 DEF TxCountersOK, TxOwnersOK, TxInv
<1>6. txIdx = At(S) /\ S < W + N /\ frame \in Frame /\ txBufs[At(S)] = frame
  BY <1>2 DEF TxInv, TxCountersOK, TxOwnersOK, TxContentsOK
<1>7. len'[At(S)] = frame
  BY <1>1, <1>2, <1>6, AtSlot DEF TxInv, TxTypeOK
<1>8. \A k \in W .. (S - 1) : len'[At(k)] = len[At(k)]
  BY <1>2, <1>6, OthersUntouched DEF TxInv, TxTypeOK
<1>9. TxContentsOK'
  BY <1>2, <1>3, <1>6, <1>7, <1>8 DEF TxContentsOK, TxInv
<1> QED BY <1>4, <1>5, <1>9 DEF TxInv

(* The hand-over: number S becomes the DMA's, with the frame in it.        *)
LEMMA GiveToDMAKeeps ==
  ASSUME TxInv, GiveToDMA
  PROVE  /\ TxInv'
         /\ sent' = Append(sent, Whole(frame)) /\ frame \in Frame
         /\ wire' = wire /\ S < W + N
<1> USE RingAssumption
<1>1. S \in Nat /\ W \in Nat
  BY Lengths DEF TxInv
<1>2. /\ send = "own" /\ send' = "advance" /\ txOwn' = [txOwn EXCEPT ![txIdx] = "dma"]
      /\ sent' = Append(sent, Whole(frame))
      /\ txIdx' = txIdx /\ wire' = wire /\ txDmaIdx' = txDmaIdx
      /\ txDma' = txDma /\ line' = line /\ txBufs' = txBufs /\ len' = len /\ frame' = frame
  BY DEF GiveToDMA, txDmaVars
<1>3. /\ txIdx = At(S) /\ S < W + N /\ frame \in Frame
      /\ txBufs[At(S)] = frame /\ len[At(S)] = frame
  BY <1>2 DEF TxInv, TxCountersOK, TxOwnersOK, TxContentsOK
<1>4. sent \in Seq(Packet) /\ Whole(frame) \in Packet
      /\ Whole(frame).data = frame /\ Whole(frame).len = frame
  BY <1>3, WholePacket DEF TxInv, TxTypeOK
<1>5. /\ sent' \in Seq(Packet) /\ S' = S + 1 /\ W' = W
      /\ \A k \in 1 .. S : sent'[k] = sent[k]
      /\ sent'[S + 1] = Whole(frame)
  BY <1>2, <1>4, TxAppended DEF S, W
<1>6. TxTypeOK'
  BY <1>2, <1>5 DEF TxTypeOK, TxInv
<1>7. TxCountersOK'
  <2>1. W <= S + 1 /\ S + 1 <= W + N /\ S + 1 > 0 /\ (S + 1) - 1 = S
    BY <1>1, <1>3 DEF TxInv, TxCountersOK
  <2> QED BY <1>2, <1>3, <1>5, <2>1 DEF TxCountersOK, TxInv
<1>8. txOwn'[At(S)] = "dma"
  BY <1>1, <1>2, <1>3, AtSlot DEF TxInv, TxTypeOK
<1>9. \A k \in W .. (S - 1) : txOwn'[At(k)] = "dma"
  BY <1>2, <1>3, OthersUntouched DEF TxInv, TxTypeOK, TxOwnersOK
<1>10. \A k \in (S + 1) .. (W + N - 1) : txOwn'[At(k)] = "cpu"
  <2> SUFFICES ASSUME NEW k \in (S + 1) .. (W + N - 1) PROVE txOwn'[At(k)] = "cpu"
    OBVIOUS
  <2>1. k \in Nat /\ S < k /\ k < S + N /\ k \in S .. (W + N - 1)
    BY <1>1 DEF TxInv, TxCountersOK
  <2>2. At(k) # At(S) /\ At(k) \in Slot
    BY <1>1, <2>1, AtDiffer, AtSlot
  <2>3. txOwn[At(k)] = "cpu"
    BY <2>1 DEF TxInv, TxOwnersOK
  <2> QED BY <1>2, <1>3, <2>2, <2>3 DEF TxInv, TxTypeOK
<1>11. TxOwnersOK'
  <2>1. \A k \in W .. S : txOwn'[At(k)] = "dma"
    BY <1>1, <1>8, <1>9
  <2>2. txDma' = "transmitting" => W' < S'
    BY <1>1, <1>2, <1>5 DEF TxInv, TxOwnersOK
  <2>3. S' - 1 = S
    BY <1>1, <1>5
  <2> QED BY <1>2, <1>5, <1>10, <2>1, <2>2, <2>3 DEF TxOwnersOK
<1>12. TxContentsOK'
  <2>1. \A k \in W .. (S - 1) : txBufs'[At(k)] = sent'[k + 1].data /\ len'[At(k)] = sent'[k + 1].len
    <3> SUFFICES ASSUME NEW k \in W .. (S - 1)
                 PROVE  txBufs'[At(k)] = sent'[k + 1].data /\ len'[At(k)] = sent'[k + 1].len
      OBVIOUS
    <3>1. k + 1 \in 1 .. S
      BY <1>1
    <3> QED BY <1>2, <1>5, <3>1 DEF TxInv, TxContentsOK
  <2>2. \A k \in W .. S : txBufs'[At(k)] = sent'[k + 1].data /\ len'[At(k)] = sent'[k + 1].len
    <3> SUFFICES ASSUME NEW k \in W .. S
                 PROVE  txBufs'[At(k)] = sent'[k + 1].data /\ len'[At(k)] = sent'[k + 1].len
      OBVIOUS
    <3>1. CASE k = S
      BY <1>2, <1>3, <1>4, <1>5, <3>1
    <3>2. CASE k # S
      <4>1. k \in W .. (S - 1)
        BY <1>1, <3>2
      <4> QED BY <2>1, <4>1
    <3> QED BY <3>1, <3>2
  <2>3. txDma' = "transmitting" => line' = sent'[W' + 1]
    <3> SUFFICES ASSUME txDma = "transmitting" PROVE line = sent'[W + 1]
      BY <1>2, <1>5
    <3>1. W + 1 \in 1 .. S
      BY <1>1 DEF TxInv, TxOwnersOK
    <3> QED BY <1>5, <3>1 DEF TxInv, TxContentsOK
  <2>4. \A k \in 1 .. (S + 1) : \E f \in Frame : sent'[k] = Whole(f)
    <3> SUFFICES ASSUME NEW k \in 1 .. (S + 1) PROVE \E f \in Frame : sent'[k] = Whole(f)
      OBVIOUS
    <3>1. CASE k = S + 1
      BY <1>3, <1>5, <3>1
    <3>2. CASE k # S + 1
      <4>1. k \in 1 .. S
        BY <1>1, <3>2
      <4> QED BY <1>5, <4>1 DEF TxInv, TxContentsOK
    <3> QED BY <3>1, <3>2
  <2>5. S' - 1 = S
    BY <1>1, <1>5
  <2> QED BY <1>2, <1>5, <2>2, <2>3, <2>4, <2>5 DEF TxContentsOK
<1> QED BY <1>2, <1>3, <1>6, <1>7, <1>11, <1>12 DEF TxInv

(* The index moves on and the DMA wakes up.                                *)
LEMMA PollDemandKeeps ==
  ASSUME TxInv, PollDemand
  PROVE  TxInv'
<1> USE RingAssumption
<1>1. S \in Nat /\ W \in Nat
  BY Lengths DEF TxInv
<1>2. /\ send = "advance" /\ send' = "idle" /\ txIdx' = After(txIdx)
      /\ txDma' \in {txDma, "looking"}
      /\ sent' = sent /\ wire' = wire /\ txDmaIdx' = txDmaIdx /\ frame' = frame
      /\ line' = line /\ txOwn' = txOwn /\ txBufs' = txBufs /\ len' = len
  BY DEF PollDemand, txRingVars
<1>3. S' = S /\ W' = W
  BY <1>2 DEF S, W
<1>4. txIdx' = At(S)
  <2>1. S - 1 \in Nat /\ (S - 1) + 1 = S /\ txIdx = At(S - 1)
    BY <1>1, <1>2 DEF TxInv, TxCountersOK
  <2> QED BY <1>2, <2>1, AtNext
<1>5. At(S) \in Slot
  BY <1>1, AtSlot
<1>6. TxTypeOK'
  BY <1>2, <1>4, <1>5 DEF TxTypeOK, TxInv
<1>7. TxCountersOK'
  BY <1>2, <1>3, <1>4 DEF TxCountersOK, TxInv
<1>8. TxOwnersOK' /\ TxContentsOK'
  BY <1>2, <1>3 DEF TxOwnersOK, TxContentsOK, TxInv
<1> QED BY <1>6, <1>7, <1>8 DEF TxInv

(* The DMA fetches the frame it owns: number W, which is under way.        *)
LEMMA DmaFetchKeeps ==
  ASSUME TxInv, DmaFetch
  PROVE  TxInv'
<1> USE RingAssumption
<1>1. S \in Nat /\ W \in Nat
  BY Lengths DEF TxInv
<1>2. /\ txOwn[txDmaIdx] = "dma" /\ txDma' = "transmitting"
      /\ line' = [data |-> txBufs[txDmaIdx], len |-> len[txDmaIdx]]
      /\ txIdx' = txIdx /\ send' = send /\ sent' = sent /\ wire' = wire
      /\ txDmaIdx' = txDmaIdx /\ frame' = frame /\ txOwn' = txOwn /\ txBufs' = txBufs /\ len' = len
  BY DEF DmaFetch, txCpuVars, txRingVars
<1>3. S' = S /\ W' = W
  BY <1>2 DEF S, W
<1>4. W < S
  <2> SUFFICES ASSUME W = S PROVE FALSE
    BY <1>1 DEF TxInv, TxCountersOK
  <2>1. txOwn[At(W)] = "cpu"
    BY <1>1 DEF TxInv, TxOwnersOK
  <2> QED BY <1>2, <2>1 DEF TxInv, TxCountersOK
<1>5. line' = sent[W + 1]
  <2>1. W \in W .. (S - 1) /\ W + 1 \in 1 .. S
    BY <1>1, <1>4
  <2>2. txBufs[txDmaIdx] = sent[W + 1].data /\ len[txDmaIdx] = sent[W + 1].len
    BY <2>1 DEF TxInv, TxCountersOK, TxContentsOK
  <2>3. \E f \in Frame : sent[W + 1] = Whole(f)
    BY <2>1 DEF TxInv, TxContentsOK
  <2> QED BY <1>2, <2>2, <2>3, WholePacket DEF Whole
<1>6. TxTypeOK'
  <2>1. line' \in Packet
    BY <1>2 DEF TxTypeOK, TxInv, Packet
  <2> QED BY <1>2, <2>1 DEF TxTypeOK, TxInv
<1>7. TxCountersOK' /\ TxOwnersOK' /\ TxContentsOK'
  BY <1>2, <1>3, <1>4, <1>5 DEF TxCountersOK, TxOwnersOK, TxContentsOK, TxInv
<1> QED BY <1>6, <1>7 DEF TxInv

(* The DMA gives descriptor W back; it is now the one of number W + N.     *)
LEMMA TxDmaCloseKeeps ==
  ASSUME TxInv, TxDmaClose
  PROVE  /\ TxInv'
         /\ wire' = Append(wire, sent[W + 1]) /\ sent' = sent /\ W < S
<1> USE RingAssumption
<1>1. S \in Nat /\ W \in Nat
  BY Lengths DEF TxInv
<1>2. /\ txDma = "transmitting" /\ txDma' = "looking"
      /\ wire' = Append(wire, line) /\ txOwn' = [txOwn EXCEPT ![txDmaIdx] = "cpu"]
      /\ txDmaIdx' = After(txDmaIdx)
      /\ txIdx' = txIdx /\ send' = send /\ sent' = sent
      /\ line' = line /\ frame' = frame /\ txBufs' = txBufs /\ len' = len
  BY DEF TxDmaClose, txCpuVars
<1>3. W < S /\ line = sent[W + 1] /\ txDmaIdx = At(W) /\ S <= W + N
  BY <1>2 DEF TxInv, TxCountersOK, TxOwnersOK, TxContentsOK
<1>4. wire' \in Seq(Packet) /\ W' = W + 1 /\ S' = S
  BY <1>2, TxAppended DEF S, W, TxInv, TxTypeOK
<1>5. txDmaIdx' = At(W + 1) /\ At(W + 1) \in Slot /\ At(W) \in Slot
  BY <1>1, <1>2, <1>3, AtNext, AtSlot
<1>6. TxTypeOK'
  BY <1>2, <1>4, <1>5 DEF TxTypeOK, TxInv
<1>7. TxCountersOK'
  <2>1. W + 1 <= S /\ S <= (W + 1) + N
    BY <1>1, <1>3
  <2> QED BY <1>2, <1>4, <1>5, <2>1 DEF TxCountersOK, TxInv
<1>8. \A k \in (W + 1) .. (S - 1) : txOwn'[At(k)] = "dma"
  <2> SUFFICES ASSUME NEW k \in (W + 1) .. (S - 1) PROVE txOwn'[At(k)] = "dma"
    OBVIOUS
  <2>1. k \in Nat /\ W < k /\ k < W + N /\ k \in W .. (S - 1)
    BY <1>1, <1>3
  <2>2. At(k) # At(W) /\ At(k) \in Slot
    BY <1>1, <2>1, AtDiffer, AtSlot
  <2>3. txOwn[At(k)] = "dma"
    BY <2>1 DEF TxInv, TxOwnersOK
  <2> QED BY <1>2, <1>3, <2>2, <2>3 DEF TxInv, TxTypeOK
<1>9. \A k \in S .. (W + N) : txOwn'[At(k)] = "cpu"
  <2> SUFFICES ASSUME NEW k \in S .. (W + N) PROVE txOwn'[At(k)] = "cpu"
    OBVIOUS
  <2>1. CASE k = W + N
    BY <1>1, <1>2, <1>3, <1>5, <2>1, AtRound DEF TxInv, TxTypeOK
  <2>2. CASE k # W + N
    <3>1. k \in Nat /\ W < k /\ k < W + N /\ k \in S .. (W + N - 1)
      BY <1>1, <1>3, <2>2
    <3>2. At(k) # At(W) /\ At(k) \in Slot
      BY <1>1, <3>1, AtDiffer, AtSlot
    <3>3. txOwn[At(k)] = "cpu"
      BY <3>1 DEF TxInv, TxOwnersOK
    <3> QED BY <1>2, <1>3, <3>2, <3>3 DEF TxInv, TxTypeOK
  <2> QED BY <2>1, <2>2
<1>10. TxOwnersOK'
  <2>1. W' + N - 1 = W + N /\ txDma' # "transmitting"
    BY <1>1, <1>2, <1>4
  <2>2. send' \in {"copy", "length", "own"} => S' < W' + N
    BY <1>1, <1>2, <1>4 DEF TxInv, TxOwnersOK
  <2> QED BY <1>4, <1>8, <1>9, <2>1, <2>2 DEF TxOwnersOK
<1>11. TxContentsOK'
  <2>1. \A k \in (W + 1) .. (S - 1) : k \in W .. (S - 1)
    BY <1>1
  <2> QED BY <1>2, <1>4, <2>1 DEF TxContentsOK, TxInv
<1> QED BY <1>2, <1>3, <1>6, <1>7, <1>10, <1>11 DEF TxInv

(* The DMA suspends itself.                                                *)
LEMMA DmaSuspendKeeps ==
  ASSUME TxInv, DmaSuspend
  PROVE  TxInv'
<1>1. /\ txDma' = "suspended"
      /\ txIdx' = txIdx /\ send' = send /\ sent' = sent /\ wire' = wire /\ line' = line
      /\ txDmaIdx' = txDmaIdx /\ frame' = frame /\ txOwn' = txOwn /\ txBufs' = txBufs /\ len' = len
  BY DEF DmaSuspend, txCpuVars, txRingVars
<1>2. S' = S /\ W' = W
  BY <1>1 DEF S, W
<1>3. TxTypeOK'
  BY <1>1 DEF TxTypeOK, TxInv
<1>4. TxCountersOK' /\ TxOwnersOK' /\ TxContentsOK'
  BY <1>1, <1>2 DEF TxCountersOK, TxOwnersOK, TxContentsOK, TxInv
<1> QED BY <1>3, <1>4 DEF TxInv

(* No step at all.                                                         *)
LEMMA TxStutterKeeps ==
  ASSUME TxInv, UNCHANGED txVars
  PROVE  TxInv'
<1>1. /\ txDma' = txDma
      /\ txIdx' = txIdx /\ send' = send /\ sent' = sent /\ wire' = wire /\ line' = line
      /\ txDmaIdx' = txDmaIdx /\ frame' = frame /\ txOwn' = txOwn /\ txBufs' = txBufs /\ len' = len
  BY DEF txVars, txCpuVars, txDmaVars, txRingVars
<1>2. S' = S /\ W' = W
  BY <1>1 DEF S, W
<1>3. TxTypeOK'
  BY <1>1 DEF TxTypeOK, TxInv
<1>4. TxCountersOK' /\ TxOwnersOK' /\ TxContentsOK'
  BY <1>1, <1>2 DEF TxCountersOK, TxOwnersOK, TxContentsOK, TxInv
<1> QED BY <1>3, <1>4 DEF TxInv

(* Every step keeps the invariant and is a step of BoundedFifo or none.    *)
LEMMA TxStep ==
  ASSUME TxInv, [TxNext]_txVars
  PROVE  TxInv' /\ [TxFifo!FifoNext]_(TxFifo!fifoVars)
<1> USE DEF TxFifo!fifoVars
<1>1. CASE GiveToDMA
  <2>1. /\ TxInv' /\ sent' = Append(sent, Whole(frame)) /\ frame \in Frame
        /\ wire' = wire /\ S < W + N
    BY <1>1, GiveToDMAKeeps
  <2>2. TxFifo!UnderWay < N
    BY <2>1, Lengths, RingAssumption DEF TxFifo!UnderWay, S, W, TxInv
  <2>3. TxFifo!Put(Whole(frame))
    BY <2>1, <2>2 DEF TxFifo!Put
  <2>4. Whole(frame) \in {Whole(f) : f \in Frame}
    BY <2>1
  <2> QED BY <2>1, <2>3, <2>4 DEF TxFifo!FifoNext
<1>2. CASE TxDmaClose
  <2>1. TxInv' /\ wire' = Append(wire, sent[W + 1]) /\ sent' = sent /\ W < S
    BY <1>2, TxDmaCloseKeeps
  <2>2. TxFifo!UnderWay > 0
    BY <2>1, Lengths DEF TxFifo!UnderWay, S, W, TxInv
  <2>3. TxFifo!Get
    BY <2>1, <2>2 DEF TxFifo!Get, W
  <2> QED BY <2>1, <2>3 DEF TxFifo!FifoNext
<1>3. CASE CopyFrame
  BY <1>3, CopyFrameKeeps DEF CopyFrame, txDmaVars
<1>4. CASE SetLength
  BY <1>4, SetLengthKeeps DEF SetLength, txDmaVars
<1>5. CASE PollDemand
  BY <1>5, PollDemandKeeps DEF PollDemand
<1>6. CASE DmaFetch
  BY <1>6, DmaFetchKeeps DEF DmaFetch, txCpuVars
<1>7. CASE DmaSuspend
  BY <1>7, DmaSuspendKeeps DEF DmaSuspend, txCpuVars
<1>8. ASSUME NEW f \in Frame, Send(f)
      PROVE  TxInv' /\ [TxFifo!FifoNext]_(TxFifo!fifoVars)
  BY <1>8, SendKeeps DEF Send, txDmaVars
<1>9. CASE UNCHANGED txVars
  BY <1>9, TxStutterKeeps DEF txVars, txCpuVars, txDmaVars
<1> QED BY <1>1, <1>2, <1>3, <1>4, <1>5, <1>6, <1>7, <1>8, <1>9 DEF TxNext, CpuStep, DmaStep

-----------------------------------------------------------------------------
(* The transmit ring: theorems.                                            *)

(* Every variable keeps its type, whatever N and Frame are.                *)
THEOREM TxTypeCorrect == TxSpec => []TxTypeOK
<1>1. TxInv /\ [TxNext]_txVars => TxInv'
  BY TxStep
<1>2. TxInv => TxTypeOK
  BY DEF TxInv
<1> QED BY <1>1, <1>2, TxInvInit, PTL DEF TxSpec

(* In slots again: the invariant is TxRingAgrees, and more.                *)
LEMMA TxInvAgrees == TxInv => TxRingAgrees
<1> SUFFICES ASSUME TxInv PROVE TxRingAgrees
  OBVIOUS
<1> USE RingAssumption
<1>1. S \in Nat /\ W \in Nat
  BY Lengths DEF TxInv
<1>2. PICK p \in 0 .. N : p = S - W /\ S = W + p
  <2>1. S - W \in 0 .. N /\ S = W + (S - W)
    BY <1>1 DEF TxInv, TxCountersOK
  <2> QED BY <2>1
<1>3. \A k \in Slot : Ahead(k) = At(W + k)
  <2> SUFFICES ASSUME NEW k \in Slot PROVE Ahead(k) = At(W + k)
    OBVIOUS
  <2>1. k \in Nat /\ txDmaIdx = W % N
    BY DEF Slot, TxInv, TxCountersOK, At
  <2> QED BY <1>1, <2>1, SlotOfSum DEF Ahead, At
<1>4. txDmaIdx = W % N /\ (send # "advance" => txIdx = S % N)
  BY DEF TxInv, TxCountersOK, At
<1>5. send = "advance" => After(txIdx) = S % N
  <2> SUFFICES ASSUME send = "advance" PROVE After(txIdx) = At(S)
    BY DEF At
  <2>1. S - 1 \in Nat /\ (S - 1) + 1 = S /\ txIdx = At(S - 1)
    BY <1>1 DEF TxInv, TxCountersOK
  <2> QED BY <2>1, AtNext
<1>6. \A k \in Slot : txOwn[Ahead(k)] = "dma" <=> k < p
  <2> SUFFICES ASSUME NEW k \in Slot PROVE txOwn[At(W + k)] = "dma" <=> k < p
    BY <1>3
  <2>1. k \in Nat /\ k < N
    BY DEF Slot
  <2>2. CASE k < p
    <3>1. W + k \in W .. (S - 1)
      BY <1>1, <1>2, <2>1, <2>2
    <3> QED BY <2>2, <3>1 DEF TxInv, TxOwnersOK
  <2>3. CASE ~(k < p)
    <3>1. W + k \in S .. (W + N - 1)
      BY <1>1, <1>2, <2>1, <2>3
    <3>2. txOwn[At(W + k)] = "cpu"
      BY <3>1 DEF TxInv, TxOwnersOK
    <3> QED BY <2>3, <3>2
  <2> QED BY <2>2, <2>3
<1>7. \A k \in 0 .. (p - 1) :
        [data |-> txBufs[Ahead(k)], len |-> len[Ahead(k)]] = sent[W + k + 1]
  <2> SUFFICES ASSUME NEW k \in 0 .. (p - 1)
               PROVE  [data |-> txBufs[Ahead(k)], len |-> len[Ahead(k)]] = sent[W + k + 1]
    OBVIOUS
  <2>1. k \in Slot /\ W + k \in W .. (S - 1) /\ (W + k) + 1 \in 1 .. S
    BY <1>1, <1>2 DEF Slot
  <2>2. txBufs[At(W + k)] = sent[W + k + 1].data /\ len[At(W + k)] = sent[W + k + 1].len
    BY <2>1 DEF TxInv, TxContentsOK
  <2>3. \E f \in Frame : sent[W + k + 1] = Whole(f)
    BY <2>1 DEF TxInv, TxContentsOK
  <2> QED BY <1>3, <2>1, <2>2, <2>3, WholePacket DEF Whole
<1> QED BY <1>2, <1>4, <1>5, <1>6, <1>7 DEF TxRingAgrees, S, W

(* The ring agrees with the histories: the DMA owns exactly the frames     *)
(* sent and not yet on the wire, in their order, whole.                    *)
THEOREM RingHoldsWhatIsUnderWay == TxSpec => []TxRingAgrees
<1>1. TxInv /\ [TxNext]_txVars => TxInv'
  BY TxStep
<1> QED BY <1>1, TxInvInit, TxInvAgrees, PTL DEF TxSpec

(* The transmit ring implements BoundedFifo with N frames under way: Send  *)
(* and the DMA, without a lock, put every frame on the wire once, in       *)
(* order, with the bytes and the length of the same call.                  *)
THEOREM TxImplementsFifo == TxSpec => WireCarriesWhatWasSent
<1>1. TxInit => TxFifo!FifoInit
  BY DEF TxInit, TxFifo!FifoInit
<1>2. TxInv /\ [TxNext]_txVars => TxInv' /\ [TxFifo!FifoNext]_(TxFifo!fifoVars)
  BY TxStep
<1> QED BY <1>1, <1>2, TxInvInit, PTL DEF TxSpec, TxFifo!FifoSpec, WireCarriesWhatWasSent

-----------------------------------------------------------------------------
(* The receive ring: its inductive invariant.                              *)
C == Complete
R == recycled

RxCountersOK ==
  /\ C \in Nat /\ R <= C /\ C <= R + N
  /\ rxIdx = At(R) /\ rxDmaIdx = At(C)
  /\ rxDma = "writing" => C < R + N
  /\ rxDma = "suspended" => C = R + N

RxOwnersOK ==
  /\ \A k \in R .. (C - 1) : rxOwn[At(k)] = "cpu"
  /\ \A k \in C .. (R + N - 1) : rxOwn[At(k)] = "dma"

RxContentsOK ==
  /\ \A k \in R .. (C - 1) : status[At(k)] = rxBufs[At(k)] /\ status[At(k)] \in Frame \cup Bad
  /\ rxDma = "writing" => rxBufs[At(C)] \in Frame \cup Bad

(* The slice is the descriptor given back last, whole until the DMA gets   *)
(* there again.                                                            *)
SliceOK ==
  slice.frame # Nothing => /\ R > 0 /\ slice.slot = At(R - 1)
                           /\ filled - R < N => rxBufs[slice.slot] = slice.frame

RxInv == RxTypeOK /\ RxCountersOK /\ RxOwnersOK /\ RxContentsOK /\ SliceOK

(* The counters are numbers; the frame being written is not complete.      *)
LEMMA Numbers ==
  ASSUME RxTypeOK
  PROVE  R \in Nat /\ filled \in Nat /\ (rxDma = "writing" => C = filled - 1)
         /\ (rxDma # "writing" => C = filled)
BY DEF RxTypeOK, C, R, Complete

(* What Append does to a history.                                          *)
LEMMA RxAppended ==
  ASSUME NEW q \in Seq(Frame), NEW e \in Frame
  PROVE  /\ Append(q, e) \in Seq(Frame)
         /\ Len(Append(q, e)) = Len(q) + 1
         /\ \A k \in 1 .. Len(q) : Append(q, e)[k] = q[k]
         /\ Append(q, e)[Len(q) + 1] = e
OBVIOUS

(* The invariant holds after Init.                                         *)
LEMMA RxInvInit == RxInit => RxInv
<1> SUFFICES ASSUME RxInit PROVE RxInv
  OBVIOUS
<1> USE RingAssumption, RxAssumption
<1>1. RxTypeOK
  BY DEF RxInit, RxTypeOK, Slot, NoSlice, Contents
<1>2. R = 0 /\ C = 0
  BY DEF RxInit, R, C, Complete
<1>3. At(0) = 0
  BY QuotientUnique, Quotient DEF At
<1>4. RxCountersOK
  BY <1>2, <1>3 DEF RxInit, RxCountersOK
<1>5. RxOwnersOK
  <2>1. \A k \in C .. (R + N - 1) : rxOwn[At(k)] = "dma"
    <3> SUFFICES ASSUME NEW k \in C .. (R + N - 1) PROVE rxOwn[At(k)] = "dma"
      OBVIOUS
    <3>1. k \in Nat
      BY <1>2
    <3> QED BY <3>1, AtSlot DEF RxInit
  <2> QED BY <1>2, <2>1 DEF RxOwnersOK
<1>6. RxContentsOK
  BY <1>2 DEF RxInit, RxContentsOK
<1>7. SliceOK
  BY DEF RxInit, SliceOK, NoSlice
<1> QED BY <1>1, <1>4, <1>5, <1>6, <1>7 DEF RxInv

-----------------------------------------------------------------------------
(* The receive ring: one lemma per action.                                 *)

(* The DMA fills number C, which no one else uses: not a completed one,    *)
(* and not the slice's unless this is the N-th begun since.                *)
LEMMA DmaWriteKeeps ==
  ASSUME RxInv, NEW f \in Frame \cup Bad, DmaWrite(f)
  PROVE  RxInv'
<1> USE RingAssumption, RxAssumption
<1>1. /\ rxDma = "waiting" /\ rxOwn[rxDmaIdx] = "dma" /\ rxDma' = "writing"
      /\ filled' = filled + 1 /\ rxBufs' = [rxBufs EXCEPT ![rxDmaIdx] = f]
      /\ rxDmaIdx' = rxDmaIdx /\ stored' = stored /\ rxOwn' = rxOwn /\ status' = status
      /\ rxIdx' = rxIdx /\ slice' = slice /\ recycled' = recycled /\ delivered' = delivered
  BY DEF DmaWrite, rxCpuVars
<1>2. R \in Nat /\ C \in Nat /\ C = filled /\ R <= C /\ C <= R + N
  BY <1>1, Numbers DEF RxInv, RxCountersOK
<1>3. R' = R /\ C' = C
  BY <1>1, <1>2 DEF R, C, Complete
<1>4. rxDmaIdx = At(C) /\ At(C) \in Slot
  BY <1>2, AtSlot DEF RxInv, RxCountersOK
<1>5. RxTypeOK'
  <2>1. f \in Contents
    BY DEF Contents
  <2>2. rxBufs' \in [Slot -> Contents]
    BY <1>1, <2>1 DEF RxInv, RxTypeOK
  <2> QED BY <1>1, <2>2 DEF RxInv, RxTypeOK
<1>6. C < R + N
  <2> SUFFICES ASSUME C = R + N PROVE FALSE
    BY <1>2
  <2>1. R \in R .. (C - 1)
    BY <1>2
  <2>2. rxOwn[At(R)] = "cpu"
    BY <2>1 DEF RxInv, RxOwnersOK
  <2> QED BY <1>1, <1>2, <1>4, <2>2, AtRound
<1>7. RxCountersOK'
  BY <1>1, <1>2, <1>3, <1>6 DEF RxInv, RxCountersOK
<1>8. RxOwnersOK'
  BY <1>1, <1>3 DEF RxInv, RxOwnersOK
<1>9. \A k \in R .. (C - 1) : rxBufs'[At(k)] = rxBufs[At(k)]
  <2> SUFFICES ASSUME NEW k \in R .. (C - 1) PROVE rxBufs'[At(k)] = rxBufs[At(k)]
    OBVIOUS
  <2>1. k \in Nat /\ k < C /\ C < k + N
    BY <1>2, <1>6
  <2>2. At(k) # At(C) /\ At(k) \in Slot
    BY <1>2, <2>1, AtDiffer, AtSlot
  <2> QED BY <1>1, <1>4, <2>2 DEF RxInv, RxTypeOK
<1>10. rxBufs'[At(C)] = f
  BY <1>1, <1>4 DEF RxInv, RxTypeOK
<1>11. RxContentsOK'
  <2>1. \A k \in R .. (C - 1) : status'[At(k)] = rxBufs'[At(k)] /\ status'[At(k)] \in Frame \cup Bad
    BY <1>1, <1>9 DEF RxInv, RxContentsOK
  <2>2. rxBufs'[At(C)] \in Frame \cup Bad
    BY <1>10
  <2> QED BY <1>3, <2>1, <2>2 DEF RxContentsOK
<1>12. SliceOK'
  <2> SUFFICES ASSUME slice.frame # Nothing
               PROVE  /\ R > 0 /\ slice.slot = At(R - 1)
                      /\ (C + 1) - R < N => rxBufs'[slice.slot] = slice.frame
    <3>1. filled' - R' = (C + 1) - R /\ slice' = slice
      BY <1>1, <1>2, <1>3
    <3> QED BY <1>3, <3>1 DEF SliceOK
  <2>1. /\ R > 0 /\ slice.slot = At(R - 1)
        /\ (C + 1) - R < N => rxBufs[slice.slot] = slice.frame
    BY <1>2 DEF RxInv, SliceOK
  <2>2. ASSUME (C + 1) - R < N PROVE rxBufs'[slice.slot] = slice.frame
    <3>1. R - 1 \in Nat /\ R - 1 < C /\ C < (R - 1) + N
      BY <1>2, <2>1, <2>2
    <3>2. At(R - 1) # At(C) /\ At(R - 1) \in Slot
      BY <1>2, <3>1, AtDiffer, AtSlot
    <3> QED BY <1>1, <1>4, <2>1, <2>2, <3>2 DEF RxInv, RxTypeOK
  <2> QED BY <2>1, <2>2
<1> QED BY <1>5, <1>7, <1>8, <1>11, <1>12 DEF RxInv

(* Completing number C makes it Recv's.                                    *)
LEMMA RxDmaCloseKeeps ==
  ASSUME RxInv, RxDmaClose
  PROVE  RxInv'
<1> USE RingAssumption, RxAssumption
<1>1. /\ rxDma = "writing" /\ rxDma' = "waiting" /\ rxDmaIdx' = After(rxDmaIdx)
      /\ status' = [status EXCEPT ![rxDmaIdx] = rxBufs[rxDmaIdx]]
      /\ rxOwn' = [rxOwn EXCEPT ![rxDmaIdx] = "cpu"]
      /\ stored' = IF rxBufs[rxDmaIdx] \in Frame THEN Append(stored, rxBufs[rxDmaIdx]) ELSE stored
      /\ filled' = filled /\ rxBufs' = rxBufs
      /\ rxIdx' = rxIdx /\ slice' = slice /\ recycled' = recycled /\ delivered' = delivered
  BY DEF RxDmaClose, rxCpuVars
<1>2. R \in Nat /\ C \in Nat /\ filled \in Nat /\ C + 1 = filled /\ R <= C /\ C < R + N
  BY <1>1, Numbers DEF RxInv, RxCountersOK
<1>3. R' = R /\ C' = C + 1
  BY <1>1, <1>2 DEF R, C, Complete
<1>4. rxDmaIdx = At(C) /\ At(C) \in Slot
  BY <1>2, AtSlot DEF RxInv, RxCountersOK
<1>5. rxDmaIdx' = At(C + 1) /\ At(C + 1) \in Slot
  BY <1>1, <1>2, <1>4, AtNext, AtSlot
<1>6. RxTypeOK'
  <2>1. stored' \in Seq(Frame)
    BY <1>1, RxAppended DEF RxInv, RxTypeOK
  <2>2. status' \in [Slot -> Contents] /\ rxOwn' \in [Slot -> {"cpu", "dma"}]
    BY <1>1, <1>4 DEF RxInv, RxTypeOK
  <2> QED BY <1>1, <1>5, <2>1, <2>2 DEF RxInv, RxTypeOK
<1>7. RxCountersOK'
  <2>1. C + 1 \in Nat /\ R <= C + 1 /\ C + 1 <= R + N
    BY <1>2
  <2> QED BY <1>1, <1>3, <1>5, <2>1 DEF RxInv, RxCountersOK, R
<1>8. \A k \in R .. (C - 1) : rxOwn'[At(k)] = rxOwn[At(k)] /\ status'[At(k)] = status[At(k)]
  <2> SUFFICES ASSUME NEW k \in R .. (C - 1)
               PROVE  rxOwn'[At(k)] = rxOwn[At(k)] /\ status'[At(k)] = status[At(k)]
    OBVIOUS
  <2>1. k \in Nat /\ k < C /\ C < k + N
    BY <1>2
  <2>2. At(k) # At(C) /\ At(k) \in Slot
    BY <1>2, <2>1, AtDiffer, AtSlot
  <2> QED BY <1>1, <1>4, <2>2 DEF RxInv, RxTypeOK
<1>9. rxOwn'[At(C)] = "cpu" /\ status'[At(C)] = rxBufs[At(C)] /\ rxBufs[At(C)] \in Frame \cup Bad
  BY <1>1, <1>4 DEF RxInv, RxTypeOK, RxContentsOK
<1>10. \A k \in R .. C : k = C \/ k \in R .. (C - 1)
  BY <1>2
<1>11. RxOwnersOK'
  <2>1. \A k \in R .. C : rxOwn'[At(k)] = "cpu"
    BY <1>8, <1>9, <1>10 DEF RxInv, RxOwnersOK
  <2>2. \A k \in (C + 1) .. (R + N - 1) : rxOwn'[At(k)] = "dma"
    <3> SUFFICES ASSUME NEW k \in (C + 1) .. (R + N - 1) PROVE rxOwn'[At(k)] = "dma"
      OBVIOUS
    <3>1. k \in Nat /\ C < k /\ k < C + N /\ k \in C .. (R + N - 1)
      BY <1>2
    <3>2. At(k) # At(C) /\ At(k) \in Slot
      BY <1>2, <3>1, AtDiffer, AtSlot
    <3>3. rxOwn[At(k)] = "dma"
      BY <3>1 DEF RxInv, RxOwnersOK
    <3> QED BY <1>1, <1>4, <3>2, <3>3 DEF RxInv, RxTypeOK
  <2>3. C' - 1 = C
    BY <1>2, <1>3
  <2> QED BY <1>3, <2>1, <2>2, <2>3 DEF RxOwnersOK
<1>12. RxContentsOK'
  <2>1. \A k \in R .. C : status'[At(k)] = rxBufs'[At(k)] /\ status'[At(k)] \in Frame \cup Bad
    BY <1>1, <1>8, <1>9, <1>10 DEF RxInv, RxContentsOK
  <2>2. C' - 1 = C
    BY <1>2, <1>3
  <2> QED BY <1>1, <1>3, <2>1, <2>2 DEF RxContentsOK
<1>13. SliceOK'
  BY <1>1, <1>3 DEF RxInv, SliceOK
<1> QED BY <1>6, <1>7, <1>11, <1>12, <1>13 DEF RxInv

(* The DMA finds its descriptor with Recv: all N of them are.              *)
LEMMA DmaOverflowKeeps ==
  ASSUME RxInv, DmaOverflow
  PROVE  RxInv'
<1> USE RingAssumption, RxAssumption
<1>1. /\ rxDma = "waiting" /\ rxOwn[rxDmaIdx] = "cpu" /\ rxDma' = "suspended"
      /\ rxDmaIdx' = rxDmaIdx /\ filled' = filled /\ stored' = stored
      /\ rxOwn' = rxOwn /\ rxBufs' = rxBufs /\ status' = status
      /\ rxIdx' = rxIdx /\ slice' = slice /\ recycled' = recycled /\ delivered' = delivered
  BY DEF DmaOverflow, rxCpuVars, rxRingVars
<1>2. R \in Nat /\ C \in Nat /\ R <= C /\ C <= R + N
  BY <1>1, Numbers DEF RxInv, RxCountersOK
<1>3. R' = R /\ C' = C
  BY <1>1 DEF R, C, Complete
<1>4. C = R + N
  <2> SUFFICES ASSUME C < R + N PROVE FALSE
    BY <1>2
  <2>1. C \in C .. (R + N - 1)
    BY <1>2
  <2>2. rxOwn[At(C)] = "dma"
    BY <2>1 DEF RxInv, RxOwnersOK
  <2> QED BY <1>1, <2>2 DEF RxInv, RxCountersOK
<1>5. RxTypeOK'
  BY <1>1 DEF RxInv, RxTypeOK
<1>6. RxCountersOK'
  BY <1>1, <1>3, <1>4 DEF RxInv, RxCountersOK
<1>7. RxOwnersOK' /\ RxContentsOK' /\ SliceOK'
  BY <1>1, <1>3 DEF RxInv, RxOwnersOK, RxContentsOK, SliceOK
<1> QED BY <1>5, <1>6, <1>7 DEF RxInv

(* What every Recv that takes a frame does to the ring: descriptor R goes  *)
(* back to the DMA and is now the one of number R + N.                     *)
LEMMA RecycleKeeps ==
  ASSUME RxInv, rxOwn[rxIdx] = "cpu", Recycle,
         UNCHANGED <<rxDmaIdx, filled, stored, rxBufs, status>>
  PROVE  /\ RxCountersOK' /\ RxOwnersOK' /\ RxContentsOK'
         /\ rxIdx' \in Slot /\ rxOwn' \in [Slot -> {"cpu", "dma"}]
         /\ rxDma' \in {"waiting", "writing", "suspended"}
         /\ R < C /\ R' = R + 1 /\ C' = C /\ rxIdx = At(R)
         /\ status[rxIdx] = rxBufs[rxIdx] /\ status[rxIdx] \in Frame \cup Bad
<1> USE RingAssumption, RxAssumption
<1>1. /\ rxOwn' = [rxOwn EXCEPT ![rxIdx] = "dma"] /\ rxIdx' = After(rxIdx)
      /\ recycled' = recycled + 1
      /\ rxDma' = (IF rxDma = "suspended" THEN "waiting" ELSE rxDma)
      /\ rxDmaIdx' = rxDmaIdx /\ filled' = filled /\ stored' = stored
      /\ rxBufs' = rxBufs /\ status' = status
  BY DEF Recycle
<1>2. /\ R \in Nat /\ C \in Nat /\ R <= C /\ C <= R + N
      /\ rxIdx = At(R) /\ rxDmaIdx = At(C) /\ At(R) \in Slot
  BY Numbers, AtSlot DEF RxInv, RxCountersOK
<1>3. R' = R + 1
  BY <1>1 DEF R
<1>4. rxDma' \in {"waiting", "writing", "suspended"} /\ (rxDma' = "writing" <=> rxDma = "writing")
      /\ rxDma' # "suspended"
  BY <1>1 DEF RxInv, RxTypeOK
<1>5. C' = C
  BY <1>1, <1>4 DEF C, Complete
<1>6. R < C
  <2> SUFFICES ASSUME C = R PROVE FALSE
    BY <1>2
  <2>1. R \in C .. (R + N - 1)
    BY <1>2
  <2>2. rxOwn[At(R)] = "dma"
    BY <2>1 DEF RxInv, RxOwnersOK
  <2> QED BY <1>2, <2>2
<1>7. status[rxIdx] = rxBufs[rxIdx] /\ status[rxIdx] \in Frame \cup Bad
  <2>1. R \in R .. (C - 1)
    BY <1>2, <1>6
  <2> QED BY <1>2, <2>1 DEF RxInv, RxContentsOK
<1>8. rxIdx' = At(R + 1) /\ At(R + 1) \in Slot
  BY <1>1, <1>2, AtNext, AtSlot
<1>9. RxCountersOK'
  <2>1. R + 1 <= C /\ C <= (R + 1) + N /\ (C < R + N => C < (R + 1) + N)
    BY <1>2, <1>6
  <2> QED BY <1>1, <1>2, <1>3, <1>4, <1>5, <1>8, <2>1 DEF RxInv, RxCountersOK
<1>10. \A k \in Nat : R < k /\ k < R + N => rxOwn'[At(k)] = rxOwn[At(k)]
  <2> SUFFICES ASSUME NEW k \in Nat, R < k, k < R + N PROVE rxOwn'[At(k)] = rxOwn[At(k)]
    OBVIOUS
  <2>1. At(k) # At(R) /\ At(k) \in Slot
    BY <1>2, AtDiffer, AtSlot
  <2> QED BY <1>1, <1>2, <2>1 DEF RxInv, RxTypeOK
<1>11. RxOwnersOK'
  <2>1. \A k \in (R + 1) .. (C - 1) : rxOwn'[At(k)] = "cpu"
    <3> SUFFICES ASSUME NEW k \in (R + 1) .. (C - 1) PROVE rxOwn'[At(k)] = "cpu"
      OBVIOUS
    <3>1. k \in Nat /\ R < k /\ k < R + N /\ k \in R .. (C - 1)
      BY <1>2
    <3>2. rxOwn[At(k)] = "cpu"
      BY <3>1 DEF RxInv, RxOwnersOK
    <3> QED BY <1>10, <3>1, <3>2
  <2>2. \A k \in C .. (R + N) : rxOwn'[At(k)] = "dma"
    <3> SUFFICES ASSUME NEW k \in C .. (R + N) PROVE rxOwn'[At(k)] = "dma"
      OBVIOUS
    <3>1. CASE k = R + N
      BY <1>1, <1>2, <3>1, AtRound DEF RxInv, RxTypeOK
    <3>2. CASE k # R + N
      <4>1. k \in Nat /\ R < k /\ k < R + N /\ k \in C .. (R + N - 1)
        BY <1>2, <1>6, <3>2
      <4>2. rxOwn[At(k)] = "dma"
        BY <4>1 DEF RxInv, RxOwnersOK
      <4> QED BY <1>10, <4>1, <4>2
    <3> QED BY <3>1, <3>2
  <2>3. R' + N - 1 = R + N
    BY <1>2, <1>3
  <2> QED BY <1>3, <1>5, <2>1, <2>2, <2>3 DEF RxOwnersOK
<1>12. RxContentsOK'
  <2>1. \A k \in (R + 1) .. (C - 1) : k \in R .. (C - 1)
    BY <1>2
  <2> QED BY <1>1, <1>3, <1>4, <1>5, <2>1 DEF RxInv, RxContentsOK
<1>13. rxOwn' \in [Slot -> {"cpu", "dma"}]
  BY <1>1, <1>2 DEF RxInv, RxTypeOK
<1> QED BY <1>2, <1>3, <1>4, <1>5, <1>6, <1>7, <1>8, <1>9, <1>11, <1>12, <1>13

(* A frame with a bad length: recycled, no slice.                          *)
LEMMA RecvBadKeeps ==
  ASSUME RxInv, RecvBad
  PROVE  RxInv'
<1>1. /\ rxOwn[rxIdx] = "cpu" /\ Recycle /\ slice' = NoSlice /\ recycled' = recycled + 1
      /\ UNCHANGED <<rxDmaIdx, filled, stored, rxBufs, status>> /\ delivered' = delivered
  BY DEF RecvBad, Recycle
<1>2. /\ RxCountersOK' /\ RxOwnersOK' /\ RxContentsOK'
      /\ rxIdx' \in Slot /\ rxOwn' \in [Slot -> {"cpu", "dma"}]
      /\ rxDma' \in {"waiting", "writing", "suspended"}
  BY <1>1, RecycleKeeps
<1>3. slice' \in [slot : Slot, frame : Frame \cup {Nothing}] /\ slice'.frame = Nothing
  BY <1>1, RingAssumption, RxAssumption DEF NoSlice, Slot
<1>4. RxTypeOK'
  BY <1>1, <1>2, <1>3 DEF RxInv, RxTypeOK
<1>5. SliceOK'
  BY <1>3 DEF SliceOK
<1> QED BY <1>2, <1>4, <1>5 DEF RxInv

(* A good one: recycled, and its slice is that slot.                       *)
LEMMA RecvFrameKeeps ==
  ASSUME RxInv, RecvFrame
  PROVE  RxInv'
<1>1. /\ rxOwn[rxIdx] = "cpu" /\ status[rxIdx] \notin Bad /\ Recycle /\ recycled' = recycled + 1
      /\ slice' = [slot |-> rxIdx, frame |-> rxBufs[rxIdx]]
      /\ delivered' = Append(delivered, rxBufs[rxIdx])
      /\ UNCHANGED <<rxDmaIdx, filled, stored, rxBufs, status>>
  BY DEF RecvFrame, Recycle
<1>2. /\ RxCountersOK' /\ RxOwnersOK' /\ RxContentsOK'
      /\ rxIdx' \in Slot /\ rxOwn' \in [Slot -> {"cpu", "dma"}]
      /\ rxDma' \in {"waiting", "writing", "suspended"}
      /\ R' = R + 1 /\ rxIdx = At(R)
      /\ status[rxIdx] = rxBufs[rxIdx] /\ status[rxIdx] \in Frame \cup Bad
  BY <1>1, RecycleKeeps
<1>3. rxBufs[rxIdx] \in Frame /\ rxIdx \in Slot /\ R \in Nat
  BY <1>1, <1>2, Numbers DEF RxInv, RxTypeOK
<1>4. slice' \in [slot : Slot, frame : Frame \cup {Nothing}]
      /\ slice'.slot = rxIdx /\ slice'.frame = rxBufs[rxIdx]
  BY <1>1, <1>3
<1>5. delivered' \in Seq(Frame)
  BY <1>1, <1>3, RxAppended DEF RxInv, RxTypeOK
<1>6. RxTypeOK'
  BY <1>1, <1>2, <1>4, <1>5 DEF RxInv, RxTypeOK
<1>7. SliceOK'
  <2>1. R' > 0 /\ R' - 1 = R
    BY <1>2, <1>3
  <2> QED BY <1>1, <1>2, <1>4, <2>1 DEF SliceOK
<1> QED BY <1>2, <1>6, <1>7 DEF RxInv

(* Nothing received: only the slice is given up.                           *)
LEMMA RecvNothingKeeps ==
  ASSUME RxInv, RecvNothing
  PROVE  RxInv'
<1>1. /\ slice' = NoSlice /\ rxDma' = rxDma
      /\ rxDmaIdx' = rxDmaIdx /\ filled' = filled /\ stored' = stored
      /\ rxOwn' = rxOwn /\ rxBufs' = rxBufs /\ status' = status
      /\ rxIdx' = rxIdx /\ recycled' = recycled /\ delivered' = delivered
  BY DEF RecvNothing, rxDmaVars, rxRingVars
<1>2. R' = R /\ C' = C
  BY <1>1 DEF R, C, Complete
<1>3. slice' \in [slot : Slot, frame : Frame \cup {Nothing}] /\ slice'.frame = Nothing
  BY <1>1, RingAssumption, RxAssumption DEF NoSlice, Slot
<1>4. RxTypeOK'
  BY <1>1, <1>3 DEF RxInv, RxTypeOK
<1>5. SliceOK'
  BY <1>3 DEF SliceOK
<1>6. RxCountersOK' /\ RxOwnersOK' /\ RxContentsOK'
  BY <1>1, <1>2 DEF RxInv, RxCountersOK, RxOwnersOK, RxContentsOK
<1> QED BY <1>4, <1>5, <1>6 DEF RxInv

(* No step at all.                                                         *)
LEMMA RxStutterKeeps ==
  ASSUME RxInv, UNCHANGED rxVars
  PROVE  RxInv'
<1>1. /\ slice' = slice /\ rxDma' = rxDma
      /\ rxDmaIdx' = rxDmaIdx /\ filled' = filled /\ stored' = stored
      /\ rxOwn' = rxOwn /\ rxBufs' = rxBufs /\ status' = status
      /\ rxIdx' = rxIdx /\ recycled' = recycled /\ delivered' = delivered
  BY DEF rxVars, rxCpuVars, rxDmaVars, rxRingVars
<1>2. R' = R /\ C' = C
  BY <1>1 DEF R, C, Complete
<1>3. RxTypeOK' /\ SliceOK'
  BY <1>1, <1>2 DEF RxInv, RxTypeOK, SliceOK
<1>4. RxCountersOK' /\ RxOwnersOK' /\ RxContentsOK'
  BY <1>1, <1>2 DEF RxInv, RxCountersOK, RxOwnersOK, RxContentsOK
<1> QED BY <1>3, <1>4 DEF RxInv

(* Every step keeps the invariant.                                         *)
LEMMA RxStep ==
  ASSUME RxInv, [RxNext]_rxVars
  PROVE  RxInv'
<1>1. CASE RecvNothing
  BY <1>1, RecvNothingKeeps
<1>2. CASE RecvBad
  BY <1>2, RecvBadKeeps
<1>3. CASE RecvFrame
  BY <1>3, RecvFrameKeeps
<1>4. CASE RxDmaClose
  BY <1>4, RxDmaCloseKeeps
<1>5. CASE DmaOverflow
  BY <1>5, DmaOverflowKeeps
<1>6. ASSUME NEW f \in Frame \cup Bad, DmaWrite(f) PROVE RxInv'
  BY <1>6, DmaWriteKeeps
<1>7. CASE UNCHANGED rxVars
  BY <1>7, RxStutterKeeps
<1> QED BY <1>1, <1>2, <1>3, <1>4, <1>5, <1>6, <1>7 DEF RxNext, Recv

-----------------------------------------------------------------------------
(* The receive ring: theorems.                                             *)

(* Every variable keeps its type, whatever N, Frame and Bad are; Recv      *)
(* never returns a buffer with a bad length or one never written.          *)
THEOREM RxTypeCorrect == RxSpec => []RxTypeOK
<1>1. RxInv => RxTypeOK
  BY DEF RxInv
<1> QED BY <1>1, RxInvInit, RxStep, PTL DEF RxSpec

(* In slots again: the invariant is RxRingAgrees, and more.                *)
LEMMA RxInvAgrees == RxInv => RxRingAgrees
<1> SUFFICES ASSUME RxInv PROVE RxRingAgrees
  OBVIOUS
<1> USE RingAssumption, RxAssumption
<1>1. R \in Nat /\ C \in Nat /\ R <= C /\ C <= R + N /\ C - R \in 0 .. N
  BY Numbers DEF RxInv, RxCountersOK
<1>2. PICK p \in 0 .. N : p = C - R /\ C = R + p
  BY <1>1
<1>3. rxIdx = R % N /\ rxDmaIdx = C % N
  BY DEF RxInv, RxCountersOK, At
<1>4. ASSUME NEW k \in Slot
      PROVE  LET i == (rxIdx + k) % N
             IN /\ rxOwn[i] = "cpu" <=> k < p
                /\ rxOwn[i] = "cpu" => status[i] = rxBufs[i]
                /\ rxDma = "suspended" => rxOwn[i] = "cpu"
  <2>1. k \in Nat /\ k < N
    BY DEF Slot
  <2>2. (rxIdx + k) % N = At(R + k)
    BY <1>1, <1>3, <2>1, SlotOfSum DEF At
  <2>3. CASE k < p
    <3>1. R + k \in R .. (C - 1)
      BY <1>1, <1>2, <2>1, <2>3
    <3>2. rxOwn[At(R + k)] = "cpu" /\ status[At(R + k)] = rxBufs[At(R + k)]
      BY <3>1 DEF RxInv, RxOwnersOK, RxContentsOK
    <3> QED BY <2>2, <2>3, <3>2
  <2>4. CASE ~(k < p)
    <3>1. R + k \in C .. (R + N - 1) /\ C < R + N
      BY <1>1, <1>2, <2>1, <2>4
    <3>2. rxOwn[At(R + k)] = "dma" /\ rxDma # "suspended"
      BY <1>1, <3>1 DEF RxInv, RxOwnersOK, RxCountersOK
    <3> QED BY <2>2, <2>4, <3>2
  <2> QED BY <2>3, <2>4
<1> QED BY <1>1, <1>2, <1>3, <1>4 DEF RxRingAgrees, R, C

(* The CPU owns exactly the completed frames, in their order, with the     *)
(* length of what the buffer holds; the DMA sleeps only when all           *)
(* descriptors are Recv's, whose next call writes the poll demand.         *)
THEOREM RxRingConsistent == RxSpec => []RxRingAgrees
BY RxInvInit, RxStep, RxInvAgrees, PTL DEF RxSpec

(* The slice Recv returned keeps its frame until the DMA has begun N       *)
(* frames beyond those given back: the N - 1 other descriptors are the     *)
(* time a caller has, whatever N is.                                       *)
THEOREM SliceLastsOneRound == RxSpec => []SliceValidWithinARound
<1>1. RxInv => SliceValidWithinARound
  BY DEF RxInv, SliceOK, SliceValidWithinARound, SliceIntact, R
<1> QED BY <1>1, RxInvInit, RxStep, PTL DEF RxSpec

-----------------------------------------------------------------------------
(* Dropped frames and the histories.                                       *)

(* rank[k]: how many acceptable frames have a number below k.              *)
IsRank(rank) ==
  /\ rank[R] = Len(delivered) /\ rank[C] = Len(stored)
  /\ \A k \in R .. C : rank[k] <= Len(stored) /\ Len(stored) - rank[k] <= C - k
  /\ \A k \in R .. (C - 1) :
       /\ status[At(k)] \notin Frame => rank[k + 1] = rank[k]
       /\ status[At(k)] \in Frame => /\ rank[k + 1] = rank[k] + 1
                                     /\ stored[rank[k] + 1] = status[At(k)]

Ranked == \E rank \in [Nat -> Nat] : IsRank(rank)

(* At the start nothing has a rank above 0.                                *)
LEMMA RankedInit == RxInit => Ranked
<1> SUFFICES ASSUME RxInit PROVE Ranked
  OBVIOUS
<1> DEFINE zero == [k \in Nat |-> 0]
<1>1. R = 0 /\ C = 0 /\ Len(delivered) = 0 /\ Len(stored) = 0
  BY DEF RxInit, R, C, Complete
<1>2. zero \in [Nat -> Nat] /\ zero[0] = 0
  OBVIOUS
<1> HIDE DEF zero
<1>3. IsRank(zero)
  BY <1>1, <1>2 DEF IsRank
<1> QED BY <1>2, <1>3 DEF Ranked

(* Steps that touch neither the histories nor a status keep the rank.      *)
LEMMA RankedSame ==
  ASSUME Ranked, R' = R, C' = C, stored' = stored, delivered' = delivered, status' = status
  PROVE  Ranked'
<1>1. PICK rank \in [Nat -> Nat] : IsRank(rank)
  BY DEF Ranked
<1>2. IsRank(rank)'
  BY <1>1 DEF IsRank
<1> QED BY <1>2 DEF Ranked

(* A rank for every number; only those from R to C matter.                 *)
Ranks == [Nat -> Nat]

(* No rank is beyond the history, and no more of it is left than numbers.  *)
Bounded(rank, r, c, l) ==
  \A k \in r .. c : rank[k] <= l /\ l - rank[k] <= c - k

(* The rank when number c completes: e is 1 for an acceptable frame.       *)
Extends(grown, rank, r, c, l, e) ==
  /\ grown[c + 1] = l + e
  /\ \A k \in r .. c : grown[k] = rank[k]
  /\ Bounded(grown, r, c + 1, l + e)

(* One more number: the rank of the next is the new length, the others     *)
(* stay.                                                                   *)
LEMMA RankGrows ==
  \A r, c, l \in Nat, e \in {0, 1}, rank \in Ranks :
    r <= c /\ Bounded(rank, r, c, l)
      => \E grown \in Ranks : Extends(grown, rank, r, c, l, e)
<1> SUFFICES ASSUME NEW r \in Nat, NEW c \in Nat, NEW l \in Nat, NEW e \in {0, 1},
                    NEW rank \in [Nat -> Nat], r <= c, Bounded(rank, r, c, l)
             PROVE  \E grown \in [Nat -> Nat] : Extends(grown, rank, r, c, l, e)
  BY DEF Ranks
<1> DEFINE grown == [k \in Nat |-> IF k = c + 1 THEN l + e ELSE rank[k]]
<1>1. /\ grown \in [Nat -> Nat] /\ grown[c + 1] = l + e
      /\ \A k \in r .. c : grown[k] = rank[k]
  OBVIOUS
<1> HIDE DEF grown
<1>2. ASSUME NEW k \in r .. (c + 1)
      PROVE  grown[k] <= l + e /\ (l + e) - grown[k] <= (c + 1) - k
  <2>1. CASE k = c + 1
    BY <1>1, <2>1
  <2>2. CASE k # c + 1
    <3>1. k \in r .. c /\ rank[k] \in Nat
      BY <2>2
    <3>2. grown[k] = rank[k] /\ rank[k] <= l /\ l - rank[k] <= c - k
      BY <1>1, <3>1 DEF Bounded
    <3> QED BY <3>1, <3>2
  <2> QED BY <2>1, <2>2
<1>3. Bounded(grown, r, c + 1, l + e)
  BY <1>2 DEF Bounded
<1> QED BY <1>1, <1>3 DEF Extends

(* A completed frame: the rank of number C + 1 is the new length of the    *)
(* history.                                                                *)
LEMMA RankedClose ==
  ASSUME RxInv, Ranked, RxDmaClose
  PROVE  Ranked' /\ [RxFifo!FifoNext]_(RxFifo!fifoVars)
<1> USE RingAssumption, RxAssumption
<1>1. /\ rxDma = "writing" /\ rxDma' = "waiting"
      /\ status' = [status EXCEPT ![rxDmaIdx] = rxBufs[rxDmaIdx]]
      /\ stored' = IF rxBufs[rxDmaIdx] \in Frame THEN Append(stored, rxBufs[rxDmaIdx]) ELSE stored
      /\ filled' = filled /\ recycled' = recycled /\ delivered' = delivered
  BY DEF RxDmaClose, rxCpuVars
<1>2. R \in Nat /\ C \in Nat /\ C + 1 = filled /\ R <= C /\ C < R + N
  BY <1>1, Numbers DEF RxInv, RxCountersOK
<1>3. R' = R /\ C' = C + 1
  BY <1>1, <1>2 DEF R, C, Complete
<1>4. rxDmaIdx = At(C) /\ At(C) \in Slot
  BY <1>2, AtSlot DEF RxInv, RxCountersOK
<1>5. \A k \in R .. (C - 1) : status'[At(k)] = status[At(k)]
  <2> SUFFICES ASSUME NEW k \in R .. (C - 1) PROVE status'[At(k)] = status[At(k)]
    OBVIOUS
  <2>1. k \in Nat /\ k < C /\ C < k + N
    BY <1>2
  <2>2. At(k) # At(C) /\ At(k) \in Slot
    BY <1>2, <2>1, AtDiffer, AtSlot
  <2> QED BY <1>1, <1>4, <2>2 DEF RxInv, RxTypeOK
<1>6. status'[At(C)] = rxBufs[rxDmaIdx]
  BY <1>1, <1>4 DEF RxInv, RxTypeOK
<1>7. PICK rank \in [Nat -> Nat] : IsRank(rank)
  BY DEF Ranked
<1>8. PICK l \in Nat, d \in Nat, r \in Nat, c \in Nat :
        l = Len(stored) /\ d = Len(delivered) /\ r = R /\ c = C
  BY <1>2 DEF RxInv, RxTypeOK
<1>9. /\ rank[r] = d /\ rank[c] = l /\ r <= c /\ c < r + N
      /\ \A k \in r .. c : rank[k] <= l /\ l - rank[k] <= c - k
      /\ \A k \in r .. (c - 1) :
           /\ status[At(k)] \notin Frame => rank[k + 1] = rank[k]
           /\ status[At(k)] \in Frame => /\ rank[k + 1] = rank[k] + 1
                                         /\ stored[rank[k] + 1] = status[At(k)]
  BY <1>2, <1>7, <1>8 DEF IsRank
<1>10. PICK e \in {0, 1} : e = IF rxBufs[rxDmaIdx] \in Frame THEN 1 ELSE 0
  OBVIOUS
<1>11. PICK grown \in [Nat -> Nat] : Extends(grown, rank, r, c, l, e)
  <2>1. r <= c /\ Bounded(rank, r, c, l)
    BY <1>9 DEF Bounded
  <2>2. rank \in Ranks
    BY <1>7 DEF Ranks
  <2>3. \E grown \in Ranks : Extends(grown, rank, r, c, l, e)
    BY <1>8, <1>10, <2>1, <2>2, RankGrows
  <2> QED BY <2>3 DEF Ranks
<1>12. /\ Len(stored') = l + e /\ \A i \in 1 .. l : stored'[i] = stored[i]
       /\ e = 1 => stored' = Append(stored, rxBufs[rxDmaIdx]) /\ stored'[l + 1] = rxBufs[rxDmaIdx]
       /\ e = 0 => stored' = stored
  <2>1. CASE rxBufs[rxDmaIdx] \in Frame
    BY <1>1, <1>8, <1>10, <2>1, RxAppended DEF RxInv, RxTypeOK
  <2>2. CASE rxBufs[rxDmaIdx] \notin Frame
    BY <1>1, <1>8, <1>10, <2>2
  <2> QED BY <2>1, <2>2
<1>13. ASSUME NEW k \in r .. c
       PROVE  /\ status'[At(k)] \notin Frame => grown[k + 1] = grown[k]
              /\ status'[At(k)] \in Frame => /\ grown[k + 1] = grown[k] + 1
                                             /\ stored'[grown[k] + 1] = status'[At(k)]
  <2>1. CASE k = c
    <3>1. c \in r .. c
      BY <1>8, <1>9
    <3>2. grown[k] = l /\ grown[k + 1] = l + e /\ status'[At(k)] = rxBufs[rxDmaIdx]
      BY <1>6, <1>8, <1>9, <1>11, <2>1, <3>1 DEF Extends
    <3>3. CASE e = 1
      BY <1>8, <1>10, <1>12, <3>2, <3>3
    <3>4. CASE e = 0
      BY <1>8, <1>10, <3>2, <3>4
    <3> QED BY <1>10, <3>3, <3>4
  <2>2. CASE k # c
    <3>1. k \in Nat /\ k + 1 \in Nat /\ k \in r .. (c - 1) /\ k + 1 \in r .. c
      BY <1>13, <2>2
    <3>2. rank[k] \in Nat /\ rank[k + 1] \in Nat
      BY <3>1
    <3>3. grown[k] = rank[k] /\ grown[k + 1] = rank[k + 1] /\ status'[At(k)] = status[At(k)]
      BY <1>5, <1>8, <1>11, <3>1 DEF Extends
    <3>4. CASE status[At(k)] \in Frame
      <4>1. rank[k + 1] = rank[k] + 1 /\ stored[rank[k] + 1] = status[At(k)]
        BY <1>9, <3>1, <3>4
      <4>2. PICK i \in Nat, j \in Nat : i = rank[k] /\ j = rank[k + 1]
        BY <3>2
      <4>3. i + 1 = j /\ j <= l
        BY <1>9, <3>1, <4>1, <4>2
      <4>4. stored'[rank[k] + 1] = stored[rank[k] + 1]
        <5>1. i + 1 \in 1 .. l
          BY <4>3
        <5> QED BY <1>12, <4>2, <5>1
      <4> QED BY <3>3, <3>4, <4>1, <4>4
    <3>5. CASE status[At(k)] \notin Frame
      BY <1>9, <3>1, <3>3, <3>5
    <3> QED BY <3>4, <3>5
  <2> QED BY <2>1, <2>2
<1>14. Ranked'
  <2>1. grown[r] = d
    <3>1. r \in r .. c
      BY <1>8, <1>9
    <3> QED BY <1>9, <1>11, <3>1 DEF Extends
  <2>2. R' = r /\ C' = c + 1 /\ C' - 1 = c /\ Len(delivered') = d /\ Len(stored') = l + e
    BY <1>1, <1>3, <1>8, <1>12
  <2>3. IsRank(grown)'
    BY <1>11, <1>13, <2>1, <2>2 DEF IsRank, Extends, Bounded
  <2> QED BY <1>11, <2>3 DEF Ranked
<1>15. [RxFifo!FifoNext]_(RxFifo!fifoVars)
  <2>1. CASE e = 0
    BY <1>1, <1>12, <2>1 DEF RxFifo!fifoVars
  <2>2. CASE e = 1
    <3>1. stored' = Append(stored, rxBufs[rxDmaIdx]) /\ rxBufs[rxDmaIdx] \in Frame
      BY <1>10, <1>12, <2>2
    <3>2. l - d <= c - r
      <4>1. r \in r .. c
        BY <1>8, <1>9
      <4> QED BY <1>9, <4>1
    <3>3. l - d < N
      BY <1>8, <1>9, <3>2
    <3>4. RxFifo!Put(rxBufs[rxDmaIdx])
      BY <1>1, <1>8, <3>1, <3>3 DEF RxFifo!Put, RxFifo!UnderWay
    <3> QED BY <3>1, <3>4 DEF RxFifo!FifoNext
  <2> QED BY <1>10, <2>1, <2>2
<1> QED BY <1>14, <1>15

(* Recv takes number R: a bad frame has no place in the histories, another *)
(* is the first one not delivered.                                         *)
LEMMA RankedRecycle ==
  ASSUME RxInv, Ranked, R < C, R' = R + 1, C' = C, stored' = stored, status' = status,
         IF status[At(R)] \in Frame THEN delivered' = Append(delivered, status[At(R)])
                                    ELSE delivered' = delivered
  PROVE  Ranked' /\ [RxFifo!FifoNext]_(RxFifo!fifoVars)
<1>1. R \in Nat /\ C \in Nat
  BY Numbers DEF RxInv, RxCountersOK
<1>2. PICK rank \in [Nat -> Nat] : IsRank(rank)
  BY DEF Ranked
<1>3. PICK d \in Nat, l \in Nat : d = Len(delivered) /\ l = Len(stored)
  BY DEF RxInv, RxTypeOK
<1>4. /\ R \in R .. (C - 1) /\ R + 1 \in R .. C
      /\ \A k \in (R + 1) .. C : k \in R .. C
      /\ \A k \in (R + 1) .. (C - 1) : k \in R .. (C - 1)
  BY <1>1
<1>5. rank[R + 1] = Len(delivered')
  <2>1. CASE status[At(R)] \in Frame
    <3>1. Len(delivered') = d + 1
      BY <1>3, <2>1, RxAppended DEF RxInv, RxTypeOK
    <3> QED BY <1>2, <1>3, <1>4, <2>1, <3>1 DEF IsRank
  <2>2. CASE status[At(R)] \notin Frame
    BY <1>2, <1>3, <1>4, <2>2 DEF IsRank
  <2> QED BY <2>1, <2>2
<1>6. IsRank(rank)'
  BY <1>2, <1>4, <1>5 DEF IsRank
<1>7. [RxFifo!FifoNext]_(RxFifo!fifoVars)
  <2>1. CASE status[At(R)] \notin Frame
    BY <2>1 DEF RxFifo!fifoVars
  <2>2. CASE status[At(R)] \in Frame
    <3>1. rank[R] = d /\ rank[R + 1] = d + 1 /\ stored[d + 1] = status[At(R)]
      BY <1>2, <1>3, <1>4, <2>2 DEF IsRank
    <3>2. rank[R + 1] <= l
      BY <1>2, <1>3, <1>4 DEF IsRank
    <3>3. RxFifo!UnderWay > 0
      BY <1>3, <3>1, <3>2 DEF RxFifo!UnderWay
    <3>4. delivered' = Append(delivered, stored[Len(delivered) + 1])
      BY <1>3, <2>2, <3>1
    <3> QED BY <3>3, <3>4 DEF RxFifo!Get, RxFifo!FifoNext
  <2> QED BY <2>1, <2>2
<1> QED BY <1>2, <1>6, <1>7 DEF Ranked

(* Every step keeps a rank, and is a step of BoundedFifo or none.          *)
LEMMA RankedStep ==
  ASSUME RxInv, Ranked, [RxNext]_rxVars
  PROVE  Ranked' /\ [RxFifo!FifoNext]_(RxFifo!fifoVars)
<1>1. CASE RecvNothing
  <2>1. /\ rxDma' = rxDma /\ filled' = filled /\ recycled' = recycled
        /\ stored' = stored /\ delivered' = delivered /\ status' = status
    BY <1>1 DEF RecvNothing, rxDmaVars, rxRingVars
  <2>2. R' = R /\ C' = C
    BY <2>1 DEF R, C, Complete
  <2> QED BY <2>1, <2>2, RankedSame DEF RxFifo!fifoVars
<1>2. CASE RecvBad
  <2>1. /\ rxOwn[rxIdx] = "cpu" /\ Recycle /\ status[rxIdx] \in Bad
        /\ UNCHANGED <<rxDmaIdx, filled, stored, rxBufs, status>> /\ delivered' = delivered
    BY <1>2 DEF RecvBad
  <2>2. R < C /\ R' = R + 1 /\ C' = C /\ rxIdx = At(R)
    BY <2>1, RecycleKeeps
  <2>3. status[At(R)] \notin Frame /\ stored' = stored /\ status' = status
    BY <2>1, <2>2, RingAssumption, RxAssumption
  <2> QED BY <2>1, <2>2, <2>3, RankedRecycle
<1>3. CASE RecvFrame
  <2>1. /\ rxOwn[rxIdx] = "cpu" /\ Recycle /\ status[rxIdx] \notin Bad
        /\ UNCHANGED <<rxDmaIdx, filled, stored, rxBufs, status>>
        /\ delivered' = Append(delivered, rxBufs[rxIdx])
    BY <1>3 DEF RecvFrame
  <2>2. /\ R < C /\ R' = R + 1 /\ C' = C /\ rxIdx = At(R)
        /\ status[rxIdx] = rxBufs[rxIdx] /\ status[rxIdx] \in Frame \cup Bad
    BY <2>1, RecycleKeeps
  <2>3. /\ status[At(R)] \in Frame /\ stored' = stored /\ status' = status
        /\ delivered' = Append(delivered, status[At(R)])
    BY <2>1, <2>2
  <2> QED BY <2>2, <2>3, RankedRecycle
<1>4. CASE RxDmaClose
  BY <1>4, RankedClose
<1>5. CASE DmaOverflow
  <2>1. /\ rxDma = "waiting" /\ rxDma' = "suspended" /\ filled' = filled /\ recycled' = recycled
        /\ stored' = stored /\ delivered' = delivered /\ status' = status
    BY <1>5 DEF DmaOverflow, rxCpuVars, rxRingVars
  <2>2. R' = R /\ C' = C
    BY <2>1 DEF R, C, Complete
  <2> QED BY <2>1, <2>2, RankedSame DEF RxFifo!fifoVars
<1>6. ASSUME NEW f \in Frame \cup Bad, DmaWrite(f)
      PROVE  Ranked' /\ [RxFifo!FifoNext]_(RxFifo!fifoVars)
  <2>1. /\ rxDma = "waiting" /\ rxDma' = "writing" /\ filled' = filled + 1 /\ recycled' = recycled
        /\ stored' = stored /\ delivered' = delivered /\ status' = status
    BY <1>6 DEF DmaWrite, rxCpuVars
  <2>2. R' = R /\ C' = C
    BY <2>1 DEF R, C, Complete, RxInv, RxTypeOK
  <2> QED BY <2>1, <2>2, RankedSame DEF RxFifo!fifoVars
<1>7. CASE UNCHANGED rxVars
  <2>1. /\ rxDma' = rxDma /\ filled' = filled /\ recycled' = recycled
        /\ stored' = stored /\ delivered' = delivered /\ status' = status
    BY <1>7 DEF rxVars, rxCpuVars, rxDmaVars, rxRingVars
  <2>2. R' = R /\ C' = C
    BY <2>1 DEF R, C, Complete
  <2> QED BY <2>1, <2>2, RankedSame DEF RxFifo!fifoVars
<1> QED BY <1>1, <1>2, <1>3, <1>4, <1>5, <1>6, <1>7 DEF RxNext, Recv

(* The receive ring implements BoundedFifo: Recv returns the acceptable    *)
(* frames the DMA stored, in order, none twice, none skipped, though those *)
(* with a bad length in between are dropped.                               *)
THEOREM RxImplementsFifo == RxSpec => RecvReturnsWhatArrived
<1>1. RxInit => RxFifo!FifoInit
  BY DEF RxInit, RxFifo!FifoInit
<1>2. RxInv /\ Ranked /\ [RxNext]_rxVars
        => RxInv' /\ Ranked' /\ [RxFifo!FifoNext]_(RxFifo!fifoVars)
  BY RxStep, RankedStep
<1> QED BY <1>1, <1>2, RxInvInit, RankedInit, PTL DEF RxSpec, RxFifo!FifoSpec, RecvReturnsWhatArrived
=============================================================================
