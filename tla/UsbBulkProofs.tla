--------------------------- MODULE UsbBulkProofs ---------------------------
(***************************************************************************)
(* Proofs about UsbBulk, for every payload, every length of answer, every  *)
(* size of FIFO 1 and every number of packets and configurations.          *)
(*                                                                         *)
(* As long as the answers fit, InInv adds to AnswersArriveWhole what ties the latched bit, XFERCOMPL   *)
(* and the stall to the transfer under way; OutInv says where the one      *)
(* packet in the pipeline of the OUT endpoint is.                          *)
(***************************************************************************)
EXTENDS UsbBulk, SequenceTheorems, FiniteSetTheorems, TLAPS

Numbers(n) == [i \in 1 .. n |-> i]
Block(n)   == [i \in 1 .. n |-> answered + i]

InInv ==
  /\ taken \o txFifo = Numbers(answered)
  /\ inLeft = Len(txFifo)
  /\ inXfer \/ ~sending => txFifo = << >>
  /\ "iep" \in latched => inXfer
  /\ inXfer => sending
  /\ stall => ~inXfer /\ sending /\ txFifo = << >>

(* What readRxFIFO copies and counts is one packet; a kept slice is of it. *)
BufferInv == buffer = count /\ (task # Empty => count # Empty)

BulkInv == TypeOK /\ (fits => InInv) /\ BufferInv

-----------------------------------------------------------------------------
(* Sequences: a block appended to the answers, a packet moved to the host. *)
LEMMA NumbersSeq == ASSUME NEW n \in Nat PROVE Numbers(n) \in Seq(Nat) /\ Len(Numbers(n)) = n
BY DEF Numbers

(* A packet of n numbers has n elements.                                   *)
LEMMA BlockSeq ==
  ASSUME NEW n \in Nat, answered \in Nat
  PROVE  Block(n) \in Seq(Nat) /\ Len(Block(n)) = n
BY DEF Block

(* The numbers sent so far, and the next n of them.                        *)
LEMMA Extended ==
  ASSUME answered \in Nat, taken \in Seq(Nat), taken = Numbers(answered), NEW n \in Nat
  PROVE  taken \o Block(n) = Numbers(answered + n)
<1>1. /\ Block(n) \in Seq(Nat) /\ Len(Block(n)) = n
      /\ Numbers(answered + n) \in Seq(Nat) /\ Len(Numbers(answered + n)) = answered + n
      /\ Len(taken) = answered
  BY BlockSeq, NumbersSeq
<1>2. /\ taken \o Block(n) \in Seq(Nat) /\ Len(taken \o Block(n)) = answered + n
      /\ \A i \in 1 .. answered + n : (taken \o Block(n))[i] =
            IF i <= answered THEN taken[i] ELSE Block(n)[i - answered]
  <2> HIDE DEF Block
  <2>1. PICK b \in Seq(Nat) : b = Block(n)
    BY <1>1
  <2>2. /\ taken \o b \in Seq(Nat) /\ Len(taken \o b) = Len(taken) + Len(b)
        /\ \A i \in 1 .. Len(taken) + Len(b) : (taken \o b)[i] =
              IF i <= Len(taken) THEN taken[i] ELSE b[i - Len(taken)]
    BY ConcatProperties
  <2> QED BY <1>1, <2>1, <2>2
<1>3. ASSUME NEW i \in 1 .. answered + n
      PROVE  (taken \o Block(n))[i] = Numbers(answered + n)[i]
  <2>1. CASE i <= answered
    BY <1>2, <2>1 DEF Numbers
  <2>2. CASE ~(i <= answered)
    <3>1. i - answered \in 1 .. n /\ answered + (i - answered) = i
      BY <2>2
    <3>2. Block(n)[i - answered] = i
      BY <3>1 DEF Block
    <3> QED BY <1>2, <2>2, <3>2 DEF Numbers
  <2> QED BY <2>1, <2>2
<1> QED BY <1>1, <1>2, <1>3, SeqEqual

(* A unit moves from the FIFO to what the host has taken.                  *)
LEMMA Moved ==
  ASSUME NEW s \in Seq(Nat), NEW t \in Seq(Nat), t # << >>
  PROVE  Append(s, Head(t)) \o Tail(t) = s \o t
<1> DEFINE u == Append(s, Head(t))
<1>1. /\ Head(t) \in Nat /\ Tail(t) \in Seq(Nat) /\ Len(t) \in Nat \ {0} /\ Len(s) \in Nat
      /\ Len(Tail(t)) = Len(t) - 1
      /\ \A i \in 1 .. Len(Tail(t)) : Tail(t)[i] = t[i + 1]
  BY HeadTailProperties, EmptySeq, LenProperties
<1>2. /\ u \in Seq(Nat) /\ Len(u) = Len(s) + 1 /\ u[Len(s) + 1] = t[1]
      /\ \A i \in 1 .. Len(s) : u[i] = s[i]
  BY <1>1, AppendProperties
<1> HIDE DEF u
<1>3. /\ u \o Tail(t) \in Seq(Nat) /\ Len(u \o Tail(t)) = Len(s) + Len(t)
      /\ \A i \in 1 .. Len(s) + Len(t) : (u \o Tail(t))[i] =
            IF i <= Len(s) + 1 THEN u[i] ELSE Tail(t)[i - (Len(s) + 1)]
  <2>1. PICK v \in Seq(Nat) : v = Tail(t)
    BY <1>1
  <2>2. /\ u \o v \in Seq(Nat) /\ Len(u \o v) = Len(u) + Len(v)
        /\ \A i \in 1 .. Len(u) + Len(v) : (u \o v)[i] =
              IF i <= Len(u) THEN u[i] ELSE v[i - Len(u)]
    BY <1>2, ConcatProperties
  <2>3. Len(u) + Len(v) = Len(s) + Len(t)
    BY <1>1, <1>2, <2>1
  <2> QED BY <1>2, <2>1, <2>2, <2>3
<1>4. /\ s \o t \in Seq(Nat) /\ Len(s \o t) = Len(s) + Len(t)
      /\ \A i \in 1 .. Len(s) + Len(t) : (s \o t)[i] =
            IF i <= Len(s) THEN s[i] ELSE t[i - Len(s)]
  BY ConcatProperties
<1>5. ASSUME NEW i \in 1 .. Len(s) + Len(t) PROVE (u \o Tail(t))[i] = (s \o t)[i]
  <2>1. CASE i <= Len(s)
    <3>1. i \in 1 .. Len(s) /\ i <= Len(s) + 1
      BY <1>1, <2>1
    <3> QED BY <1>2, <1>3, <1>4, <2>1, <3>1
  <2>2. CASE i = Len(s) + 1
    <3>1. i - Len(s) = 1 /\ ~(i <= Len(s)) /\ i <= Len(s) + 1
      BY <1>1, <2>2
    <3>2. (s \o t)[i] = t[1]
      BY <1>4, <2>2, <3>1
    <3>3. (u \o Tail(t))[i] = u[Len(s) + 1]
      BY <1>3, <2>2, <3>1
    <3> QED BY <1>2, <3>2, <3>3
  <2>3. CASE i > Len(s) + 1
    <3>1. /\ ~(i <= Len(s)) /\ ~(i <= Len(s) + 1)
          /\ i - (Len(s) + 1) \in 1 .. Len(Tail(t))
          /\ (i - (Len(s) + 1)) + 1 = i - Len(s)
      BY <1>1, <2>3
    <3>2. Tail(t)[i - (Len(s) + 1)] = t[i - Len(s)]
      BY <1>1, <3>1
    <3>3. (s \o t)[i] = t[i - Len(s)]
      BY <1>4, <3>1
    <3>4. (u \o Tail(t))[i] = Tail(t)[i - (Len(s) + 1)]
      BY <1>3, <3>1
    <3> QED BY <3>2, <3>3, <3>4
  <2>4. i <= Len(s) \/ i = Len(s) + 1 \/ i > Len(s) + 1
    BY <1>1
  <2> QED BY <2>1, <2>2, <2>3, <2>4
<1> QED BY <1>3, <1>4, <1>5, SeqEqual DEF u

-----------------------------------------------------------------------------
(* The class driver's next answer, handed over when the one before is out. *)
Typed ==
  /\ txFifo' \in Seq(Nat) /\ Len(txFifo') <= FifoPackets /\ answered' \in Nat
  /\ fits' \in BOOLEAN /\ inLeft' \in 0 .. MaxReply + 1
Answered == taken \o txFifo' = Numbers(answered') /\ inLeft' = Len(txFifo')

(* Writing an answer: what FIFO 1 holds of it, and all of it if it fits.   *)
LEMMA PacketSent ==
  ASSUME TypeOK, NEW n \in 0 .. MaxReply + 1, sendUSBPacket(n)
  PROVE  /\ Typed /\ (fits' => fits)
         /\ InInv /\ txFifo = << >> /\ fits' => Answered
<1>1. /\ answered \in Nat /\ taken \in Seq(Nat) /\ n \in Nat /\ MaxReply + 1 \in Nat
      /\ txFifo \in Seq(Nat) /\ Len(txFifo) \in Nat /\ Len(txFifo) <= FifoPackets
      /\ FifoPackets \in Nat
  BY BulkAssumption, LenProperties DEF TypeOK
<1>2. PICK m \in Nat : /\ m = Smaller(n, FifoPackets - Len(txFifo))
                       /\ m <= FifoPackets - Len(txFifo)
                       /\ Len(txFifo) = 0 /\ n <= FifoPackets => m = n
  <2> DEFINE k == FifoPackets - Len(txFifo)
             m == Smaller(n, k)
  <2>1. k \in Nat /\ (Len(txFifo) = 0 => k = FifoPackets)
    BY <1>1
  <2> HIDE DEF k
  <2>2. m \in Nat /\ m <= k /\ (n <= k => m = n)
    BY <1>1, <2>1 DEF Smaller
  <2> HIDE DEF m
  <2>3. Len(txFifo) = 0 /\ n <= FifoPackets => m = n
    BY <2>1, <2>2
  <2>4. m = Smaller(n, FifoPackets - Len(txFifo)) /\ m <= FifoPackets - Len(txFifo)
    BY <2>2 DEF m, k
  <2> QED BY <2>2, <2>3, <2>4
<1>3. /\ inLeft' = n /\ answered' = answered + n /\ fits' = (fits /\ n <= FifoPackets)
      /\ txFifo' = txFifo \o Block(m)
  BY <1>2 DEF sendUSBPacket, dwcFIFOWrite, Block
<1>4. Block(m) \in Seq(Nat) /\ Len(Block(m)) = m
  BY <1>1, BlockSeq
<1> HIDE DEF Block
<1>5. txFifo' \in Seq(Nat) /\ Len(txFifo') = Len(txFifo) + m
  BY <1>1, <1>3, <1>4, ConcatProperties
<1>6. Typed
  <2>1. fits' \in BOOLEAN /\ answered' \in Nat /\ inLeft' \in 0 .. MaxReply + 1
    BY <1>1, <1>3
  <2> QED BY <1>1, <1>2, <1>5, <2>1 DEF Typed
<1>7. ASSUME InInv, txFifo = << >>, fits' PROVE Answered
  <2>1. Len(txFifo) = 0 /\ n <= FifoPackets
    BY <1>3, <1>7
  <2>2. m = n
    BY <1>2, <2>1
  <2>3. taken = Numbers(answered)
    BY <1>1, <1>7, ConcatEmptySeq DEF InInv
  <2>4. txFifo' = Block(n)
    BY <1>3, <1>4, <1>7, <2>2, ConcatEmptySeq
  <2>5. taken \o Block(n) = Numbers(answered + n)
    BY <1>1, <2>3, Extended
  <2>6. taken \o txFifo' = Numbers(answered')
    BY <1>3, <2>4, <2>5
  <2> QED BY <1>3, <1>4, <2>2, <2>4, <2>6 DEF Answered
<1>8. fits' => fits
  BY <1>3
<1> QED BY <1>6, <1>7, <1>8

(* So does sending the next one of those to do.                            *)
LEMMA NextSent ==
  ASSUME TypeOK, NEW q \in Seq(0 .. MaxReply), SendNext(q)
  PROVE  /\ Typed /\ (fits' => fits)
         /\ todo' \in Seq(0 .. MaxReply) /\ sending' \in BOOLEAN /\ stall' \in BOOLEAN
         /\ InInv /\ txFifo = << >> /\ ~stall /\ fits' =>
               /\ Answered
               /\ ~sending' => txFifo' = << >>
               /\ stall' => sending' /\ txFifo' = << >>
<1>0. TypeOK /\ UNCHANGED <<inLeft, txFifo, answered, fits>> =>
          Typed /\ (fits' => fits) /\ (InInv => Answered)
  BY DEF TypeOK, Typed, InInv, Answered
<1>1. CASE q = << >>
  <2>1. sending' = FALSE /\ todo' = q /\ UNCHANGED <<inLeft, txFifo, stall, answered, fits>>
    BY <1>1 DEF SendNext
  <2>2. stall' \in BOOLEAN
    BY <2>1 DEF TypeOK
  <2> QED BY <1>0, <2>1, <2>2
<1>2. CASE q # << >>
  <2>1. Head(q) \in 0 .. MaxReply /\ Tail(q) \in Seq(0 .. MaxReply)
    BY <1>2, HeadTailProperties
  <2>2. sending' = TRUE /\ todo' = Tail(q)
    BY <1>2 DEF SendNext
  <2>3. CASE Head(q) = 0
    <3>1. stall' = TRUE /\ UNCHANGED <<inLeft, txFifo, answered, fits>>
      BY <1>2, <2>3 DEF SendNext, SetStallEPIn
    <3>2. Typed /\ (fits' => fits) /\ (InInv => Answered) /\ txFifo' = txFifo
      BY <1>0, <3>1
    <3>3. todo' \in Seq(0 .. MaxReply)
      BY <2>1, <2>2
    <3> QED BY <2>2, <3>1, <3>2, <3>3, Zenon
  <2>4. CASE Head(q) # 0
    <3>1. sendUSBPacket(Head(q)) /\ stall' = stall
      BY <1>2, <2>4 DEF SendNext
    <3>2. Head(q) \in 0 .. MaxReply + 1
      BY <2>1, BulkAssumption
    <3>3. Typed /\ (fits' => fits) /\ (InInv /\ txFifo = << >> /\ fits' => Answered)
      BY <3>1, <3>2, PacketSent
    <3>4. todo' \in Seq(0 .. MaxReply) /\ stall' \in BOOLEAN
      BY <2>1, <2>2, <3>1 DEF TypeOK
    <3> QED BY <2>2, <3>1, <3>3, <3>4, Zenon
  <2> QED BY <2>3, <2>4
<1> QED BY <1>1, <1>2

(* A packet consumed: the answer waits its turn or goes at once.           *)
LEMMA Consumed ==
  ASSUME BulkInv, NEW len \in Packet, buffer \in Packet, Consume(len),
         taken' = taken, inXfer' = inXfer, latched' \subseteq latched
  PROVE  /\ Typed /\ (fits' => InInv')
         /\ received' \in Seq([data : Packet, len : Packet])
         /\ todo' \in Seq(0 .. MaxReply) /\ sending' \in BOOLEAN /\ stall' \in BOOLEAN
<1>1. received' \in Seq([data : Packet, len : Packet])
  <2>1. Slice(buffer, len) \in [data : Packet, len : Packet]
    BY DEF Slice
  <2>2. received \in Seq([data : Packet, len : Packet]) /\ received' = Append(received, Slice(buffer, len))
    BY DEF BulkInv, TypeOK, Consume
  <2> QED BY <2>1, <2>2, AppendProperties
<1>2. PICK n \in 0 .. MaxReply :
        IF sending
          THEN todo' = Append(todo, n) /\ UNCHANGED <<sending, inLeft, txFifo, stall, answered, fits>>
          ELSE SendNext(<<n>>)
  BY DEF Consume
<1>3. CASE sending
  <2>1. todo' = Append(todo, n) /\ UNCHANGED <<sending, inLeft, txFifo, stall, answered, fits>>
    BY <1>2, <1>3
  <2>2. todo' \in Seq(0 .. MaxReply)
    BY <2>1, AppendProperties DEF BulkInv, TypeOK
  <2>3. Typed /\ sending' \in BOOLEAN /\ stall' \in BOOLEAN
    BY <2>1 DEF BulkInv, TypeOK, Typed
  <2>4. fits' => InInv'
    BY <2>1 DEF BulkInv, InInv
  <2> QED BY <1>1, <2>2, <2>3, <2>4
<1>4. CASE ~sending
  <2>1. SendNext(<<n>>)
    BY <1>2, <1>4
  <2>2. <<n>> \in Seq(0 .. MaxReply)
    OBVIOUS
  <2>3. /\ Typed /\ (fits' => fits)
        /\ todo' \in Seq(0 .. MaxReply) /\ sending' \in BOOLEAN /\ stall' \in BOOLEAN
        /\ InInv /\ txFifo = << >> /\ ~stall /\ fits' =>
               /\ Answered
               /\ ~sending' => txFifo' = << >>
               /\ stall' => sending' /\ txFifo' = << >>
    BY <2>1, <2>2, NextSent DEF BulkInv
  <2>4. ASSUME fits' PROVE InInv'
    <3>1. fits /\ InInv
      BY <2>3, <2>4 DEF BulkInv
    <3>2. txFifo = << >> /\ ~stall /\ ~inXfer /\ ~inXfer'
      BY <1>4, <3>1 DEF InInv
    <3>3. "iep" \notin latched'
      BY <3>1, <3>2 DEF InInv
    <3> QED BY <2>3, <2>4, <3>1, <3>2, <3>3 DEF Answered, InInv
  <2> QED BY <1>1, <2>3, <2>4
<1> QED BY <1>3, <1>4

-----------------------------------------------------------------------------
(* One lemma per action.                                                   *)
LEMMA BulkInit == Init => BulkInv
<1> SUFFICES ASSUME Init PROVE BulkInv
  OBVIOUS
<1>1. << >> \in Seq(Nat) /\ Len(<< >>) = 0 /\ << >> \in Seq(Entries) /\ << >> \in Seq(0 .. MaxReply)
      /\ << >> \in Seq(Sendable) /\ << >> \in Seq([data : Packet, len : Packet])
  BY EmptySeq
<1>2. TypeOK
  <2>1. /\ configs \in 0 .. MaxConfigs /\ inLeft \in 0 .. MaxReply + 1 /\ answered \in Nat
        /\ latched \subseteq {"rx", "iep", "oep"} /\ Len(txFifo) <= FifoPackets
    BY <1>1, BulkAssumption DEF Init
  <2>2. /\ armed \in BOOLEAN /\ xfer \in BOOLEAN /\ clean \in BOOLEAN /\ fits \in BOOLEAN
        /\ inXfer \in BOOLEAN /\ stall \in BOOLEAN /\ sending \in BOOLEAN
        /\ buffer \in Sendable /\ count \in Sendable /\ task \in Sendable
    BY DEF Init, Sendable
  <2>3. /\ txFifo \in Seq(Nat) /\ fifo \in Seq(Entries) /\ todo \in Seq(0 .. MaxReply)
        /\ sent \in Seq(Sendable) /\ received \in Seq([data : Packet, len : Packet])
        /\ taken \in Seq(Nat)
    BY <1>1 DEF Init
  <2> QED BY <2>1, <2>2, <2>3 DEF TypeOK
<1>3. << >> \o << >> = Numbers(0)
  <2>1. Numbers(0) \in Seq(Nat) /\ Len(Numbers(0)) = 0
    BY NumbersSeq
  <2>2. Numbers(0) = << >>
    BY <2>1, EmptySeq
  <2>3. << >> \o << >> = << >>
    BY <1>1, ConcatEmptySeq
  <2> QED BY <2>2, <2>3
<1>4. InInv
  BY <1>1, <1>3 DEF Init, InInv
<1> QED BY <1>2, <1>4 DEF Init, BufferInv, BulkInv

(* A packet from the host.                                                 *)
LEMMA HostOutKeeps == ASSUME BulkInv, NEW p \in Sendable, HostOut(p) PROVE BulkInv'
<1>1. fifo' \in Seq(Entries)
  <2>1. Data(p) \in Entries /\ Done \in Entries
    BY DEF Data, Done, Entries, Sendable
  <2>2. <<Data(p), Done>> \in Seq(Entries)
    BY <2>1
  <2>3. fifo \in Seq(Entries) /\ fifo' = fifo \o <<Data(p), Done>>
    BY DEF HostOut, BulkInv, TypeOK
  <2> QED BY <2>2, <2>3, ConcatProperties
<1>2. sent' \in Seq(Sendable)
  BY AppendProperties DEF HostOut, BulkInv, TypeOK
<1>3. /\ armed' = FALSE /\ clean' \in BOOLEAN
      /\ UNCHANGED <<xfer, inVars, drvVars, task, mscVars, received, answered, fits, taken>>
  BY DEF HostOut
<1>4. TypeOK'
  BY <1>1, <1>2, <1>3 DEF BulkInv, TypeOK, inVars, drvVars, mscVars
<1> QED BY <1>3, <1>4 DEF BulkInv, InInv, BufferInv, inVars, drvVars, mscVars

(* The host takes the oldest packet; it is still in taken \o txFifo.       *)
LEMMA HostInKeeps == ASSUME BulkInv, HostIn PROVE BulkInv'
<1>1. /\ txFifo \in Seq(Nat) /\ taken \in Seq(Nat) /\ txFifo # << >> /\ ~stall
      /\ inLeft \in 0 .. MaxReply + 1 /\ inLeft > 0 /\ MaxReply \in Nat
      /\ inXfer \in BOOLEAN /\ Len(txFifo) <= FifoPackets /\ FifoPackets \in Nat
  BY BulkAssumption DEF BulkInv, TypeOK, HostIn
<1>2. /\ taken' = Append(taken, Head(txFifo)) /\ txFifo' = Tail(txFifo)
      /\ inLeft' = inLeft - 1 /\ inXfer' = (inXfer \/ inLeft = 1)
      /\ UNCHANGED <<outVars, stall, drvVars, task, mscVars, sent, received, answered, fits, clean>>
  BY DEF HostIn
<1>3. /\ Head(txFifo) \in Nat /\ Tail(txFifo) \in Seq(Nat) /\ Len(Tail(txFifo)) = Len(txFifo) - 1
      /\ Len(txFifo) \in Nat \ {0}
  BY <1>1, HeadTailProperties, EmptySeq
<1>4. taken' \in Seq(Nat) /\ inLeft' \in 0 .. MaxReply + 1
  BY <1>1, <1>2, <1>3, AppendProperties
<1>5. TypeOK'
  <2>1. txFifo' \in Seq(Nat) /\ Len(txFifo') <= FifoPackets /\ inXfer' \in BOOLEAN
    BY <1>1, <1>2, <1>3
  <2> QED BY <1>2, <1>4, <2>1 DEF BulkInv, TypeOK, outVars, drvVars, mscVars
<1>6. ASSUME fits' PROVE InInv'
  <2>0. InInv
    BY <1>2, <1>6 DEF BulkInv
  <2>1. inLeft = Len(txFifo) /\ taken \o txFifo = Numbers(answered) /\ ~inXfer /\ sending
    BY <1>1, <2>0 DEF InInv
  <2>2. taken' \o txFifo' = Numbers(answered')
    BY <1>1, <1>2, <2>1, Moved
  <2>3. inLeft' = Len(txFifo')
    BY <1>1, <1>2, <1>3, <2>1
  <2>4. inXfer' => txFifo' = << >>
    <3>1. inXfer' => Len(Tail(txFifo)) = 0
      BY <1>1, <1>2, <1>3, <2>1
    <3> QED BY <1>2, <1>3, <3>1, EmptySeq
  <2>5. "iep" \in latched' => inXfer'
    BY <1>2, <2>0 DEF InInv, drvVars
  <2>6. sending' /\ ~stall'
    BY <1>1, <1>2, <2>1 DEF mscVars
  <2> QED BY <2>2, <2>3, <2>4, <2>5, <2>6 DEF InInv
<1> QED BY <1>2, <1>5, <1>6 DEF BulkInv, BufferInv, drvVars

(* A re-configuration.                                                     *)
LEMMA ConfigKeeps == ASSUME BulkInv, initEndpoint PROVE BulkInv'
<1>1. /\ armed' = TRUE /\ stall' = FALSE /\ clean' \in BOOLEAN /\ configs' \in 0 .. MaxConfigs
      /\ UNCHANGED <<fifo, xfer, inLeft, txFifo, inXfer, latched, buffer, count, task, mscVars,
                      sent, received, answered, fits, taken>>
  BY BulkAssumption DEF initEndpoint, AckUsbOutTransfer, BulkInv, TypeOK
<1>2. TypeOK'
  BY <1>1 DEF BulkInv, TypeOK, mscVars
<1> QED BY <1>1, <1>2 DEF BulkInv, InInv, BufferInv, mscVars

(* The host clears the stall.                                              *)
LEMMA ClearStallKeeps == ASSUME BulkInv, ClearStallEPIn PROVE BulkInv'
<1>1. /\ stall /\ sendUSBPacket(1) /\ stall' = FALSE
      /\ UNCHANGED <<outVars, inXfer, drvVars, task, mscVars, sent, received, taken, clean>>
  BY DEF ClearStallEPIn
<1>2. Typed /\ (fits' => fits) /\ (InInv /\ txFifo = << >> /\ fits' => Answered)
  <2>1. 1 \in 0 .. MaxReply + 1
    BY BulkAssumption
  <2> QED BY <1>1, <2>1, PacketSent DEF BulkInv
<1>3. TypeOK'
  BY <1>1, <1>2 DEF BulkInv, TypeOK, Typed, outVars, drvVars, mscVars
<1>4. ASSUME fits' PROVE InInv'
  <2>1. InInv /\ ~inXfer /\ sending /\ txFifo = << >>
    BY <1>1, <1>2, <1>4 DEF BulkInv, InInv
  <2> QED BY <1>1, <1>2, <1>4, <2>1 DEF InInv, Answered, drvVars, mscVars
<1> QED BY <1>1, <1>3, <1>4 DEF BulkInv, BufferInv, drvVars

(* The poll loop.                                                          *)
LEMMA PollKeeps == ASSUME BulkInv, usbPollLoop PROVE BulkInv'
<1>1. /\ latched' = Pending
      /\ UNCHANGED <<outVars, inVars, configs, buffer, count, task, mscVars, sent, received,
                      answered, fits, taken, clean>>
  BY DEF usbPollLoop
<1>2. latched' \subseteq {"rx", "iep", "oep"} /\ ("iep" \in latched' => inXfer)
  BY <1>1 DEF Pending
<1>3. TypeOK'
  BY <1>1, <1>2 DEF BulkInv, TypeOK, outVars, inVars, mscVars
<1>4. fits' => InInv'
  BY <1>1, <1>2 DEF BulkInv, InInv, inVars, mscVars
<1> QED BY <1>1, <1>3, <1>4 DEF BulkInv, BufferInv

(* Draining the receive FIFO.                                              *)
LEMMA DrainKeeps == ASSUME BulkInv, handleUSBRxFIFO PROVE BulkInv'
<1>1. UNCHANGED <<configs, armed, inVars, task, mscVars, sent, received, answered, fits, taken, clean>>
  BY DEF handleUSBRxFIFO
<1>2. fifo # << >> => Head(fifo) \in Entries /\ Tail(fifo) \in Seq(Entries)
  BY HeadTailProperties DEF BulkInv, TypeOK
<1>3. /\ fifo' \in Seq(Entries) /\ xfer' \in BOOLEAN /\ latched' \subseteq latched
      /\ \/ buffer' = buffer /\ count' = count
         \/ /\ Head(fifo).packet # Empty /\ Head(fifo).packet \in Sendable
            /\ buffer' = Head(fifo).packet /\ count' = Head(fifo).packet
  BY <1>2 DEF BulkInv, TypeOK, handleUSBRxFIFO, readRxFIFO, Entries, Sendable
<1>4. TypeOK'
  BY <1>1, <1>3 DEF BulkInv, TypeOK, inVars, mscVars
<1>5. fits' => InInv'
  BY <1>1, <1>3 DEF BulkInv, InInv, inVars, mscVars
<1>6. BufferInv'
  BY <1>1, <1>3 DEF BulkInv, BufferInv
<1> QED BY <1>4, <1>5, <1>6 DEF BulkInv

(* XFERCOMPL: what the answer wrote has all been taken.                    *)
LEMMA InEndpointKeeps == ASSUME BulkInv, handleUSBInEP PROVE BulkInv'
<1>1. /\ latched' = latched \ {"iep"} /\ inXfer' = FALSE /\ SendNext(todo)
      /\ UNCHANGED <<outVars, configs, buffer, count, task, sent, received, taken, clean>>
  BY DEF handleUSBInEP
<1>2. todo \in Seq(0 .. MaxReply) /\ "iep" \in latched
  BY DEF handleUSBInEP, BulkInv, TypeOK
<1>3. /\ Typed /\ (fits' => fits)
      /\ todo' \in Seq(0 .. MaxReply) /\ sending' \in BOOLEAN /\ stall' \in BOOLEAN
      /\ InInv /\ txFifo = << >> /\ ~stall /\ fits' =>
            /\ Answered
            /\ ~sending' => txFifo' = << >>
            /\ stall' => sending' /\ txFifo' = << >>
  BY <1>1, <1>2, NextSent DEF BulkInv
<1>4. TypeOK'
  BY <1>1, <1>3 DEF BulkInv, TypeOK, Typed, outVars
<1>5. ASSUME fits' PROVE InInv'
  <2>1. InInv /\ txFifo = << >> /\ ~stall
    BY <1>2, <1>3, <1>5 DEF BulkInv, InInv
  <2> QED BY <1>1, <1>3, <1>5, <2>1 DEF InInv, Answered
<1> QED BY <1>1, <1>4, <1>5 DEF BulkInv, BufferInv

(* handleUSBOutEP when nothing is consumed.                                *)
LEMMA OutKept ==
  ASSUME BulkInv, armed' \in BOOLEAN, task' \in {task, count}, task' # task => count # Empty,
         latched' = {}, xfer' = FALSE,
         UNCHANGED <<fifo, inXfer, configs, buffer, count, sent, taken, clean>>,
         UNCHANGED <<received, mscVars, inLeft, txFifo, stall, answered, fits>>
  PROVE  BulkInv'
<1>1. TypeOK'
  BY DEF BulkInv, TypeOK, mscVars
<1>2. fits' => InInv'
  BY DEF BulkInv, InInv, mscVars
<1> QED BY <1>1, <1>2 DEF BulkInv, BufferInv

(* The OUT endpoint's interrupt.                                           *)
LEMMA OutEndpointKeeps == ASSUME BulkInv, handleUSBOutEP PROVE BulkInv'
<1>1. /\ latched' = {} /\ xfer' = FALSE /\ latched' \subseteq latched
      /\ UNCHANGED <<fifo, inXfer, configs, buffer, count, sent, taken, clean>>
  BY DEF handleUSBOutEP
<1>2. armed \in BOOLEAN
  BY DEF BulkInv, TypeOK
<1>3. CASE count = Empty
  <2>1. armed' = TRUE /\ task' = task /\ UNCHANGED <<received, mscVars, inLeft, txFifo, stall, answered, fits>>
    BY <1>3 DEF handleUSBOutEP, AckUsbOutTransfer
  <2> QED BY <1>1, <2>1, OutKept
<1>4. CASE count # Empty /\ Consume(count) /\ AckUsbOutTransfer /\ task' = task
  <2>1. count \in Packet /\ buffer \in Packet
    BY <1>4 DEF BulkInv, TypeOK, BufferInv, Sendable
  <2>2. /\ Typed /\ (fits' => InInv')
        /\ received' \in Seq([data : Packet, len : Packet])
        /\ todo' \in Seq(0 .. MaxReply) /\ sending' \in BOOLEAN /\ stall' \in BOOLEAN
    BY <1>1, <1>4, <2>1, Consumed
  <2>3. TypeOK'
    BY <1>1, <1>4, <2>2 DEF BulkInv, TypeOK, Typed, AckUsbOutTransfer
  <2> QED BY <1>1, <1>4, <2>2, <2>3 DEF BulkInv, BufferInv
<1>5. CASE /\ count # Empty /\ task' = count
           /\ UNCHANGED <<armed, received, mscVars, inLeft, txFifo, stall, answered, fits>>
  <2>1. armed' \in BOOLEAN /\ UNCHANGED <<received, mscVars, inLeft, txFifo, stall, answered, fits>>
    BY <1>2, <1>5
  <2> QED BY <1>1, <1>5, <2>1, OutKept
<1> QED BY <1>3, <1>4, <1>5 DEF handleUSBOutEP, Deliver

(* The class driver's task.                                                *)
LEMMA TaskKeeps == ASSUME BulkInv, processTasks PROVE BulkInv'
<1>1. /\ task # Empty /\ Consume(task) /\ task' = Empty /\ armed' = TRUE
      /\ UNCHANGED <<fifo, xfer, inXfer, drvVars, sent, taken, clean>>
  BY DEF processTasks, AckUsbOutTransfer
<1>2. task \in Packet /\ buffer \in Packet
  BY <1>1 DEF BulkInv, TypeOK, BufferInv, Sendable
<1>3. /\ Typed /\ (fits' => InInv')
      /\ received' \in Seq([data : Packet, len : Packet])
      /\ todo' \in Seq(0 .. MaxReply) /\ sending' \in BOOLEAN /\ stall' \in BOOLEAN
  BY <1>1, <1>2, Consumed DEF drvVars
<1>4. TypeOK'
  BY <1>1, <1>3 DEF BulkInv, TypeOK, Typed, Sendable, drvVars
<1> QED BY <1>1, <1>3, <1>4 DEF BulkInv, BufferInv, drvVars

(* Every step keeps the invariant.                                         *)
LEMMA BulkNext == BulkInv /\ [Next]_vars => BulkInv'
<1> SUFFICES ASSUME BulkInv, [Next]_vars PROVE BulkInv'
  OBVIOUS
<1>1. CASE UNCHANGED vars
  <2>1. UNCHANGED <<outVars, inVars, drvVars, task, mscVars, sent, received, answered, fits, taken, clean>>
    BY <1>1 DEF vars
  <2>2. TypeOK'
    BY <2>1 DEF BulkInv, TypeOK, outVars, inVars, drvVars, mscVars
  <2> QED BY <2>1, <2>2 DEF BulkInv, InInv, BufferInv, inVars, drvVars, mscVars
<1> QED BY <1>1, HostOutKeeps, HostInKeeps, ConfigKeeps, ClearStallKeeps, PollKeeps, DrainKeeps,
           InEndpointKeeps, OutEndpointKeeps, TaskKeeps DEF Next, Driver

(* The types of registers, FIFOs, buffer and class driver.                 *)
THEOREM BulkTypeCorrect == Spec => []TypeOK
<1>1. BulkInv => TypeOK
  BY DEF BulkInv
<1> QED BY <1>1, BulkInit, BulkNext, PTL DEF Spec

(* For every size of FIFO 1: as long as no answer is longer than it, the   *)
(* answers reach the host whole, once and in order, through stalls and     *)
(* re-configurations.                                                      *)
THEOREM AnswersWhole == Spec => []AnswersArriveWhole
<1>1. BulkInv => AnswersArriveWhole
  BY DEF BulkInv, InInv, AnswersArriveWhole, Numbers
<1> QED BY <1>1, BulkInit, BulkNext, PTL DEF Spec

-----------------------------------------------------------------------------
(* The OUT endpoint.  All but the last n packets sent have been consumed,  *)
(* each with its own bytes and length; the last one is in one place.       *)
Matches(n) ==
  /\ Len(sent) = Len(received) + n
  /\ \A i \in 1 .. Len(received) : received[i] = Slice(sent[i], sent[i])
  /\ \A i \in 1 .. Len(sent) : sent[i] \in Packet
Last == sent[Len(sent)]

Idle    == Matches(0) /\ fifo = << >> /\ ~xfer /\ task = Empty
InFifo2 == Matches(1) /\ ~armed /\ fifo = <<Data(Last), Done>> /\ ~xfer /\ task = Empty
InFifo1 == Matches(1) /\ ~armed /\ fifo = <<Done>> /\ ~xfer /\ task = Empty /\ count = Last
AtXfer  == Matches(1) /\ ~armed /\ fifo = << >> /\ xfer /\ task = Empty /\ count = Last
Kept    == Matches(1) /\ ~armed /\ fifo = << >> /\ ~xfer /\ task = Last /\ count = Last

OutInv ==
  /\ "oep" \in latched => xfer
  /\ configs = 0 => ~armed /\ fifo = << >> /\ ~xfer /\ task = Empty
  /\ clean => Idle \/ InFifo2 \/ InFifo1 \/ AtXfer \/ Kept

(* Unless a SET_CONFIGURATION came in the middle of a transfer or a packet *)
(* was empty: the endpoint is armed only when nothing of an earlier packet *)
(* is left anywhere, so that the one buffer is never offered twice; and    *)
(* all packets but the one under way have been consumed, in order, with    *)
(* their own bytes and lengths.                                            *)
ArmedOnlyWhenDrained ==
  clean /\ armed => fifo = << >> /\ ~xfer /\ task = Empty /\ "oep" \notin latched
ConsumedInOrder ==
  clean => /\ Len(sent) - Len(received) \in {0, 1}
           /\ \A i \in 1 .. Len(received) : received[i] = Slice(sent[i], sent[i])

(* No packet at the start.                                                 *)
LEMMA OutInit == Init => OutInv
<1>1. Len(<< >>) = 0 /\ \A i \in 1 .. Len(<< >>) : FALSE
  OBVIOUS
<1> QED BY <1>1 DEF Init, OutInv, Idle, Matches

(* Steps of the IN endpoint and of the latch.                              *)
LEMMA OutSame ==
  ASSUME OutInv, UNCHANGED <<outVars, configs, task, count, sent, received, clean>>,
         "oep" \in latched' => xfer
  PROVE  OutInv'
BY DEF OutInv, Idle, InFifo2, InFifo1, AtXfer, Kept, Matches, Last, outVars

(* The last packet is consumed: the class driver has its bytes and length. *)
LEMMA ConsumedLast ==
  ASSUME BulkInv, Matches(1), count = Last, Consume(Last), sent' = sent
  PROVE  Matches(0)'
<1>1. /\ sent \in Seq(Sendable) /\ received \in Seq([data : Packet, len : Packet])
      /\ Len(sent) \in Nat /\ Len(received) \in Nat /\ Len(sent) = Len(received) + 1
  BY LenProperties DEF BulkInv, TypeOK, Matches
<1>2. Last \in Packet /\ buffer = Last
  BY <1>1 DEF Matches, Last, BulkInv, BufferInv
<1>3. Slice(Last, Last) \in [data : Packet, len : Packet]
  BY <1>2 DEF Slice
<1>4. received' = Append(received, Slice(Last, Last))
  BY <1>2 DEF Consume
<1>5. /\ Len(received') = Len(received) + 1
      /\ \A i \in 1 .. Len(received) : received'[i] = received[i]
      /\ received'[Len(received) + 1] = Slice(Last, Last)
  BY <1>1, <1>3, <1>4, AppendProperties
<1>6. \A i \in 1 .. Len(received') : received'[i] = Slice(sent[i], sent[i])
  BY <1>1, <1>5 DEF Matches, Last
<1> QED BY <1>1, <1>5, <1>6 DEF Matches

(* A packet from the host.                                                 *)
LEMMA OutHostOut == ASSUME BulkInv, OutInv, NEW p \in Sendable, HostOut(p) PROVE OutInv'
<1>1. /\ armed /\ armed' = FALSE /\ fifo' = fifo \o <<Data(p), Done>> /\ sent' = Append(sent, p)
      /\ clean' = (clean /\ p # Empty)
      /\ xfer' = xfer /\ latched' = latched /\ configs' = configs /\ task' = task
      /\ received' = received
  BY DEF HostOut, drvVars
<1>2. configs # 0
  BY <1>1 DEF OutInv
<1>3. CASE ~clean'
  BY <1>1, <1>2, <1>3 DEF OutInv
<1>4. CASE clean'
  <2>1. Idle /\ p \in Packet
    BY <1>1, <1>4 DEF OutInv, InFifo2, InFifo1, AtXfer, Kept, Sendable
  <2>2. fifo' = <<Data(p), Done>>
    BY <1>1, <2>1 DEF Idle
  <2>3. /\ sent \in Seq(Sendable) /\ Len(sent) \in Nat /\ Len(received) \in Nat
    BY LenProperties DEF BulkInv, TypeOK
  <2>4. /\ Len(sent') = Len(sent) + 1 /\ sent'[Len(sent) + 1] = p
        /\ \A i \in 1 .. Len(sent) : sent'[i] = sent[i]
    BY <1>1, <2>3, AppendProperties
  <2>5. Matches(1)'
    BY <1>1, <2>1, <2>3, <2>4 DEF Idle, Matches
  <2>6. Last' = p
    BY <2>4 DEF Last
  <2>7. InFifo2'
    BY <1>1, <2>1, <2>2, <2>5, <2>6 DEF Idle, InFifo2, Data, Done
  <2> QED BY <1>1, <1>2, <2>7 DEF OutInv
<1> QED BY <1>3, <1>4

(* A re-configuration.                                                     *)
LEMMA OutConfig == ASSUME BulkInv, OutInv, initEndpoint PROVE OutInv'
<1>1. /\ clean' = (clean /\ (configs = 0 \/ (armed /\ ~sending))) /\ configs' = configs + 1
      /\ armed' = TRUE
      /\ UNCHANGED <<fifo, xfer, latched, count, task, sent, received>>
  BY DEF initEndpoint, Quiet, AckUsbOutTransfer
<1>2. configs' # 0
  BY <1>1 DEF BulkInv, TypeOK
<1>3. clean' => Idle
  <2>1. clean' => clean /\ (configs = 0 \/ armed)
    BY <1>1
  <2>2. configs = 0 => ~InFifo2 /\ ~InFifo1 /\ ~AtXfer /\ ~Kept
    <3>1. ASSUME Kept PROVE task # Empty
      <4>1. Len(sent) \in Nat /\ Len(received) \in Nat
        BY LenProperties DEF BulkInv, TypeOK
      <4> QED BY <3>1, <4>1, BulkAssumption DEF Kept, Matches, Last
    <3> QED BY <3>1 DEF OutInv, InFifo2, InFifo1, AtXfer
  <2>3. armed => ~InFifo2 /\ ~InFifo1 /\ ~AtXfer /\ ~Kept
    BY DEF InFifo2, InFifo1, AtXfer, Kept
  <2> QED BY <2>1, <2>2, <2>3 DEF OutInv
<1>4. clean' => Idle'
  BY <1>1, <1>3 DEF Idle, Matches
<1> QED BY <1>1, <1>2, <1>4 DEF OutInv

(* Draining the receive FIFO.                                              *)
LEMMA OutDrain == ASSUME BulkInv, OutInv, handleUSBRxFIFO PROVE OutInv'
<1>1. UNCHANGED <<configs, armed, task, sent, received, clean>>
  BY DEF handleUSBRxFIFO
<1>2. Matches(1) => Matches(1)' /\ Last' = Last /\ Last \in Packet
  <2>1. Len(received) \in Nat
    BY LenProperties DEF BulkInv, TypeOK
  <2> QED BY <1>1, <2>1 DEF Matches, Last
<1>3. CASE fifo = << >>
  BY <1>1, <1>3, OutSame DEF handleUSBRxFIFO, outVars, OutInv
<1>4. CASE fifo # << >> /\ ~clean
  <2>1. configs' # 0 /\ latched' = latched /\ (xfer' = xfer \/ xfer' = TRUE)
    BY <1>1, <1>4 DEF OutInv, handleUSBRxFIFO
  <2> QED BY <1>1, <1>4, <2>1 DEF OutInv
<1>5. CASE fifo # << >> /\ clean
  <2>1. configs' # 0 /\ latched' = latched /\ fifo' = Tail(fifo) /\ (xfer' = xfer \/ xfer' = TRUE)
    BY <1>1, <1>5 DEF OutInv, handleUSBRxFIFO
  <2>2. CASE InFifo2
    <3>1. Head(fifo) = Data(Last) /\ Tail(fifo) = <<Done>> /\ Last # Empty
      BY <1>2, <2>2, BulkAssumption DEF InFifo2
    <3>2. count' = Last /\ xfer' = xfer
      BY <1>5, <3>1 DEF handleUSBRxFIFO, readRxFIFO, Data
    <3>3. InFifo1'
      BY <1>1, <1>2, <2>1, <2>2, <3>1, <3>2 DEF InFifo2, InFifo1, Done
    <3> QED BY <1>1, <2>1, <3>2, <3>3 DEF OutInv
  <2>3. CASE InFifo1
    <3>1. Head(fifo) = Done /\ Tail(fifo) = << >>
      BY <2>3 DEF InFifo1
    <3>2. count' = count /\ xfer' = TRUE
      BY <1>5, <3>1 DEF handleUSBRxFIFO, Done
    <3>3. AtXfer'
      BY <1>1, <1>2, <2>1, <2>3, <3>1, <3>2 DEF InFifo1, AtXfer
    <3> QED BY <2>1, <3>2, <3>3 DEF OutInv
  <2> QED BY <1>5, <2>2, <2>3 DEF OutInv, Idle, AtXfer, Kept
<1> QED BY <1>3, <1>4, <1>5

(* The OUT endpoint's interrupt.                                           *)
LEMMA OutEndpoint == ASSUME BulkInv, OutInv, handleUSBOutEP PROVE OutInv'
<1>1. /\ latched = {"oep"} /\ latched' = {} /\ xfer' = FALSE
      /\ UNCHANGED <<fifo, configs, count, sent, clean>>
  BY DEF handleUSBOutEP
<1>2. xfer /\ configs # 0
  BY <1>1 DEF OutInv
<1>3. CASE ~clean
  BY <1>1, <1>2, <1>3 DEF OutInv
<1>4. CASE clean
  <2>1. AtXfer
    BY <1>2, <1>4 DEF OutInv, Idle, InFifo2, InFifo1, Kept
  <2>2. count = Last /\ Last \in Packet /\ count # Empty /\ Last' = Last
    <3>1. Len(sent) \in Nat /\ Len(received) \in Nat
      BY LenProperties DEF BulkInv, TypeOK
    <3> QED BY <1>1, <2>1, <3>1, BulkAssumption DEF AtXfer, Matches, Last
  <2>3. CASE Consume(count) /\ AckUsbOutTransfer /\ task' = task
    <3>1. Matches(0)'
      BY <1>1, <2>1, <2>2, <2>3, ConsumedLast DEF AtXfer
    <3>2. Idle'
      BY <1>1, <2>1, <2>3, <3>1 DEF AtXfer, Idle
    <3> QED BY <1>1, <1>2, <3>2 DEF OutInv
  <2>4. CASE task' = count /\ armed' = armed /\ received' = received
    <3>1. Matches(1)'
      BY <1>1, <2>1, <2>4 DEF AtXfer, Matches
    <3>2. Kept'
      BY <1>1, <2>1, <2>2, <2>4, <3>1 DEF AtXfer, Kept
    <3> QED BY <1>1, <1>2, <3>2 DEF OutInv
  <2> QED BY <2>2, <2>3, <2>4 DEF handleUSBOutEP, Deliver
<1> QED BY <1>3, <1>4

(* The class driver's task.                                                *)
LEMMA OutTask == ASSUME BulkInv, OutInv, processTasks PROVE OutInv'
<1>1. /\ task # Empty /\ Consume(task) /\ task' = Empty /\ armed' = TRUE
      /\ UNCHANGED <<fifo, xfer, configs, latched, count, sent, clean>>
  BY DEF processTasks, AckUsbOutTransfer, drvVars
<1>2. configs # 0
  BY <1>1 DEF OutInv
<1>3. CASE ~clean
  BY <1>1, <1>2, <1>3 DEF OutInv
<1>4. CASE clean
  <2>1. Kept
    BY <1>1, <1>4 DEF OutInv, Idle, InFifo2, InFifo1, AtXfer
  <2>2. Matches(0)'
    BY <1>1, <2>1, ConsumedLast DEF Kept
  <2>3. Idle'
    BY <1>1, <2>1, <2>2 DEF Kept, Idle
  <2> QED BY <1>1, <1>2, <2>1, <2>3 DEF OutInv, Kept
<1> QED BY <1>3, <1>4

(* Every step keeps the order.                                             *)
LEMMA OutNext == BulkInv /\ OutInv /\ [Next]_vars => OutInv'
<1> SUFFICES ASSUME BulkInv, OutInv, [Next]_vars PROVE OutInv'
  OBVIOUS
<1>1. CASE HostIn
  BY <1>1, OutSame DEF HostIn, drvVars, OutInv
<1>2. CASE ClearStallEPIn
  BY <1>2, OutSame DEF ClearStallEPIn, drvVars, OutInv
<1>3. CASE usbPollLoop
  BY <1>3, OutSame DEF usbPollLoop, Pending
<1>4. CASE handleUSBInEP
  BY <1>4, OutSame DEF handleUSBInEP, OutInv
<1>5. CASE UNCHANGED vars
  BY <1>5, OutSame DEF vars, drvVars, OutInv
<1> QED BY <1>1, <1>2, <1>3, <1>4, <1>5, OutHostOut, OutConfig, OutDrain, OutEndpoint, OutTask
        DEF Next, Driver

(* The endpoint is armed again only when its buffer has been consumed.     *)
THEOREM BufferOfferedOnce == Spec => []ArmedOnlyWhenDrained
<1>1. OutInv => ArmedOnlyWhenDrained
  BY DEF OutInv, Idle, InFifo2, InFifo1, AtXfer, Kept, ArmedOnlyWhenDrained
<1> QED BY <1>1, BulkInit, BulkNext, OutInit, OutNext, PTL DEF Spec

(* The class driver consumes the host's packets in order, none twice.      *)
THEOREM PacketsConsumedInOrder == Spec => []ConsumedInOrder
<1>1. BulkInv /\ OutInv => ConsumedInOrder
  <2> SUFFICES ASSUME BulkInv, OutInv, clean PROVE ConsumedInOrder
    BY DEF ConsumedInOrder
  <2>1. Len(sent) \in Nat /\ Len(received) \in Nat
    BY LenProperties DEF BulkInv, TypeOK
  <2>2. Matches(0) \/ Matches(1)
    BY DEF OutInv, Idle, InFifo2, InFifo1, AtXfer, Kept
  <2> QED BY <2>1, <2>2 DEF Matches, ConsumedInOrder
<1> QED BY <1>1, BulkInit, BulkNext, OutInit, OutNext, PTL DEF Spec

-----------------------------------------------------------------------------
(* The packets still in the receive FIFO: none once the data is copied.    *)
LEMMA DataOfNone ==
  ASSUME fifo = << >> \/ fifo = <<Done>>
  PROVE  InFifo = << >>
<1>1. DataAt = {}
  BY DEF DataAt, Done
<1>2. Cardinality(DataAt) = 0
  BY <1>1, FS_EmptySet
<1> QED BY <1>2 DEF InFifo

(* One while its entry is at the head.                                     *)
LEMMA DataOfOne ==
  ASSUME NEW p, fifo = <<Data(p), Done>>
  PROVE  InFifo = <<Data(p)>>
<1>1. DataAt = {1}
  <2>1. DOMAIN fifo = {1, 2} /\ fifo[1] = Data(p) /\ fifo[2] = Done
    OBVIOUS
  <2> QED BY <2>1 DEF DataAt, Done, Data
<1>2. Cardinality(DataAt) = 1 /\ {j \in DataAt : j <= 1} = {1}
  BY <1>1, FS_Singleton
<1>3. Nth(1) = 1
  <2>1. \E i \in DataAt : Cardinality({j \in DataAt : j <= i}) = 1
    BY <1>1, <1>2
  <2> QED BY <1>1, <2>1 DEF Nth
<1>4. InFifo = [k \in {1} |-> fifo[Nth(k)]]
  BY <1>2 DEF InFifo
<1>5. InFifo = [k \in {1} |-> Data(p)]
  BY <1>3, <1>4
<1> QED BY <1>5


(* Nothing is under way when the pipeline is idle.                         *)
LEMMA NoneUnderWay == ASSUME Idle PROVE UnderWay = << >>
<1>1. InFifo = << >>
  BY DataOfNone DEF Idle
<1>2. ~Copied /\ task = Empty
  BY DEF Idle, Copied
<1>3. [i \in DOMAIN InFifo |-> Slice(InFifo[i].packet, InFifo[i].packet)] = << >>
  BY <1>1
<1>4. UnderWay = << >> \o << >> \o << >>
  BY <1>2, <1>3 DEF UnderWay
<1> QED BY <1>4

(* Otherwise the last packet sent is, wherever it is, with its own length. *)
LEMMA LastUnderWay ==
  ASSUME BulkInv, InFifo2 \/ InFifo1 \/ AtXfer \/ Kept
  PROVE  UnderWay = <<Slice(Last, Last)>>
<1> DEFINE Rest == [i \in DOMAIN InFifo |-> Slice(InFifo[i].packet, InFifo[i].packet)]
<1>1. buffer = count /\ Last # Empty
  <2>1. Len(sent) \in Nat /\ Len(received) \in Nat
    BY LenProperties DEF BulkInv, TypeOK
  <2> QED BY <2>1, BulkAssumption DEF BulkInv, BufferInv, InFifo2, InFifo1, AtXfer, Kept, Matches, Last
<1>2. CASE InFifo2
  <2>1. InFifo = <<Data(Last)>>
    BY <1>2, DataOfOne DEF InFifo2
  <2>2. Rest = <<Slice(Last, Last)>>
    BY <2>1 DEF Data
  <2>3. ~Copied /\ task = Empty
    BY <1>2 DEF InFifo2, Copied, Data
  <2>4. UnderWay = << >> \o << >> \o Rest
    BY <2>3 DEF UnderWay
  <2> HIDE DEF Rest
  <2> QED BY <2>2, <2>4
<1>3. CASE InFifo1 \/ AtXfer
  <2>1. InFifo = << >>
    BY <1>3, DataOfNone DEF InFifo1, AtXfer
  <2>2. Rest = << >>
    BY <2>1
  <2>3. Copied /\ task = Empty /\ count = Last
    BY <1>3 DEF InFifo1, AtXfer, Copied, Done
  <2>4. UnderWay = << >> \o <<Slice(Last, Last)>> \o Rest
    BY <1>1, <2>3 DEF UnderWay
  <2> HIDE DEF Rest
  <2> QED BY <2>2, <2>4
<1>4. CASE Kept
  <2>1. InFifo = << >>
    BY <1>4, DataOfNone DEF Kept
  <2>2. Rest = << >>
    BY <2>1
  <2>3. ~Copied /\ task = Last /\ buffer = Last
    BY <1>1, <1>4 DEF Kept, Copied
  <2>4. UnderWay = <<Slice(Last, Last)>> \o << >> \o Rest
    BY <1>1, <2>3 DEF UnderWay
  <2> HIDE DEF Rest
  <2> QED BY <2>2, <2>4
<1> QED BY <1>2, <1>3, <1>4

(* The class driver is given every packet, whole: what it has consumed and *)
(* the one packet under way, read in order with the bytes and the length   *)
(* each place holds, are the packets the host had acknowledged.            *)
THEOREM PacketsWhole == Spec => []PacketsArriveWhole
<1>1. BulkInv /\ OutInv => PacketsArriveWhole
  <2> SUFFICES ASSUME BulkInv, OutInv, clean PROVE
        [i \in DOMAIN sent |-> Slice(sent[i], sent[i])] = received \o UnderWay
    BY DEF PacketsArriveWhole
  <2> DEFINE all == [i \in DOMAIN sent |-> Slice(sent[i], sent[i])]
  <2>1. /\ sent \in Seq(Sendable) /\ received \in Seq([data : Packet, len : Packet])
        /\ Len(sent) \in Nat /\ Len(received) \in Nat
        /\ DOMAIN sent = 1 .. Len(sent) /\ DOMAIN received = 1 .. Len(received)
    BY LenProperties DEF BulkInv, TypeOK
  <2>2. CASE Idle
    <3>1. received \o UnderWay = received
      BY <2>1, <2>2, NoneUnderWay, ConcatEmptySeq
    <3>2. /\ DOMAIN all = 1 .. Len(received)
          /\ \A i \in 1 .. Len(received) : received[i] = Slice(sent[i], sent[i])
      BY <2>1, <2>2 DEF Idle, Matches
    <3>3. received = [i \in 1 .. Len(received) |-> received[i]]
      BY <2>1
    <3>4. received = all
      BY <2>1, <2>2, <3>2, <3>3 DEF Idle, Matches
    <3> QED BY <3>1, <3>4
  <2>3. CASE InFifo2 \/ InFifo1 \/ AtXfer \/ Kept
    <3>1. UnderWay = <<Slice(Last, Last)>> /\ Matches(1)
      BY <2>3, LastUnderWay DEF InFifo2, InFifo1, AtXfer, Kept
    <3>2. /\ Len(sent) = Len(received) + 1
          /\ \A i \in 1 .. Len(received) : received[i] = Slice(sent[i], sent[i])
      BY <3>1 DEF Matches
    <3> DEFINE l == Slice(Last, Last)
    <3> HIDE DEF l
    <3>3. l \in [data : Packet, len : Packet]
      <4>1. Last \in Packet
        BY <2>1, <3>1 DEF Matches, Last
      <4> QED BY <4>1 DEF l, Slice
    <3> DEFINE r == Append(received, l)
    <3>4. /\ r \in Seq([data : Packet, len : Packet]) /\ Len(r) = Len(sent)
          /\ \A i \in 1 .. Len(received) : r[i] = received[i]
          /\ r[Len(received) + 1] = l
      BY <2>1, <3>2, <3>3, AppendProperties
    <3>5. received \o <<l>> = r
      BY <2>1, <3>3, AppendIsConcat
    <3> HIDE DEF r
    <3>6. ASSUME NEW i \in 1 .. Len(sent) PROVE r[i] = Slice(sent[i], sent[i])
      BY <2>1, <3>2, <3>4 DEF l, Last
    <3>7. r = [i \in 1 .. Len(sent) |-> r[i]]
      BY <3>4
    <3>8. r = [i \in 1 .. Len(sent) |-> Slice(sent[i], sent[i])]
      BY <3>6, <3>7
    <3> QED BY <2>1, <3>1, <3>5, <3>8 DEF l
  <2> QED BY <2>2, <2>3 DEF OutInv
<1> QED BY <1>1, BulkInit, BulkNext, OutInit, OutNext, PTL DEF Spec
=============================================================================
