------------------------------- MODULE EmacRx -------------------------------
(***************************************************************************)
(* The receive half of the Ethernet driver (machine_esp32p4_emac.go): the  *)
(* ring of DMA descriptors between the MAC's receive DMA and EMAC.Recv,    *)
(* and the buffer slice Recv hands to its caller.                          *)
(*                                                                         *)
(* Recv only touches a descriptor the DMA has given up, and its stores to  *)
(* it end with the one that gives it back, so one action stands for the    *)
(* whole call.  It returns a slice of the buffer, not a copy, after giving *)
(* the buffer back; the caller reads it until it calls Recv again, while   *)
(* the DMA runs.                                                           *)
(***************************************************************************)
EXTENDS EmacRing

CONSTANT Bad    \* frames whose length field is below 4 or too large

ASSUME RxAssumption == Nothing \notin Bad /\ Frame \cap Bad = {}

VARIABLES rxOwn,     \* owner of each descriptor: the OWN bit of RDES0
          rxBufs,    \* emacRxBufs: the frame in each buffer
          status,    \* the frame whose length RDES0 reports
          rxIdx,     \* EMAC.rxIdx, the next descriptor Recv checks
          slice,     \* [slot, frame]: what the caller reads, what Recv saw
          rxDmaIdx,  \* the descriptor the DMA uses next
          rxDma,     \* the DMA engine: waiting, writing or suspended
          filled,    \* how many descriptors the DMA has begun to fill
          recycled,  \* how many Recv has given back
          stored,    \* history: acceptable frames the DMA completed
          delivered  \* history: frames Recv returned

rxCpuVars  == <<rxIdx, slice, recycled, delivered>>
rxDmaVars  == <<rxDmaIdx, rxDma, filled, stored>>
rxRingVars == <<rxOwn, rxBufs, status>>
rxVars     == <<rxCpuVars, rxDmaVars, rxRingVars>>

NoSlice  == [slot |-> 0, frame |-> Nothing]
Contents == Frame \cup Bad \cup {Nothing}

RxTypeOK ==
  /\ rxOwn \in [Slot -> {"cpu", "dma"}]
  /\ rxBufs \in [Slot -> Contents] /\ status \in [Slot -> Contents]
  /\ rxIdx \in Slot /\ rxDmaIdx \in Slot
  /\ slice \in [slot : Slot, frame : Frame \cup {Nothing}]
  /\ rxDma \in {"waiting", "writing", "suspended"}
  /\ filled \in Nat /\ recycled \in Nat
  /\ stored \in Seq(Frame) /\ delivered \in Seq(Frame)

(* Steps 9, 11 and 14 of Init: every descriptor is the DMA's.              *)
RxInit ==
  /\ rxOwn = [i \in Slot |-> "dma"]
  /\ rxBufs = [i \in Slot |-> Nothing] /\ status = [i \in Slot |-> Nothing]
  /\ rxIdx = 0 /\ slice = NoSlice
  /\ rxDmaIdx = 0 /\ rxDma = "waiting"
  /\ filled = 0 /\ recycled = 0
  /\ stored = << >> /\ delivered = << >>

-----------------------------------------------------------------------------
(* The receive DMA (external).                                             *)

(* A frame arrives and its descriptor is the DMA's: it starts to fill the  *)
(* buffer.                                                                 *)
DmaWrite(f) ==
  /\ rxDma = "waiting" /\ rxOwn[rxDmaIdx] = "dma" /\ filled < MaxFrames
  /\ rxDma' = "writing" /\ filled' = filled + 1
  /\ rxBufs' = [rxBufs EXCEPT ![rxDmaIdx] = f]
  /\ UNCHANGED <<rxDmaIdx, stored, rxOwn, status, rxCpuVars>>

(* It writes RDES0, which gives the descriptor to the CPU.                 *)
RxDmaClose ==
  /\ rxDma = "writing"
  /\ rxDma' = "waiting" /\ rxDmaIdx' = After(rxDmaIdx)
  /\ status' = [status EXCEPT ![rxDmaIdx] = rxBufs[rxDmaIdx]]
  /\ rxOwn' = [rxOwn EXCEPT ![rxDmaIdx] = "cpu"]
  /\ stored' = IF rxBufs[rxDmaIdx] \in Frame THEN Append(stored, rxBufs[rxDmaIdx]) ELSE stored
  /\ UNCHANGED <<filled, rxBufs, rxCpuVars>>

(* A frame arrives and there is no descriptor for it: it is lost, the DMA  *)
(* suspends itself until a poll demand.                                    *)
DmaOverflow ==
  /\ rxDma = "waiting" /\ rxOwn[rxDmaIdx] = "cpu"
  /\ rxDma' = "suspended"
  /\ UNCHANGED <<rxDmaIdx, filled, stored, rxCpuVars, rxRingVars>>

-----------------------------------------------------------------------------
(* Recv.                                                                   *)

(* Mutant: the index stays.                                                *)
Recycle_SameIndex ==
  /\ rxOwn' = [rxOwn EXCEPT ![rxIdx] = "dma"]
  /\ recycled' = recycled + 1
  /\ rxDma' = IF rxDma = "suspended" THEN "waiting" ELSE rxDma
  /\ UNCHANGED rxIdx

(* Give descriptor rxIdx back, go to the next, write the poll demand.      *)
Recycle ==
  /\ rxOwn' = [rxOwn EXCEPT ![rxIdx] = "dma"]
  /\ rxIdx' = After(rxIdx)
  /\ recycled' = recycled + 1
  /\ rxDma' = IF rxDma = "suspended" THEN "waiting" ELSE rxDma

(* Nothing received yet: Recv returns nil.  The caller's last slice is no  *)
(* longer in use.                                                          *)
RecvNothing ==
  /\ rxOwn[rxIdx] = "dma"
  /\ slice' = NoSlice
  /\ UNCHANGED <<rxIdx, recycled, delivered, rxDmaVars, rxRingVars>>

(* Mutants: the early return does not recycle; the length is not checked;  *)
(* the slice is taken after the index moved on.                            *)
RecvBad_Keep ==
  /\ rxOwn[rxIdx] = "cpu" /\ status[rxIdx] \in Bad
  /\ slice' = NoSlice
  /\ UNCHANGED <<rxIdx, recycled, delivered, rxDmaVars, rxRingVars>>
RecvFrame_AnyLength ==
  /\ rxOwn[rxIdx] = "cpu"
  /\ Recycle
  /\ slice' = [slot |-> rxIdx, frame |-> rxBufs[rxIdx]]
  /\ delivered' = Append(delivered, rxBufs[rxIdx])
  /\ UNCHANGED <<rxDmaIdx, filled, stored, rxBufs, status>>
RecvFrame_NextSlot ==
  /\ rxOwn[rxIdx] = "cpu" /\ status[rxIdx] \notin Bad
  /\ Recycle
  /\ slice' = [slot |-> After(rxIdx), frame |-> rxBufs[After(rxIdx)]]
  /\ delivered' = Append(delivered, rxBufs[rxIdx])
  /\ UNCHANGED <<rxDmaIdx, filled, stored, rxBufs, status>>

(* A length below 4 or beyond the buffer: recycle, return nil.             *)
RecvBad ==
  /\ rxOwn[rxIdx] = "cpu" /\ status[rxIdx] \in Bad
  /\ Recycle
  /\ slice' = NoSlice
  /\ UNCHANGED <<delivered, rxDmaIdx, filled, stored, rxBufs, status>>

RecvFrame ==
  /\ rxOwn[rxIdx] = "cpu" /\ status[rxIdx] \notin Bad
  /\ Recycle
  /\ slice' = [slot |-> rxIdx, frame |-> rxBufs[rxIdx]]
  /\ delivered' = Append(delivered, rxBufs[rxIdx])
  /\ UNCHANGED <<rxDmaIdx, filled, stored, rxBufs, status>>

Recv == RecvNothing \/ RecvBad \/ RecvFrame

-----------------------------------------------------------------------------
RxNext == Recv \/ RxDmaClose \/ DmaOverflow \/ \E f \in Frame \cup Bad : DmaWrite(f)

RxSpec == RxInit /\ [][RxNext]_rxVars

(* Fairness: the caller goes on calling Recv, the DMA completes a write.   *)
RxFairSpec == RxSpec /\ WF_rxVars(Recv) /\ WF_rxVars(RxDmaClose)

-----------------------------------------------------------------------------
(* Properties.                                                             *)

(* Recv returns the acceptable frames the DMA stored: in order, none       *)
(* twice, none skipped, though bad ones in between are dropped.            *)
RxFifo == INSTANCE BoundedFifo WITH Item <- Frame, Capacity <- N,
                                  put <- stored, got <- delivered
RecvReturnsWhatArrived == RxFifo!FifoSpec

(* The descriptors with the CPU are the completed ones not yet recycled,   *)
(* consecutive from rxIdx, and status and buffer of each agree; the DMA is *)
(* suspended only while Recv has all of them to take, so no poll demand is *)
(* missed and reception never stops for good.                              *)
Complete == filled - (IF rxDma = "writing" THEN 1 ELSE 0)
RxRingAgrees ==
  /\ rxIdx = recycled % N /\ rxDmaIdx = Complete % N
  /\ Complete - recycled \in 0 .. N
  /\ \A k \in Slot : LET i == (rxIdx + k) % N
                     IN /\ rxOwn[i] = "cpu" <=> k < Complete - recycled
                        /\ rxOwn[i] = "cpu" => status[i] = rxBufs[i]
                        /\ rxDma = "suspended" => rxOwn[i] = "cpu"

(* The slice Recv returned keeps its frame as long as the DMA has not gone *)
(* once round the ring: fewer than N frames begun beyond those recycled.   *)
(* Beyond that "valid until the next call to Recv" (:431) does not hold.   *)
SliceIntact == slice.frame = Nothing \/ rxBufs[slice.slot] = slice.frame
SliceValidWithinARound == filled - recycled < N => SliceIntact

(* Every stored frame is delivered while the caller keeps calling Recv.    *)
StoredIsDelivered == \A n \in 1 .. MaxFrames : (Len(stored) >= n) ~> (Len(delivered) >= n)
=============================================================================
