------------------------------- MODULE EmacTx -------------------------------
(***************************************************************************)
(* The transmit half of the Ethernet driver (machine_esp32p4_emac.go): the *)
(* ring of DMA descriptors between EMAC.Send and the MAC's transmit DMA.   *)
(*                                                                         *)
(* The two share the descriptors without a lock; the OWN bit of a          *)
(* descriptor says whose it is.  Send is therefore one action per store    *)
(* the DMA can see, and the DMA (external hardware) may run between any    *)
(* two of them.  A frame is abstract; a descriptor's byte count is the     *)
(* frame whose length it is, so that a count that does not belong to the   *)
(* buffer's contents shows.                                                *)
(***************************************************************************)
EXTENDS EmacRing

VARIABLES txOwn,     \* owner of each descriptor: the OWN bit of TDES0
          txBufs,    \* emacTxBufs: the frame in each buffer
          len,       \* TDES1 of each descriptor
          txIdx,     \* EMAC.txIdx, the next descriptor Send uses
          send,      \* where the Send call is
          frame,     \* its argument
          txDmaIdx,  \* the descriptor the DMA looks at next
          txDma,     \* the DMA engine: looking, transmitting or suspended
          line,      \* what the DMA is putting on the wire
          sent,      \* history: frames handed to the DMA
          wire       \* history: frames put on the wire

txCpuVars  == <<txIdx, send, frame, sent>>
txDmaVars  == <<txDmaIdx, txDma, line, wire>>
txRingVars == <<txOwn, txBufs, len>>
txVars     == <<txCpuVars, txDmaVars, txRingVars>>

Packet   == [data : Frame \cup {Nothing}, len : Frame \cup {Nothing}]
Whole(f) == [data |-> f, len |-> f]

TxTypeOK ==
  /\ txOwn \in [Slot -> {"cpu", "dma"}]
  /\ txBufs \in [Slot -> Frame \cup {Nothing}]
  /\ len \in [Slot -> Frame \cup {Nothing}]
  /\ txIdx \in Slot /\ txDmaIdx \in Slot
  /\ send \in {"idle", "copy", "length", "own", "advance"}
  /\ frame \in Frame \cup {Nothing}
  /\ txDma \in {"looking", "transmitting", "suspended"}
  /\ line \in Packet
  /\ sent \in Seq(Packet) /\ wire \in Seq(Packet)

(* Steps 10, 11 and 14 of Init: every descriptor is the CPU's, both sides  *)
(* start at descriptor 0, the DMA is started.                              *)
TxInit ==
  /\ txOwn = [i \in Slot |-> "cpu"]
  /\ txBufs = [i \in Slot |-> Nothing] /\ len = [i \in Slot |-> Nothing]
  /\ txIdx = 0 /\ send = "idle" /\ frame = Nothing
  /\ txDmaIdx = 0 /\ txDma = "looking" /\ line = Whole(Nothing)
  /\ sent = << >> /\ wire = << >>

-----------------------------------------------------------------------------
(* Mutants: OWN is not checked; OWN is set before the frame is copied; no  *)
(* poll demand.                                                            *)
Send_Unchecked(f) ==
  /\ send = "idle" /\ Len(sent) < MaxFrames
  /\ send' = "copy" /\ frame' = f
  /\ UNCHANGED <<txIdx, sent, txDmaVars, txRingVars>>
Send_OwnFirst(f) ==
  /\ send = "idle" /\ Len(sent) < MaxFrames
  /\ txOwn[txIdx] = "cpu"
  /\ send' = "copy" /\ frame' = f
  /\ txOwn' = [txOwn EXCEPT ![txIdx] = "dma"]
  /\ UNCHANGED <<txIdx, sent, txBufs, len, txDmaVars>>
PollDemand_None ==
  /\ send = "advance"
  /\ send' = "idle"
  /\ txIdx' = After(txIdx)
  /\ UNCHANGED <<frame, sent, txDmaVars, txRingVars>>

(* Send.  A call that finds its descriptor still owned by the DMA returns  *)
(* false and changes nothing: the caller calls again.                      *)

Send(f) ==
  /\ send = "idle" /\ Len(sent) < MaxFrames
  /\ txOwn[txIdx] = "cpu"
  /\ send' = "copy" /\ frame' = f
  /\ UNCHANGED <<txIdx, sent, txDmaVars, txRingVars>>

CopyFrame ==
  /\ send = "copy"
  /\ send' = "length"
  /\ txBufs' = [txBufs EXCEPT ![txIdx] = frame]
  /\ UNCHANGED <<txIdx, frame, sent, txOwn, len, txDmaVars>>

SetLength ==
  /\ send = "length"
  /\ send' = "own"
  /\ len' = [len EXCEPT ![txIdx] = frame]
  /\ UNCHANGED <<txIdx, frame, sent, txOwn, txBufs, txDmaVars>>

(* From this store on the frame is the DMA's.                              *)
GiveToDMA ==
  /\ send = "own"
  /\ send' = "advance"
  /\ txOwn' = [txOwn EXCEPT ![txIdx] = "dma"]
  /\ sent' = Append(sent, Whole(frame))
  /\ UNCHANGED <<txIdx, frame, txBufs, len, txDmaVars>>

(* Advance the index and write the poll demand register, which makes a     *)
(* suspended DMA look at its descriptor again.                             *)
PollDemand ==
  /\ send = "advance"
  /\ send' = "idle"
  /\ txIdx' = After(txIdx)
  /\ txDma' = IF txDma = "suspended" THEN "looking" ELSE txDma
  /\ UNCHANGED <<frame, sent, txDmaIdx, line, wire, txRingVars>>

-----------------------------------------------------------------------------
(* The transmit DMA (external): it fetches the frame of its descriptor     *)
(* while it owns it, then clears OWN and goes to the next; a descriptor    *)
(* that is not its own suspends it.                                        *)

DmaFetch ==
  /\ txDma = "looking" /\ txOwn[txDmaIdx] = "dma"
  /\ txDma' = "transmitting"
  /\ line' = [data |-> txBufs[txDmaIdx], len |-> len[txDmaIdx]]
  /\ UNCHANGED <<txDmaIdx, wire, txCpuVars, txRingVars>>

TxDmaClose ==
  /\ txDma = "transmitting"
  /\ txDma' = "looking"
  /\ wire' = Append(wire, line)
  /\ txOwn' = [txOwn EXCEPT ![txDmaIdx] = "cpu"]
  /\ txDmaIdx' = After(txDmaIdx)
  /\ UNCHANGED <<line, txBufs, len, txCpuVars>>

DmaSuspend ==
  /\ txDma = "looking" /\ txOwn[txDmaIdx] = "cpu"
  /\ txDma' = "suspended"
  /\ UNCHANGED <<txDmaIdx, line, wire, txCpuVars, txRingVars>>

-----------------------------------------------------------------------------
CpuStep == CopyFrame \/ SetLength \/ GiveToDMA \/ PollDemand
DmaStep == DmaFetch \/ TxDmaClose \/ DmaSuspend

TxNext == CpuStep \/ DmaStep \/ \E f \in Frame : Send(f)

TxSpec == TxInit /\ [][TxNext]_txVars

(* Fairness: Send runs to its end and the DMA engine works.                *)
TxFairSpec == TxSpec /\ WF_txVars(CpuStep) /\ WF_txVars(DmaFetch \/ TxDmaClose)

-----------------------------------------------------------------------------
(* Properties.                                                             *)

(* The ring carries frames in order, whole (the bytes and the length of    *)
(* the same Send call), once, and at most N at a time.                     *)
TxFifo == INSTANCE BoundedFifo WITH Item <- {Whole(f) : f \in Frame}, Capacity <- N,
                                  put <- sent, got <- wire
WireCarriesWhatWasSent == TxFifo!FifoSpec

(* The descriptors the DMA owns are the ones sent and not yet on the wire, *)
(* consecutive from the one it looks at; they hold those frames; and the   *)
(* two indices are where the histories say.                                *)
Ahead(k) == (txDmaIdx + k) % N
TxRingAgrees ==
  LET pending == Len(sent) - Len(wire)
  IN /\ pending \in 0 .. N
     /\ txDmaIdx = Len(wire) % N
     /\ send # "advance" => txIdx = Len(sent) % N
     /\ send = "advance" => After(txIdx) = Len(sent) % N
     /\ \A k \in Slot : txOwn[Ahead(k)] = "dma" <=> k < pending
     /\ \A k \in 0 .. (pending - 1) :
          [data |-> txBufs[Ahead(k)], len |-> len[Ahead(k)]] = sent[Len(wire) + k + 1]

(* A frame handed over is transmitted, though the DMA may have suspended   *)
(* itself at any moment before the hand-over.  With TxRingAgrees, the      *)
(* caller that spins on a full ring gets through.                          *)
SentIsTransmitted == \A n \in 1 .. MaxFrames : (Len(sent) >= n) ~> (Len(wire) >= n)
=============================================================================
