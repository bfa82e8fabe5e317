------------------------------- MODULE UsbBulk -------------------------------
(***************************************************************************)
(* The bulk endpoints of the USB driver (machine_esp32p4_usb.go): OUT,     *)
(* from the controller's receive FIFO through usbRxBuffer to the class     *)
(* driver and back to the re-arming that lets the host send again; IN,     *)
(* from the class driver's answer to the host, with stalls.                *)
(*                                                                         *)
(* The controller works while the driver runs.  The driver is the polling  *)
(* goroutine: each pass latches GINTSTS once, then drains the FIFO entry   *)
(* by entry, then serves the IN and the OUT endpoint, so a completion that *)
(* the draining raises waits for the next pass.  The mass-storage class    *)
(* driver (external) either consumes a packet in its handler or keeps the  *)
(* slice and consumes it later, in a goroutine of its own, which re-arms;  *)
(* it answers every packet, one transfer at a time, or stalls first.       *)
(***************************************************************************)
EXTENDS Naturals, Sequences, FiniteSets

CONSTANTS Packet,      \* payloads of 1..64 bytes
          Empty,       \* the zero-length packet, and a count of 0
          MaxReply,    \* packets in the longest answer
          FifoPackets, \* packets transmit FIFO 1 holds, 16 of 64 bytes
          MaxPackets,  \* bound: packets sent in a run
          MaxConfigs   \* bound: SET_CONFIGURATION requests in a run

ASSUME BulkAssumption ==
  /\ Empty \notin Packet /\ MaxReply \in Nat /\ FifoPackets \in Nat \ {0}
  /\ MaxPackets \in Nat /\ MaxConfigs \in Nat

VARIABLES configs,   \* SET_CONFIGURATION requests served
          armed,     \* EPENA: the OUT endpoint accepts the next packet
          fifo,      \* the receive FIFO: packets and completion entries
          xfer,      \* XFERCOMPL of the OUT endpoint
          inLeft,    \* packets DIEPTSIZ still has to send; EPENA while any
          txFifo,    \* transmit FIFO 1
          inXfer,    \* XFERCOMPL of the IN endpoint
          stall,     \* STALL of the IN endpoint
          latched,   \* the GINTSTS bits this pass has still to serve
          buffer,    \* usbRxBuffer: the packet last copied
          count,     \* usbRxBCNT, as the packet whose length it is
          task,      \* the length of the slice the class driver keeps
          todo,      \* class driver: answers to send, as numbers of packets
          sending,   \* class driver: an answer or a stall is under way
          sent,      \* history: packets the host had acknowledged
          received,  \* history: [data, len] the class driver consumed
          answered,  \* history: packets the class driver has handed over
          fits,      \* history: no answer was longer than FIFO 1
          taken,     \* history: packets the host has taken
          clean      \* history: no re-configuration in mid-transfer and no
                     \* empty packet

outVars == <<armed, fifo, xfer>>
inVars  == <<inLeft, txFifo, inXfer, stall>>
drvVars == <<configs, latched, buffer, count>>
mscVars == <<todo, sending>>
vars    == <<outVars, inVars, drvVars, task, mscVars, sent, received, answered, fits, taken, clean>>

Sendable == Packet \cup {Empty}
Done     == [entry |-> "done", packet |-> Empty]
Data(p)  == [entry |-> "data", packet |-> p]
Entries  == [entry : {"data", "done"}, packet : Packet \cup {Empty}]
Slice(d, n) == [data |-> d, len |-> n]

TypeOK ==
  /\ configs \in 0 .. MaxConfigs
  /\ armed \in BOOLEAN /\ xfer \in BOOLEAN /\ clean \in BOOLEAN
  /\ inLeft \in 0 .. MaxReply + 1 /\ txFifo \in Seq(Nat) /\ Len(txFifo) <= FifoPackets
  /\ inXfer \in BOOLEAN /\ stall \in BOOLEAN /\ sending \in BOOLEAN
  /\ fifo \in Seq(Entries)
  /\ latched \subseteq {"rx", "iep", "oep"}
  /\ buffer \in Sendable /\ count \in Sendable /\ task \in Sendable
  /\ todo \in Seq(0 .. MaxReply)
  /\ sent \in Seq(Sendable)
  /\ received \in Seq([data : Packet, len : Packet])
  /\ answered \in Nat /\ fits \in BOOLEAN /\ taken \in Seq(Nat)

Init ==
  /\ configs = 0 /\ armed = FALSE /\ fifo = << >> /\ xfer = FALSE
  /\ inLeft = 0 /\ txFifo = << >> /\ inXfer = FALSE /\ stall = FALSE
  /\ latched = {} /\ buffer = Empty /\ count = Empty /\ task = Empty
  /\ todo = << >> /\ sending = FALSE
  /\ sent = << >> /\ received = << >> /\ answered = 0 /\ fits = TRUE
  /\ taken = << >> /\ clean = TRUE

-----------------------------------------------------------------------------
(* The host and the controller (external): an armed endpoint takes one     *)
(* packet and is then disarmed; the entries go to the FIFO.                *)
HostOut(p) ==
  /\ armed /\ Len(sent) < MaxPackets
  /\ armed' = FALSE
  /\ fifo' = fifo \o <<Data(p), Done>>
  /\ sent' = Append(sent, p)
  /\ clean' = (clean /\ p # Empty)
  /\ UNCHANGED <<xfer, inVars, drvVars, task, mscVars, received, answered, fits, taken>>

(* An enabled IN endpoint sends what was written first; after the last     *)
(* packet of the transfer it is disabled and raises XFERCOMPL.             *)
HostIn ==
  /\ ~stall /\ inLeft > 0 /\ txFifo # << >>
  /\ taken' = Append(taken, Head(txFifo)) /\ txFifo' = Tail(txFifo)
  /\ inLeft' = inLeft - 1 /\ inXfer' = (inXfer \/ inLeft = 1)
  /\ UNCHANGED <<outVars, stall, drvVars, task, mscVars, sent, received, answered, fits, clean>>

-----------------------------------------------------------------------------
(* The driver.                                                             *)

(* AckUsbOutTransfer: DOEPTSIZ for one packet, clear NAK, enable.          *)
AckUsbOutTransfer == armed' = TRUE

(* dwcFIFOWrite fills FIFO 1 without asking how much room is left: what    *)
(* does not fit is lost.                                                   *)
Smaller(a, b) == IF a < b THEN a ELSE b
dwcFIFOWrite(n) ==
  /\ txFifo' = txFifo \o [i \in 1 .. Smaller(n, FifoPackets - Len(txFifo)) |-> answered + i]
  /\ answered' = answered + n
  /\ fits' = (fits /\ n <= FifoPackets)

(* Mutant: the size register announces one packet, whatever the length.    *)
sendUSBPacket_OnePacket(n) == inLeft' = 1 /\ dwcFIFOWrite(n)

(* sendUSBPacket on an endpoint above 0: one transfer of n packets, all of *)
(* it written to FIFO 1 at once.                                           *)
sendUSBPacket(n) == inLeft' = n /\ dwcFIFOWrite(n)

SetStallEPIn == stall' = TRUE /\ UNCHANGED <<inLeft, txFifo, answered, fits>>

(* The class driver (external): it sends the next answer, a stall for 0,   *)
(* when the one before is out, and decides on an answer when it consumes a *)
(* packet.                                                                 *)
SendNext(q) ==
  IF q = << >> THEN sending' = FALSE /\ todo' = q
                    /\ UNCHANGED <<inLeft, txFifo, stall, answered, fits>>
  ELSE /\ sending' = TRUE /\ todo' = Tail(q)
       /\ IF Head(q) = 0 THEN SetStallEPIn ELSE sendUSBPacket(Head(q)) /\ UNCHANGED stall
Consume(len) ==
  /\ received' = Append(received, Slice(buffer, len))
  /\ \E n \in 0 .. MaxReply :
       IF sending
         THEN /\ todo' = Append(todo, n)
              /\ UNCHANGED <<sending, inLeft, txFifo, stall, answered, fits>>
         ELSE SendNext(<<n>>)

(* handleStandardSetup, SET_CONFIGURATION, which endpoint 0's part of      *)
(* handleUSBOutEP runs once the FIFO is drained: initEndpoint primes the   *)
(* OUT endpoint and rewrites the control register of the IN endpoint,      *)
(* whatever transfer they are in the middle of.                            *)
Quiet == configs = 0 \/ (armed /\ ~sending)
initEndpoint ==
  /\ configs < MaxConfigs /\ "rx" \notin latched
  /\ configs' = configs + 1
  /\ AckUsbOutTransfer
  /\ stall' = FALSE
  /\ clean' = (clean /\ Quiet)
  /\ UNCHANGED <<fifo, xfer, inLeft, txFifo, inXfer, latched, buffer, count, task, mscVars,
                 sent, received, answered, fits, taken>>

(* CLEAR_FEATURE(ENDPOINT_HALT): the class driver's stall handler clears   *)
(* the stall and sends the status it owes.                                 *)
ClearStallEPIn ==
  /\ stall /\ "rx" \notin latched
  /\ stall' = FALSE
  /\ sendUSBPacket(1)
  /\ UNCHANGED <<outVars, inXfer, drvVars, task, mscVars, sent, received, taken, clean>>

(* A pass of usbPollLoop begins: handleUSBDWCIRQ latches what is pending.  *)
Pending == {b \in {"rx", "iep", "oep"} : \/ b = "rx" /\ fifo # << >>
                                         \/ b = "iep" /\ inXfer
                                         \/ b = "oep" /\ xfer}
usbPollLoop ==
  /\ latched = {} /\ Pending # {}
  /\ latched' = Pending
  /\ UNCHANGED <<outVars, inVars, configs, buffer, count, task, mscVars, sent, received,
                 answered, fits, taken, clean>>

(* Mutants: the bytes are not copied; only the first packet's count is     *)
(* recorded.                                                               *)
readRxFIFO_NoCopy(p)     == count' = p /\ UNCHANGED buffer
readRxFIFO_FirstCount(p) == buffer' = p /\ count' = IF count = Empty THEN p ELSE count

(* readRxFIFO copies the packet and records its count; it is not called    *)
(* for an empty one, whose count is therefore that of the packet before.   *)
readRxFIFO(p) == buffer' = p /\ count' = p

(* handleUSBRxFIFO, one turn of its loop.  The controller raises XFERCOMPL *)
(* when the completion entry is popped.                                    *)
handleUSBRxFIFO ==
  /\ "rx" \in latched
  /\ \/ /\ fifo = << >>
        /\ latched' = latched \ {"rx"}
        /\ UNCHANGED <<fifo, xfer, buffer, count>>
     \/ /\ fifo # << >> /\ Head(fifo).entry = "data"
        /\ fifo' = Tail(fifo)
        /\ IF Head(fifo).packet # Empty THEN readRxFIFO(Head(fifo).packet)
                                        ELSE UNCHANGED <<buffer, count>>
        /\ UNCHANGED <<xfer, latched>>
     \/ /\ fifo # << >> /\ Head(fifo).entry = "done"
        /\ fifo' = Tail(fifo)
        /\ xfer' = TRUE
        /\ UNCHANGED <<latched, buffer, count>>
  /\ UNCHANGED <<configs, armed, inVars, task, mscVars, sent, received, answered, fits, taken,
                 clean>>

(* Mutant: the transmit handler is not told.                               *)
handleUSBInEP_NoHandler ==
  /\ "rx" \notin latched /\ "iep" \in latched
  /\ latched' = latched \ {"iep"}
  /\ inXfer' = FALSE
  /\ UNCHANGED <<outVars, inLeft, txFifo, stall, configs, buffer, count, task, mscVars,
                 sent, received, answered, fits, taken, clean>>

(* XFERCOMPL of the IN endpoint: usbTxHandler, the class driver goes on.   *)
handleUSBInEP ==
  /\ "rx" \notin latched /\ "iep" \in latched
  /\ latched' = latched \ {"iep"}
  /\ inXfer' = FALSE
  /\ SendNext(todo)
  /\ UNCHANGED <<outVars, configs, buffer, count, task, sent, received, taken, clean>>

(* Mutants: the handler's answer is ignored; an early return forgets to    *)
(* re-arm.                                                                 *)
Deliver_AlwaysAck ==
  /\ AckUsbOutTransfer
  /\ \/ Consume(count) /\ UNCHANGED task
     \/ task' = count /\ UNCHANGED <<received, mscVars, inLeft, txFifo, stall, answered, fits>>
Deliver_NoAck ==
  /\ UNCHANGED armed
  /\ \/ Consume(count) /\ UNCHANGED task
     \/ task' = count /\ UNCHANGED <<received, mscVars, inLeft, txFifo, stall, answered, fits>>

(* The class driver's handler is given usbRxBuffer[:count].  TRUE: it has  *)
(* consumed the packet, re-arm.  FALSE: it keeps the slice.                *)
Deliver ==
  \/ /\ Consume(count)
     /\ AckUsbOutTransfer
     /\ UNCHANGED task
  \/ /\ task' = count
     /\ UNCHANGED <<armed, received, mscVars, inLeft, txFifo, stall, answered, fits>>

handleUSBOutEP ==
  /\ latched = {"oep"}
  /\ latched' = {}
  /\ xfer' = FALSE
  /\ IF count # Empty THEN Deliver
     ELSE /\ AckUsbOutTransfer
          /\ UNCHANGED <<received, task, mscVars, inLeft, txFifo, stall, answered, fits>>
  /\ UNCHANGED <<fifo, inXfer, configs, buffer, count, sent, taken, clean>>

(* The class driver's goroutine (external) consumes the slice it kept and  *)
(* re-arms the endpoint itself.                                            *)
processTasks ==
  /\ task # Empty
  /\ Consume(task)
  /\ task' = Empty
  /\ AckUsbOutTransfer
  /\ UNCHANGED <<fifo, xfer, inXfer, drvVars, sent, taken, clean>>

-----------------------------------------------------------------------------
Driver == usbPollLoop \/ handleUSBRxFIFO \/ handleUSBInEP \/ handleUSBOutEP

Next == \/ initEndpoint \/ ClearStallEPIn \/ Driver \/ processTasks \/ HostIn
        \/ \E p \in Sendable : HostOut(p)

Spec == Init /\ [][Next]_vars

(* Fairness: the polling goroutine and the class driver's are scheduled;   *)
(* the host takes what is offered and clears a stall.                      *)
FairSpec == /\ Spec /\ WF_vars(Driver) /\ WF_vars(processTasks)
            /\ WF_vars(HostIn) /\ WF_vars(ClearStallEPIn)

-----------------------------------------------------------------------------
(* Properties.                                                             *)

(* The packets between controller and class driver, oldest first.          *)
DataAt == {i \in DOMAIN fifo : fifo[i].entry = "data"}
Nth(k) == CHOOSE i \in DataAt : Cardinality({j \in DataAt : j <= i}) = k
InFifo == [k \in 1 .. Cardinality(DataAt) |-> fifo[Nth(k)]]
Copied == xfer \/ (fifo # << >> /\ Head(fifo).entry = "done")
UnderWay == (IF task # Empty THEN <<Slice(buffer, task)>> ELSE << >>)
            \o (IF Copied THEN <<Slice(buffer, count)>> ELSE << >>)
            \o [i \in DOMAIN InFifo |-> Slice(InFifo[i].packet, InFifo[i].packet)]

(* Every packet the host had acknowledged is consumed once, in order, with *)
(* its own bytes and its own length: no packet is copied over one that the *)
(* class driver still reads.  A SET_CONFIGURATION in the middle of a       *)
(* transfer re-arms too early, and an empty packet is taken for the packet *)
(* before it: both void this.                                              *)
PacketsArriveWhole ==
  clean => [i \in DOMAIN sent |-> Slice(sent[i], sent[i])] = received \o UnderWay

(* As long as no answer is longer than FIFO 1, what the class driver hands *)
(* over reaches the host whole, once and in order: no answer is written    *)
(* while an earlier one takes room in the FIFO, and when the driver        *)
(* reports an answer as sent nothing of it is left in the FIFO or in the   *)
(* size register.                                                          *)
AnswersArriveWhole ==
  fits =>
    /\ taken \o txFifo = [i \in 1 .. answered |-> i]
    /\ inLeft = Len(txFifo)
    /\ inXfer \/ ~sending => txFifo = << >>

(* Nobody waits for good: an OUT endpoint that was configured is armed     *)
(* again, whoever holds the packet, and the class driver hears of the end  *)
(* of its answer, stalled or not; not of one longer than FIFO 1, whose     *)
(* transfer lacks the packets that were lost.                              *)
EndpointRearmed == (configs > 0 /\ ~armed) ~> armed
AnswerCompletes == (sending /\ clean /\ fits) ~> (~sending \/ ~clean \/ ~fits)
NobodyWaits == EndpointRearmed /\ AnswerCompletes
=============================================================================
