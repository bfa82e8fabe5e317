--------------------------- MODULE UsbControlProofs ---------------------------
(***************************************************************************)
(* Proofs about endpoint 0 (UsbControl), for every packet size, every set  *)
(* of requests and every number of requests and resets: type correctness,  *)
(* that a host gets the answer to its own request, and that host and       *)
(* device agree between transfers.                                         *)
(*                                                                         *)
(* A request is unserved from its SETUP packet to its handler: while it    *)
(* travels through the receive FIFO, ep0SetupBuffer and the SETUP          *)
(* interrupt, nothing is armed, so the host cannot go on and no second     *)
(* request comes.  An IN interrupt left from the transfer before finds     *)
(* nothing more to send and is served first.  Once a request is served,    *)
(* what the host has taken, what waits in the transmit FIFO and            *)
(* ep0SendPending follow one another in its answer.  A transfer the host   *)
(* breaks off while the driver lags behind spoils this: then clean turns   *)
(* FALSE, and the invariant is about the times when it is TRUE; a reset    *)
(* that finds the driver caught up establishes it anew, from any state.    *)
(***************************************************************************)
EXTENDS UsbControl, SequenceTheorems, TLAPS

(* The current request has not reached its handler.                        *)
Unserved == (\E k \in DOMAIN rxFifo : rxFifo[k].what # "outDone") \/ "setup" \in causes

(* What the host wants of the current request's answer.                    *)
Wanted == Smaller(asked[Current].len, asked[Current].wLength)

(* Nothing is left of the answer in ep0SendPending.                        *)
PendingDone == ~(pending.request # 0 /\ pending.offset < AnswerLen(pending.request))

(* A SETUP packet is ahead of its completion entry; the handler runs only  *)
(* after one; numbers are those of requests made; a latched cause stays    *)
(* raised until it is served.                                              *)
QueueOK ==
  /\ \A k \in DOMAIN rxFifo :
       /\ rxFifo[k].what = "setup" => rxFifo[k].request \in 1 .. Current
       /\ rxFifo[k].what = "setupDone" =>
            IF k = 1 THEN setupBuf # 0 ELSE rxFifo[k - 1].what = "setup"
  /\ "setup" \in causes => setupBuf # 0
  /\ setupBuf <= Current /\ pending.request <= Current
  /\ host.phase # "idle" => Current > 0
  /\ latched \cap {"rst", "enum", "iep"} \subseteq causes

TypeInv == TypeOK /\ QueueOK

(* An unserved request is the current one and the last in the receive      *)
(* FIFO.                                                                   *)
SetupOK ==
  /\ \A k \in DOMAIN rxFifo :
       /\ rxFifo[k].what = "setup" => /\ k + 1 = Len(rxFifo) /\ rxFifo[k].request = Current
                                      /\ rxFifo[k + 1].what = "setupDone"
       /\ rxFifo[k].what = "setupDone" => /\ k = Len(rxFifo)
                                          /\ k = 1 => setupBuf = Current
  /\ "setup" \in causes => setupBuf = Current /\ rxFifo = << >>

(* While it is unserved nothing of it is answered, and an IN interrupt     *)
(* that is still raised has nothing to send.                               *)
UnservedOK ==
  Unserved =>
    /\ host.phase = IF asked[Current].kind = "read" THEN "dataIn" ELSE "statusIn"
    /\ got = << >> /\ inArmed = "no" /\ ~stall /\ txFifo = << >>
    /\ "iep" \in causes => PendingDone

(* A pass that will serve EP0 OUT serves a raised IN interrupt before it;  *)
(* once a request is served, the transfer before has left no trace.        *)
PassOK ==
  /\ "oep" \in latched /\ "iep" \in causes => "iep" \in latched
  /\ host.phase # "idle" /\ ~Unserved =>
       rxFifo = << >> /\ "outDone" \notin causes /\ "oep" \notin latched

(* Between transfers nothing is left to send; a reset finds the host idle. *)
IdleOK ==
  /\ host.phase = "idle" => /\ "iep" \in causes => PendingDone
                            /\ "rst" \notin causes => txFifo = << >>
  /\ "rst" \in causes => host = [phase |-> "idle", addr |-> 0, config |-> 0]

(* The next chunk of the current answer; how much of it was handed to the  *)
(* controller.                                                             *)
Chunk == [request |-> Current, offset |-> Bytes(got),
          len |-> Smaller(MPS, AnswerLen(Current) - Bytes(got))]
Sent == Bytes(got) + IF txFifo = << >> THEN 0 ELSE Chunk.len

(* The data stage: the host has taken whole packets, the FIFO holds at     *)
(* most the next chunk, and ep0SendPending goes on behind it.              *)
DataOK ==
  host.phase = "dataIn" /\ ~Unserved =>
    /\ ~stall
    /\ Bytes(got) = Len(got) * MPS /\ Bytes(got) <= AnswerLen(Current)
    /\ txFifo # << >> =>
         txFifo = <<Chunk>> /\ inArmed = "data" /\ Bytes(got) < AnswerLen(Current)
    /\ inArmed = "empty" => AnswerLen(Current) = 0
    /\ inArmed # "no" => "iep" \notin causes
    /\ \/ pending = [request |-> Current, offset |-> Sent]
       \/ pending = NoPending /\ Sent = AnswerLen(Current)

(* The status stage: the whole answer was taken; a request without data is *)
(* stalled only if it is refused, and acknowledged if it took effect.      *)
StatusOK ==
  /\ host.phase = "statusOut" =>
       txFifo = << >> /\ PendingDone /\ Bytes(got) = Wanted
  /\ host.phase = "statusIn" /\ ~Unserved =>
       /\ got = << >> /\ txFifo = << >> /\ "iep" \notin causes
       /\ inArmed = "empty" => PendingDone
       /\ stall => asked[Current].kind = "refuse"
       /\ inArmed = "no" => asked[Current].kind \notin {"address", "config"}

(* The device takes a new address or configuration before the host has     *)
(* seen the status stage, and only then is it ahead.                       *)
Ahead(k) == host.phase = "statusIn" /\ ~Unserved /\ asked[Current].kind = k

AgreeOK ==
  "rst" \notin causes =>
    device = [addr   |-> IF Ahead("address") THEN 1 ELSE host.addr,
              config |-> IF Ahead("config") THEN 1 ELSE host.config]

(* What was taken is this request's, one full packet after the other.      *)
GotOK == \A i \in DOMAIN got : got[i].request = Current /\ got[i].offset = (i - 1) * MPS

ControlInv == /\ SetupOK /\ UnservedOK /\ PassOK /\ IdleOK /\ DataOK /\ StatusOK /\ AgreeOK /\ GotOK

-----------------------------------------------------------------------------
(* Lengths are numbers.                                                    *)
LEMMA AnswerLenType ==
  ASSUME TypeOK, NEW q \in 1 .. Current
  PROVE  LET w == Smaller(asked[q].len, asked[q].wLength)
         IN  /\ AnswerLen(q) \in Nat /\ asked[q] \in Kinds /\ asked[q].wLength \in Nat
             /\ asked[q].kind \in RequestKinds /\ AnswerLen(q) <= asked[q].wLength
             /\ w \in Nat /\ w <= asked[q].wLength
             /\ AnswerLen(q) = w \/ (AnswerLen(q) = MaxAnswer /\ AnswerLen(q) < w)
<1>1. asked[q] \in Kinds
  BY DEF TypeOK, Current
<1>2. asked[q] \in [kind : RequestKinds, len : Nat, wLength : Nat] /\ MaxAnswer \in Nat
  BY <1>1, ControlAssumption
<1> QED BY <1>1, <1>2 DEF AnswerLen, Smaller

(* Between two multiples lies a whole packet.                              *)
LEMMA WholePacket ==
  ASSUME NEW c \in Nat, NEW g \in Nat, NEW m \in Nat \ {0}, g * m < c * m
  PROVE  m <= c * m - g * m
<1>1. CASE c <= g
  <2>1. PICK d \in Nat : g = c + d
    BY <1>1
  <2>2. g * m = c * m + d * m /\ d * m >= 0
    BY <2>1
  <2> QED BY <2>2
<1>2. CASE c > g
  <2>1. PICK d \in Nat : c = g + 1 + d
    BY <1>2
  <2>2. c * m = g * m + m + d * m /\ d * m >= 0
    BY <2>1
  <2> QED BY <2>2
<1> QED BY <1>1, <1>2

(* So is what the host has taken.                                          *)
LEMMA BytesType ==
  ASSUME TypeOK
  PROVE  Bytes(got) \in Nat
<1>1. CASE got = << >>
  BY <1>1 DEF Bytes
<1>2. CASE got # << >>
  <2>1. got[Len(got)] \in Packet
    BY <1>2 DEF TypeOK
  <2> QED BY <1>2, <2>1 DEF Bytes, Packet
<1> QED BY <1>1, <1>2

(* The current request has a number within the bound.                      *)
LEMMA NumberType ==
  ASSUME TypeOK
  PROVE  /\ Current \in Number /\ Current \in Nat /\ MaxRequests \in Nat
         /\ \A q \in Nat : q <= Current => q \in Number
<1>1. MaxRequests \in Nat
  BY ControlAssumption
<1> QED BY <1>1 DEF TypeOK, Number, Current

(* The type invariant holds after Init.                                    *)
LEMMA TypeInit == Init => TypeInv
<1> SUFFICES ASSUME Init PROVE TypeInv
  OBVIOUS
<1>1. 0 \in Number /\ 0 \in 0 .. MaxResets
  BY ControlAssumption DEF Number
<1>2. TypeOK
  <2>1. asked \in Seq(Kinds) /\ Len(asked) = 0 /\ got \in Seq(Packet)
        /\ rxFifo \in Seq(Entry) /\ txFifo \in Seq(Packet)
    BY DEF Init
  <2> QED BY <1>1, <2>1 DEF Init, TypeOK, NoPending
<1>3. QueueOK
  BY DEF Init, QueueOK, NoPending, Current
<1> QED BY <1>2, <1>3 DEF TypeInv

(* One lemma per action: the types.                                        *)
LEMMA BusResetType ==
  ASSUME TypeInv, BusReset
  PROVE  TypeInv'
<1>1. /\ resets < MaxResets /\ resets' = resets + 1 /\ got' = << >>
      /\ host' = [phase |-> "idle", addr |-> 0, config |-> 0]
      /\ causes' = causes \cup {"rst", "enum"}
      /\ UNCHANGED <<asked, rxFifo, txFifo, inArmed, outArmed, stall, latched, setupBuf, pending, device>>
  BY DEF BusReset, drvVars
<1>2. resets' \in 0 .. MaxResets
  BY <1>1, ControlAssumption DEF TypeInv, TypeOK
<1>5. clean' \in BOOLEAN
  BY Zenon DEF BusReset
<1>3. TypeOK'
  BY <1>1, <1>2, <1>5 DEF TypeInv, TypeOK, Causes
<1>4. QueueOK'
  BY <1>1 DEF TypeInv, QueueOK, Current
<1> QED BY <1>3, <1>4 DEF TypeInv

(* Two entries are added to a queue.                                       *)
LEMMA TwoMore ==
  ASSUME NEW q \in Seq(Entry), NEW t \in Seq(Entry), Len(t) = 2
  PROVE  /\ q \o t \in Seq(Entry) /\ Len(q \o t) = Len(q) + 2
         /\ \A k \in 1 .. Len(q) : (q \o t)[k] = q[k]
         /\ (q \o t)[Len(q) + 1] = t[1] /\ (q \o t)[Len(q) + 2] = t[2]
<1>1. /\ q \o t \in Seq(Entry) /\ Len(q \o t) = Len(q) + Len(t)
      /\ \A i \in 1 .. Len(q) + Len(t) :
           (q \o t)[i] = IF i <= Len(q) THEN q[i] ELSE t[i - Len(q)]
  BY ConcatProperties
<1>2. PICK n \in Nat : n = Len(q)
  OBVIOUS
<1> QED BY <1>1, <1>2

(* A SETUP packet, and what it adds to the two queues.                     *)
LEMMA HostSetupType ==
  ASSUME TypeInv, NEW q \in Kinds, HostSetup(q)
  PROVE  /\ TypeInv'
         /\ Current' = Current + 1 /\ asked'[Current'] = q
         /\ \A i \in 1 .. Current : asked'[i] = asked[i]
         /\ Len(rxFifo') = Len(rxFifo) + 2
         /\ \A k \in DOMAIN rxFifo : rxFifo'[k] = rxFifo[k]
         /\ rxFifo'[Len(rxFifo) + 1] = [what |-> "setup", request |-> Current']
         /\ rxFifo'[Len(rxFifo) + 2] = [what |-> "setupDone", request |-> Current']
<1> DEFINE two == <<[what |-> "setup", request |-> Current + 1],
                    [what |-> "setupDone", request |-> Current + 1]>>
<1>1. /\ Current < MaxRequests
      /\ host' = [host EXCEPT !.phase = IF q.kind = "read" THEN "dataIn" ELSE "statusIn"]
      /\ asked' = Append(asked, q) /\ got' = << >> /\ rxFifo' = rxFifo \o two
      /\ stall' = FALSE /\ inArmed' = "no"
      /\ UNCHANGED <<resets, txFifo, outArmed, causes, latched, setupBuf, pending, device>>
  BY DEF HostSetup, drvVars
<1>2. Current \in Nat /\ Current + 1 \in Number
  BY <1>1, NumberType DEF TypeInv, Number
<1>3. two \in Seq(Entry) /\ Len(two) = 2 /\ two[1].what = "setup" /\ two[2].what = "setupDone"
      /\ two[1].request = Current + 1
      /\ two[1] = [what |-> "setup", request |-> Current + 1]
      /\ two[2] = [what |-> "setupDone", request |-> Current + 1]
  BY <1>2 DEF Entry
<1>4. /\ asked' \in Seq(Kinds) /\ Len(asked') = Len(asked) + 1
      /\ asked'[Len(asked) + 1] = q
      /\ \A i \in 1 .. Len(asked) : asked'[i] = asked[i]
  BY <1>1 DEF TypeInv, TypeOK
<1> HIDE DEF two
<1>5. /\ rxFifo \in Seq(Entry) /\ rxFifo' \in Seq(Entry)
      /\ Len(rxFifo') = Len(rxFifo) + 2
      /\ \A k \in 1 .. Len(rxFifo) : rxFifo'[k] = rxFifo[k]
      /\ rxFifo'[Len(rxFifo) + 1] = two[1] /\ rxFifo'[Len(rxFifo) + 2] = two[2]
  BY <1>1, <1>3, TwoMore DEF TypeInv, TypeOK
<1>6. Current' = Current + 1
  BY <1>4 DEF Current
<1>7. TypeOK'
  <2>1. host' \in [phase : {"idle", "dataIn", "statusIn", "statusOut"}, addr : {0, 1},
                    config : {0, 1}]
    BY <1>1 DEF TypeInv, TypeOK
  <2>2. Len(asked') \in Number /\ got' \in Seq(Packet)
    BY <1>1, <1>2, <1>4 DEF Current
  <2>3. stall' \in BOOLEAN /\ inArmed' \in {"no", "empty", "data"}
    BY <1>1
  <2>4. asked' \in Seq(Kinds) /\ rxFifo' \in Seq(Entry)
    BY <1>4, <1>5
  <2>5. UNCHANGED <<resets, txFifo, outArmed, causes, latched, setupBuf, pending, device>>
    BY <1>1
  <2>6. clean' \in BOOLEAN
    BY Zenon DEF HostSetup
  <2> QED BY <2>1, <2>2, <2>3, <2>4, <2>5, <2>6 DEF TypeInv, TypeOK
<1>8. QueueOK'
  <2>1. ASSUME NEW k \in DOMAIN rxFifo'
        PROVE  /\ rxFifo'[k].what = "setup" => rxFifo'[k].request \in 1 .. Current'
               /\ rxFifo'[k].what = "setupDone" =>
                     IF k = 1 THEN setupBuf # 0 ELSE rxFifo'[k - 1].what = "setup"
    <3>1. k \in 1 .. Len(rxFifo) + 2 /\ Len(rxFifo) \in Nat
      BY <1>5
    <3>2. CASE k = Len(rxFifo) + 1
      BY <1>2, <1>3, <1>5, <1>6, <3>2
    <3>3. CASE k = Len(rxFifo) + 2
      BY <1>3, <1>5, <3>1, <3>3
    <3>4. CASE k \in 1 .. Len(rxFifo)
      <4>1. k = 1 \/ k - 1 \in 1 .. Len(rxFifo)
        BY <3>4
      <4>2. rxFifo'[k] = rxFifo[k] /\ (k # 1 => rxFifo'[k - 1] = rxFifo[k - 1])
        BY <1>5, <3>4, <4>1
      <4>3. /\ rxFifo[k].what = "setup" => rxFifo[k].request \in 1 .. Current
            /\ rxFifo[k].what = "setupDone" =>
                  IF k = 1 THEN setupBuf # 0 ELSE rxFifo[k - 1].what = "setup"
        BY <1>5, <3>4 DEF TypeInv, QueueOK
      <4> QED BY <1>2, <1>6, <4>2, <4>3
    <3> QED BY <3>1, <3>2, <3>3, <3>4
  <2>2. setupBuf <= Current + 1 /\ pending.request <= Current + 1 /\ Current + 1 > 0
    BY <1>2 DEF TypeInv, TypeOK, QueueOK, Number
  <2> QED BY <1>1, <1>6, <2>1, <2>2 DEF TypeInv, QueueOK
<1> QED BY <1>3, <1>4, <1>5, <1>6, <1>7, <1>8 DEF TypeInv, Current

(* An IN token that the device answers: what is taken and where it leads.  *)
LEMMA TakenType ==
  ASSUME TypeInv, HostIn
  PROVE  /\ Taken \in Packet
         /\ got' \in Seq(Packet) /\ Len(got') = Len(got) + 1 /\ got'[Len(got) + 1] = Taken
         /\ \A i \in 1 .. Len(got) : got'[i] = got[i]
         /\ Current \in 1 .. Current
<1>1. Current > 0 /\ Current \in Number /\ Current \in Nat
  BY NumberType DEF HostIn, TypeInv, QueueOK
<1>2. Taken \in Packet
  <2>1. CASE inArmed = "empty"
    BY <1>1, <2>1, BytesType DEF Taken, Packet, TypeInv
  <2>2. CASE inArmed # "empty"
    <3>1. txFifo # << >> /\ txFifo \in Seq(Packet)
      BY <2>2 DEF HostIn, TypeInv, TypeOK
    <3> QED BY <2>2, <3>1 DEF Taken
  <2> QED BY <2>1, <2>2
<1>3. got' = Append(got, Taken) /\ got \in Seq(Packet)
  BY DEF HostIn, TypeInv, TypeOK
<1> QED BY <1>1, <1>2, <1>3

(* The packet is taken.                                                    *)
LEMMA HostInType ==
  ASSUME TypeInv, HostIn
  PROVE  TypeInv'
<1>1. /\ host.phase \in {"dataIn", "statusIn"}
      /\ inArmed = "empty" \/ (inArmed = "data" /\ txFifo # << >>)
      /\ txFifo' = (IF inArmed = "empty" THEN txFifo ELSE Tail(txFifo))
      /\ inArmed' = "no" /\ causes' = causes \cup {"iep"}
      /\ UNCHANGED <<asked, resets, clean, rxFifo, outArmed, stall, latched, setupBuf, pending, device>>
  BY DEF HostIn, drvVars
<1>2. got' \in Seq(Packet) /\ Current > 0
  BY TakenType DEF HostIn, TypeInv, QueueOK
<1>3. host' \in [phase : {"idle", "dataIn", "statusIn", "statusOut"}, addr : {0, 1},
                  config : {0, 1}]
  <2>1. CASE host.phase = "dataIn"
    BY <2>1 DEF HostIn, TypeInv, TypeOK
  <2>2. CASE host.phase = "statusIn"
    BY <2>2 DEF HostIn, TypeInv, TypeOK
  <2> QED BY <1>1, <2>1, <2>2
<1>4. txFifo' \in Seq(Packet)
  BY <1>1 DEF TypeInv, TypeOK
<1>5. TypeOK'
  BY <1>1, <1>2, <1>3, <1>4 DEF TypeInv, TypeOK, Causes
<1>6. QueueOK'
  BY <1>1, <1>2 DEF TypeInv, QueueOK, Current
<1> QED BY <1>5, <1>6 DEF TypeInv

(* The status packet adds a completion entry.                              *)
LEMMA HostStatusOutType ==
  ASSUME TypeInv, HostStatusOut
  PROVE  /\ TypeInv'
         /\ Len(rxFifo') = Len(rxFifo) + 1
         /\ \A k \in DOMAIN rxFifo : rxFifo'[k] = rxFifo[k]
         /\ rxFifo'[Len(rxFifo) + 1].what = "outDone"
<1>1. /\ host.phase = "statusOut" /\ host' = [host EXCEPT !.phase = "idle"] /\ outArmed' = FALSE
      /\ rxFifo' = Append(rxFifo, [what |-> "outDone", request |-> Current])
      /\ UNCHANGED <<asked, got, resets, clean, txFifo, inArmed, stall, causes, latched, setupBuf, pending, device>>
  BY DEF HostStatusOut, drvVars
<1>2. Current \in Number
  BY NumberType DEF TypeInv
<1>3. /\ rxFifo \in Seq(Entry) /\ rxFifo' \in Seq(Entry) /\ Len(rxFifo') = Len(rxFifo) + 1
      /\ \A k \in 1 .. Len(rxFifo) : rxFifo'[k] = rxFifo[k]
      /\ rxFifo'[Len(rxFifo) + 1].what = "outDone"
  <2>1. [what |-> "outDone", request |-> Current] \in Entry
    BY <1>2 DEF Entry
  <2> QED BY <1>1, <2>1 DEF TypeInv, TypeOK
<1>4. TypeOK'
  <2>1. host' \in [phase : {"idle", "dataIn", "statusIn", "statusOut"}, addr : {0, 1},
                    config : {0, 1}]
    BY <1>1 DEF TypeInv, TypeOK
  <2> QED BY <1>1, <1>3, <2>1 DEF TypeInv, TypeOK
<1>5. QueueOK'
  <2>1. ASSUME NEW k \in DOMAIN rxFifo'
        PROVE  /\ rxFifo'[k].what = "setup" => rxFifo'[k].request \in 1 .. Current
               /\ rxFifo'[k].what = "setupDone" =>
                     IF k = 1 THEN setupBuf # 0 ELSE rxFifo'[k - 1].what = "setup"
    <3>1. CASE k = Len(rxFifo) + 1
      BY <1>3, <3>1
    <3>2. CASE k # Len(rxFifo) + 1
      <4>1. k \in 1 .. Len(rxFifo) /\ (k = 1 \/ k - 1 \in 1 .. Len(rxFifo))
        BY <1>3, <3>2
      <4>2. rxFifo'[k] = rxFifo[k] /\ (k # 1 => rxFifo'[k - 1] = rxFifo[k - 1])
        BY <1>3, <4>1
      <4>3. /\ rxFifo[k].what = "setup" => rxFifo[k].request \in 1 .. Current
            /\ rxFifo[k].what = "setupDone" =>
                  IF k = 1 THEN setupBuf # 0 ELSE rxFifo[k - 1].what = "setup"
        BY <1>3, <4>1 DEF TypeInv, QueueOK
      <4> QED BY <4>2, <4>3
    <3> QED BY <3>1, <3>2
  <2> QED BY <1>1, <2>1 DEF TypeInv, QueueOK, Current
<1> QED BY <1>3, <1>4, <1>5 DEF TypeInv

(* A refusal is seen.                                                      *)
LEMMA HostStalledType ==
  ASSUME TypeInv, HostStalled
  PROVE  TypeInv'
<1>1. /\ host' = [host EXCEPT !.phase = "idle"]
      /\ UNCHANGED <<asked, got, resets, clean, rxFifo, txFifo, inArmed, outArmed, stall, causes,
                     latched, setupBuf, pending, device>>
  BY DEF HostStalled, drvVars, coreVars
<1>2. TypeOK'
  <2>1. host' \in [phase : {"idle", "dataIn", "statusIn", "statusOut"}, addr : {0, 1},
                    config : {0, 1}]
    BY <1>1 DEF TypeInv, TypeOK
  <2> QED BY <1>1, <2>1 DEF TypeInv, TypeOK
<1>3. QueueOK'
  BY <1>1 DEF TypeInv, QueueOK, Current
<1> QED BY <1>2, <1>3 DEF TypeInv

(* A pass latches what is raised.                                          *)
LEMMA PollType ==
  ASSUME TypeInv, usbPollLoop
  PROVE  TypeInv'
<1>1. /\ latched' = Raised
      /\ UNCHANGED <<host, asked, got, resets, clean, rxFifo, txFifo, inArmed, outArmed, stall, causes,
                     setupBuf, pending, device>>
  BY DEF usbPollLoop, hostVars, coreVars
<1>2. latched' \subseteq Passes
  BY <1>1 DEF Raised, Passes
<1>3. TypeOK'
  BY <1>1, <1>2 DEF TypeInv, TypeOK
<1>4. QueueOK'
  <2>1. UNCHANGED <<host, asked, rxFifo, causes, setupBuf, pending>>
    BY <1>1
  <2>2. latched' \cap {"rst", "enum", "iep"} \subseteq causes'
    BY <1>1 DEF Raised
  <2> QED BY <2>1, <2>2 DEF TypeInv, QueueOK, Current
<1> QED BY <1>3, <1>4 DEF TypeInv

(* A bus reset is served.                                                  *)
LEMMA ResetType ==
  ASSUME TypeInv, handleUSBReset
  PROVE  TypeInv'
<1>1. /\ latched' = latched \ {"rst"} /\ causes' = causes \ {"rst"}
      /\ txFifo' = << >> /\ inArmed' \in {inArmed, "no"} /\ outArmed' = TRUE
      /\ device' = [addr |-> 0, config |-> 0]
      /\ UNCHANGED <<host, asked, got, resets, clean, rxFifo, stall, setupBuf, pending>>
  BY DEF handleUSBReset, hostVars
<1>2. TypeOK' /\ QueueOK'
  BY <1>1 DEF TypeInv, TypeOK, QueueOK, Current
<1> QED BY <1>2 DEF TypeInv

(* The end of enumeration is served.                                       *)
LEMMA EnumDoneType ==
  ASSUME TypeInv, handleUSBEnumDone
  PROVE  TypeInv'
<1>1. /\ latched' = latched \ {"enum"} /\ causes' = causes \ {"enum"} /\ outArmed' = TRUE
      /\ UNCHANGED <<host, asked, got, resets, clean, rxFifo, txFifo, inArmed, stall, setupBuf, pending, device>>
  BY DEF handleUSBEnumDone, hostVars
<1>2. TypeOK' /\ QueueOK'
  BY <1>1 DEF TypeInv, TypeOK, QueueOK, Current
<1> QED BY <1>2 DEF TypeInv

(* The first entry of a queue is popped.                                   *)
LEMMA Popped ==
  ASSUME NEW q \in Seq(Entry), q # << >>
  PROVE  /\ Tail(q) \in Seq(Entry) /\ Len(Tail(q)) = Len(q) - 1 /\ Head(q) = q[1]
         /\ 1 \in DOMAIN q /\ Len(q) \in Nat \ {0} /\ DOMAIN q = 1 .. Len(q)
         /\ \A k \in DOMAIN Tail(q) : k + 1 \in DOMAIN q /\ Tail(q)[k] = q[k + 1] /\ k \in Nat \ {0}
OBVIOUS

(* One entry of the receive FIFO: a completion entry that comes to the     *)
(* front finds its SETUP packet in ep0SetupBuffer.                         *)
LEMMA RxFIFOType ==
  ASSUME TypeInv, handleUSBRxFIFO
  PROVE  TypeInv'
<1>1. UNCHANGED <<host, asked, got, resets, clean, txFifo, inArmed, outArmed, stall, pending, device>>
  BY DEF handleUSBRxFIFO, hostVars
<1>2. CASE rxFifo = << >>
  <2>1. latched' = latched \ {"rx"} /\ UNCHANGED <<rxFifo, causes, setupBuf>>
    BY <1>2 DEF handleUSBRxFIFO
  <2>2. TypeOK' /\ QueueOK'
    BY <1>1, <2>1 DEF TypeInv, TypeOK, QueueOK, Current
  <2> QED BY <2>2 DEF TypeInv
<1>3. CASE rxFifo # << >>
  <2>1. /\ rxFifo' = Tail(rxFifo) /\ latched' = latched
        /\ setupBuf' = (IF Head(rxFifo).what = "setup" THEN Head(rxFifo).request ELSE setupBuf)
        /\ causes' = CASE Head(rxFifo).what = "setup"     -> causes
                      [] Head(rxFifo).what = "setupDone" -> causes \cup {"setup"}
                      [] Head(rxFifo).what = "outDone"   -> causes \cup {"outDone"}
    BY <1>3 DEF handleUSBRxFIFO
  <2>2. rxFifo \in Seq(Entry) /\ rxFifo[1] \in Entry
    BY <1>3 DEF TypeInv, TypeOK
  <2>3. /\ rxFifo' \in Seq(Entry) /\ Head(rxFifo) = rxFifo[1] /\ 1 \in DOMAIN rxFifo
        /\ \A k \in DOMAIN rxFifo' :
             k + 1 \in DOMAIN rxFifo /\ rxFifo'[k] = rxFifo[k + 1] /\ k \in Nat \ {0}
    BY <1>3, <2>1, <2>2, Popped
  <2>4. Current' = Current /\ Current \in Nat /\ Current <= MaxRequests /\ MaxRequests \in Nat
    BY <1>1, NumberType DEF Current, TypeInv, Number
  <2>5. rxFifo[1].what = "setup" => rxFifo[1].request \in 1 .. Current
    BY <2>3 DEF TypeInv, QueueOK
  <2>6. setupBuf' \in Number /\ setupBuf' <= Current
    BY <2>1, <2>3, <2>4, <2>5 DEF TypeInv, TypeOK, QueueOK, Number
  <2>7. setupBuf # 0 => setupBuf' # 0
    BY <2>1, <2>3, <2>4, <2>5
  <2>0. rxFifo[1].what \in {"setup", "setupDone", "outDone"}
    BY <2>2 DEF Entry
  <2>c. causes' \in {causes, causes \cup {"setup"}, causes \cup {"outDone"}}
    BY <2>0, <2>1, <2>3
  <2>d. causes' \subseteq Causes
    BY <2>c DEF TypeInv, TypeOK, Causes
  <2>8. TypeOK'
    BY <1>1, <2>1, <2>3, <2>6, <2>d DEF TypeInv, TypeOK
  <2>9. ASSUME NEW k \in DOMAIN rxFifo'
        PROVE  /\ rxFifo'[k].what = "setup" => rxFifo'[k].request \in 1 .. Current
               /\ rxFifo'[k].what = "setupDone" =>
                     IF k = 1 THEN setupBuf' # 0 ELSE rxFifo'[k - 1].what = "setup"
    <3>1. k + 1 \in DOMAIN rxFifo /\ rxFifo'[k] = rxFifo[k + 1] /\ k \in Nat \ {0}
      BY <2>3
    <3>2. /\ rxFifo[k + 1].what = "setup" => rxFifo[k + 1].request \in 1 .. Current
          /\ rxFifo[k + 1].what = "setupDone" => rxFifo[k].what = "setup"
      <4>1. k + 1 # 1 /\ (k + 1) - 1 = k
        BY <3>1
      <4> QED BY <3>1, <4>1 DEF TypeInv, QueueOK
    <3>3. CASE k = 1
      BY <2>1, <2>3, <2>4, <2>5, <3>1, <3>2, <3>3
    <3>4. CASE k # 1
      <4>1. k - 1 \in DOMAIN rxFifo' /\ (k - 1) + 1 = k
        BY <2>3, <3>1, <3>4
      <4>2. rxFifo'[k - 1] = rxFifo[k]
        BY <2>3, <4>1
      <4> QED BY <3>1, <3>2, <3>4, <4>2
    <3> QED BY <3>3, <3>4
  <2>10. "setup" \in causes' => setupBuf' # 0
    <3>1. CASE rxFifo[1].what = "setupDone"
      BY <2>3, <2>7, <3>1 DEF TypeInv, QueueOK
    <3>2. CASE rxFifo[1].what # "setupDone"
      <4>1. "setup" \in causes' => "setup" \in causes
        BY <2>0, <2>1, <2>3, <3>2
      <4> QED BY <2>7, <4>1 DEF TypeInv, QueueOK
    <3> QED BY <3>1, <3>2
  <2>11. QueueOK'
    BY <1>1, <2>1, <2>4, <2>6, <2>9, <2>10, <2>c DEF TypeInv, QueueOK
  <2> QED BY <2>8, <2>11 DEF TypeInv
<1> QED BY <1>2, <1>3

(* What a chunk leaves armed.                                              *)
LEMMA ChunkType ==
  ASSUME TypeOK, NEW q \in Number, NEW o \in Nat, NEW n \in Nat, SendChunk(q, o, n)
  PROVE  inArmed' \in {"no", "empty", "data"} /\ txFifo' \in Seq(Packet)
<1>1. [request |-> q, offset |-> o, len |-> n] \in Packet
  BY DEF Packet
<1> QED BY <1>1 DEF SendChunk, TypeOK

(* The IN interrupt is served.                                             *)
LEMMA InEPType ==
  ASSUME TypeInv, handleUSBInEP
  PROVE  TypeInv'
<1>1. /\ latched' = latched \ {"iep"} /\ causes' = causes \ {"iep"}
      /\ UNCHANGED <<host, asked, got, resets, clean, rxFifo, outArmed, stall, setupBuf, device>>
  BY DEF handleUSBInEP, hostVars
<1>2. pending \in [request : Number, offset : Nat] /\ pending.request <= Current /\ 0 \in Number
  BY ControlAssumption DEF TypeInv, TypeOK, QueueOK, Number
<1>3. /\ inArmed' \in {"no", "empty", "data"} /\ txFifo' \in Seq(Packet)
      /\ pending' \in [request : Number, offset : Nat] /\ pending'.request <= Current
  <2>1. CASE pending.request # 0 /\ pending.offset < AnswerLen(pending.request)
    <3> DEFINE n == Smaller(MPS, AnswerLen(pending.request) - pending.offset)
    <3>1. pending.request \in 1 .. Current
      BY <1>2, <2>1, NumberType DEF TypeInv, Number
    <3>2. n \in Nat
      BY <1>2, <2>1, <3>1, AnswerLenType, ControlAssumption DEF Smaller, TypeInv
    <3>3. SendChunk(pending.request, pending.offset, n) /\ pending' = [pending EXCEPT !.offset = @ + n]
      BY <2>1 DEF handleUSBInEP
    <3> HIDE DEF n
    <3> QED BY <1>2, <3>2, <3>3, ChunkType DEF TypeInv
  <2>2. CASE ~(pending.request # 0 /\ pending.offset < AnswerLen(pending.request))
    <3>1. pending' = NoPending /\ UNCHANGED <<inArmed, txFifo>>
      BY <2>2 DEF handleUSBInEP
    <3> QED BY <1>2, <3>1, NumberType DEF NoPending, TypeInv, TypeOK
  <2> QED BY <2>1, <2>2
<1>4. TypeOK' /\ QueueOK'
  BY <1>1, <1>3 DEF TypeInv, TypeOK, QueueOK, Current
<1> QED BY <1>4 DEF TypeInv

(* What sendUSBPacket leaves behind.                                       *)
LEMMA SendType ==
  ASSUME TypeInv, NEW q \in 1 .. Current, NEW n \in Nat, sendUSBPacket(q, n)
  PROVE  /\ inArmed' \in {"no", "empty", "data"} /\ txFifo' \in Seq(Packet)
         /\ pending' \in [request : Number, offset : Nat] /\ pending'.request <= Current
<1>1. q \in Number /\ MPS \in Nat /\ Smaller(n, MPS) \in Nat /\ q <= Current
      /\ Current \in Nat /\ 0 \in Number
  BY NumberType, ControlAssumption DEF TypeInv, Smaller, Number
<1>2. SendChunk(q, 0, Smaller(n, MPS))
      /\ pending' = IF n > MPS THEN [request |-> q, offset |-> MPS] ELSE NoPending
  BY DEF sendUSBPacket
<1> QED BY <1>1, <1>2, ChunkType DEF TypeInv, NoPending

(* The SETUP interrupt is served: there is a request in ep0SetupBuffer.    *)
LEMMA OutEPType ==
  ASSUME TypeInv, handleUSBOutEP
  PROVE  TypeInv' /\ ("setup" \in causes => setupBuf \in 1 .. Current)
<1>1. /\ latched' = {} /\ causes' = causes \ {"setup", "outDone"} /\ outArmed' \in {outArmed, TRUE}
      /\ UNCHANGED <<host, asked, got, resets, clean, rxFifo, setupBuf>>
  BY DEF handleUSBOutEP, hostVars
<1>2. CASE "setup" \notin causes
  <2>1. UNCHANGED <<inArmed, txFifo, pending, stall, device>>
    BY <1>2 DEF handleUSBOutEP
  <2>2. outArmed' \in BOOLEAN
    BY <1>1 DEF TypeInv, TypeOK
  <2>3. causes' \subseteq Causes /\ latched' \subseteq Passes
    BY <1>1 DEF TypeInv, TypeOK
  <2>4. TypeOK'
    BY <1>1, <2>1, <2>2, <2>3 DEF TypeInv, TypeOK
  <2>5. QueueOK'
    BY <1>1, <2>1 DEF TypeInv, QueueOK, Current
  <2> QED BY <1>2, <2>4, <2>5 DEF TypeInv
<1>3. CASE "setup" \in causes
  <2>0. handleStandardSetup(setupBuf)
    BY <1>3 DEF handleUSBOutEP
  <2>2. setupBuf \in 1 .. Current
    BY <1>3, NumberType DEF TypeInv, TypeOK, QueueOK, Number
  <2>3. asked[setupBuf].kind \in RequestKinds /\ AnswerLen(setupBuf) \in Nat
    BY <2>2, AnswerLenType DEF TypeInv
  <2>4. /\ inArmed' \in {"no", "empty", "data"} /\ txFifo' \in Seq(Packet)
        /\ pending' \in [request : Number, offset : Nat] /\ pending'.request <= Current
        /\ stall' \in BOOLEAN /\ device' \in [addr : {0, 1}, config : {0, 1}]
    <3>1. CASE asked[setupBuf].kind = "read"
      <4>1. sendUSBPacket(setupBuf, AnswerLen(setupBuf)) /\ UNCHANGED <<stall, device>>
        BY <2>0, <3>1 DEF handleStandardSetup
      <4> QED BY <2>2, <2>3, <4>1, SendType DEF TypeInv, TypeOK
    <3>2. CASE asked[setupBuf].kind \in {"write", "address", "config"}
      <4>1. /\ sendUSBPacket(setupBuf, 0) /\ stall' = stall
            /\ device' \in {device, [device EXCEPT !.addr = 1], [device EXCEPT !.config = 1]}
        BY <2>0, <3>2 DEF handleStandardSetup
      <4> QED BY <2>2, <4>1, SendType DEF TypeInv, TypeOK
    <3>3. CASE asked[setupBuf].kind \in {"refuse", "ignore"}
      <4>1. stall' \in {stall, TRUE} /\ UNCHANGED <<inArmed, txFifo, pending, device>>
        BY <2>0, <3>3 DEF handleStandardSetup
      <4> QED BY <4>1 DEF TypeInv, TypeOK, QueueOK
    <3> QED BY <2>3, <3>1, <3>2, <3>3 DEF RequestKinds
  <2>5. TypeOK'
    BY <1>1, <2>4 DEF TypeInv, TypeOK
  <2>6. QueueOK'
    BY <1>1, <2>4 DEF TypeInv, QueueOK, Current
  <2> QED BY <2>2, <2>5, <2>6 DEF TypeInv
<1> QED BY <1>2, <1>3

(* No step at all.                                                         *)
LEMMA TypeStutter ==
  ASSUME TypeInv, UNCHANGED vars
  PROVE  TypeInv'
BY DEF vars, hostVars, coreVars, drvVars, TypeInv, TypeOK, QueueOK, Current

(* Every step keeps the types.                                             *)
LEMMA TypeStep ==
  ASSUME TypeInv, [Next]_vars
  PROVE  TypeInv'
<1>1. ASSUME NEW q \in Kinds, HostSetup(q) PROVE TypeInv'
  BY <1>1, HostSetupType
<1> QED BY <1>1, BusResetType, HostInType, HostStatusOutType, HostStalledType, PollType,
           ResetType, EnumDoneType, RxFIFOType, InEPType, OutEPType, TypeStutter
        DEF Next, Driver, Host

(* Every variable keeps its type, whatever the host does, resets in mid-   *)
(* transfer included: handleStandardSetup never runs without a request,    *)
(* and no offset or length leaves the answer.                              *)
THEOREM ControlTypeCorrect == Spec => []TypeOK
<1>1. TypeInv /\ [Next]_vars => TypeInv'
  BY TypeStep
<1>2. TypeInv => TypeOK
  BY DEF TypeInv
<1> QED BY <1>1, <1>2, TypeInit, PTL DEF Spec

-----------------------------------------------------------------------------
(* The invariant while nothing broken off is under way.                    *)
Inv == TypeInv /\ ControlInv

(* Outside the first stage, or with something armed, the request is        *)
(* served; outside idle there is a request and no reset.                   *)
LEMMA PhaseServed ==
  ASSUME Inv
  PROVE  /\ host.phase \in {"idle", "statusOut"} => ~Unserved
         /\ inArmed # "no" \/ stall => ~Unserved
         /\ host.phase # "idle" => "rst" \notin causes /\ Current \in 1 .. Current
<1>1. Unserved => host.phase \in {"dataIn", "statusIn"} /\ inArmed = "no" /\ ~stall
  BY DEF Inv, ControlInv, UnservedOK
<1>2. host.phase # "idle" => "rst" \notin causes
  BY DEF Inv, ControlInv, IdleOK
<1>3. host.phase # "idle" => Current \in 1 .. Current
  BY NumberType DEF Inv, TypeInv, QueueOK
<1> QED BY <1>1, <1>2, <1>3

(* The invariant holds after Init.                                         *)
LEMMA ControlInit == Init => ControlInv
<1> SUFFICES ASSUME Init PROVE ControlInv
  OBVIOUS
<1>1. ~Unserved /\ PendingDone /\ host.phase = "idle"
  BY DEF Init, Unserved, PendingDone, NoPending
<1>2. SetupOK
  BY DEF Init, SetupOK
<1>3. GotOK
  BY DEF Init, GotOK
<1>4. UnservedOK /\ PassOK /\ IdleOK /\ DataOK /\ StatusOK
  BY <1>1 DEF UnservedOK, PassOK, IdleOK, DataOK, StatusOK, Init
<1>5. AgreeOK
  BY <1>1 DEF AgreeOK, Ahead, Init
<1> QED BY <1>2, <1>3, <1>4, <1>5 DEF ControlInv

(* Steps that only latch causes, or clear one that is not about transfers. *)
LEMMA OnlyCauses ==
  ASSUME Inv,
         UNCHANGED <<host, asked, got, rxFifo, txFifo, inArmed, stall, setupBuf, pending, device>>,
         \A c \in {"rst", "iep", "setup", "outDone"} : c \in causes' <=> c \in causes,
         "oep" \in latched' /\ "iep" \in causes' => "iep" \in latched',
         "oep" \in latched' => "oep" \in latched \/ "setup" \in causes \/ "outDone" \in causes
  PROVE  ControlInv'
<1>1. (Unserved' <=> Unserved) /\ (PendingDone' <=> PendingDone) /\ Current' = Current
  BY DEF Unserved, PendingDone, AnswerLen, Current
<1>2. \A q : AnswerLen(q)' = AnswerLen(q)
  BY DEF AnswerLen
<1>3. SetupOK'
  BY <1>1 DEF Inv, ControlInv, SetupOK
<1>4. UnservedOK'
  BY <1>1 DEF Inv, ControlInv, UnservedOK
<1>9. PassOK'
  BY <1>1 DEF Inv, ControlInv, PassOK, Unserved
<1>5. IdleOK'
  BY <1>1 DEF Inv, ControlInv, IdleOK
<1>6. DataOK' /\ StatusOK'
  BY <1>1, <1>2 DEF Inv, ControlInv, DataOK, StatusOK, Sent, Chunk, AnswerLen, Wanted, Current
<1>7. AgreeOK'
  BY <1>1 DEF Inv, ControlInv, AgreeOK, Ahead
<1>8. GotOK'
  BY <1>1 DEF Inv, ControlInv, GotOK
<1> QED BY <1>3, <1>4, <1>5, <1>6, <1>7, <1>8, <1>9 DEF ControlInv

(* A reset when the driver is caught up, whatever was before, or between   *)
(* transfers: no request is unserved.                                      *)
LEMMA BusResetKeeps ==
  ASSUME TypeInv, clean => ControlInv, BusReset, clean'
  PROVE  ControlInv'
<1>1. /\ (clean /\ host.phase = "idle") \/ CaughtUp
      /\ got' = << >> /\ host' = [phase |-> "idle", addr |-> 0, config |-> 0]
      /\ causes' = causes \cup {"rst", "enum"}
      /\ UNCHANGED <<asked, rxFifo, txFifo, inArmed, outArmed, stall, latched, setupBuf, pending, device>>
  BY DEF BusReset, drvVars
<1>2. /\ ~Unserved /\ ("iep" \in causes => PendingDone)
      /\ "oep" \in latched /\ "iep" \in causes => "iep" \in latched
  <2>1. CASE clean /\ host.phase = "idle"
    BY <2>1, PhaseServed DEF Inv, ControlInv, IdleOK, PassOK
  <2>2. CASE CaughtUp
    BY <2>2 DEF CaughtUp, Unserved
  <2> QED BY <1>1, <2>1, <2>2
<1>3. ~Unserved' /\ (PendingDone' <=> PendingDone) /\ Current' = Current
  BY <1>1, <1>2 DEF Unserved, PendingDone, AnswerLen, Current
<1>4. SetupOK'
  <2>1. \A k \in DOMAIN rxFifo' : rxFifo'[k].what = "outDone"
    BY <1>3 DEF Unserved
  <2> QED BY <1>3, <2>1 DEF SetupOK, Unserved
<1>8. PassOK'
  BY <1>1, <1>2 DEF PassOK
<1>5. UnservedOK'
  BY <1>3 DEF UnservedOK
<1>6. IdleOK'
  BY <1>1, <1>2, <1>3 DEF IdleOK
<1>7. DataOK' /\ StatusOK' /\ AgreeOK' /\ GotOK'
  BY <1>1 DEF DataOK, StatusOK, AgreeOK, GotOK
<1> QED BY <1>4, <1>5, <1>6, <1>7, <1>8 DEF ControlInv

(* A new request, between transfers or instead of one that stands still:   *)
(* nothing of the one before is left to be mistaken for it.                *)
LEMMA HostSetupKeeps ==
  ASSUME Inv, NEW q \in Kinds, HostSetup(q), clean'
  PROVE  ControlInv'
<1>1. /\ host.phase = "idle" \/ Quiet
      /\ "rst" \notin causes /\ device.addr = host.addr
      /\ host' = [host EXCEPT !.phase = IF q.kind = "read" THEN "dataIn" ELSE "statusIn"]
      /\ got' = << >> /\ stall' = FALSE /\ inArmed' = "no"
      /\ UNCHANGED <<resets, txFifo, outArmed, causes, latched, setupBuf, pending, device>>
  BY DEF HostSetup, drvVars
<1>2. /\ Current' = Current + 1 /\ asked'[Current'] = q
      /\ \A i \in 1 .. Current : asked'[i] = asked[i]
      /\ Len(rxFifo') = Len(rxFifo) + 2
      /\ \A k \in DOMAIN rxFifo : rxFifo'[k] = rxFifo[k]
      /\ rxFifo'[Len(rxFifo) + 1] = [what |-> "setup", request |-> Current']
      /\ rxFifo'[Len(rxFifo) + 2] = [what |-> "setupDone", request |-> Current']
  BY HostSetupType DEF Inv
<1>3. /\ ~Unserved /\ "setup" \notin causes /\ txFifo = << >>
      /\ "iep" \in causes => PendingDone
      /\ \A k \in DOMAIN rxFifo : rxFifo[k].what = "outDone"
  <2>1. CASE host.phase = "idle"
    <3>1. ~Unserved
      BY <2>1, PhaseServed
    <3> QED BY <1>1, <2>1, <3>1 DEF Unserved, Inv, ControlInv, IdleOK
  <2>2. CASE Quiet
    BY <2>2 DEF Unserved, Quiet, CaughtUp
  <2> QED BY <1>1, <2>1, <2>2
<1>13. device = [addr |-> host.addr, config |-> host.config]
  <2>1. device = [addr   |-> IF Ahead("address") THEN 1 ELSE host.addr,
                  config |-> IF Ahead("config") THEN 1 ELSE host.config]
    BY <1>1 DEF Inv, ControlInv, AgreeOK
  <2>2. CASE host.phase = "idle"
    BY <2>1, <2>2 DEF Ahead
  <2>3. CASE Quiet
    <3>1. ~Ahead("address") /\ ~Ahead("config")
      BY <2>3 DEF Ahead, Quiet, Inv, ControlInv, StatusOK
    <3> QED BY <2>1, <3>1
  <2> QED BY <1>1, <2>2, <2>3
<1>4. PendingDone' <=> PendingDone
  <2>1. pending.request # 0 => pending.request \in 1 .. Current
    BY NumberType DEF Inv, TypeInv, TypeOK, QueueOK, Number
  <2>2. pending.request # 0 => asked'[pending.request] = asked[pending.request]
    BY <1>2, <2>1
  <2>3. pending' = pending
    BY <1>1
  <2> QED BY <2>2, <2>3 DEF PendingDone, AnswerLen
<1>5. rxFifo \in Seq(Entry) /\ DOMAIN rxFifo' = 1 .. Len(rxFifo) + 2 /\ DOMAIN rxFifo = 1 .. Len(rxFifo)
      /\ Len(rxFifo) \in Nat
  <2>1. rxFifo \in Seq(Entry) /\ rxFifo' \in Seq(Entry)
    BY HostSetupType DEF Inv, TypeInv, TypeOK
  <2> QED BY <1>2, <2>1
<1>6. Unserved'
  BY <1>2, <1>5 DEF Unserved
<1>7. SetupOK'
  <2>1. ASSUME NEW k \in DOMAIN rxFifo'
        PROVE  /\ rxFifo'[k].what = "setup" =>
                    /\ k + 1 = Len(rxFifo') /\ rxFifo'[k].request = Current'
                    /\ rxFifo'[k + 1].what = "setupDone"
               /\ rxFifo'[k].what = "setupDone" => /\ k = Len(rxFifo')
                                                   /\ k = 1 => setupBuf' = Current'
    <3>1. CASE k \in DOMAIN rxFifo
      BY <1>2, <1>3, <3>1
    <3>2. CASE k = Len(rxFifo) + 1
      BY <1>2, <1>5, <3>2
    <3>3. CASE k = Len(rxFifo) + 2
      BY <1>2, <1>5, <3>3
    <3> QED BY <1>5, <3>1, <3>2, <3>3
  <2> QED BY <1>1, <1>3, <2>1 DEF SetupOK
<1>8. UnservedOK'
  <2>1. host'.phase = IF asked'[Current'].kind = "read" THEN "dataIn" ELSE "statusIn"
    BY <1>1, <1>2 DEF Inv, TypeInv, TypeOK
  <2> QED BY <1>1, <1>3, <1>4, <2>1 DEF UnservedOK
<1>9. host'.phase # "idle" /\ host'.phase # "statusOut"
      /\ host'.addr = host.addr /\ host'.config = host.config
  BY <1>1 DEF Inv, TypeInv, TypeOK
<1>10. PassOK' /\ IdleOK' /\ DataOK' /\ StatusOK'
  BY <1>1, <1>6, <1>9 DEF Inv, ControlInv, PassOK, IdleOK, DataOK, StatusOK
<1>11. AgreeOK'
  BY <1>1, <1>6, <1>9, <1>13 DEF AgreeOK, Ahead
<1>12. GotOK'
  BY <1>1 DEF GotOK
<1> QED BY <1>7, <1>8, <1>10, <1>11, <1>12 DEF ControlInv

(* The host takes a packet: the data stage goes on, or the answer is       *)
(* complete.                                                               *)
LEMMA HostInKeeps ==
  ASSUME Inv, HostIn
  PROVE  ControlInv'
<1>1. /\ host.phase \in {"dataIn", "statusIn"} /\ ~stall
      /\ inArmed = "empty" \/ (inArmed = "data" /\ txFifo # << >>)
      /\ txFifo' = (IF inArmed = "empty" THEN txFifo ELSE Tail(txFifo))
      /\ inArmed' = "no" /\ causes' = causes \cup {"iep"}
      /\ UNCHANGED <<asked, resets, clean, rxFifo, outArmed, stall, latched, setupBuf, pending, device>>
  BY DEF HostIn, drvVars
<1>2. /\ Taken \in Packet /\ got \in Seq(Packet)
      /\ got' \in Seq(Packet) /\ Len(got') = Len(got) + 1 /\ got'[Len(got) + 1] = Taken
      /\ \A i \in 1 .. Len(got) : got'[i] = got[i]
  BY TakenType DEF Inv, TypeInv, TypeOK
<1>3. ~Unserved /\ "rst" \notin causes /\ Current \in 1 .. Current
  BY <1>1, PhaseServed
<1>4. ~Unserved' /\ (PendingDone' <=> PendingDone) /\ Current' = Current
      /\ AnswerLen(Current)' = AnswerLen(Current)
  BY <1>1, <1>3 DEF Unserved, PendingDone, AnswerLen, Current
<1>5. PICK b \in Nat, A \in Nat, w \in Nat, m \in Nat, g \in Nat :
        /\ b = Bytes(got) /\ A = AnswerLen(Current) /\ w = asked[Current].wLength /\ m = MPS
        /\ A <= w /\ g = Len(got) /\ m # 0
        /\ Wanted \in Nat /\ Wanted <= w
        /\ A = Wanted \/ (A = MaxAnswer /\ A < Wanted)
  <2>1. Bytes(got) \in Nat /\ MPS \in Nat /\ Len(got) \in Nat
    BY <1>2, BytesType, ControlAssumption DEF Inv, TypeInv
  <2>2. /\ AnswerLen(Current) \in Nat /\ asked[Current].wLength \in Nat
        /\ AnswerLen(Current) <= asked[Current].wLength
        /\ Wanted \in Nat /\ Wanted <= asked[Current].wLength
        /\ AnswerLen(Current) = Wanted
             \/ (AnswerLen(Current) = MaxAnswer /\ AnswerLen(Current) < Wanted)
    BY <1>3, AnswerLenType DEF Inv, TypeInv, Wanted
  <2> QED BY <2>1, <2>2, ControlAssumption
<1>6. Bytes(got') = Taken.offset + Taken.len
  BY <1>2 DEF Bytes
<1>10. rxFifo = << >> /\ "outDone" \notin causes /\ "oep" \notin latched
  BY <1>1, <1>3 DEF Inv, ControlInv, PassOK
<1>7. SetupOK' /\ UnservedOK' /\ PassOK'
  BY <1>1, <1>3, <1>4, <1>10 DEF SetupOK, UnservedOK, PassOK, Unserved
<1>8. CASE host.phase = "dataIn"
  <2>1. /\ b = g * m /\ b <= A
        /\ txFifo # << >> => txFifo = <<Chunk>> /\ inArmed = "data" /\ b < A
        /\ inArmed = "empty" => A = 0
        /\ \/ pending = [request |-> Current, offset |-> Sent]
           \/ pending = NoPending /\ Sent = A
    BY <1>3, <1>5, <1>8 DEF Inv, ControlInv, DataOK
  <2>2. /\ txFifo' = << >> /\ Taken.request = Current /\ Taken.offset = b
        /\ Taken.len = (IF inArmed = "empty" THEN 0 ELSE Smaller(m, A - b))
        /\ Sent = b + Taken.len
    <3>1. CASE inArmed = "empty"
      BY <1>1, <1>5, <2>1, <3>1 DEF Taken, Sent
    <3>2. CASE inArmed # "empty"
      <4>1. txFifo = <<Chunk>> /\ txFifo' = Tail(txFifo) /\ Taken = Head(txFifo)
        BY <1>1, <2>1, <3>2 DEF Taken
      <4>2. txFifo' = << >> /\ Taken = Chunk /\ txFifo # << >>
        BY <4>1
      <4> QED BY <1>5, <3>2, <4>2 DEF Chunk, Sent
    <3> QED BY <3>1, <3>2
  <2>3. PICK n \in Nat : n = Taken.len /\ b + n <= A /\ (n # m => b + n = A)
    <3>1. CASE inArmed = "empty"
      BY <1>5, <2>1, <2>2, <3>1
    <3>2. CASE inArmed # "empty"
      BY <1>5, <2>1, <2>2, <3>2 DEF Smaller
    <3> QED BY <3>1, <3>2
  <2>4. GotOK'
    <3>1. ASSUME NEW i \in 1 .. g + 1
          PROVE  got'[i].request = Current /\ got'[i].offset = (i - 1) * MPS
      <4>1. CASE i = g + 1
        BY <1>2, <1>5, <2>1, <2>2, <4>1
      <4>2. CASE i \in 1 .. g
        <5>1. i \in DOMAIN got /\ got'[i] = got[i]
          BY <1>2, <1>5, <4>2
        <5>2. got[i].request = Current /\ got[i].offset = (i - 1) * MPS
          BY <5>1 DEF Inv, ControlInv, GotOK
        <5> QED BY <5>1, <5>2
      <4> QED BY <4>1, <4>2
    <3> QED BY <1>2, <1>4, <1>5, <3>1 DEF GotOK
  <2>5. Bytes(got') = b + n
    BY <1>6, <2>2, <2>3
  <2>6. CASE n = m /\ b + n < w
    <3>1. host' = host
      BY <1>5, <1>8, <2>2, <2>3, <2>6 DEF HostIn
    <3>2. IdleOK' /\ StatusOK'
      BY <1>1, <1>3, <1>8, <3>1 DEF IdleOK, StatusOK
    <3>3. AgreeOK'
      BY <1>1, <1>8, <3>1 DEF Inv, ControlInv, AgreeOK, Ahead
    <3>4. Bytes(got') = Len(got') * MPS
      <4>1. (g + 1) * m = g * m + m
        BY <1>5
      <4> QED BY <1>2, <1>5, <2>1, <2>5, <2>6, <4>1
    <3>5. Sent' = b + n
      BY <2>2, <2>5, <2>3 DEF Sent
    <3>6. DataOK'
      BY <1>1, <1>4, <1>5, <2>1, <2>2, <2>3, <2>5, <3>4, <3>5 DEF DataOK
    <3> QED BY <1>7, <2>4, <3>2, <3>3, <3>6 DEF ControlInv
  <2>7. CASE ~(n = m /\ b + n < w)
    <3>1. host' = [host EXCEPT !.phase = "statusOut"]
      BY <1>5, <1>8, <2>2, <2>3, <2>7 DEF HostIn
    <3>2. b + n = A
      BY <1>5, <2>3, <2>7
    <3>3. host'.phase = "statusOut" /\ host'.addr = host.addr /\ host'.config = host.config
      BY <3>1 DEF Inv, TypeInv, TypeOK
    <3>4. PendingDone
      BY <1>5, <2>1, <2>2, <2>3, <3>2 DEF PendingDone, NoPending
    <3>5. IdleOK' /\ DataOK'
      BY <1>1, <1>3, <3>3 DEF IdleOK, DataOK
    <3>8. A = Wanted
      <4> SUFFICES ASSUME A = MaxAnswer, A < Wanted PROVE FALSE
        BY <1>5
      <4>1. n # m
        BY <1>5, <2>3, <2>7, <3>2
      <4>2. A # 0
        BY <1>5, ControlAssumption
      <4>3. b < A /\ n = Smaller(m, A - b)
        BY <1>1, <2>1, <2>2, <2>3, <4>2
      <4>4. PICK c \in Nat : A = c * m
        <5>1. PICK c \in 1 .. MaxAnswer : MaxAnswer = c * MPS
          BY ControlAssumption
        <5>2. c \in Nat /\ c * MPS = c * m
          BY <1>5, <5>1
        <5>3. A = c * m
          BY <5>1, <5>2
        <5> QED BY <5>2, <5>3
      <4>5. g * m < c * m
        BY <2>1, <4>3, <4>4
      <4>6. m <= A - b
        BY <1>5, <2>1, <4>4, <4>5, WholePacket
      <4> QED BY <1>5, <4>1, <4>3, <4>6 DEF Smaller
    <3>9. Wanted' = Wanted
      BY <1>1, <1>4 DEF Wanted
    <3>6. StatusOK'
      BY <1>4, <1>5, <2>2, <2>5, <3>2, <3>3, <3>4, <3>8, <3>9 DEF StatusOK
    <3>7. AgreeOK'
      BY <1>1, <1>8, <3>3 DEF Inv, ControlInv, AgreeOK, Ahead
    <3> QED BY <1>7, <2>4, <3>5, <3>6, <3>7 DEF ControlInv
  <2> QED BY <2>6, <2>7
<1>9. CASE host.phase = "statusIn"
  <2>1. /\ got = << >> /\ txFifo = << >> /\ inArmed = "empty" /\ PendingDone
    BY <1>1, <1>3, <1>9 DEF Inv, ControlInv, StatusOK
  <2>2. Taken = [request |-> Current, offset |-> 0, len |-> 0] /\ Len(got) = 0
    BY <2>1 DEF Taken, Bytes
  <2>3. host' = [phase |-> "idle",
                 addr   |-> IF asked[Current].kind = "address" THEN 1 ELSE host.addr,
                 config |-> IF asked[Current].kind = "config" THEN 1 ELSE host.config]
    BY <1>9 DEF HostIn
  <2>4. IdleOK'
    BY <1>1, <1>3, <1>4, <2>1, <2>3 DEF IdleOK
  <2>5. DataOK' /\ StatusOK'
    BY <2>3 DEF DataOK, StatusOK
  <2>6. AgreeOK'
    BY <1>1, <1>3, <1>9, <2>3 DEF Inv, ControlInv, AgreeOK, Ahead
  <2>7. GotOK'
    BY <1>2, <1>4, <1>5, <2>2 DEF GotOK
  <2> QED BY <1>7, <2>4, <2>5, <2>6, <2>7 DEF ControlInv
<1> QED BY <1>1, <1>8, <1>9

(* The status stage of a read.                                             *)
LEMMA HostStatusOutKeeps ==
  ASSUME Inv, HostStatusOut
  PROVE  ControlInv'
<1>1. /\ host.phase = "statusOut" /\ host' = [host EXCEPT !.phase = "idle"]
      /\ UNCHANGED <<asked, got, resets, clean, txFifo, inArmed, stall, causes, latched, setupBuf, pending, device>>
  BY DEF HostStatusOut, drvVars
<1>2. /\ Len(rxFifo') = Len(rxFifo) + 1
      /\ \A k \in DOMAIN rxFifo : rxFifo'[k] = rxFifo[k]
      /\ rxFifo'[Len(rxFifo) + 1].what = "outDone"
      /\ rxFifo \in Seq(Entry) /\ rxFifo' \in Seq(Entry)
  BY HostStatusOutType DEF Inv, TypeInv, TypeOK
<1>3. ~Unserved /\ "rst" \notin causes /\ txFifo = << >> /\ PendingDone
  BY <1>1, PhaseServed DEF Inv, ControlInv, StatusOK
<1>4. "setup" \notin causes /\ \A k \in DOMAIN rxFifo' : rxFifo'[k].what = "outDone"
  <2>1. "setup" \notin causes /\ \A k \in DOMAIN rxFifo : rxFifo[k].what = "outDone"
    BY <1>3 DEF Unserved
  <2>2. \A k \in DOMAIN rxFifo' : k \in DOMAIN rxFifo \/ k = Len(rxFifo) + 1
    BY <1>2
  <2> QED BY <1>2, <2>1, <2>2
<1>5. ~Unserved' /\ (PendingDone' <=> PendingDone) /\ Current' = Current
  BY <1>1, <1>4 DEF Unserved, PendingDone, AnswerLen, Current
<1>6. host'.phase = "idle" /\ host'.addr = host.addr /\ host'.config = host.config
  BY <1>1 DEF Inv, TypeInv, TypeOK
<1>7. SetupOK' /\ UnservedOK'
  BY <1>1, <1>4, <1>5 DEF SetupOK, UnservedOK
<1>8. PassOK' /\ IdleOK' /\ DataOK' /\ StatusOK'
  BY <1>1, <1>3, <1>5, <1>6 DEF Inv, ControlInv, PassOK, IdleOK, DataOK, StatusOK
<1>9. AgreeOK' /\ GotOK'
  BY <1>1, <1>5, <1>6 DEF Inv, ControlInv, AgreeOK, Ahead, GotOK
<1> QED BY <1>7, <1>8, <1>9 DEF ControlInv

(* A stall: only a refused request has one.                                *)
LEMMA HostStalledKeeps ==
  ASSUME Inv, HostStalled
  PROVE  ControlInv'
<1>1. /\ host.phase \in {"dataIn", "statusIn"} /\ stall
      /\ host' = [host EXCEPT !.phase = "idle"]
      /\ UNCHANGED <<asked, got, resets, clean, rxFifo, txFifo, inArmed, outArmed, stall, causes,
                     latched, setupBuf, pending, device>>
  BY DEF HostStalled, drvVars, coreVars
<1>2. ~Unserved /\ "rst" \notin causes
  BY <1>1, PhaseServed
<1>3. host.phase = "statusIn" /\ txFifo = << >> /\ "iep" \notin causes
      /\ asked[Current].kind = "refuse"
  BY <1>1, <1>2 DEF Inv, ControlInv, DataOK, StatusOK
<1>4. ~Unserved' /\ Current' = Current
  BY <1>1, <1>2 DEF Unserved, Current
<1>5. host'.phase = "idle" /\ host'.addr = host.addr /\ host'.config = host.config
  BY <1>1 DEF Inv, TypeInv, TypeOK
<1>6. SetupOK' /\ UnservedOK'
  BY <1>1, <1>4 DEF Inv, ControlInv, SetupOK, UnservedOK
<1>7. PassOK' /\ IdleOK' /\ DataOK' /\ StatusOK'
  BY <1>1, <1>2, <1>3, <1>5 DEF Inv, ControlInv, PassOK, IdleOK, DataOK, StatusOK
<1>8. AgreeOK' /\ GotOK'
  BY <1>1, <1>3, <1>4, <1>5 DEF Inv, ControlInv, AgreeOK, Ahead, GotOK
<1> QED BY <1>6, <1>7, <1>8 DEF ControlInv

(* A new pass latches every cause together.                                *)
LEMMA PollKeeps ==
  ASSUME Inv, usbPollLoop
  PROVE  ControlInv'
BY OnlyCauses DEF usbPollLoop, Raised, hostVars, coreVars

(* The end of enumeration is not about transfers.                          *)
LEMMA EnumDoneKeeps ==
  ASSUME Inv, handleUSBEnumDone
  PROVE  ControlInv'
<1>1. /\ latched' = latched \ {"enum"} /\ causes' = causes \ {"enum"}
      /\ UNCHANGED <<host, asked, got, rxFifo, txFifo, inArmed, stall, setupBuf, pending, device>>
  BY DEF handleUSBEnumDone, hostVars
<1>2. "oep" \in latched /\ "iep" \in causes => "iep" \in latched
  BY DEF Inv, ControlInv, PassOK
<1> QED BY <1>1, <1>2, OnlyCauses

(* The reset is served: the device is where the host has been since.       *)
LEMMA ResetKeeps ==
  ASSUME Inv, handleUSBReset
  PROVE  ControlInv'
<1>1. /\ causes' = causes \ {"rst"} /\ txFifo' = << >> /\ inArmed' \in {inArmed, "no"}
      /\ device' = [addr |-> 0, config |-> 0]
      /\ UNCHANGED <<host, asked, got, resets, clean, rxFifo, stall, setupBuf, pending>>
  BY DEF handleUSBReset, hostVars
<1>2. host = [phase |-> "idle", addr |-> 0, config |-> 0]
  BY DEF handleUSBReset, Serving, Inv, TypeInv, QueueOK, ControlInv, IdleOK
<1>3. ~Unserved
  BY <1>2, PhaseServed
<1>4. ~Unserved' /\ (PendingDone' <=> PendingDone) /\ Current' = Current
  BY <1>1, <1>3 DEF Unserved, PendingDone, AnswerLen, Current
<1>5. SetupOK' /\ UnservedOK'
  BY <1>1, <1>4 DEF Inv, ControlInv, SetupOK, UnservedOK
<1>10. PassOK'
  BY <1>1, <1>2 DEF handleUSBReset, Inv, ControlInv, PassOK
<1>6. IdleOK'
  BY <1>1, <1>2, <1>4 DEF Inv, ControlInv, IdleOK
<1>7. DataOK' /\ StatusOK'
  BY <1>1, <1>2 DEF DataOK, StatusOK
<1>8. AgreeOK'
  BY <1>1, <1>2 DEF AgreeOK, Ahead
<1>9. GotOK'
  BY <1>1, <1>4 DEF Inv, ControlInv, GotOK
<1> QED BY <1>5, <1>6, <1>7, <1>8, <1>9, <1>10 DEF ControlInv

(* One entry of the receive FIFO: an unserved request moves on and stays   *)
(* unserved.                                                               *)
LEMMA RxFIFOKeeps ==
  ASSUME Inv, handleUSBRxFIFO
  PROVE  ControlInv'
<1>1. UNCHANGED <<host, asked, got, resets, clean, txFifo, inArmed, outArmed, stall, pending, device>>
  BY DEF handleUSBRxFIFO, hostVars
<1>2. "oep" \in latched /\ "iep" \in causes => "iep" \in latched
  BY DEF Inv, ControlInv, PassOK
<1>3. CASE rxFifo = << >>
  <2>1. latched' = latched \ {"rx"} /\ UNCHANGED <<rxFifo, causes, setupBuf>>
    BY <1>3 DEF handleUSBRxFIFO
  <2> QED BY <1>2, <1>1, <2>1, OnlyCauses
<1>4. CASE rxFifo # << >>
  <2>1. /\ rxFifo' = Tail(rxFifo) /\ latched' = latched
        /\ setupBuf' = (IF Head(rxFifo).what = "setup" THEN Head(rxFifo).request ELSE setupBuf)
        /\ causes' = CASE Head(rxFifo).what = "setup"     -> causes
                      [] Head(rxFifo).what = "setupDone" -> causes \cup {"setup"}
                      [] Head(rxFifo).what = "outDone"   -> causes \cup {"outDone"}
    BY <1>4 DEF handleUSBRxFIFO
  <2>2. rxFifo \in Seq(Entry) /\ rxFifo[1] \in Entry
        /\ rxFifo[1].what \in {"setup", "setupDone", "outDone"}
    <3>1. rxFifo \in Seq(Entry) /\ rxFifo[1] \in Entry
      BY <1>4 DEF Inv, TypeInv, TypeOK
    <3> QED BY <3>1 DEF Entry
  <2>3. PICK l \in Nat \ {0} :
          /\ l = Len(rxFifo) /\ Len(rxFifo') = l - 1
          /\ DOMAIN rxFifo = 1 .. l /\ DOMAIN rxFifo' = 1 .. (l - 1)
          /\ Head(rxFifo) = rxFifo[1]
          /\ \A k \in DOMAIN rxFifo' : k + 1 \in DOMAIN rxFifo /\ rxFifo'[k] = rxFifo[k + 1]
    <3>1. rxFifo' \in Seq(Entry)
      BY <1>4, <2>1, <2>2, Popped
    <3>2. DOMAIN rxFifo' = 1 .. Len(rxFifo')
      BY <3>1
    <3> QED BY <1>4, <2>1, <2>2, <3>2, Popped
  <2>4. \A k \in 1 .. l :
          /\ rxFifo[k].what = "setup" => /\ k + 1 = l /\ rxFifo[k].request = Current
                                         /\ rxFifo[k + 1].what = "setupDone"
          /\ rxFifo[k].what = "setupDone" => k = l /\ (k = 1 => setupBuf = Current)
    BY <2>3 DEF Inv, ControlInv, SetupOK
  <2>5. Current' = Current /\ (PendingDone' <=> PendingDone)
    BY <1>1 DEF Current, PendingDone, AnswerLen
  <2>6. Unserved' => Unserved
    <3>1. CASE "setup" \in causes'
      BY <2>1, <2>2, <2>3, <3>1 DEF Unserved
    <3>2. CASE "setup" \notin causes'
      <4> SUFFICES ASSUME NEW k \in DOMAIN rxFifo', rxFifo'[k].what # "outDone" PROVE Unserved
        BY <3>2 DEF Unserved
      <4> QED BY <2>3 DEF Unserved
    <3> QED BY <3>1, <3>2
  <2>7. Unserved => Unserved'
    <3>1. CASE "setup" \in causes
      BY <2>1, <2>2, <2>3, <3>1 DEF Unserved
    <3>2. CASE "setup" \notin causes
      <4> SUFFICES ASSUME NEW k \in 1 .. l, rxFifo[k].what # "outDone" PROVE Unserved'
        BY <2>3, <3>2 DEF Unserved
      <4>1. CASE k = 1 /\ rxFifo[k].what = "setupDone"
        BY <2>1, <2>3, <4>1 DEF Unserved
      <4>2. CASE k = 1 /\ rxFifo[k].what = "setup"
        <5>1. 1 \in DOMAIN rxFifo' /\ rxFifo'[1] = rxFifo[1 + 1] /\ rxFifo[1 + 1].what = "setupDone"
          BY <2>3, <2>4, <4>2
        <5> QED BY <5>1 DEF Unserved
      <4>3. CASE k # 1
        <5>1. k - 1 \in DOMAIN rxFifo' /\ (k - 1) + 1 = k
          BY <2>3, <4>3
        <5>2. rxFifo'[k - 1] = rxFifo[k]
          BY <2>3, <5>1
        <5> QED BY <5>1, <5>2 DEF Unserved
      <4>4. rxFifo[1].what \in {"setup", "setupDone", "outDone"}
        BY <2>2 DEF Entry
      <4> QED BY <4>1, <4>2, <4>3, <4>4
    <3> QED BY <3>1, <3>2
  <2>8. SetupOK'
    <3>1. ASSUME NEW k \in DOMAIN rxFifo'
          PROVE  /\ rxFifo'[k].what = "setup" =>
                      /\ k + 1 = Len(rxFifo') /\ rxFifo'[k].request = Current
                      /\ rxFifo'[k + 1].what = "setupDone"
                 /\ rxFifo'[k].what = "setupDone" => /\ k = Len(rxFifo')
                                                     /\ k = 1 => setupBuf' = Current
      <4>1. k \in 1 .. (l - 1) /\ k + 1 \in 1 .. l /\ rxFifo'[k] = rxFifo[k + 1]
        BY <2>3
      <4>2. CASE rxFifo'[k].what = "setup"
        <5>1. (k + 1) + 1 = l /\ rxFifo[k + 1].request = Current
              /\ rxFifo[(k + 1) + 1].what = "setupDone"
          BY <2>4, <4>1, <4>2
        <5>2. k + 1 \in DOMAIN rxFifo'
          BY <2>3, <4>1, <5>1
        <5>3. rxFifo'[k + 1] = rxFifo[(k + 1) + 1]
          BY <2>3, <5>2
        <5> QED BY <2>3, <4>1, <4>2, <5>1, <5>3
      <4>3. CASE rxFifo'[k].what = "setupDone"
        <5>1. k + 1 = l
          BY <2>4, <4>1, <4>3
        <5>2. ASSUME k = 1 PROVE setupBuf' = Current
          <6>1. 2 \in DOMAIN rxFifo /\ rxFifo[2].what = "setupDone" /\ 2 # 1 /\ 2 - 1 = 1
            BY <2>3, <4>1, <4>3, <5>2
          <6>2. rxFifo[1].what = "setup"
            BY <6>1 DEF Inv, TypeInv, QueueOK
          <6>3. rxFifo[1].request = Current
            BY <2>3, <2>4, <6>2
          <6> QED BY <2>1, <2>3, <6>2, <6>3
        <5> QED BY <2>3, <4>3, <5>1, <5>2
      <4> QED BY <4>2, <4>3
    <3>2. ASSUME "setup" \in causes' PROVE setupBuf' = Current /\ rxFifo' = << >>
      <4>1. "setup" \notin causes
        BY <1>4 DEF Inv, ControlInv, SetupOK
      <4>2. rxFifo[1].what = "setupDone"
        BY <2>1, <2>2, <2>3, <3>2, <4>1
      <4>3. 1 = l /\ setupBuf = Current
        BY <2>3, <2>4, <4>2
      <4>4. rxFifo' \in Seq(Entry) /\ Len(rxFifo') = 0
        BY <1>4, <2>1, <2>2, <2>3, <4>3, Popped
      <4> QED BY <2>1, <2>3, <4>2, <4>3, <4>4
    <3> QED BY <2>5, <3>1, <3>2 DEF SetupOK
  <2>9. \A c \in {"rst", "iep"} : c \in causes' <=> c \in causes
    BY <2>1, <2>2, <2>3
  <2>14. PassOK'
    <3>1. host.phase = "idle" \/ Unserved
      BY <1>4 DEF Inv, ControlInv, PassOK
    <3> QED BY <1>2, <1>1, <2>1, <2>7, <2>9, <3>1 DEF PassOK
  <2>10. UnservedOK'
    <3> SUFFICES ASSUME Unserved PROVE UnservedOK'
      BY <2>6 DEF UnservedOK
    <3> QED BY <1>2, <1>1, <2>1, <2>5, <2>9 DEF Inv, ControlInv, UnservedOK
  <2>11. IdleOK'
    BY <1>1, <2>5, <2>9 DEF Inv, ControlInv, IdleOK
  <2>12. DataOK' /\ StatusOK'
    BY <1>1, <2>5, <2>6, <2>7, <2>9 DEF Inv, ControlInv, DataOK, StatusOK, Sent, Chunk, AnswerLen, Wanted
  <2>13. AgreeOK' /\ GotOK'
    BY <1>1, <2>5, <2>6, <2>7, <2>9 DEF Inv, ControlInv, AgreeOK, Ahead, GotOK
  <2> QED BY <2>8, <2>10, <2>11, <2>12, <2>13, <2>14 DEF ControlInv
<1> QED BY <1>3, <1>4

(* The IN interrupt: the next chunk of the current answer, or nothing.     *)
LEMMA InEPKeeps ==
  ASSUME Inv, handleUSBInEP
  PROVE  ControlInv'
<1>1. /\ latched' = latched \ {"iep"} /\ causes' = causes \ {"iep"} /\ "iep" \in causes
      /\ UNCHANGED <<host, asked, got, resets, clean, rxFifo, outArmed, stall, setupBuf, device>>
  BY DEF handleUSBInEP, hostVars, Serving, Inv, TypeInv, QueueOK
<1>2. (Unserved' <=> Unserved) /\ Current' = Current /\ AnswerLen(Current)' = AnswerLen(Current)
  BY <1>1 DEF Unserved, Current, AnswerLen
<1>3. SetupOK'
  BY <1>1, <1>2 DEF Inv, ControlInv, SetupOK
<1>4. AgreeOK' /\ GotOK' /\ PassOK'
  BY <1>1, <1>2 DEF Inv, ControlInv, AgreeOK, Ahead, GotOK, PassOK
<1>8. Wanted' = Wanted
  BY <1>1, <1>2 DEF Wanted
<1>5. ASSUME host.phase = "dataIn", ~Unserved
      PROVE  /\ inArmed = "no" /\ txFifo = << >> /\ Sent = Bytes(got)
             /\ Bytes(got) \in Nat /\ AnswerLen(Current) \in Nat /\ Current \in Nat \ {0}
             /\ Bytes(got) <= AnswerLen(Current)
  <2>1. inArmed = "no" /\ txFifo = << >> /\ Bytes(got) <= AnswerLen(Current)
    BY <1>1, <1>5 DEF Inv, ControlInv, DataOK
  <2>2. Bytes(got) \in Nat /\ AnswerLen(Current) \in Nat /\ Current \in Nat \ {0}
    BY <1>5, PhaseServed, BytesType, AnswerLenType, NumberType DEF Inv, TypeInv
  <2> QED BY <2>1, <2>2 DEF Sent
<1>6. CASE PendingDone
  <2>1. pending' = NoPending /\ UNCHANGED <<inArmed, txFifo>>
    BY <1>6 DEF handleUSBInEP, PendingDone
  <2>2. PendingDone'
    BY <2>1 DEF PendingDone, NoPending
  <2>3. UnservedOK' /\ IdleOK'
    BY <1>1, <1>2, <2>1, <2>2 DEF Inv, ControlInv, UnservedOK, IdleOK
  <2>4. StatusOK'
    BY <1>1, <1>2, <1>8, <2>1, <2>2 DEF Inv, ControlInv, StatusOK
  <2>5. DataOK'
    <3> SUFFICES ASSUME host.phase = "dataIn", ~Unserved PROVE DataOK'
      BY <1>1, <1>2 DEF DataOK
    <3>1. Bytes(got) = AnswerLen(Current)
      BY <1>5, <1>6 DEF PendingDone, Inv, ControlInv, DataOK
    <3>2. Sent' = Bytes(got)
      BY <1>1, <1>5, <2>1 DEF Sent
    <3> QED BY <1>1, <1>2, <1>5, <2>1, <3>1, <3>2 DEF Inv, ControlInv, DataOK
  <2> QED BY <1>3, <1>4, <2>3, <2>4, <2>5 DEF ControlInv
<1>7. CASE ~PendingDone
  <2>1. host.phase = "dataIn" /\ ~Unserved
    <3>1. ~Unserved
      BY <1>1, <1>7 DEF Inv, ControlInv, UnservedOK
    <3> QED BY <1>1, <1>7, <3>1 DEF Inv, ControlInv, IdleOK, StatusOK, TypeInv, TypeOK
  <2>2. pending = [request |-> Current, offset |-> Bytes(got)]
        /\ Bytes(got) < AnswerLen(Current)
    BY <1>5, <1>7, <2>1 DEF PendingDone, NoPending, Inv, ControlInv, DataOK
  <2>3. PICK n \in Nat \ {0} : n = Smaller(MPS, AnswerLen(Current) - Bytes(got))
    BY <1>5, <2>1, <2>2, ControlAssumption DEF Smaller
  <2>4. SendChunk(Current, Bytes(got), n) /\ pending' = [pending EXCEPT !.offset = @ + n]
    BY <1>7, <2>2, <2>3 DEF handleUSBInEP, PendingDone
  <2>5. Chunk' = Chunk /\ Chunk.len = n
    BY <1>1, <1>2, <2>3 DEF Chunk
  <2>6. inArmed' = "data" /\ txFifo' = <<Chunk>>
    BY <1>5, <2>1, <2>3, <2>4 DEF SendChunk, Chunk
  <2>7. Sent' = Bytes(got) + n /\ pending' = [request |-> Current, offset |-> Bytes(got) + n]
    BY <1>1, <2>2, <2>4, <2>5, <2>6 DEF Sent
  <2>8. DataOK'
    BY <1>1, <1>2, <2>1, <2>2, <2>5, <2>6, <2>7 DEF Inv, ControlInv, DataOK
  <2>9. UnservedOK' /\ IdleOK' /\ StatusOK'
    BY <1>1, <1>2, <2>1, PhaseServed DEF UnservedOK, IdleOK, StatusOK
  <2> QED BY <1>3, <1>4, <2>8, <2>9 DEF ControlInv
<1> QED BY <1>6, <1>7

(* The SETUP interrupt: the current request is served.                     *)
LEMMA SetupServed ==
  ASSUME Inv, handleUSBOutEP, "setup" \in causes
  PROVE  ControlInv'
<1>1. /\ latched = {"oep"} /\ latched' = {} /\ causes' = causes \ {"setup", "outDone"}
      /\ handleStandardSetup(setupBuf) /\ rxFifo = << >>
      /\ UNCHANGED <<host, asked, got, resets, clean, rxFifo, setupBuf>>
  BY DEF handleUSBOutEP, hostVars, Serving, Inv, ControlInv, SetupOK
<1>2. setupBuf = Current /\ Current \in 1 .. Current
  BY <1>1, OutEPType DEF Inv, ControlInv, SetupOK
<1>3. PICK kind \in RequestKinds, A \in Nat, m \in Nat \ {0} :
        kind = asked[Current].kind /\ A = AnswerLen(Current) /\ m = MPS
  BY <1>2, AnswerLenType, ControlAssumption DEF Inv, TypeInv
<1>4. Unserved
  BY <1>1 DEF Unserved
<1>5. /\ host.phase = IF kind = "read" THEN "dataIn" ELSE "statusIn"
      /\ got = << >> /\ inArmed = "no" /\ ~stall /\ txFifo = << >> /\ "iep" \notin causes
      /\ "rst" \notin causes
  <2>1. /\ host.phase = IF kind = "read" THEN "dataIn" ELSE "statusIn"
        /\ got = << >> /\ inArmed = "no" /\ ~stall /\ txFifo = << >> /\ "iep" \notin causes
    BY <1>1, <1>3, <1>4 DEF Inv, ControlInv, UnservedOK, PassOK
  <2> QED BY <2>1, PhaseServed
<1>6. ~Unserved' /\ Current' = Current /\ AnswerLen(Current)' = AnswerLen(Current)
  BY <1>1 DEF Unserved, Current, AnswerLen
<1>7. SetupOK' /\ UnservedOK' /\ PassOK'
  BY <1>1, <1>6 DEF SetupOK, UnservedOK, PassOK
<1>8. IdleOK' /\ GotOK'
  BY <1>1, <1>5 DEF IdleOK, GotOK
<1>9. device = [addr |-> host.addr, config |-> host.config]
  BY <1>4, <1>5 DEF Inv, ControlInv, AgreeOK, Ahead
<1>10. CASE kind = "read"
  <2>1. /\ SendChunk(Current, 0, Smaller(A, m))
        /\ pending' = IF A > m THEN [request |-> Current, offset |-> m] ELSE NoPending
        /\ UNCHANGED <<stall, device>>
    BY <1>1, <1>2, <1>3, <1>10 DEF handleStandardSetup, sendUSBPacket
  <2>2. Bytes(got) = 0 /\ Bytes(got') = 0 /\ Len(got') = 0 /\ Smaller(A, m) = Smaller(m, A)
        /\ Smaller(A, m) \in Nat
    BY <1>1, <1>3, <1>5 DEF Bytes, Smaller
  <2>3. Chunk' = [request |-> Current, offset |-> 0, len |-> Smaller(A, m)]
    <3>1. A - 0 = A
      OBVIOUS
    <3> QED BY <1>3, <1>6, <2>2, <3>1 DEF Chunk
  <2>4. /\ txFifo' # << >> => txFifo' = <<Chunk'>> /\ inArmed' = "data" /\ A # 0
        /\ inArmed' = "empty" => A = 0
        /\ Sent' = Smaller(A, m)
    <3>1. CASE A = 0
      BY <1>3, <1>5, <2>1, <2>2, <3>1 DEF SendChunk, Sent, Smaller
    <3>2. CASE A # 0
      <4>1. Smaller(A, m) # 0
        BY <1>3, <3>2 DEF Smaller
      <4>2. inArmed' = "data" /\ txFifo' = <<Chunk'>>
        BY <1>5, <2>1, <2>3, <4>1 DEF SendChunk
      <4> QED BY <2>2, <2>3, <3>2, <4>2 DEF Sent
    <3> QED BY <3>1, <3>2
  <2>5. DataOK'
    <3>1. \/ pending' = [request |-> Current, offset |-> Sent']
          \/ pending' = NoPending /\ Sent' = A
      BY <1>3, <2>1, <2>4 DEF Smaller
    <3>2. Bytes(got') = Len(got') * MPS /\ Bytes(got') <= A
      BY <1>3, <2>2
    <3> QED BY <1>1, <1>3, <1>5, <1>6, <2>1, <2>2, <2>4, <3>1, <3>2 DEF DataOK
  <2>6. StatusOK' /\ AgreeOK'
    BY <1>1, <1>5, <1>9, <1>10, <2>1 DEF StatusOK, AgreeOK, Ahead
  <2> QED BY <1>7, <1>8, <2>5, <2>6 DEF ControlInv
<1>11. CASE kind \in {"write", "address", "config"}
  <2>1. /\ SendChunk(Current, 0, Smaller(0, m)) /\ stall' = stall
        /\ pending' = IF 0 > m THEN [request |-> Current, offset |-> m] ELSE NoPending
        /\ device' = [addr   |-> IF kind = "address" THEN 1 ELSE device.addr,
                      config |-> IF kind = "config" THEN 1 ELSE device.config]
    <3>1. sendUSBPacket(Current, 0) /\ stall' = stall
      BY <1>1, <1>2, <1>3, <1>11 DEF handleStandardSetup
    <3>2. device' = [addr   |-> IF kind = "address" THEN 1 ELSE device.addr,
                     config |-> IF kind = "config" THEN 1 ELSE device.config]
      BY <1>1, <1>2, <1>3, <1>9, <1>11 DEF handleStandardSetup
    <3> QED BY <1>3, <3>1, <3>2 DEF sendUSBPacket
  <2>2. inArmed' = "empty" /\ txFifo' = << >> /\ pending' = NoPending
    BY <1>3, <1>5, <2>1 DEF SendChunk, Smaller
  <2>3. PendingDone'
    BY <2>2 DEF PendingDone, NoPending
  <2>4. DataOK' /\ StatusOK'
    BY <1>1, <1>5, <1>11, <2>1, <2>2, <2>3 DEF DataOK, StatusOK
  <2>5. AgreeOK'
    BY <1>1, <1>3, <1>5, <1>6, <1>9, <1>11, <2>1 DEF AgreeOK, Ahead
  <2> QED BY <1>7, <1>8, <2>4, <2>5 DEF ControlInv
<1>12. CASE kind \in {"refuse", "ignore"}
  <2>1. /\ stall' = (kind = "refuse") /\ UNCHANGED <<inArmed, txFifo, pending, device>>
    BY <1>1, <1>2, <1>3, <1>5, <1>12 DEF handleStandardSetup, Inv, TypeInv, TypeOK
  <2>2. DataOK' /\ StatusOK'
    BY <1>1, <1>3, <1>5, <1>6, <1>12, <2>1 DEF DataOK, StatusOK
  <2>3. AgreeOK'
    BY <1>1, <1>3, <1>5, <1>6, <1>9, <1>12, <2>1 DEF AgreeOK, Ahead
  <2> QED BY <1>7, <1>8, <2>2, <2>3 DEF ControlInv
<1> QED BY <1>10, <1>11, <1>12 DEF RequestKinds

(* An XFERCOMPL alone is only cleared.                                     *)
LEMMA OutEPKeeps ==
  ASSUME Inv, handleUSBOutEP
  PROVE  ControlInv'
<1>1. CASE "setup" \in causes
  BY <1>1, SetupServed
<1>2. CASE "setup" \notin causes
  <2>1. /\ latched' = {} /\ causes' = causes \ {"setup", "outDone"}
        /\ UNCHANGED <<host, asked, got, rxFifo, setupBuf, inArmed, txFifo, pending, stall, device>>
    BY <1>2 DEF handleUSBOutEP, hostVars
  <2>2. (Unserved' <=> Unserved) /\ (PendingDone' <=> PendingDone) /\ Current' = Current
    BY <1>2, <2>1 DEF Unserved, PendingDone, AnswerLen, Current
  <2>3. SetupOK' /\ UnservedOK' /\ PassOK'
    BY <1>2, <2>1, <2>2 DEF Inv, ControlInv, SetupOK, UnservedOK, PassOK
  <2>4. IdleOK' /\ AgreeOK' /\ GotOK'
    BY <2>1, <2>2 DEF Inv, ControlInv, IdleOK, AgreeOK, Ahead, GotOK
  <2>5. DataOK' /\ StatusOK'
    BY <2>1, <2>2 DEF Inv, ControlInv, DataOK, StatusOK, Sent, Chunk, AnswerLen, Wanted
  <2> QED BY <2>3, <2>4, <2>5 DEF ControlInv
<1> QED BY <1>1, <1>2

(* No step at all.                                                         *)
LEMMA StutterKeeps ==
  ASSUME Inv, UNCHANGED vars
  PROVE  ControlInv'
<1>1. UNCHANGED <<host, asked, got, rxFifo, txFifo, inArmed, stall, causes, latched,
                  setupBuf, pending, device>>
  BY DEF vars, hostVars, coreVars, drvVars
<1>2. "oep" \in latched /\ "iep" \in causes => "iep" \in latched
  BY DEF Inv, ControlInv, PassOK
<1> QED BY <1>1, <1>2, OnlyCauses

(* Every step but the host's breaking off leaves clean alone.              *)
LEMMA CleanStays ==
  ASSUME HostIn \/ HostStatusOut \/ HostStalled \/ Driver \/ UNCHANGED vars
  PROVE  clean' = clean
BY DEF HostIn, HostStatusOut, HostStalled, Driver, usbPollLoop, handleUSBReset,
       handleUSBEnumDone, handleUSBRxFIFO, handleUSBInEP, handleUSBOutEP, vars, hostVars

(* Every step keeps the types, and the invariant for as long as nothing    *)
(* broken off is under way.                                                *)
LEMMA InvStep ==
  ASSUME TypeInv, clean => ControlInv, [Next]_vars
  PROVE  TypeInv' /\ (clean' => ControlInv')
<1>1. TypeInv'
  BY TypeStep
<1> SUFFICES ASSUME clean' PROVE ControlInv'
  BY <1>1
<1>2. ASSUME NEW q \in Kinds, HostSetup(q) PROVE ControlInv'
  <2>1. clean
    BY <1>2 DEF HostSetup
  <2> QED BY <1>2, <2>1, HostSetupKeeps DEF Inv
<1>3. CASE BusReset
  BY <1>3, BusResetKeeps
<1>4. CASE HostIn \/ HostStatusOut \/ HostStalled \/ Driver \/ UNCHANGED vars
  <2>1. Inv
    BY <1>4, CleanStays DEF Inv
  <2> QED BY <1>4, <2>1, HostInKeeps, HostStatusOutKeeps, HostStalledKeeps, PollKeeps,
          ResetKeeps, EnumDoneKeeps, RxFIFOKeeps, InEPKeeps, OutEPKeeps, StutterKeeps
       DEF Driver
<1> QED BY <1>2, <1>3, <1>4 DEF Next, Host

(* The invariant says what the runs check.                                 *)
LEMMA InvImplies ==
  ASSUME TypeInv, clean => ControlInv
  PROVE  AnswerBelongsToRequest /\ HostAndDeviceAgree
<1>1. "rst" \in causes \cup latched <=> "rst" \in causes
  BY DEF TypeInv, QueueOK
<1>2. AnswerBelongsToRequest
  BY <1>1 DEF AnswerBelongsToRequest, ControlInv, GotOK, StatusOK, IdleOK, Wanted
<1>3. HostAndDeviceAgree
  BY <1>1 DEF HostAndDeviceAgree, ControlInv, AgreeOK, Ahead
<1> QED BY <1>2, <1>3

(* What the host takes is the answer to its own request, from its start,   *)
(* without a gap or a repetition, complete when the data stage ends;       *)
(* nothing of it is left for the next transfer.  ep0SendPending survives a *)
(* bus reset and a refused request, and still no chunk of an old answer is *)
(* sent.  It holds from Init, and again from every reset that finds the    *)
(* driver caught up, until the host breaks off a transfer that is under    *)
(* way.                                                                    *)
THEOREM AnswersMatch == Spec => []AnswerBelongsToRequest
<1>1. Init => TypeInv /\ (clean => ControlInv)
  BY TypeInit, ControlInit
<1>2. TypeInv /\ (clean => ControlInv) /\ [Next]_vars => TypeInv' /\ (clean => ControlInv)'
  BY InvStep
<1>3. TypeInv /\ (clean => ControlInv) => AnswerBelongsToRequest
  BY InvImplies
<1> QED BY <1>1, <1>2, <1>3, PTL DEF Spec

(* Host and device agree on address and configuration between transfers,   *)
(* from and until the same.                                                *)
THEOREM StatesAgree == Spec => []HostAndDeviceAgree
<1>1. Init => TypeInv /\ (clean => ControlInv)
  BY TypeInit, ControlInit
<1>2. TypeInv /\ (clean => ControlInv) /\ [Next]_vars => TypeInv' /\ (clean => ControlInv)'
  BY InvStep
<1>3. TypeInv /\ (clean => ControlInv) => HostAndDeviceAgree
  BY InvImplies
<1> QED BY <1>1, <1>2, <1>3, PTL DEF Spec
===============================================================================
