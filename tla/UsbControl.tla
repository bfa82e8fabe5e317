------------------------------ MODULE UsbControl ------------------------------
(***************************************************************************)
(* Endpoint 0 of the USB driver (machine_esp32p4_usb.go): control requests *)
(* from SETUP to status stage, answers sent in chunks of one packet, bus   *)
(* resets, the device address and the configuration.                       *)
(*                                                                         *)
(* The controller and the host work while the driver runs.  The driver is  *)
(* the polling goroutine: a pass latches GINTSTS once and serves the       *)
(* latched causes in a fixed order, each serving an action.  Requests are  *)
(* told apart by number; of an answer only the lengths matter, counted in  *)
(* units of which MPS fill a packet (64 bytes in the code).                *)
(***************************************************************************)
EXTENDS Naturals, Sequences

CONSTANTS MPS,           \* units in a full packet
          Kinds,         \* the requests hosts make: [kind, len, wLength]
          MaxAnswer,     \* units udd_ep_control_cache_buffer holds
          MaxRequests,   \* bound: requests in a run
          MaxResets      \* bound: bus resets in a run

RequestKinds == {"read", "write", "address", "config", "refuse", "ignore"}

ASSUME ControlAssumption ==
  /\ MPS \in Nat \ {0} /\ MaxAnswer \in Nat /\ \E n \in 1 .. MaxAnswer : MaxAnswer = n * MPS
  /\ Kinds \subseteq [kind : RequestKinds, len : Nat, wLength : Nat]
  /\ MaxRequests \in Nat /\ MaxResets \in Nat

VARIABLES
  host,       \* [phase, addr, config]: the host's side (external)
  asked,      \* every request so far, by number
  got,        \* packets of the current transfer the host has taken
  resets,     \* bus resets so far
  clean,      \* history: nothing the host broke off is still under way
  rxFifo,     \* receive FIFO: SETUP packets and completion entries
  txFifo,     \* transmit FIFO: the packets written to it
  inArmed,    \* what EP0 IN will send: nothing, an empty packet, data
  outArmed,   \* EPENA of EP0 OUT
  stall,      \* STALL of EP0 IN
  causes,     \* raised: USBRST, ENUMDONE, and of EP0 IN's XFERCOMPL and
              \* OUT's SETUP and XFERCOMPL
  latched,    \* the causes this pass has still to serve
  setupBuf,   \* ep0SetupBuffer, as a request's number
  pending,    \* ep0SendPending: [request, offset], request 0 for nil
  device      \* [addr, config]: DCFG.DEVADDR, usbConfiguration

hostVars == <<host, asked, got, resets, clean>>
coreVars == <<rxFifo, txFifo, inArmed, outArmed, stall, causes>>
drvVars  == <<latched, setupBuf, pending, device>>
vars     == <<hostVars, coreVars, drvVars>>

Number == 0 .. MaxRequests
Entry  == [what : {"setup", "setupDone", "outDone"}, request : Number]
Packet == [request : Number, offset : Nat, len : Nat]
NoPending == [request |-> 0, offset |-> 0]
Causes == {"rst", "enum", "iep", "setup", "outDone"}
Passes == {"rst", "enum", "rx", "iep", "oep"}

TypeOK ==
  /\ host \in [phase : {"idle", "dataIn", "statusIn", "statusOut"}, addr : {0, 1},
               config : {0, 1}]
  /\ asked \in Seq(Kinds) /\ Len(asked) \in Number /\ got \in Seq(Packet)
  /\ resets \in 0 .. MaxResets /\ clean \in BOOLEAN
  /\ rxFifo \in Seq(Entry) /\ txFifo \in Seq(Packet)
  /\ inArmed \in {"no", "empty", "data"}
  /\ outArmed \in BOOLEAN /\ stall \in BOOLEAN
  /\ causes \subseteq Causes /\ latched \subseteq Passes
  /\ setupBuf \in Number
  /\ pending \in [request : Number, offset : Nat]
  /\ device \in [addr : {0, 1}, config : {0, 1}]

Init ==
  /\ host = [phase |-> "idle", addr |-> 0, config |-> 0]
  /\ asked = << >> /\ got = << >> /\ resets = 0 /\ clean = TRUE
  /\ rxFifo = << >> /\ txFifo = << >> /\ inArmed = "no" /\ outArmed = FALSE
  /\ stall = FALSE /\ causes = {} /\ latched = {}
  /\ setupBuf = 0 /\ pending = NoPending /\ device = [addr |-> 0, config |-> 0]

Current == Len(asked)
Smaller(a, b) == IF a < b THEN a ELSE b

-----------------------------------------------------------------------------
(* The host and the controller (external).                                 *)

CaughtUp == causes \cup latched = {} /\ rxFifo = << >>
Quiet    == CaughtUp /\ txFifo = << >> /\ inArmed = "no"

(* A bus reset, at any time: the host forgets the transfer, the address    *)
(* and the configuration; speed enumeration follows.  A transfer broken    *)
(* off before the driver has caught up with it leaves traces of itself.    *)
BusReset ==
  /\ resets < MaxResets
  /\ resets' = resets + 1
  /\ host' = [phase |-> "idle", addr |-> 0, config |-> 0] /\ got' = << >>
  /\ clean' = (CaughtUp \/ (clean /\ host.phase = "idle"))
  /\ causes' = causes \cup {"rst", "enum"}
  /\ UNCHANGED <<asked, rxFifo, txFifo, inArmed, outArmed, stall, drvVars>>

(* A SETUP packet is always taken; it clears STALL and makes EP0 IN answer *)
(* NAK until it is armed again.  The host may give up the transfer it is   *)
(* in for it.  After a reset it first waits for the device to be ready     *)
(* (reset recovery).                                                       *)
HostSetup(r) ==
  /\ Current < MaxRequests
  /\ device.addr = host.addr /\ "rst" \notin causes \cup latched
  /\ host' = [host EXCEPT !.phase = IF r.kind = "read" THEN "dataIn" ELSE "statusIn"]
  /\ clean' = (clean /\ (host.phase = "idle" \/ Quiet))
  /\ asked' = Append(asked, r) /\ got' = << >>
  /\ rxFifo' = rxFifo \o <<[what |-> "setup", request |-> Current + 1],
                           [what |-> "setupDone", request |-> Current + 1]>>
  /\ stall' = FALSE /\ inArmed' = "no"
  /\ UNCHANGED <<resets, txFifo, outArmed, causes, drvVars>>

(* The device answers tokens to its address; until the status stage of     *)
(* SET_ADDRESS is over the controller goes on answering at the old one.    *)
Addressed == device.addr = host.addr \/ asked[Current].kind = "address"

Bytes(s) == IF s = << >> THEN 0 ELSE s[Len(s)].offset + s[Len(s)].len

(* The host's IN token is answered: with what was written first, or with   *)
(* an empty packet.  A short packet or the wLength-th unit ends the data   *)
(* stage.                                                                  *)
Taken == IF inArmed = "empty" THEN [request |-> Current, offset |-> Bytes(got), len |-> 0]
                              ELSE Head(txFifo)
HostIn ==
  /\ host.phase \in {"dataIn", "statusIn"} /\ Addressed /\ ~stall
  /\ inArmed = "empty" \/ (inArmed = "data" /\ txFifo # << >>)
  /\ got' = Append(got, Taken)
  /\ txFifo' = IF inArmed = "empty" THEN txFifo ELSE Tail(txFifo)
  /\ inArmed' = "no" /\ causes' = causes \cup {"iep"}
  /\ host' = CASE host.phase = "dataIn" /\ Taken.len = MPS
                  /\ Taken.offset + Taken.len < asked[Current].wLength -> host
               [] host.phase = "dataIn" /\ ~(Taken.len = MPS
                  /\ Taken.offset + Taken.len < asked[Current].wLength)
                    -> [host EXCEPT !.phase = "statusOut"]
               [] host.phase = "statusIn"
                    -> [phase |-> "idle",
                        addr   |-> IF asked[Current].kind = "address" THEN 1 ELSE host.addr,
                        config |-> IF asked[Current].kind = "config" THEN 1 ELSE host.config]
  /\ UNCHANGED <<asked, resets, clean, rxFifo, outArmed, stall, drvVars>>

HostStatusOut ==
  /\ host.phase = "statusOut" /\ Addressed /\ outArmed
  /\ host' = [host EXCEPT !.phase = "idle"]
  /\ outArmed' = FALSE
  /\ rxFifo' = Append(rxFifo, [what |-> "outDone", request |-> Current])
  /\ UNCHANGED <<asked, got, resets, clean, txFifo, inArmed, stall, causes, drvVars>>

HostStalled ==
  /\ host.phase \in {"dataIn", "statusIn"} /\ Addressed /\ stall
  /\ host' = [host EXCEPT !.phase = "idle"]
  /\ UNCHANGED <<asked, got, resets, clean, coreVars, drvVars>>

-----------------------------------------------------------------------------
(* The driver's pass.                                                      *)

(* GINTSTS: what is raised, EP0 OUT's two interrupts as one.               *)
Raised == (causes \cap {"rst", "enum", "iep"})
            \cup (IF rxFifo # << >> THEN {"rx"} ELSE {})
            \cup (IF causes \cap {"setup", "outDone"} # {} THEN {"oep"} ELSE {})
usbPollLoop ==
  /\ latched = {} /\ Raised # {}
  /\ latched' = Raised
  /\ UNCHANGED <<hostVars, coreVars, setupBuf, pending, device>>

(* The next cause to serve, in the order of handleUSBDWCIRQ.               *)
Serving(c) ==
  /\ c \in latched
  /\ CASE c = "rst"  -> TRUE
       [] c = "enum" -> "rst" \notin latched
       [] c = "rx"   -> latched \cap {"rst", "enum"} = {}
       [] c = "iep"  -> latched \cap {"rst", "enum", "rx"} = {}
       [] c = "oep"  -> latched = {"oep"}

(* Mutant: the configuration survives.                                     *)
handleUSBReset_KeepConfig ==
  /\ Serving("rst")
  /\ latched' = latched \ {"rst"} /\ causes' = causes \ {"rst"}
  /\ txFifo' = << >> /\ inArmed' \in {inArmed, "no"}
  /\ outArmed' = TRUE
  /\ device' = [device EXCEPT !.addr = 0]
  /\ UNCHANGED <<hostVars, rxFifo, stall, setupBuf, pending>>

(* Flush the transmit FIFOs, address 0, configuration 0, arm EP0 OUT.      *)
(* Whether the flush also disables EP0 IN is the controller's business.    *)
handleUSBReset ==
  /\ Serving("rst")
  /\ latched' = latched \ {"rst"} /\ causes' = causes \ {"rst"}
  /\ txFifo' = << >> /\ inArmed' \in {inArmed, "no"}
  /\ outArmed' = TRUE
  /\ device' = [addr |-> 0, config |-> 0]
  /\ UNCHANGED <<hostVars, rxFifo, stall, setupBuf, pending>>

handleUSBEnumDone ==
  /\ Serving("enum")
  /\ latched' = latched \ {"enum"} /\ causes' = causes \ {"enum"}
  /\ outArmed' = TRUE
  /\ UNCHANGED <<hostVars, rxFifo, txFifo, inArmed, stall, setupBuf, pending, device>>

(* One turn of the draining loop; popping an entry that ends a SETUP or an *)
(* OUT transfer raises EP0 OUT's interrupt for it.                         *)
handleUSBRxFIFO ==
  /\ Serving("rx")
  /\ \/ /\ rxFifo = << >>
        /\ latched' = latched \ {"rx"}
        /\ UNCHANGED <<rxFifo, causes, setupBuf>>
     \/ /\ rxFifo # << >>
        /\ rxFifo' = Tail(rxFifo)
        /\ setupBuf' = IF Head(rxFifo).what = "setup" THEN Head(rxFifo).request ELSE setupBuf
        /\ causes' = CASE Head(rxFifo).what = "setup"     -> causes
                        [] Head(rxFifo).what = "setupDone" -> causes \cup {"setup"}
                        [] Head(rxFifo).what = "outDone"   -> causes \cup {"outDone"}
        /\ UNCHANGED latched
  /\ UNCHANGED <<hostVars, txFifo, inArmed, outArmed, stall, pending, device>>

(* dwcSendEP0Packet and the sending part of sendUSBPacket.                 *)
SendChunk(r, offset, n) ==
  /\ inArmed' = IF n = 0 THEN "empty" ELSE "data"
  /\ txFifo' = IF n = 0 THEN txFifo
                        ELSE Append(txFifo, [request |-> r, offset |-> offset, len |-> n])

(* How much of request r's answer is sent: sendDescriptorData truncates to *)
(* wLength and to the size of the control buffer.                          *)
AnswerLen(r) == Smaller(Smaller(asked[r].len, asked[r].wLength), MaxAnswer)

(* A chunk is taken: send the next one, if a multi-packet answer is        *)
(* pending.                                                                *)
handleUSBInEP ==
  /\ Serving("iep")
  /\ latched' = latched \ {"iep"} /\ causes' = causes \ {"iep"}
  /\ \/ /\ pending.request # 0 /\ pending.offset < AnswerLen(pending.request)
        /\ LET n == Smaller(MPS, AnswerLen(pending.request) - pending.offset)
           IN /\ SendChunk(pending.request, pending.offset, n)
              /\ pending' = [pending EXCEPT !.offset = @ + n]
     \/ /\ ~(pending.request # 0 /\ pending.offset < AnswerLen(pending.request))
        /\ pending' = NoPending
        /\ UNCHANGED <<inArmed, txFifo>>
  /\ UNCHANGED <<hostVars, rxFifo, outArmed, stall, setupBuf, device>>

(* Mutant: a short answer leaves ep0SendPending as it is.                  *)
sendUSBPacket_StalePending(r, n) ==
  /\ SendChunk(r, 0, Smaller(n, MPS))
  /\ pending' = IF n > MPS THEN [request |-> r, offset |-> MPS] ELSE pending

(* sendUSBPacket on EP0: the first chunk; the rest, if any, is pending.    *)
sendUSBPacket(r, n) ==
  /\ SendChunk(r, 0, Smaller(n, MPS))
  /\ pending' = IF n > MPS THEN [request |-> r, offset |-> MPS] ELSE NoPending

(* Mutant: the address is ORed into DCFG over the old one.                 *)
handleStandardSetup_OrAddress(r) ==
  IF asked[r].kind \in {"refuse", "ignore"}
    THEN stall' = (asked[r].kind = "refuse") /\ UNCHANGED <<inArmed, txFifo, pending, device>>
    ELSE /\ sendUSBPacket(r, IF asked[r].kind = "read" THEN AnswerLen(r) ELSE 0)
         /\ device' = CASE asked[r].kind = "address" -> [device EXCEPT !.addr = @ + 1]
                        [] asked[r].kind = "config"  -> [device EXCEPT !.config = 1]
                        [] OTHER                     -> device
         /\ UNCHANGED stall

(* handleStandardSetup for request r, or the class driver's handler.  A    *)
(* standard request it does not know is neither answered nor refused.      *)
handleStandardSetup(r) ==
  CASE asked[r].kind = "read"    -> /\ sendUSBPacket(r, AnswerLen(r))
                                    /\ UNCHANGED <<stall, device>>
    [] asked[r].kind = "write"   -> sendUSBPacket(r, 0) /\ UNCHANGED <<stall, device>>
    [] asked[r].kind = "address" -> /\ sendUSBPacket(r, 0)
                                    /\ device' = [device EXCEPT !.addr = 1]
                                    /\ UNCHANGED stall
    [] asked[r].kind = "config"  -> /\ sendUSBPacket(r, 0)
                                    /\ device' = [device EXCEPT !.config = 1]
                                    /\ UNCHANGED stall
    [] asked[r].kind = "refuse"  -> /\ stall' = TRUE
                                    /\ UNCHANGED <<inArmed, txFifo, pending, device>>
    [] asked[r].kind = "ignore"  -> UNCHANGED <<inArmed, txFifo, pending, stall, device>>

(* Mutant: EP0 OUT is not armed again.                                     *)
handleUSBOutEP_NoArm ==
  /\ Serving("oep")
  /\ latched' = {} /\ causes' = causes \ {"setup", "outDone"}
  /\ IF "setup" \in causes
       THEN handleStandardSetup(setupBuf)
       ELSE UNCHANGED <<inArmed, txFifo, pending, stall, device>>
  /\ UNCHANGED <<hostVars, rxFifo, setupBuf, outArmed>>

(* EP0 OUT's interrupts, as they are now: for a SETUP serve what           *)
(* ep0SetupBuffer holds and re-arm EP0 OUT; an XFERCOMPL is only cleared.  *)
handleUSBOutEP ==
  /\ Serving("oep")
  /\ latched' = {} /\ causes' = causes \ {"setup", "outDone"}
  /\ IF "setup" \in causes
       THEN handleStandardSetup(setupBuf) /\ outArmed' = TRUE
       ELSE UNCHANGED <<inArmed, txFifo, pending, stall, device, outArmed>>
  /\ UNCHANGED <<hostVars, rxFifo, setupBuf>>

-----------------------------------------------------------------------------
Driver == \/ usbPollLoop \/ handleUSBReset \/ handleUSBEnumDone \/ handleUSBRxFIFO
          \/ handleUSBInEP \/ handleUSBOutEP
Host   == HostIn \/ HostStatusOut \/ HostStalled

Next == Driver \/ Host \/ BusReset \/ \E r \in Kinds : HostSetup(r)

Spec == Init /\ [][Next]_vars

(* Fairness: the polling goroutine is scheduled; the host goes on with a   *)
(* transfer it has begun.                                                  *)
FairSpec == Spec /\ WF_vars(Driver) /\ WF_vars(Host)

-----------------------------------------------------------------------------
(* Properties.                                                             *)

(* What the host takes in a transfer is the answer to this transfer's      *)
(* request, from its start, without a gap or a repetition, and complete    *)
(* when the host ends the data stage; nothing is left over for the next.   *)
(* A transfer the host broke off with the driver behind leaves its answer  *)
(* in the FIFO and its cause raised, and the next transfer gets them: the  *)
(* claim is lost with clean, until a reset finds the driver caught up.     *)
AnswerBelongsToRequest ==
  clean =>
    /\ \A i \in DOMAIN got : /\ got[i].request = Current
                             /\ got[i].offset = (i - 1) * MPS
    /\ host.phase = "statusOut" => Bytes(got) = Smaller(asked[Current].len, asked[Current].wLength)
    /\ host.phase = "idle" /\ "rst" \notin causes \cup latched => txFifo = << >>

(* Between transfers host and device agree on address and configuration,   *)
(* though the device takes its new address before the host has seen the    *)
(* status stage, and learns of a reset late; but not after a transfer the  *)
(* host broke off with the driver behind: a SETUP from before a reset is   *)
(* then served after it, until a reset finds the driver caught up.         *)
HostAndDeviceAgree ==
  clean /\ host.phase = "idle" /\ "rst" \notin causes \cup latched
    => device = [addr |-> host.addr, config |-> host.config]

(* Every transfer the host goes on with comes to an end, answered or       *)
(* refused by a stall.  Two kinds do not: a standard request the driver    *)
(* does not know, and an answer of whole packets that is shorter than      *)
(* wLength, which no empty packet ends.                                    *)
Ends(r) == /\ asked[r].kind # "ignore"
           /\ asked[r].kind = "read" /\ AnswerLen(r) < asked[r].wLength
                => AnswerLen(r) = 0 \/ AnswerLen(r) % MPS # 0
TransferEnds ==
  \A k \in 1 .. MaxRequests :
    (host.phase # "idle" /\ Current = k /\ Ends(k) /\ clean)
      ~> (host.phase = "idle" \/ Current # k \/ ~clean)
===============================================================================
