------------------------------ MODULE I2cMaster ------------------------------
(***************************************************************************)
(* I2C.Tx (machine_esp32p4_i2c.go): a transaction "write w, then read r"   *)
(* is cut into pieces that fit the controller's byte FIFOs and its command *)
(* registers.  transmit fills the registers, starts the controller, waits  *)
(* for one of four interrupt causes or for its own clock, and goes on.     *)
(*                                                                         *)
(* Bytes are told apart by what they are and their place in w or r.  The   *)
(* controller and the device on the bus are external: the device may       *)
(* refuse any byte and may hold the clock for ever.  Whether a refusal     *)
(* leaves the bytes not sent in the transmit FIFO is left open.  A caller  *)
(* that goes on after a timeout with the controller still at work, without *)
(* Configure, is not modelled.                                             *)
(***************************************************************************)
EXTENDS Naturals, Sequences, FiniteSets

CONSTANTS Depth,      \* bytes that a FIFO holds (32 in the code)
          Registers,  \* number of command registers, COMD0 and on (8)
          WriteLens,  \* bound: values of len(w)
          ReadLens,   \* bound: values of len(r)
          MaxTx       \* bound: calls of Tx in a run

ASSUME I2cAssumption ==
  /\ Depth \in Nat \ {0, 1} /\ Registers \in Nat /\ MaxTx \in Nat
  /\ WriteLens \subseteq Nat /\ ReadLens \subseteq Nat

VARIABLES calls,        \* calls of Tx so far
          job,          \* len(w) and len(r) of the present one
          pc,           \* transmit: idle, filling registers, or waiting
          cmds,         \* the commands from cmd[cmdIdx] on
          head,         \* c.head of the first of them
          needAddress, needRestart, readLast,
          readTo,       \* the slice of r that the next bytes go to
          r,            \* the caller's buffer
          comd,         \* the registers filled since COMD0
          result,       \* what the last Tx since Configure returned
          txFifo, rxFifo,
          todo,         \* registers the controller has still to execute
          ints,         \* INT_STATUS
          wire,         \* history: the transaction as seen on the bus
          lost,         \* history: a byte was pushed on a full FIFO
          refused,      \* history: the device refused a byte of this call
          clean         \* history: no refusal or timeout since Configure

callVars  == <<calls, job, result>>
stateVars == <<cmds, head, needAddress, needRestart, readLast, readTo, r>>
coreVars  == <<rxFifo, ints, wire, refused, clean>>
vars      == <<callVars, pc, stateVars, comd, txFifo, todo, lost, coreVars>>

Item(kind, n) == [kind |-> kind, n |-> n]
Start   == Item("start", 0)
Stop    == Item("stop", 0)
ToWrite == Item("toWrite", 0)    \* the address byte, write direction
ToRead  == Item("toRead", 0)     \* the address byte, read direction
Junk    == Item("junk", 0)       \* what was in r, or in an empty FIFO
Written(a, b) == [i \in 1 .. (b - a) |-> Item("data", a + i)]
Replies(a, b) == [i \in 1 .. (b - a) |-> Item("reply", a + i)]
Cmd(op, n) == [op |-> op, n |-> n]
NoSlice == [from |-> 0, len |-> 0]

Smaller(a, b) == IF a < b THEN a ELSE b
When(cond, seq) == IF cond THEN seq ELSE << >>
Drop(seq, n) == SubSeq(seq, n + 1, Len(seq))
Fits(seq) == SubSeq(seq, 1, Smaller(Len(seq), Depth))

Items == [kind : {"start", "stop", "toWrite", "toRead", "junk", "data", "reply"}, n : Nat]
Cmds  == [op : {"rstart", "write", "read", "readlast", "stop", "end"}, n : Nat]

TypeOK ==
  /\ calls \in 0 .. MaxTx
  /\ job \in [w : WriteLens \cup {0}, r : ReadLens \cup {0}]
  /\ pc \in {"idle", "build", "wait"}
  /\ cmds \in Seq({"rstart", "write", "read", "stop"}) /\ head \in Nat
  /\ {needAddress, needRestart, readLast, lost, refused, clean} \subseteq BOOLEAN
  /\ readTo \in [from : Nat, len : Nat] /\ readTo.from + readTo.len <= job.r
  /\ readTo.len <= Depth /\ Len(rxFifo) <= Depth /\ Len(txFifo) <= Depth
  /\ r \in Seq(Items) /\ Len(r) = job.r
  /\ comd \in Seq(Cmds) /\ todo \in Seq(Cmds)
  /\ txFifo \in Seq(Items) /\ rxFifo \in Seq(Items) /\ wire \in Seq(Items)
  /\ ints \subseteq {"end", "complete", "timeout", "nack"}
  /\ result \in {"none", "nil", "ack", "timeout"}

(* After the first Configure.                                              *)
Init ==
  /\ calls = 0 /\ job = [w |-> 0, r |-> 0] /\ pc = "idle" /\ result = "none"
  /\ cmds = << >> /\ head = 0 /\ readTo = NoSlice /\ r = << >>
  /\ needAddress = FALSE /\ needRestart = FALSE /\ readLast = FALSE
  /\ comd = << >> /\ todo = << >> /\ txFifo = << >> /\ rxFifo = << >>
  /\ ints = {} /\ wire = << >> /\ lost = FALSE /\ refused = FALSE /\ clean = TRUE

-----------------------------------------------------------------------------
(* The driver.                                                             *)

(* Configure again, startMaster in it: both FIFOs and the state machine    *)
(* are reset.                                                              *)
Configure ==
  /\ pc = "idle" /\ ~clean
  /\ txFifo' = << >> /\ rxFifo' = << >> /\ todo' = << >> /\ clean' = TRUE
  /\ result' = "none" /\ lost' = FALSE
  /\ UNCHANGED <<calls, job, pc, stateVars, comd, ints, wire, refused>>

(* Tx, and transmit as far as its loop.                                    *)
Tx(w, n) ==
  /\ pc = "idle" /\ todo = << >> /\ calls < MaxTx
  /\ calls' = calls + 1 /\ job' = [w |-> w, r |-> n] /\ result' = "none"
  /\ pc' = "build"
  /\ cmds' = <<"rstart">> \o When(w > 0, <<"write">>) \o When(n > 0, <<"read">>) \o <<"stop">>
  /\ head' = 0 /\ comd' = << >> /\ ints' = {}
  /\ needAddress' = TRUE /\ needRestart' = FALSE /\ readLast' = FALSE
  /\ readTo' = NoSlice /\ r' = [i \in 1 .. n |-> Junk]
  /\ wire' = << >> /\ lost' = FALSE /\ refused' = FALSE
  /\ UNCHANGED <<txFifo, rxFifo, todo, clean>>

(* SetDATA_FIFO_RDATA, byte by byte.                                       *)
Push(bytes) ==
  /\ txFifo' = Fits(txFifo \o bytes)
  /\ lost' = (lost \/ Len(txFifo) + Len(bytes) > Depth)

(* The next registers are set; the loop goes on with the next command.     *)
NextCommand(regs) ==
  /\ comd' = comd \o regs
  /\ cmds' = Tail(cmds) /\ head' = 0
  /\ UNCHANGED <<pc, todo>>

(* The list is full or complete: reg = nil, TRANS_START.                   *)
Transfer(regs) ==
  /\ todo' = comd \o regs /\ comd' = << >>
  /\ pc' = "wait"

Restart ==
  /\ pc = "build" /\ Head(cmds) = "rstart"
  /\ NextCommand(<<Cmd("rstart", 0)>>)
  /\ UNCHANGED <<callVars, needAddress, needRestart, readLast, readTo, r, txFifo, lost, coreVars>>

(* Mutant: the address byte is not counted.                                *)
WriteRoom_NoAddress == Depth

(* The bytes of w that the FIFO takes in this load.                        *)
WriteRoom == Depth - (IF needAddress THEN 1 ELSE 0)

Write ==
  /\ pc = "build" /\ Head(cmds) = "write"
  /\ LET n    == Smaller(WriteRoom, job.w - head)
         load == When(needAddress, <<ToWrite>>) \o Written(head, head + n)
         regs == <<Cmd("write", Len(load))>>
     IN  /\ Push(load)
         /\ \/ /\ head + n < job.w
               /\ Transfer(Append(regs, Cmd("end", 0)))
               /\ head' = head + n
               /\ UNCHANGED cmds
            \/ /\ head + n = job.w
               /\ NextCommand(regs)
  /\ needAddress' = FALSE /\ needRestart' = TRUE
  /\ UNCHANGED <<callVars, readLast, readTo, r, coreVars>>

(* Mutants: a read that just fills the FIFO is not the last; the last byte *)
(* is thought to need no room.                                             *)
Split_Strict(left)   == left < Depth
Split_LastFree(left) == left - 1 <= Depth

(* The rest of the read fits one load: its last byte is to be refused.     *)
Split(left) == left <= Depth

Read ==
  /\ pc = "build" /\ Head(cmds) = "read"
  /\ LET left  == job.r - head
         n     == IF Split(left) THEN left - 1 ELSE Smaller(left, Depth)
         first == When(needAddress, <<Cmd("write", 1)>>)
                  \o When(needRestart, <<Cmd("rstart", 0), Cmd("write", 1)>>)
         regs  == first \o When(n > 0, <<Cmd("read", n)>>)
     IN  /\ Push(When(needAddress, <<ToRead>>) \o When(needRestart, <<ToRead>>))
         /\ \/ /\ Split(left)
               /\ NextCommand(Append(regs, Cmd("readlast", 1)))
               /\ readTo' = [from |-> head, len |-> n + 1]
               /\ readLast' = TRUE
            \/ /\ ~Split(left)
               /\ Transfer(Append(regs, Cmd("end", 0)))
               /\ readTo' = [from |-> head, len |-> n]
               /\ UNCHANGED <<cmds, head, readLast>>
  /\ needAddress' = FALSE /\ needRestart' = FALSE
  /\ UNCHANGED <<callVars, r, coreVars>>

StopCommand ==
  /\ pc = "build" /\ Head(cmds) = "stop"
  /\ Transfer(<<Cmd("stop", 0)>>)
  /\ cmds' = << >> /\ head' = 0
  /\ UNCHANGED <<callVars, needAddress, needRestart, readLast, readTo, r, txFifo, lost, coreVars>>

(* transmit returns; the deferred function clears the causes.              *)
Return(res) ==
  /\ pc' = "idle" /\ result' = res /\ ints' = {}
  /\ UNCHANGED <<calls, job, stateVars, comd, txFifo, rxFifo, todo, lost, wire, refused>>

(* Mutant: only the last list's refusal is looked at.                      *)
NackSeen_LastOnly == "nack" \in ints /\ cmds = << >> /\ ~readLast

(* The controller reports its own refusal of the last byte read in the     *)
(* same way, so none is believed once that read is in the list.            *)
NackSeen == "nack" \in ints /\ ~readLast

Fail ==
  /\ pc = "wait" /\ ints # {}
  /\ \/ NackSeen /\ Return("ack")
     \/ ~NackSeen /\ "timeout" \in ints /\ Return("timeout")
  /\ UNCHANGED clean

(* Mutant: only a read looks at the clock.                                 *)
GiveUp_ReadOnly ==
  /\ pc = "wait" /\ ints = {} /\ readTo # NoSlice
  /\ Return("timeout")
  /\ clean' = FALSE

(* nanotime() > end.                                                       *)
GiveUp ==
  /\ pc = "wait" /\ ints = {}
  /\ Return("timeout")
  /\ clean' = FALSE

(* c.head after the bytes were fetched; after STOP it is no longer used.   *)
AfterSlice == IF cmds = << >> THEN 0 ELSE head + readTo.len

(* A list is done: fetch what was read; start over at COMD0 or return.     *)
Fetch ==
  /\ pc = "wait" /\ ints # {} /\ ~NackSeen /\ "timeout" \notin ints
  /\ r' = [i \in DOMAIN r |->
            IF i \in readTo.from + 1 .. readTo.from + readTo.len
              THEN LET k == i - readTo.from
                   IN  IF k <= Len(rxFifo) THEN rxFifo[k] ELSE Junk
              ELSE r[i]]
  /\ rxFifo' = Drop(rxFifo, readTo.len)
  /\ readTo' = NoSlice /\ head' = AfterSlice /\ ints' = {}
  /\ IF cmds = << >> THEN pc' = "idle" /\ result' = "nil"
                     ELSE pc' = "build" /\ UNCHANGED result
  /\ UNCHANGED <<calls, job, cmds, needAddress, needRestart, readLast, comd, txFifo, todo,
                 lost, wire, refused, clean>>

-----------------------------------------------------------------------------
(* The controller and the device (external): one command at a time.        *)

Executes(op) == todo # << >> /\ Head(todo).op = op
SoftwareIdle == UNCHANGED <<callVars, pc, stateVars, comd, lost>>

ExecRestart ==
  /\ Executes("rstart")
  /\ wire' = Append(wire, Start) /\ todo' = Tail(todo)
  /\ SoftwareIdle /\ UNCHANGED <<txFifo, rxFifo, ints, refused, clean>>

(* Every byte is acknowledged.  With too few bytes the controller waits.   *)
ExecWrite ==
  /\ Executes("write") /\ Head(todo).n <= Len(txFifo)
  /\ wire' = wire \o SubSeq(txFifo, 1, Head(todo).n)
  /\ txFifo' = Drop(txFifo, Head(todo).n) /\ todo' = Tail(todo)
  /\ SoftwareIdle /\ UNCHANGED <<rxFifo, ints, refused, clean>>

(* The k-th byte is refused: the controller stops there.                   *)
ExecRefused(k) ==
  /\ Executes("write") /\ k <= Head(todo).n /\ k <= Len(txFifo)
  /\ wire' = wire \o SubSeq(txFifo, 1, k)
  /\ txFifo' \in {Drop(txFifo, k), << >>}
  /\ todo' = << >> /\ ints' = ints \cup {"nack"}
  /\ refused' = TRUE /\ clean' = FALSE
  /\ SoftwareIdle /\ UNCHANGED rxFifo

ReadSoFar == Cardinality({i \in DOMAIN wire : wire[i].kind = "reply"})

ExecRead ==
  /\ Executes("read") \/ Executes("readlast")
  /\ LET bytes == Replies(ReadSoFar, ReadSoFar + Head(todo).n)
     IN  wire' = wire \o bytes /\ rxFifo' = Fits(rxFifo \o bytes)
  /\ todo' = Tail(todo)
  /\ SoftwareIdle /\ UNCHANGED <<txFifo, ints, refused, clean>>

(* The refusal of the last byte, if it is reported, is by then.            *)
ExecStop ==
  /\ Executes("stop")
  /\ wire' = Append(wire, Stop) /\ todo' = Tail(todo)
  /\ \E own \in SUBSET (IF readLast THEN {"nack"} ELSE {}) : ints' = {"complete"} \cup own
  /\ SoftwareIdle /\ UNCHANGED <<txFifo, rxFifo, refused, clean>>

ExecEnd ==
  /\ Executes("end")
  /\ todo' = Tail(todo) /\ ints' = {"end"}
  /\ SoftwareIdle /\ UNCHANGED <<txFifo, rxFifo, wire, refused, clean>>

(* The clock line was held too long: the controller gives up.              *)
ExecTimeout ==
  /\ todo # << >> /\ pc = "wait"
  /\ todo' = << >> /\ ints' = {"timeout"} /\ clean' = FALSE
  /\ SoftwareIdle /\ UNCHANGED <<txFifo, rxFifo, wire, refused>>

-----------------------------------------------------------------------------
Transmit == Restart \/ Write \/ Read \/ StopCommand \/ Fail \/ GiveUp \/ Fetch

Controller == \/ ExecRestart \/ ExecWrite \/ ExecRead \/ ExecStop \/ ExecEnd \/ ExecTimeout
              \/ \E k \in 1 .. Depth : ExecRefused(k)

Next == \/ Configure \/ Transmit \/ Controller
        \/ \E w \in WriteLens, n \in ReadLens : Tx(w, n)

Spec == Init /\ [][Next]_vars

(* Fairness: the caller's goroutine runs and its clock does not stand      *)
(* still.  Of the controller nothing is assumed.                           *)
FairSpec == Spec /\ WF_vars(Transmit)

-----------------------------------------------------------------------------
(* Properties.                                                             *)

(* The transaction in one piece, as if nothing had to be cut.              *)
Whole == <<Start>>
         \o When(job.w > 0, <<ToWrite>> \o Written(0, job.w))
         \o When(job.r > 0, When(job.w > 0, <<Start>>) \o <<ToRead>> \o Replies(0, job.r))
         \o <<Stop>>

(* "Tx performs a single I2C transaction: write w then read r" (:344).     *)
(* When Tx returns nil, the bus has seen the whole transaction once and in *)
(* order, with no trace of where it was cut, and r holds what the device   *)
(* answered, each byte at its place.  After a refusal or a timeout this is *)
(* claimed again from the next Configure on.  A write that the device      *)
(* refuses anywhere is not reported as done; a call that also reads        *)
(* carries no such promise: see NackSeen.                                  *)
TransactionOnWire ==
  /\ result = "nil" /\ clean => wire = Whole /\ r = Replies(0, job.r)
  /\ refused /\ job.r = 0 => result # "nil"

(* No list exceeds the command registers and no load the FIFO.  The        *)
(* exception is real: when the last load of w fills the FIFO, the address  *)
(* byte of the read that follows is one too many.                          *)
Overfull == job.r > 0 /\ (job.w + 1) % Depth = 0
LoadsFit ==
  /\ Len(comd) <= Registers /\ Len(todo) <= Registers
  /\ lost /\ clean => Overfull

(* Tx returns, whatever the device does: every turn of the loop gets on    *)
(* with w or r, and every wait is bounded by the clock.                    *)
TxReturns == pc # "idle" ~> pc = "idle"
=============================================================================
