------------------------------- MODULE Runtime -------------------------------
(***************************************************************************)
(* The runtime's sleep and interrupt entry (runtime_esp32p4.go,            *)
(* interrupt/interrupt_esp32p4.go): sleepTicks and Enable run in normal    *)
(* code, handleInterrupt on top of whatever the core was doing, another    *)
(* handler included.                                                       *)
(*                                                                         *)
(* The core has one saved program counter, one saved status and one cause: *)
(* a trap overwrites them.  A program counter is the number of the context *)
(* it is in: 0 is normal code, i the i-th handler on the stack.  What the  *)
(* boot ROM leaves in MIE and MSTATUS.MIE is any value, as neither is      *)
(* written at start-up: interruptInit is never called, and                 *)
(* initTimerInterrupt ORs into MSTATUS.                                    *)
(***************************************************************************)
EXTENDS Naturals, Sequences

CONSTANTS Channels,   \* CPU interrupt channels with a handler
          Timer,      \* the channel of the timer alarm (9 in the code)
          NoChannel,  \* MCAUSE when it is 0
          Durations,  \* the sleeps the scheduler asks for, in ticks
          MaxTime,    \* bound on the timer's count
          MaxRaised   \* bound: interrupts raised by peripherals

ASSUME RuntimeAssumption ==
  /\ Timer \in Channels /\ NoChannel \notin Channels
  /\ Durations \subseteq Nat /\ MaxTime \in Nat /\ MaxRaised \in Nat

VARIABLES
  now,       \* TIMG0's counter
  alarm,     \* [at, on]: T0ALARM and ALARM_EN
  raised,    \* channels whose peripheral asks for service
  nraised,   \* how often a peripheral has asked so far
  mie,       \* the CSR MIE: channels enabled
  mstatus,   \* [mie, mpie]: MSTATUS, interrupts on now and before the trap
  mcause,    \* MCAUSE, as a channel
  mepc,      \* MEPC, as a context
  stack,     \* handlers begun and not finished, the running one last
  pc,        \* where normal code is
  target,    \* sleepTicks: when to return
  pending,   \* interruptPending
  ready,     \* a goroutine that a handler made runnable
  enabling,  \* Enable: [channel, mask]
  granted    \* history: channels the ROM left or Enable made enabled

coreVars == <<mie, mstatus, mcause, mepc, stack>>
codeVars == <<pc, target, pending, ready, enabling, granted>>
vars     == <<now, alarm, raised, nraised, coreVars, codeVars>>

Places == {"scheduler", "check", "clear", "alarm", "start", "wait", "set", "restore"}
Stages == {"entered", "on", "signal", "off", "masked", "unmasked", "mret"}
Frames == [channel : Channels, stage : Stages, mpie : BOOLEAN, epc : Nat]
Status == [mie : BOOLEAN, mpie : BOOLEAN]

TypeOK ==
  /\ now \in 0 .. MaxTime
  /\ alarm \in [at : Nat, on : BOOLEAN]
  /\ raised \subseteq Channels /\ nraised \in 0 .. MaxRaised
  /\ mie \subseteq Channels /\ granted \subseteq Channels
  /\ mstatus \in Status /\ mcause \in Channels \cup {NoChannel} /\ mepc \in Nat
  /\ stack \in Seq(Frames)
  /\ pc \in Places /\ target \in Nat
  /\ pending \in BOOLEAN /\ ready \in BOOLEAN
  /\ enabling \in [channel : Channels, mask : BOOLEAN]

Init ==
  /\ now = 0 /\ alarm = [at |-> 0, on |-> FALSE]
  /\ raised = {} /\ nraised = 0
  /\ mie \in SUBSET Channels /\ granted = mie
  /\ mstatus \in [mie : BOOLEAN, mpie : {TRUE}] /\ mcause = NoChannel /\ mepc = 0
  /\ stack = << >>
  /\ pc = "scheduler" /\ target = 0 /\ pending = FALSE /\ ready = FALSE
  /\ enabling = [channel |-> Timer, mask |-> FALSE]

-----------------------------------------------------------------------------
(* Timer, peripherals and core (external).                                 *)

(* One tick; an alarm that is due is raised and switches itself off.       *)
Due(t) == alarm.on /\ t >= alarm.at
Tick ==
  /\ now < MaxTime
  /\ now' = now + 1
  /\ IF Due(now + 1)
       THEN raised' = raised \cup {Timer} /\ alarm' = [alarm EXCEPT !.on = FALSE]
       ELSE UNCHANGED <<raised, alarm>>
  /\ UNCHANGED <<nraised, coreVars, codeVars>>

Raise(c) ==
  /\ c # Timer /\ c \notin raised /\ nraised < MaxRaised
  /\ raised' = raised \cup {c} /\ nraised' = nraised + 1
  /\ UNCHANGED <<now, alarm, coreVars, codeVars>>

(* The core takes an enabled interrupt between any two instructions.       *)
Trap(c) ==
  /\ mstatus.mie /\ c \in mie \cap raised
  /\ stack' = Append(stack, [channel |-> c, stage |-> "entered", mpie |-> FALSE, epc |-> 0])
  /\ mepc' = Len(stack) /\ mcause' = c
  /\ mstatus' = [mie |-> FALSE, mpie |-> TRUE]
  /\ UNCHANGED <<now, alarm, raised, nraised, mie, codeVars>>

-----------------------------------------------------------------------------
(* handleInterrupt, by the running handler.                                *)

Top == stack[Len(stack)]
At(stage) == stack # << >> /\ Top.stage = stage
Stage(stage) == stack' = [stack EXCEPT ![Len(stack)].stage = stage]
Elsewhere == UNCHANGED <<now, alarm, nraised, pc, target, enabling, granted>>

(* Mutant: MCAUSE is saved in the place of MEPC.                           *)
Enter_WrongCsr ==
  /\ At("entered")
  /\ stack' = [stack EXCEPT ![Len(stack)] =
                 [@ EXCEPT !.stage = "on", !.mpie = mstatus.mpie, !.epc = mcause]]
  /\ mie' = mie \ {Top.channel}
  /\ mstatus' = [mstatus EXCEPT !.mie = TRUE]
  /\ Elsewhere /\ UNCHANGED <<raised, mcause, mepc, pending, ready>>

(* Save MSTATUS and MEPC, mask this channel, turn interrupts on.           *)
Enter ==
  /\ At("entered")
  /\ stack' = [stack EXCEPT ![Len(stack)] =
                 [@ EXCEPT !.stage = "on", !.mpie = mstatus.mpie, !.epc = mepc]]
  /\ mie' = mie \ {Top.channel}
  /\ mstatus' = [mstatus EXCEPT !.mie = TRUE]
  /\ Elsewhere /\ UNCHANGED <<raised, mcause, mepc, pending, ready>>

(* callHandler: the timer's handler clears the alarm and sets the flag;    *)
(* any other (external) quiets its peripheral and may wake a goroutine.    *)
callHandler ==
  /\ At("on")
  /\ raised' = raised \ {Top.channel}
  /\ IF Top.channel = Timer THEN pending' = TRUE /\ UNCHANGED ready
                            ELSE ready' \in {ready, TRUE} /\ UNCHANGED pending
  /\ Stage("signal")
  /\ Elsewhere /\ UNCHANGED <<mie, mstatus, mcause, mepc>>

signalInterrupt ==
  /\ At("signal")
  /\ pending' = TRUE
  /\ Stage("off")
  /\ Elsewhere /\ UNCHANGED <<raised, mie, mstatus, mcause, mepc, ready>>

(* Mutant: interrupts stay on while the state is being restored.           *)
Leave_InterruptsOn ==
  /\ At("off")
  /\ Stage("masked")
  /\ Elsewhere /\ UNCHANGED <<raised, mie, mstatus, mcause, mepc, pending, ready>>

Leave ==
  /\ At("off")
  /\ mstatus' = [mstatus EXCEPT !.mie = FALSE]
  /\ Stage("masked")
  /\ Elsewhere /\ UNCHANGED <<raised, mie, mcause, mepc, pending, ready>>

Unmask ==
  /\ At("masked")
  /\ mie' = mie \cup {Top.channel}
  /\ Stage("unmasked")
  /\ Elsewhere /\ UNCHANGED <<raised, mstatus, mcause, mepc, pending, ready>>

(* Zero MCAUSE, restore MSTATUS and MEPC.                                  *)
Restore ==
  /\ At("unmasked")
  /\ mcause' = NoChannel
  /\ mstatus' = [mie |-> FALSE, mpie |-> Top.mpie] /\ mepc' = Top.epc
  /\ Stage("mret")
  /\ Elsewhere /\ UNCHANGED <<raised, mie, pending, ready>>

(* mret, in the assembly around handleInterrupt (external): go on in the   *)
(* context MEPC names.                                                     *)
Mret ==
  /\ At("mret")
  /\ stack' = SubSeq(stack, 1, Len(stack) - 1)
  /\ mstatus' = [mie |-> mstatus.mpie, mpie |-> TRUE]
  /\ Elsewhere /\ UNCHANGED <<raised, mie, mcause, mepc, pending, ready>>

handleInterrupt == Enter \/ callHandler \/ signalInterrupt \/ Leave \/ Unmask \/ Restore \/ Mret

-----------------------------------------------------------------------------
(* Normal code.                                                            *)

Normal(place) == stack = << >> /\ pc = place
Goto(place) == pc' = place

(* The scheduler (external) runs a runnable goroutine or, when there is    *)
(* none, sleeps until the next timer is due; a goroutine it runs may call  *)
(* Enable.                                                                 *)
RunReady ==
  /\ Normal("scheduler") /\ ready
  /\ ready' = FALSE
  /\ UNCHANGED <<now, alarm, raised, nraised, coreVars, pc, target, pending, enabling, granted>>

(* Enable: interrupts off, set the bit, restore what they were.            *)
Enable(c) ==
  /\ Normal("scheduler") /\ c \notin granted
  /\ enabling' = [channel |-> c, mask |-> mstatus.mie]
  /\ mstatus' = [mstatus EXCEPT !.mie = FALSE]
  /\ Goto("set")
  /\ UNCHANGED <<now, alarm, raised, nraised, mie, mcause, mepc, stack, target, pending, ready, granted>>

EnableSet ==
  /\ Normal("set")
  /\ mie' = mie \cup {enabling.channel} /\ granted' = granted \cup {enabling.channel}
  /\ Goto("restore")
  /\ UNCHANGED <<now, alarm, raised, nraised, mstatus, mcause, mepc, stack, target, pending, ready, enabling>>

EnableRestore ==
  /\ Normal("restore")
  /\ mstatus' = [mstatus EXCEPT !.mie = enabling.mask]
  /\ Goto("scheduler")
  /\ UNCHANGED <<now, alarm, raised, nraised, mie, mcause, mepc, stack, target, pending, ready, enabling, granted>>

Asleep == UNCHANGED <<now, raised, nraised, coreVars, ready, enabling, granted>>

(* target := ticks() + d                                                   *)
sleepTicks(d) ==
  /\ Normal("scheduler") /\ ~ready /\ now + d <= MaxTime
  /\ target' = now + d
  /\ Goto("check")
  /\ Asleep /\ UNCHANGED <<alarm, pending>>

(* for ticks() < target                                                    *)
SleepCheck ==
  /\ Normal("check")
  /\ Goto(IF now < target THEN "clear" ELSE "scheduler")
  /\ Asleep /\ UNCHANGED <<alarm, target, pending>>

ClearPending ==
  /\ Normal("clear")
  /\ pending' = FALSE
  /\ Goto("alarm")
  /\ Asleep /\ UNCHANGED <<alarm, target>>

(* The two halves of T0ALARM; an alarm still on from a sleep that returned *)
(* before it may see the first half with the old second one, and go off.   *)
SetAlarm ==
  /\ Normal("alarm")
  /\ \/ alarm' = [alarm EXCEPT !.at = target] /\ UNCHANGED raised
     \/ /\ alarm.on
        /\ alarm' = [at |-> target, on |-> FALSE] /\ raised' = raised \cup {Timer}
  /\ Goto("start")
  /\ UNCHANGED <<now, nraised, coreVars, target, pending, ready, enabling, granted>>

StartAlarm ==
  /\ Normal("start")
  /\ alarm' = [alarm EXCEPT !.on = TRUE]
  /\ Goto("wait")
  /\ Asleep /\ UNCHANGED <<target, pending>>

(* Mutants: the flag ends the sleep; the timer is not polled while the     *)
(* flag is awaited.                                                        *)
SleepWait_FlagEnds ==
  /\ Normal("wait") /\ (pending \/ now >= target)
  /\ Goto("scheduler")
  /\ Asleep /\ UNCHANGED <<alarm, target, pending>>
SleepWait_NoPoll ==
  /\ Normal("wait") /\ pending
  /\ Goto("check")
  /\ Asleep /\ UNCHANGED <<alarm, target, pending>>

(* for interruptPending == 0: return when the time has come.               *)
SleepWait ==
  /\ Normal("wait")
  /\ \/ pending /\ Goto("check")
     \/ ~pending /\ now >= target /\ Goto("scheduler")
  /\ Asleep /\ UNCHANGED <<alarm, target, pending>>

-----------------------------------------------------------------------------
SleepStep  == SleepCheck \/ ClearPending \/ SetAlarm \/ StartAlarm \/ SleepWait
EnableStep == EnableSet \/ EnableRestore
Core       == handleInterrupt \/ RunReady \/ EnableStep \/ SleepStep

Next == \/ Tick \/ Core
        \/ \E c \in Channels : Raise(c) \/ Trap(c) \/ Enable(c)
        \/ \E d \in Durations : sleepTicks(d)

Spec == Init /\ [][Next]_vars

(* Fairness: the core executes instructions and the counter counts; no     *)
(* interrupt has to come.                                                  *)
FairSpec == Spec /\ WF_vars(Core) /\ WF_vars(Tick)

-----------------------------------------------------------------------------
(* Properties.                                                             *)

Depth == Len(stack)

(* Each handler returns to exactly the context it interrupted, with        *)
(* interrupts on as they were there, however many handlers ran on top of   *)
(* it; and normal code never sees interrupt.In() true.                     *)
ReturnsToInterrupted ==
  /\ \A i \in 1 .. Depth - 1 : stack[i].epc = i - 1 /\ stack[i].mpie
  /\ At("entered") => mepc = Depth - 1 /\ mstatus = [mie |-> FALSE, mpie |-> TRUE]
  /\ At("mret") => mepc = Depth - 1 /\ mstatus = [mie |-> FALSE, mpie |-> TRUE]
  /\ stack = << >> => mcause = NoChannel

(* A channel is masked exactly while its handler runs: it never interrupts *)
(* itself, and no enable is ever lost.                                     *)
MaskedWhileServed ==
  /\ \A i, j \in 1 .. Depth : i # j => stack[i].channel # stack[j].channel
  /\ mie = granted \ {stack[i].channel : i \in {j \in 1 .. Depth :
                                                 stack[j].stage \notin {"entered", "unmasked", "mret"}}}

NestingSound == ReturnsToInterrupted /\ MaskedWhileServed

(* No sleep ends before its time, whichever interrupts came: the flag they *)
(* all set only makes sleepTicks look at the timer again.                  *)
Sleeping == pc \in {"check", "clear", "alarm", "start", "wait"}
SleepNeverShort == [][Sleeping /\ ~Sleeping' => now >= target]_vars

(* A goroutine that a handler made runnable runs: it waits for the sleep   *)
(* in progress, which no lost alarm and no masked interrupt can prolong.   *)
ReadyRuns == ready ~> ~ready
=============================================================================
