--------------------------- MODULE RuntimeProofs ---------------------------
(***************************************************************************)
(* Proofs about Runtime, for every set of channels, every sleep and every  *)
(* bound, hence for handlers nested as deeply as there are channels.       *)
(*                                                                         *)
(* NestingSound says nothing of handlers that are suspended by others, and *)
(* little of the CSRs between two steps, so it is not inductive.  Nested   *)
(* adds it: a suspended handler is one that had interrupts on, so it has   *)
(* saved its CSRs and masked its channel already and has not begun to      *)
(* restore them; every other handler runs with interrupts off.             *)
(***************************************************************************)
EXTENDS Runtime, SequenceTheorems, TLAPS

Open == {"on", "signal", "off"}                \* interrupts on, channel masked
Free == {"entered", "unmasked", "mret"}        \* channel not masked

(* What holds of the frames, of the CSRs, and of the channels.             *)
FramesOK ==
  \A i \in 1 .. Len(stack) :
     /\ stack[i].channel \in granted
     /\ i < Len(stack) => stack[i].stage \in Open
     /\ stack[i].stage # "entered" => stack[i].epc = i - 1 /\ stack[i].mpie = TRUE

Off == [mie |-> FALSE, mpie |-> TRUE]
CsrsOK ==
  /\ stack = << >> => mcause = NoChannel
  /\ stack # << >> /\ Top.stage \in {"entered", "mret"} => mepc = Len(stack) - 1 /\ mstatus = Off
  /\ stack # << >> /\ Top.stage \in {"masked", "unmasked"} => ~mstatus.mie
  /\ stack # << >> /\ Top.stage = "mret" => mcause = NoChannel

ChannelsOK ==
  /\ \A i, j \in 1 .. Len(stack) : i # j => stack[i].channel # stack[j].channel
  /\ \A c \in Channels :
       c \in mie <=> c \in granted /\ \A i \in 1 .. Len(stack) :
                                         stack[i].channel = c => stack[i].stage \in Free

Nested == TypeOK /\ FramesOK /\ CsrsOK /\ ChannelsOK

-----------------------------------------------------------------------------
(* The stack as a sequence: what changing its last frame, adding one and   *)
(* dropping one leave.                                                     *)
LEMMA TopChanged ==
  ASSUME stack \in Seq(Frames), stack # << >>, NEW f \in Frames,
         stack' = [stack EXCEPT ![Len(stack)] = f]
  PROVE  /\ stack' \in Seq(Frames) /\ stack' # << >>
         /\ Len(stack') = Len(stack) /\ Len(stack) \in Nat \ {0}
         /\ \A i \in 1 .. Len(stack) : stack'[i] = IF i = Len(stack) THEN f ELSE stack[i]
         /\ \A i \in 1 .. Len(stack) : stack[i] \in Frames
<1>1. Len(stack) \in Nat \ {0}
  BY EmptySeq
<1>2. /\ stack' \in Seq(Frames) /\ Len(stack') = Len(stack)
      /\ \A i \in 1 .. Len(stack) : stack'[i] = IF i = Len(stack) THEN f ELSE stack[i]
  BY <1>1, ExceptSeq
<1>3. stack' # << >>
  BY <1>1, <1>2, EmptySeq
<1>4. \A i \in 1 .. Len(stack) : stack[i] \in Frames
  BY ElementOfSeq
<1> QED BY <1>1, <1>2, <1>3, <1>4

(* A step of the running handler that only moves its stage.                *)
LEMMA TopStaged ==
  ASSUME stack \in Seq(Frames), stack # << >>, NEW s \in Stages, Stage(s)
  PROVE  /\ Top \in Frames
         /\ [Top EXCEPT !.stage = s] \in Frames
         /\ stack' = [stack EXCEPT ![Len(stack)] = [Top EXCEPT !.stage = s]]
<1>1. Len(stack) \in 1 .. Len(stack) /\ DOMAIN stack = 1 .. Len(stack)
  BY EmptySeq, LenProperties
<1>2. Top \in Frames
  BY <1>1, ElementOfSeq DEF Top
<1>3. [Top EXCEPT !.stage = s] \in Frames
  BY <1>2 DEF Frames
<1>4. stack' = [stack EXCEPT ![Len(stack)] = [stack[Len(stack)] EXCEPT !.stage = s]]
  BY DEF Stage
<1> QED BY <1>2, <1>3, <1>4 DEF Top

(* The stack after an entry.                                               *)
LEMMA Pushed ==
  ASSUME stack \in Seq(Frames), NEW f \in Frames, stack' = Append(stack, f)
  PROVE  /\ stack' \in Seq(Frames) /\ stack' # << >>
         /\ Len(stack) \in Nat /\ Len(stack') = Len(stack) + 1
         /\ stack'[Len(stack) + 1] = f
         /\ \A i \in 1 .. Len(stack) : stack'[i] = stack[i]
<1>1. Len(stack) \in Nat
  BY LenProperties
<1>2. /\ stack' \in Seq(Frames) /\ stack' # << >> /\ Len(stack') = Len(stack) + 1
      /\ \A i \in 1 .. Len(stack) : stack'[i] = stack[i]
      /\ stack'[Len(stack) + 1] = f
  BY <1>1, AppendProperties
<1> QED BY <1>1, <1>2

(* The stack after a return.                                               *)
LEMMA Popped ==
  ASSUME stack \in Seq(Frames), stack # << >>, stack' = SubSeq(stack, 1, Len(stack) - 1)
  PROVE  /\ stack' \in Seq(Frames)
         /\ Len(stack) \in Nat \ {0} /\ Len(stack') = Len(stack) - 1
         /\ \A i \in 1 .. Len(stack) - 1 : stack'[i] = stack[i]
<1>1. Len(stack) \in Nat \ {0}
  BY EmptySeq
<1>2. \A i \in 1 .. Len(stack) - 1 : stack[i] \in Frames
  BY <1>1, ElementOfSeq
<1>3. PICK n \in Nat : n = Len(stack) - 1
  BY <1>1
<1>4. /\ SubSeq(stack, 1, n) \in Seq(Frames)
      /\ Len(SubSeq(stack, 1, n)) = IF 1 <= n THEN n - 1 + 1 ELSE 0
      /\ \A i \in 1 .. n - 1 + 1 : SubSeq(stack, 1, n)[i] = stack[1 + i - 1]
  <2>1. n \in Int /\ 1 \in Int /\ \A i \in 1 .. n : stack[i] \in Frames
    BY <1>2, <1>3
  <2> QED BY <2>1, SubSeqProperties
<1>5. stack' = SubSeq(stack, 1, n)
  BY <1>3
<1>6. Len(stack') = n
  BY <1>3, <1>4, <1>5
<1>7. ASSUME NEW i \in 1 .. n PROVE stack'[i] = stack[i]
  <2>1. i \in 1 .. n - 1 + 1 /\ 1 + i - 1 = i
    BY <1>3
  <2> QED BY <2>1, <1>4, <1>5
<1> QED BY <1>1, <1>3, <1>4, <1>5, <1>6, <1>7

-----------------------------------------------------------------------------
(* What every step of the running handler that moves its stage preserves.  *)
LEMMA StageStep ==
  ASSUME Nested, stack # << >>, Top.stage # "entered",
         NEW s \in Stages, s # "entered", Stage(s), granted' = granted
  PROVE  /\ stack' \in Seq(Frames) /\ stack' # << >> /\ Len(stack') = Len(stack)
         /\ Len(stack) \in Nat \ {0}
         /\ \A i \in 1 .. Len(stack) :
              /\ stack[i] \in Frames
              /\ stack'[i].channel = stack[i].channel
              /\ stack'[i].stage = IF i = Len(stack) THEN s ELSE stack[i].stage
         /\ Top'.stage = s /\ Top.channel = stack[Len(stack)].channel
         /\ Top.stage = stack[Len(stack)].stage /\ Top \in Frames
         /\ FramesOK'
         /\ (\A i, j \in 1 .. Len(stack) : i # j => stack[i].channel # stack[j].channel)'
<1> DEFINE f == [Top EXCEPT !.stage = s]
<1>1. stack \in Seq(Frames)
  BY DEF Nested, TypeOK
<1>2. Top \in Frames /\ f \in Frames /\ stack' = [stack EXCEPT ![Len(stack)] = f]
  BY <1>1, TopStaged
<1>3. f.channel = Top.channel /\ f.stage = s /\ f.mpie = Top.mpie /\ f.epc = Top.epc
  BY <1>2 DEF Frames
<1> HIDE DEF f
<1>4. /\ stack' \in Seq(Frames) /\ stack' # << >> /\ Len(stack') = Len(stack)
      /\ Len(stack) \in Nat \ {0}
      /\ \A i \in 1 .. Len(stack) : stack'[i] = IF i = Len(stack) THEN f ELSE stack[i]
      /\ \A i \in 1 .. Len(stack) : stack[i] \in Frames
  BY <1>1, <1>2, TopChanged
<1>5. Top' = f /\ Top = stack[Len(stack)]
  BY <1>4 DEF Top
<1>6. \A i \in 1 .. Len(stack) :
        /\ stack'[i].channel = stack[i].channel
        /\ stack'[i].mpie = stack[i].mpie /\ stack'[i].epc = stack[i].epc
        /\ stack'[i].stage = IF i = Len(stack) THEN s ELSE stack[i].stage
  BY <1>3, <1>4, <1>5
<1>7. FramesOK'
  BY <1>4, <1>5, <1>6 DEF Nested, FramesOK
<1>8. (\A i, j \in 1 .. Len(stack) : i # j => stack[i].channel # stack[j].channel)'
  BY <1>4, <1>6 DEF Nested, ChannelsOK
<1> QED BY <1>2, <1>3, <1>4, <1>5, <1>6, <1>7, <1>8

(* Enter saves the CSRs and masks the channel.                             *)
LEMMA EnterKeeps ==
  ASSUME Nested, Enter
  PROVE  Nested'
<1> DEFINE f == [Top EXCEPT !.stage = "on", !.mpie = mstatus.mpie, !.epc = mepc]
<1>1. /\ stack \in Seq(Frames) /\ stack # << >> /\ mstatus \in Status /\ mepc \in Nat
      /\ Top.stage = "entered"
  BY DEF Nested, TypeOK, Enter, At
<1>2. Top \in Frames
  BY <1>1, EmptySeq, ElementOfSeq DEF Top
<1>3. f \in Frames /\ f.channel = Top.channel /\ f.stage = "on"
      /\ f.mpie = mstatus.mpie /\ f.epc = mepc
  BY <1>1, <1>2 DEF Frames, Stages, Status
<1>4. stack' = [stack EXCEPT ![Len(stack)] = f]
  BY DEF Enter, Top
<1> HIDE DEF f
<1>5. /\ stack' \in Seq(Frames) /\ stack' # << >> /\ Len(stack') = Len(stack)
      /\ Len(stack) \in Nat \ {0}
      /\ \A i \in 1 .. Len(stack) : stack'[i] = IF i = Len(stack) THEN f ELSE stack[i]
      /\ \A i \in 1 .. Len(stack) : stack[i] \in Frames
  BY <1>1, <1>3, <1>4, TopChanged
<1>6. Top = stack[Len(stack)] /\ Top' = f /\ Len(stack) \in 1 .. Len(stack)
  BY <1>5 DEF Top
<1>7. /\ granted' = granted /\ mie' = mie \ {Top.channel}
      /\ mstatus' = [mstatus EXCEPT !.mie = TRUE]
  BY DEF Enter, Elsewhere
<1>8. mepc = Len(stack) - 1 /\ mstatus.mpie = TRUE
  BY <1>1 DEF Nested, CsrsOK, Off
<1>9. FramesOK'
  BY <1>3, <1>5, <1>6, <1>7, <1>8 DEF Nested, FramesOK
<1>10. CsrsOK'
  BY <1>3, <1>5, <1>6 DEF CsrsOK
<1>11. ChannelsOK'
  <2>1. \A i \in 1 .. Len(stack) : stack'[i].channel = stack[i].channel
    BY <1>3, <1>5, <1>6
  <2>2. (\A i, j \in 1 .. Len(stack) : i # j => stack[i].channel # stack[j].channel)'
    BY <1>5, <2>1 DEF Nested, ChannelsOK
  <2>3. ASSUME NEW c \in Channels
        PROVE  c \in mie' <=> c \in granted' /\ \A i \in 1 .. Len(stack') :
                                  stack'[i].channel = c => stack'[i].stage \in Free
    <3>1. c \in mie <=> c \in granted /\ \A i \in 1 .. Len(stack) :
                              stack[i].channel = c => stack[i].stage \in Free
      BY DEF Nested, ChannelsOK
    <3>2. CASE c = Top.channel
      <4>1. stack'[Len(stack)].channel = c /\ stack'[Len(stack)].stage \notin Free
        BY <1>3, <1>5, <1>6, <3>2 DEF Free
      <4> QED BY <1>5, <1>6, <1>7, <3>2, <4>1
    <3>3. CASE c # Top.channel
      <4>1. \A i \in 1 .. Len(stack) :
              stack'[i].channel = c => stack'[i] = stack[i] /\ stack[i].channel = c
        BY <1>5, <1>6, <2>1, <3>3
      <4>2. \A i \in 1 .. Len(stack) :
              stack[i].channel = c => stack'[i] = stack[i] /\ stack'[i].channel = c
        BY <1>5, <1>6, <2>1, <3>3
      <4> QED BY <1>5, <1>7, <3>1, <3>3, <4>1, <4>2
    <3> QED BY <3>2, <3>3
  <2> QED BY <2>2, <2>3 DEF ChannelsOK
<1>12. TypeOK'
  BY <1>1, <1>5, <1>7 DEF Nested, TypeOK, Enter, Elsewhere, Status
<1> QED BY <1>9, <1>10, <1>11, <1>12 DEF Nested

(* The stages with interrupts on, and turning them off, change no mask.    *)
LEMMA MaskedStageKeeps ==
  ASSUME Nested, callHandler \/ signalInterrupt \/ Leave
  PROVE  Nested'
<1>1. /\ stack # << >> /\ Top.stage \in Open /\ granted' = granted /\ mie' = mie
  BY DEF callHandler, signalInterrupt, Leave, At, Open, Elsewhere
<1>2. PICK s \in {"signal", "off", "masked"} :
         Stage(s) /\ (s = "masked" => mstatus' = [mstatus EXCEPT !.mie = FALSE])
  BY DEF callHandler, signalInterrupt, Leave
<1>3. s \in Stages /\ s \notin Free /\ s # "entered" /\ s # "mret" /\ Top.stage # "entered"
  BY <1>1 DEF Stages, Free, Open
<1>4. /\ stack' \in Seq(Frames) /\ stack' # << >> /\ Len(stack') = Len(stack)
      /\ \A i \in 1 .. Len(stack) :
           /\ stack'[i].channel = stack[i].channel
           /\ stack'[i].stage = IF i = Len(stack) THEN s ELSE stack[i].stage
      /\ Top'.stage = s /\ Top.stage = stack[Len(stack)].stage /\ Top \in Frames
      /\ FramesOK'
      /\ (\A i, j \in 1 .. Len(stack) : i # j => stack[i].channel # stack[j].channel)'
  BY <1>1, <1>2, <1>3, StageStep
<1>5. CsrsOK'
  BY <1>2, <1>3, <1>4 DEF CsrsOK, Nested, TypeOK, Status
<1>6. \A i \in 1 .. Len(stack) : stack'[i].stage \in Free <=> stack[i].stage \in Free
  BY <1>1, <1>3, <1>4 DEF Open, Free
<1>7. ChannelsOK'
  BY <1>1, <1>4, <1>6 DEF Nested, ChannelsOK
<1>8. TypeOK'
  BY <1>4 DEF Nested, TypeOK, callHandler, signalInterrupt, Leave, Elsewhere, Status
<1> QED BY <1>4, <1>5, <1>7, <1>8 DEF Nested

(* Unmasking a channel whose handler has run.                              *)
LEMMA UnmaskKeeps ==
  ASSUME Nested, Unmask
  PROVE  Nested'
<1>1. /\ stack # << >> /\ Top.stage = "masked" /\ granted' = granted
      /\ mie' = mie \cup {Top.channel} /\ mstatus' = mstatus
      /\ Stage("unmasked") /\ "unmasked" \in Stages
  BY DEF Unmask, At, Elsewhere, Stages
<1>2. /\ stack' \in Seq(Frames) /\ stack' # << >> /\ Len(stack') = Len(stack)
      /\ Len(stack) \in Nat \ {0}
      /\ \A i \in 1 .. Len(stack) :
           /\ stack'[i].channel = stack[i].channel
           /\ stack'[i].stage = IF i = Len(stack) THEN "unmasked" ELSE stack[i].stage
      /\ Top'.stage = "unmasked" /\ Top.channel = stack[Len(stack)].channel /\ Top \in Frames
      /\ FramesOK'
      /\ (\A i, j \in 1 .. Len(stack) : i # j => stack[i].channel # stack[j].channel)'
  BY <1>1, StageStep
<1>3. CsrsOK'
  BY <1>1, <1>2 DEF CsrsOK, Nested
<1>4. ASSUME NEW c \in Channels
      PROVE  c \in mie' <=> c \in granted' /\ \A i \in 1 .. Len(stack') :
                                stack'[i].channel = c => stack'[i].stage \in Free
  <2>1. c \in mie <=> c \in granted /\ \A i \in 1 .. Len(stack) :
                            stack[i].channel = c => stack[i].stage \in Free
    BY DEF Nested, ChannelsOK
  <2>2. CASE c = Top.channel
    <3>1. \A i \in 1 .. Len(stack) : stack'[i].channel = c => i = Len(stack)
      BY <1>2, <2>2 DEF Nested, ChannelsOK
    <3>2. \A i \in 1 .. Len(stack) : stack'[i].channel = c => stack'[i].stage \in Free
      BY <1>2, <3>1 DEF Free
    <3>3. c \in granted
      BY <1>2, <2>2 DEF Nested, FramesOK
    <3> QED BY <1>1, <1>2, <2>2, <3>2, <3>3
  <2>3. CASE c # Top.channel
    <3>1. \A i \in 1 .. Len(stack) :
            stack[i].channel = c => i # Len(stack) /\ stack'[i].stage = stack[i].stage
      BY <1>2, <2>3
    <3> QED BY <1>1, <1>2, <2>1, <2>3, <3>1
  <2> QED BY <2>2, <2>3
<1>5. ChannelsOK'
  BY <1>2, <1>4 DEF ChannelsOK
<1>6. TypeOK'
  BY <1>1, <1>2 DEF Nested, TypeOK, Unmask, Elsewhere, Frames
<1> QED BY <1>2, <1>3, <1>5, <1>6 DEF Nested

(* Restoring the CSRs from the frame.                                      *)
LEMMA RestoreKeeps ==
  ASSUME Nested, Restore
  PROVE  Nested'
<1>1. /\ stack # << >> /\ Top.stage = "unmasked" /\ granted' = granted /\ mie' = mie
      /\ mstatus' = [mie |-> FALSE, mpie |-> Top.mpie] /\ mepc' = Top.epc
      /\ mcause' = NoChannel
      /\ Stage("mret") /\ "mret" \in Stages
  BY DEF Restore, At, Elsewhere, Stages
<1>2. /\ stack' \in Seq(Frames) /\ stack' # << >> /\ Len(stack') = Len(stack)
      /\ Len(stack) \in Nat \ {0}
      /\ \A i \in 1 .. Len(stack) :
           /\ stack'[i].channel = stack[i].channel
           /\ stack'[i].stage = IF i = Len(stack) THEN "mret" ELSE stack[i].stage
      /\ Top'.stage = "mret" /\ Top \in Frames
      /\ FramesOK'
      /\ (\A i, j \in 1 .. Len(stack) : i # j => stack[i].channel # stack[j].channel)'
  BY <1>1, StageStep
<1>3. Top = stack[Len(stack)] /\ Top.epc = Len(stack) - 1 /\ Top.mpie = TRUE
  BY <1>1, <1>2 DEF Nested, FramesOK, Top
<1>4. CsrsOK'
  BY <1>1, <1>2, <1>3 DEF CsrsOK, Off
<1>5. \A i \in 1 .. Len(stack) : stack'[i].stage \in Free <=> stack[i].stage \in Free
  BY <1>1, <1>2, <1>3 DEF Free
<1>6. ChannelsOK'
  BY <1>1, <1>2, <1>5 DEF Nested, ChannelsOK
<1>7. TypeOK'
  BY <1>1, <1>2 DEF Nested, TypeOK, Restore, Elsewhere, Frames, Status
<1> QED BY <1>2, <1>4, <1>6, <1>7 DEF Nested

(* mret uncovers the handler below, which is open, or normal code.         *)
LEMMA MretKeeps ==
  ASSUME Nested, Mret
  PROVE  Nested'
<1>1. /\ stack \in Seq(Frames) /\ stack # << >> /\ Top.stage = "mret" /\ granted' = granted
      /\ mie' = mie /\ stack' = SubSeq(stack, 1, Len(stack) - 1) /\ mcause' = mcause
  BY DEF Mret, At, Elsewhere, Nested, TypeOK
<1>2. /\ stack' \in Seq(Frames)
      /\ Len(stack) \in Nat \ {0} /\ Len(stack') = Len(stack) - 1
      /\ \A i \in 1 .. Len(stack) - 1 : stack'[i] = stack[i]
  BY <1>1, Popped
<1>3. FramesOK'
  BY <1>1, <1>2 DEF Nested, FramesOK
<1>4. CsrsOK'
  <2>1. stack' # << >> => Len(stack') \in Nat \ {0}
    BY <1>2, EmptySeq
  <2>2. stack' # << >> => Top'.stage \in Open
    BY <1>2, <2>1 DEF Top, Nested, FramesOK
  <2>3. mcause = NoChannel
    BY <1>1 DEF Nested, CsrsOK
  <2> QED BY <1>1, <2>2, <2>3 DEF CsrsOK, Open
<1>5. stack[Len(stack)].stage \in Free
  BY <1>1 DEF Top, Free
<1>6. \A c : (\A i \in 1 .. Len(stack') : stack'[i].channel = c => stack'[i].stage \in Free)
          <=> (\A i \in 1 .. Len(stack) : stack[i].channel = c => stack[i].stage \in Free)
  BY <1>2, <1>5
<1>7. ChannelsOK'
  <2>1. (\A i, j \in 1 .. Len(stack) : i # j => stack[i].channel # stack[j].channel)'
    BY <1>2 DEF Nested, ChannelsOK
  <2>2. ASSUME NEW c \in Channels
        PROVE  c \in mie' <=> c \in granted' /\ \A i \in 1 .. Len(stack') :
                                  stack'[i].channel = c => stack'[i].stage \in Free
    <3>1. c \in mie <=> c \in granted /\ \A i \in 1 .. Len(stack) :
                              stack[i].channel = c => stack[i].stage \in Free
      BY DEF Nested, ChannelsOK
    <3> QED BY <1>1, <1>6, <3>1, Zenon
  <2> QED BY <2>1, <2>2 DEF ChannelsOK
<1>8. TypeOK'
  BY <1>1, <1>2 DEF Nested, TypeOK, Mret, Elsewhere, Status
<1> QED BY <1>3, <1>4, <1>7, <1>8 DEF Nested

-----------------------------------------------------------------------------
(* A trap comes only with interrupts on: normal code or an open handler is *)
(* suspended, and the channel is one that no open handler serves.          *)
LEMMA TrapKeeps ==
  ASSUME Nested, NEW c \in Channels, Trap(c)
  PROVE  Nested'
<1> DEFINE f == [channel |-> c, stage |-> "entered", mpie |-> FALSE, epc |-> 0]
<1>1. /\ stack \in Seq(Frames) /\ mstatus.mie /\ c \in mie
      /\ stack' = Append(stack, f) /\ mepc' = Len(stack) /\ mcause' = c
      /\ mstatus' = Off /\ mie' = mie /\ granted' = granted
  BY DEF Nested, TypeOK, Trap, codeVars, Off
<1>2. f \in Frames /\ f.channel = c /\ f.stage = "entered"
  BY DEF Frames, Stages
<1> HIDE DEF f
<1>3. /\ stack' \in Seq(Frames) /\ stack' # << >>
      /\ Len(stack) \in Nat /\ Len(stack') = Len(stack) + 1
      /\ stack'[Len(stack) + 1] = f
      /\ \A i \in 1 .. Len(stack) : stack'[i] = stack[i]
  BY <1>1, <1>2, Pushed
<1>4. \A i \in 1 .. Len(stack) : stack[i].stage \in Open
  <2>1. stack # << >> => Top = stack[Len(stack)] /\ Len(stack) \in 1 .. Len(stack)
    BY <1>1, EmptySeq DEF Top
  <2>2. stack # << >> => Top \in Frames
    BY <1>1, <2>1, ElementOfSeq
  <2>3. stack # << >> => Top.stage \in Open
    BY <1>1, <2>2 DEF Nested, CsrsOK, Off, Open, Frames, Stages
  <2>4. \A i \in 1 .. Len(stack) : stack # << >>
    BY <1>3, EmptySeq
  <2> QED BY <1>3, <2>1, <2>3, <2>4 DEF Nested, FramesOK
<1>5. \A i \in 1 .. Len(stack) : stack[i].channel # c
  BY <1>1, <1>4 DEF Nested, ChannelsOK, Open, Free
<1>6. c \in granted
  BY <1>1 DEF Nested, ChannelsOK
<1>7. FramesOK'
  BY <1>1, <1>2, <1>3, <1>4, <1>6 DEF Nested, FramesOK
<1>8. CsrsOK'
  <2>1. Top' = f
    BY <1>3 DEF Top
  <2> QED BY <1>1, <1>2, <1>3, <2>1 DEF CsrsOK
<1>9. ChannelsOK'
  <2>1. (\A i, j \in 1 .. Len(stack) : i # j => stack[i].channel # stack[j].channel)'
    BY <1>2, <1>3, <1>5 DEF Nested, ChannelsOK
  <2>2. \A d : (\A i \in 1 .. Len(stack') : stack'[i].channel = d => stack'[i].stage \in Free)
            <=> (\A i \in 1 .. Len(stack) : stack[i].channel = d => stack[i].stage \in Free)
    BY <1>2, <1>3 DEF Free
  <2> QED BY <1>1, <2>1, <2>2 DEF Nested, ChannelsOK
<1>10. TypeOK'
  BY <1>1, <1>3 DEF Nested, TypeOK, Trap, codeVars, Status, Off
<1> QED BY <1>7, <1>8, <1>9, <1>10 DEF Nested

(* Normal code runs on an empty stack, where no channel is masked.         *)
LEMMA NormalKeeps ==
  ASSUME Nested, stack = << >>, stack' = stack, TypeOK', mcause' = mcause,
         \A c \in Channels : c \in mie' <=> c \in granted'
  PROVE  Nested'
<1>1. \A i \in 1 .. Len(stack') : FALSE
  BY EmptySeq
<1>2. FramesOK'
  BY <1>1 DEF FramesOK
<1>3. CsrsOK'
  BY DEF Nested, CsrsOK
<1>4. ChannelsOK'
  BY <1>1 DEF ChannelsOK
<1> QED BY <1>2, <1>3, <1>4 DEF Nested

(* Steps that touch neither the CSRs nor the stack.                        *)
LEMMA OtherKeeps ==
  ASSUME Nested, UNCHANGED coreVars, granted' = granted, TypeOK'
  PROVE  Nested'
BY DEF Nested, FramesOK, CsrsOK, ChannelsOK, coreVars, Top

(* Nothing is interrupted at reset.                                        *)
LEMMA NestedInit == Init => Nested
<1> SUFFICES ASSUME Init PROVE Nested
  OBVIOUS
<1>1. \A i \in 1 .. Len(stack) : FALSE
  BY EmptySeq DEF Init
<1>2. TypeOK
  <2>1. stack \in Seq(Frames)
    BY EmptySeq DEF Init
  <2>2. mstatus \in Status
    BY DEF Init, Status
  <2>3. /\ now \in 0 .. MaxTime /\ nraised \in 0 .. MaxRaised /\ mepc \in Nat /\ target \in Nat
        /\ alarm \in [at : Nat, on : BOOLEAN]
    BY RuntimeAssumption DEF Init
  <2>4. raised \subseteq Channels /\ mie \subseteq Channels /\ granted \subseteq Channels
    BY DEF Init
  <2>5. /\ mcause \in Channels \cup {NoChannel} /\ pc \in Places
        /\ pending \in BOOLEAN /\ ready \in BOOLEAN
    BY DEF Init, Places
  <2>6. enabling \in [channel : Channels, mask : BOOLEAN]
    BY RuntimeAssumption DEF Init
  <2> QED BY <2>1, <2>2, <2>3, <2>4, <2>5, <2>6 DEF TypeOK
<1>3. FramesOK
  BY <1>1 DEF FramesOK
<1>4. CsrsOK
  BY DEF Init, CsrsOK
<1>5. ChannelsOK
  BY <1>1 DEF Init, ChannelsOK
<1> QED BY <1>2, <1>3, <1>4, <1>5 DEF Nested

(* Every step keeps the nesting.                                           *)
LEMMA NestedNext == Nested /\ [Next]_vars => Nested'
<1> SUFFICES ASSUME Nested, [Next]_vars PROVE Nested'
  OBVIOUS
<1>1. CASE Tick
  <2>1. now \in 0 .. MaxTime /\ now' \in 0 .. MaxTime
    BY <1>1, RuntimeAssumption DEF Nested, TypeOK, Tick
  <2>2. alarm' \in [at : Nat, on : BOOLEAN] /\ raised' \subseteq Channels
    BY <1>1, RuntimeAssumption DEF Nested, TypeOK, Tick
  <2>3. TypeOK'
    BY <1>1, <2>1, <2>2 DEF Nested, TypeOK, Tick, coreVars, codeVars
  <2> QED BY <1>1, <2>3, OtherKeeps DEF Tick, codeVars
<1>2. CASE handleInterrupt
  BY <1>2, EnterKeeps, MaskedStageKeeps, UnmaskKeeps, RestoreKeeps, MretKeeps
     DEF handleInterrupt
<1>3. CASE RunReady
  BY <1>3, OtherKeeps DEF Nested, TypeOK, RunReady, coreVars
<1>4. CASE SleepStep
  <2>1. TypeOK' /\ UNCHANGED coreVars /\ granted' = granted
    <3>1. CASE SleepCheck
      BY <1>4, <3>1 DEF Nested, TypeOK, SleepCheck, Asleep, Goto, Places, coreVars
    <3>2. CASE ClearPending
      BY <1>4, <3>2 DEF Nested, TypeOK, ClearPending, Asleep, Goto, Places, coreVars
    <3>3. CASE SetAlarm
      <4>1. alarm' \in [at : Nat, on : BOOLEAN] /\ raised' \subseteq Channels
        <5>1. alarm \in [at : Nat, on : BOOLEAN] /\ target \in Nat /\ raised \subseteq Channels
          BY DEF Nested, TypeOK
        <5>2. [alarm EXCEPT !.at = target] \in [at : Nat, on : BOOLEAN]
          BY <5>1
        <5>3. [at |-> target, on |-> FALSE] \in [at : Nat, on : BOOLEAN]
          BY <5>1
        <5>4. \/ alarm' = [alarm EXCEPT !.at = target] /\ raised' = raised
              \/ alarm' = [at |-> target, on |-> FALSE] /\ raised' = raised \cup {Timer}
          BY <3>3 DEF SetAlarm
        <5> QED BY <5>1, <5>2, <5>3, <5>4, RuntimeAssumption
      <4> QED BY <3>3, <4>1 DEF Nested, TypeOK, SetAlarm, Goto, Places, coreVars
    <3>4. CASE StartAlarm
      BY <1>4, <3>4 DEF Nested, TypeOK, StartAlarm, Asleep, Goto, Places, coreVars
    <3>5. CASE SleepWait
      BY <1>4, <3>5 DEF Nested, TypeOK, SleepWait, Asleep, Goto, Places, coreVars
    <3> QED BY <1>4, <3>1, <3>2, <3>3, <3>4, <3>5 DEF SleepStep
  <2> QED BY <2>1, OtherKeeps
<1>5. CASE EnableSet
  <2>1. stack = << >> /\ stack' = stack /\ mcause' = mcause /\ TypeOK'
    BY <1>5 DEF Nested, TypeOK, EnableSet, Normal, Goto, Places
  <2>2. \A c \in Channels : c \in mie <=> c \in granted
    BY <2>1, EmptySeq DEF Nested, ChannelsOK
  <2> QED BY <1>5, <2>1, <2>2, NormalKeeps DEF EnableSet
<1>6. CASE EnableRestore
  <2>1. stack = << >> /\ stack' = stack /\ mcause' = mcause /\ TypeOK'
    BY <1>6 DEF Nested, TypeOK, EnableRestore, Normal, Goto, Places, Status
  <2>2. \A c \in Channels : c \in mie <=> c \in granted
    BY <2>1, EmptySeq DEF Nested, ChannelsOK
  <2> QED BY <1>6, <2>1, <2>2, NormalKeeps DEF EnableRestore
<1>7. ASSUME NEW c \in Channels, Raise(c) PROVE Nested'
  BY <1>7, OtherKeeps, RuntimeAssumption DEF Nested, TypeOK, Raise, coreVars, codeVars
<1>8. ASSUME NEW c \in Channels, Trap(c) PROVE Nested'
  BY <1>8, TrapKeeps
<1>9. ASSUME NEW c \in Channels, Enable(c) PROVE Nested'
  <2>1. stack = << >> /\ stack' = stack /\ mcause' = mcause /\ TypeOK'
    BY <1>9 DEF Nested, TypeOK, Enable, Normal, Goto, Places, Status
  <2>2. \A d \in Channels : d \in mie <=> d \in granted
    BY <2>1, EmptySeq DEF Nested, ChannelsOK
  <2> QED BY <1>9, <2>1, <2>2, NormalKeeps DEF Enable
<1>10. ASSUME NEW d \in Durations, sleepTicks(d) PROVE Nested'
  <2>1. TypeOK'
    BY <1>10, RuntimeAssumption DEF Nested, TypeOK, sleepTicks, Asleep, Goto, Places, coreVars
  <2> QED BY <1>10, <2>1, OtherKeeps DEF sleepTicks, Asleep
<1>11. CASE UNCHANGED vars
  BY <1>11, OtherKeeps DEF Nested, TypeOK, vars, coreVars, codeVars
<1> QED BY <1>1, <1>2, <1>3, <1>4, <1>5, <1>6, <1>7, <1>8, <1>9, <1>10, <1>11
        DEF Next, Core, EnableStep

-----------------------------------------------------------------------------
(* Nested implies what the run checks.                                     *)
LEMMA NestedIsSound == Nested => NestingSound
<1> SUFFICES ASSUME Nested PROVE NestingSound
  OBVIOUS
<1>1. stack \in Seq(Frames) /\ Depth \in Nat /\ mie \subseteq Channels /\ granted \subseteq Channels
  BY LenProperties DEF Nested, TypeOK, Depth
<1>2. \A i \in 1 .. Depth : stack[i] \in Frames
  BY <1>1, ElementOfSeq DEF Depth
<1>3. ReturnsToInterrupted
  <2>1. \A i \in 1 .. Depth - 1 : stack[i].epc = i - 1 /\ stack[i].mpie
    BY <1>1 DEF Nested, FramesOK, Open, Depth
  <2> QED BY <2>1 DEF Nested, CsrsOK, ReturnsToInterrupted, At, Off, Depth
<1>4. MaskedWhileServed
  <2>1. \A i \in 1 .. Depth : stack[i].stage \in Free <=> stack[i].stage \in {"entered", "unmasked", "mret"}
    BY DEF Free
  <2>2. \A c \in Channels :
          c \in mie <=> c \in granted /\ ~ \E i \in 1 .. Depth :
                            stack[i].stage \notin {"entered", "unmasked", "mret"} /\ stack[i].channel = c
    BY <2>1 DEF Nested, ChannelsOK, Depth
  <2>3. mie = granted \ {stack[i].channel : i \in {j \in 1 .. Depth :
                                   stack[j].stage \notin {"entered", "unmasked", "mret"}}}
    BY <1>1, <2>2
  <2>4. \A i, j \in 1 .. Depth : i # j => stack[i].channel # stack[j].channel
    BY DEF Nested, ChannelsOK, Depth
  <2> QED BY <2>3, <2>4 DEF MaskedWhileServed
<1> QED BY <1>3, <1>4 DEF NestingSound

(* The types of the CSRs, the stack and the timer, at every depth.         *)
THEOREM RuntimeTypeCorrect == Spec => []TypeOK
<1>1. Nested => TypeOK
  BY DEF Nested
<1> QED BY <1>1, NestedInit, NestedNext, PTL DEF Spec

(* Every handler returns to what it interrupted, with the interrupts as    *)
(* they were, and a channel is masked exactly while it is served.          *)
THEOREM HandlersNest == Spec => []NestingSound
BY NestedInit, NestedNext, NestedIsSound, PTL DEF Spec

(* No sleep ends early: the only steps that leave one have just read a     *)
(* timer that is past its target.                                          *)
THEOREM SleepsToTheEnd == Spec => SleepNeverShort
<1>1. ASSUME Nested, [Next]_vars PROVE [Sleeping /\ ~Sleeping' => now >= target]_vars
  <2> SUFFICES ASSUME Next, Sleeping, ~Sleeping' PROVE now >= target
    BY <1>1
  <2>1. pc' # pc
    BY DEF Sleeping
  <2>2. CASE SleepCheck
    <3>1. now \in 0 .. MaxTime /\ target \in Nat /\ MaxTime \in Nat
      BY <1>1, RuntimeAssumption DEF Nested, TypeOK
    <3>2. pc' = IF now < target THEN "clear" ELSE "scheduler"
      BY <2>2 DEF SleepCheck, Goto
    <3> QED BY <3>1, <3>2 DEF Sleeping
  <2>3. CASE SleepWait
    <3>1. pc' = "check" \/ now >= target
      BY <2>3, Zenon DEF SleepWait, Goto
    <3> QED BY <3>1 DEF Sleeping
  <2>4. CASE ClearPending \/ SetAlarm \/ StartAlarm
    BY <2>4 DEF ClearPending, SetAlarm, StartAlarm, Goto, Sleeping
  <2>5. CASE EnableStep \/ \E c \in Channels : Enable(c)
    <3>1. pc \in {"scheduler", "set", "restore"}
      BY <2>5 DEF EnableStep, EnableSet, EnableRestore, Enable, Normal
    <3> QED BY <3>1 DEF Sleeping
  <2>6. CASE \E d \in Durations : sleepTicks(d)
    <3>1. pc = "scheduler"
      BY <2>6 DEF sleepTicks, Normal
    <3> QED BY <3>1 DEF Sleeping
  <2>7. CASE Tick \/ RunReady \/ \E c \in Channels : Raise(c) \/ Trap(c)
    BY <2>1, <2>7 DEF Tick, RunReady, Raise, Trap, codeVars
  <2>8. CASE handleInterrupt
    BY <2>1, <2>8 DEF handleInterrupt, Enter, callHandler, signalInterrupt, Leave, Unmask,
                      Restore, Mret, Elsewhere
  <2> QED BY <2>2, <2>3, <2>4, <2>5, <2>6, <2>7, <2>8 DEF Next, Core, SleepStep
<1> QED BY <1>1, NestedInit, NestedNext, PTL DEF Spec, SleepNeverShort
=============================================================================
