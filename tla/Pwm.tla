--------------------------------- MODULE Pwm ---------------------------------
(***************************************************************************)
(* The PWM driver (machine_esp32p4_pwm.go): four LEDCPWM values, each with *)
(* a timer of its own and a table of the channels it gave away, over one   *)
(* LEDC peripheral with one set of channels.                               *)
(***************************************************************************)
EXTENDS Naturals

CONSTANTS Pwms,         \* PWM0..PWM3; each has the timer of its own name
          Pins,         \* pins asked for
          NoPin,        \* NoPin; also: nothing routed to a pin
          NumChannels,  \* ledcChannelsP4 (8 in the code)
          Periods,      \* periods asked for, in ns, at least 20 and at most 10^9
          Values        \* duty values asked for

VARIABLES
  configured,  \* [Pwms -> BOOLEAN]
  dutyRes,     \* [Pwms -> Nat]
  channelPin,  \* [Pwms -> [Channels -> pin]]
  timer,       \* TIMERn_CONF of each: [res, div]
  channel,     \* the registers of each hardware channel
  route,       \* the channel whose signal each pin puts out
  answered     \* outcome of the last call: "ok", an error, or the channel

soft == <<configured, dutyRes, channelPin>>
hard == <<timer, channel, route>>
vars == <<soft, hard, answered>>

Channels == 0 .. NumChannels - 1
ResetTimer   == [res |-> 0, div |-> 0]
ResetChannel == [timer |-> NoPin, on |-> FALSE, duty |-> 0, idle |-> 0]

Init ==
  /\ configured = [p \in Pwms |-> FALSE] /\ dutyRes = [p \in Pwms |-> 0]
  /\ channelPin = [p \in Pwms |-> [c \in Channels |-> NoPin]]
  /\ timer = [p \in Pwms |-> ResetTimer]
  /\ channel = [c \in Channels |-> ResetChannel]
  /\ route = [pin \in Pins |-> NoPin]
  /\ answered = "ok"

-----------------------------------------------------------------------------
(* Configure.                                                              *)

ApbClock == 80000000
Freq(period) == 1000000000 \div (IF period = 0 THEN 1000000 ELSE period)

Resolution(freq) == CASE freq < 100    -> 14
                      [] freq \in 100 .. 999 -> 12
                      [] freq > 100000 -> 8
                      [] OTHER         -> 10

(* 18 bits, 8 of them a fraction that is always 0.                         *)
Divider(freq) ==
  LET d == ApbClock \div (freq * 2 ^ Resolution(freq))
  IN (IF d = 0 THEN 1 ELSE d) * 256
FitsDivider(div) == div < 2 ^ 18

setTimerConf(p, res, div) ==
  timer' = [q \in Pwms |-> IF q = p THEN [res |-> res, div |-> div] ELSE ResetTimer]

(* The reset is of the whole peripheral and comes before the period is     *)
(* looked at; the tables of the other values stay as they were.            *)
Configure(p, period) ==
  LET freq == Freq(period)
      div  == Divider(freq)
  IN /\ channel' = [c \in Channels |-> ResetChannel]
     /\ IF FitsDivider(div)
          THEN /\ setTimerConf(p, Resolution(freq), div)
               /\ dutyRes' = [dutyRes EXCEPT ![p] = Resolution(freq)]
               /\ configured' = [configured EXCEPT ![p] = TRUE]
               /\ channelPin' = [channelPin EXCEPT ![p] = [c \in Channels |-> NoPin]]
               /\ answered' = "ok"
          ELSE /\ timer' = [q \in Pwms |-> ResetTimer]
               /\ answered' = "period too long"
               /\ UNCHANGED soft
     /\ UNCHANGED route

-----------------------------------------------------------------------------
(* The same for each of the eight channels.                                *)
chanOp(p, c, op, duty, inverting) ==
  channel' = [channel EXCEPT ![c] =
    CASE op = "init"   -> [timer |-> p, on |-> TRUE, duty |-> 0, idle |-> 0]
      [] op = "duty"   -> [@ EXCEPT !.duty = duty, !.on = TRUE]
      [] op = "invert" -> [@ EXCEPT !.idle = IF inverting THEN 1 ELSE 0]]

(* Channel: the first entry of the value's own table that is free.         *)
Free(p) == {c \in Channels : channelPin[p][c] = NoPin}
Channel(p, pin) ==
  \/ /\ ~configured[p]
     /\ answered' = "not configured" /\ UNCHANGED <<soft, hard>>
  \/ /\ configured[p] /\ pin = NoPin
     /\ answered' = "invalid pin" /\ UNCHANGED <<soft, hard>>
  \/ /\ configured[p] /\ pin # NoPin /\ Free(p) = {}
     /\ answered' = "no free channel" /\ UNCHANGED <<soft, hard>>
  \/ /\ configured[p] /\ pin # NoPin
     /\ \E c \in Free(p) :
          /\ \A d \in Free(p) : c <= d
          /\ channelPin' = [channelPin EXCEPT ![p][c] = pin]
          /\ route' = [route EXCEPT ![pin] = c]
          /\ chanOp(p, c, "init", 0, FALSE)
          /\ answered' = "channel"
     /\ UNCHANGED <<configured, dutyRes, timer>>

Top(p) == 2 ^ dutyRes[p] - 1

Set(p, c, value) ==
  /\ IF c < NumChannels
       THEN chanOp(p, c, "duty", (IF value > Top(p) THEN Top(p) ELSE value) * 16, FALSE)
       ELSE UNCHANGED channel
  /\ UNCHANGED <<soft, timer, route, answered>>

SetInverting(p, c, inverting) ==
  /\ IF c < NumChannels THEN chanOp(p, c, "invert", 0, inverting) ELSE UNCHANGED channel
  /\ UNCHANGED <<soft, timer, route, answered>>

-----------------------------------------------------------------------------
Next == \E p \in Pwms :
  \/ \E period \in Periods : Configure(p, period)
  \/ \E pin \in Pins \cup {NoPin} : Channel(p, pin)
  \/ \E c \in 0 .. NumChannels, value \in Values : Set(p, c, value)
  \/ \E c \in 0 .. NumChannels, inverting \in BOOLEAN : SetInverting(p, c, inverting)

Spec == Init /\ [][Next]_vars

-----------------------------------------------------------------------------
(* Channel hands out a free channel, or says "pwm: no free channel"        *)
(* (machine_esp32p4_pwm.go:26): one given to a pin of one LEDCPWM is not   *)
(* given to a pin of another.                                              *)
ChannelGivenWasFree ==
  \A p, q \in Pwms, c \in Channels :
    p # q => channelPin[p][c] = NoPin \/ channelPin[q][c] = NoPin
=============================================================================
