------------------------ MODULE PowerControlProofs ------------------------
(***************************************************************************)
(* For every set of requests, queue capacity and duration: PowerControl is *)
(* type correct, its hand-over loses, doubles and reorders nothing, and it *)
(* implements BoundedFifo with one action executing and QueueCap pending.  *)
(***************************************************************************)
EXTENDS PowerControl, TLAPS

(* What the proofs need of the constants.                                  *)
LEMMA Constants == NoRequest \notin Requests /\ QueueCap \in Nat
BY PowerAssumption

(* What AfterPress and its fellows return is a host.                       *)
LEMMA HostTypes ==
  ASSUME NEW h \in Hosts
  PROVE  /\ AfterPress(h) \in Hosts
         /\ AfterRelease(h) \in Hosts
         /\ \A t : AfterTick(h, t) \in Hosts
BY DEF Hosts, AfterPress, AfterRelease, AfterTick

(* A refusal is one of the replies.                                        *)
LEMMA RefusalType == ASSUME NEW in PROVE Refusal(in) \in Replies
BY DEF Refusal, Replies

(* Answering a request keeps the types of the handler's two functions.     *)
LEMMA AnswerType ==
  ASSUME TypeOK, NEW r \in Requests, NEW code \in Replies, Answer(r, code)
  PROVE  /\ http' \in [Requests -> {"new", "reading", "replying", "done"}]
         /\ reply' \in [Requests -> Replies]
BY DEF TypeOK, Answer

(* What a receive does, for an action buffered and for none.               *)
Taken  == /\ queue # << >> /\ Head(queue) \in Requests /\ Tail(queue) \in Seq(Requests)
             /\ Len(Tail(queue)) = Len(queue) - 1
             /\ queue = <<Head(queue)>> \o Tail(queue)
             /\ worker' = "pressing" /\ job' = Head(queue) /\ queue' = Tail(queue)
             /\ button' = "low" /\ held' = 0 /\ host' \in Hosts
Parked == /\ queue = << >> /\ worker' = "parked" /\ job' = NoRequest /\ queue' = << >>
             /\ button' = "high" /\ held' = held /\ host' \in Hosts

(* The two outcomes of the worker's receive.                               *)
LEMMA ReceiveCases ==
  ASSUME TypeOK, NEW h \in Hosts, Receive(h)
  PROVE  Taken \/ Parked
<1>1. CASE queue # << >>
  <2>1. /\ Head(queue) \in Requests /\ Tail(queue) \in Seq(Requests)
        /\ Len(Tail(queue)) = Len(queue) - 1
        /\ queue = <<Head(queue)>> \o Tail(queue)
    BY <1>1 DEF TypeOK
  <2>2. queue' = Tail(queue) /\ Press(Head(queue), h)
    BY <1>1 DEF Receive
  <2>3. AfterPress(h) \in Hosts
    BY HostTypes
  <2> QED BY <1>1, <2>1, <2>2, <2>3 DEF Press, Taken
<1>2. CASE queue = << >>
  BY <1>2 DEF Receive, Parked
<1> QED BY <1>1, <1>2

-----------------------------------------------------------------------------
(* The worker appends its job to the history, so the types need to know    *)
(* that a pressing worker has one, and that needs to know that the worker  *)
(* is started once (powerActionOnce): the three are inductive together.    *)
StartedOnce == worker = "absent" <=> boot \in {"reset", "configured", "released"}

PowerInv == TypeOK /\ NoLostWakeUp /\ StartedOnce

(* The invariant holds at power-on.                                        *)
LEMMA PowerInvInit == Init => PowerInv
<1> SUFFICES ASSUME Init PROVE PowerInv
  OBVIOUS
<1>1. TypeOK
  <2>1. host \in Hosts
    BY DEF Init, Hosts
  <2> QED BY <2>1 DEF Init, TypeOK, Replies
<1>2. NoLostWakeUp
  BY Constants DEF Init, NoLostWakeUp
<1>3. StartedOnce
  BY DEF Init, StartedOnce
<1> QED BY <1>1, <1>2, <1>3 DEF PowerInv

(* A receive restores the invariant of the variables it assigns.           *)
LEMMA ReceiveKeepsInv ==
  ASSUME PowerInv, NEW h \in Hosts, Receive(h), worker # "absent",
         UNCHANGED <<boot, httpVars, reboots, accepted>>, executed' \in Seq(Requests)
  PROVE  PowerInv'
<1>1. Taken \/ Parked
  BY ReceiveCases DEF PowerInv
<1>2. CASE Taken
  <2>1. TypeOK'
    BY <1>2 DEF Taken, PowerInv, TypeOK, httpVars
  <2>2. NoLostWakeUp'
    BY <1>2, Constants DEF Taken, PowerInv, TypeOK, NoLostWakeUp
  <2> QED BY <1>2, <2>1, <2>2 DEF PowerInv, StartedOnce, Taken
<1>3. CASE Parked
  <2>1. TypeOK'
    BY <1>3 DEF Parked, PowerInv, TypeOK, httpVars
  <2>2. NoLostWakeUp'
    BY <1>3, Constants DEF Parked, NoLostWakeUp
  <2> QED BY <1>3, <2>1, <2>2 DEF PowerInv, StartedOnce, Parked
<1> QED BY <1>1, <1>2, <1>3

(* The worker's steps keep it.                                             *)
LEMMA WorkerKeepsInv ==
  ASSUME PowerInv, WorkerStep PROVE PowerInv'
<1>1. CASE WorkerStart
  BY <1>1, ReceiveKeepsInv DEF WorkerStart, PowerInv, TypeOK, history
<1>2. CASE WorkerWake
  <2>1. AfterPress(host) \in Hosts
    BY HostTypes DEF PowerInv, TypeOK
  <2>2. TypeOK'
    BY <1>2, <2>1 DEF WorkerWake, Press, PowerInv, TypeOK, httpVars, history
  <2>3. NoLostWakeUp'
    BY <1>2 DEF WorkerWake, Press, PowerInv, NoLostWakeUp
  <2> QED BY <1>2, <2>2, <2>3 DEF PowerInv, StartedOnce, WorkerWake, Press
<1>3. CASE WorkerRelease
  <2>1. AfterRelease(host) \in Hosts
    BY HostTypes DEF PowerInv, TypeOK
  <2>2. job \in Requests
    BY <1>3 DEF WorkerRelease, PowerInv, TypeOK, NoLostWakeUp
  <2>3. executed' \in Seq(Requests)
    BY <1>3, <2>2 DEF WorkerRelease, PowerInv, TypeOK
  <2> QED BY <1>3, <2>1, <2>3, ReceiveKeepsInv DEF WorkerRelease
<1> QED BY <1>1, <1>2, <1>3 DEF WorkerStep

(* So do the handler's.                                                    *)
LEMMA HttpKeepsInv ==
  ASSUME PowerInv, NEW r \in Requests, HttpStep(r) PROVE PowerInv'
<1>1. CASE Arrive(r)
  BY <1>1, RefusalType, AnswerType DEF Arrive, PowerInv, TypeOK, NoLostWakeUp, StartedOnce, bmcVars, history
<1>2. CASE Decode(r)
  <2>1. CASE UNCHANGED <<bmcVars, history>>
    BY <1>2, <2>1, AnswerType DEF Decode, Replies, PowerInv, TypeOK, NoLostWakeUp, StartedOnce, bmcVars, history
  <2>2. CASE /\ CanEnqueue /\ Enqueue(r)
             /\ accepted' = Append(accepted, r)
             /\ http' = [http EXCEPT ![r] = "replying"]
             /\ UNCHANGED <<boot, button, held, reply, executed>>
    <3>1. UNCHANGED <<input, host, reboots>>
      BY <1>2 DEF Decode
    <3>2. /\ accepted' \in Seq(Requests)
          /\ http' \in [Requests -> {"new", "reading", "replying", "done"}]
      BY <2>2 DEF PowerInv, TypeOK
    <3>3. CASE worker = "parked"
      <4>1. worker' = "handed" /\ job' = r /\ queue' = queue
        BY <2>2, <3>3 DEF Enqueue
      <4>2. TypeOK'
        BY <2>2, <3>1, <3>2, <4>1 DEF PowerInv, TypeOK
      <4>3. NoLostWakeUp'
        BY <3>3, <4>1, Constants DEF PowerInv, NoLostWakeUp
      <4> QED BY <2>2, <3>3, <4>1, <4>2, <4>3 DEF PowerInv, StartedOnce
    <3>4. CASE worker # "parked"
      <4>1. worker' = worker /\ job' = job /\ queue' = Append(queue, r) /\ Len(queue) < QueueCap
        BY <2>2, <3>4 DEF Enqueue, CanEnqueue
      <4>2. queue' \in Seq(Requests) /\ Len(queue') = Len(queue) + 1
        BY <4>1 DEF PowerInv, TypeOK
      <4>3. Len(queue) \in Nat
        BY DEF PowerInv, TypeOK
      <4>4. TypeOK'
        BY <2>2, <3>1, <3>2, <4>1, <4>2 DEF PowerInv, TypeOK
      <4>5. NoLostWakeUp'
        BY <3>4, <4>1, <4>2, <4>3, Constants DEF PowerInv, NoLostWakeUp
      <4> QED BY <2>2, <4>1, <4>4, <4>5 DEF PowerInv, StartedOnce
    <3> QED BY <3>3, <3>4
  <2> QED BY <1>2, <2>1, <2>2 DEF Decode
<1>3. CASE WriteReply(r)
  BY <1>3, AnswerType DEF WriteReply, Replies, PowerInv, TypeOK, NoLostWakeUp, StartedOnce, bmcVars, history
<1>4. CASE Disconnect(r)
  BY <1>4, AnswerType DEF Disconnect, Replies, PowerInv, TypeOK, NoLostWakeUp, StartedOnce, bmcVars, history
<1> QED BY <1>1, <1>2, <1>3, <1>4 DEF HttpStep

(* And those of start-up and restart.                                      *)
LEMMA BootKeepsInv ==
  ASSUME PowerInv, BootStep PROVE PowerInv'
<1>1. UNCHANGED <<job, queue, held, http, input, reply, host, reboots, accepted, executed>>
  BY DEF BootStep, ConfigureButton, ReleaseButton, startPowerActionWorker, startAPIServer,
         httpVars, history
<1>2. \/ worker' = worker
      \/ worker' = "ready" /\ boot = "released"
  BY DEF BootStep, ConfigureButton, ReleaseButton, startPowerActionWorker, startAPIServer
<1>3. /\ boot' \in {"reset", "configured", "released", "starting", "serving", "failed"}
      /\ button' \in {"low", "high"}
  BY DEF BootStep, ConfigureButton, ReleaseButton, startPowerActionWorker, startAPIServer,
         PowerInv, TypeOK
<1>4. TypeOK'
  BY <1>1, <1>2, <1>3 DEF PowerInv, TypeOK
<1>5. NoLostWakeUp'
  BY <1>1, <1>2 DEF PowerInv, NoLostWakeUp, StartedOnce
<1>6. StartedOnce'
  BY DEF BootStep, ConfigureButton, ReleaseButton, startPowerActionWorker, startAPIServer,
         PowerInv, StartedOnce
<1> QED BY <1>4, <1>5, <1>6 DEF PowerInv

(* Every step keeps it.                                                    *)
LEMMA PowerInvNext == PowerInv /\ [Next]_vars => PowerInv'
<1> SUFFICES ASSUME PowerInv, [Next]_vars PROVE PowerInv'
  OBVIOUS
<1>1. CASE BootStep
  BY <1>1, BootKeepsInv
<1>2. CASE WorkerStep
  BY <1>2, WorkerKeepsInv
<1>3. CASE Tick
  <2>1. host' \in Hosts /\ held' \in Nat
    <3>1. host \in Hosts /\ held \in Nat
      BY DEF PowerInv, TypeOK
    <3>2. AfterTick(host, held + 1) \in Hosts
      BY <3>1, HostTypes
    <3> QED BY <1>3, <3>1, <3>2 DEF Tick
  <2>2. TypeOK'
    BY <1>3, <2>1 DEF Tick, PowerInv, TypeOK, httpVars, history
  <2>3. NoLostWakeUp' /\ StartedOnce'
    BY <1>3 DEF Tick, PowerInv, NoLostWakeUp, StartedOnce
  <2> QED BY <2>2, <2>3 DEF PowerInv
<1>4. CASE HostAlone
  <2>1. host' \in Hosts
    <3>1. host.armed \in BOOLEAN
      BY DEF PowerInv, TypeOK, Hosts
    <3>2. [power |-> "on", armed |-> host.armed] \in Hosts /\ [power |-> "off", armed |-> FALSE] \in Hosts
      BY <3>1 DEF Hosts
    <3> QED BY <1>4, <3>2 DEF HostAlone
  <2>2. UNCHANGED <<bmcVars, httpVars, reboots, history>>
    BY <1>4 DEF HostAlone
  <2>3. TypeOK'
    BY <2>1, <2>2 DEF PowerInv, TypeOK, bmcVars, httpVars, history
  <2>4. NoLostWakeUp' /\ StartedOnce'
    BY <2>2 DEF PowerInv, NoLostWakeUp, StartedOnce, bmcVars
  <2> QED BY <2>3, <2>4 DEF PowerInv
<1>5. CASE Reboot
  <2>1. AfterRelease(host) \in Hosts
    BY HostTypes DEF PowerInv, TypeOK
  <2>2. /\ http' \in [Requests -> {"new", "reading", "replying", "done"}]
        /\ reply' \in [Requests -> Replies]
    BY <1>5 DEF Reboot, Replies, PowerInv, TypeOK
  <2>3. TypeOK'
    BY <1>5, <2>1, <2>2 DEF Reboot, PowerInv, TypeOK
  <2>4. NoLostWakeUp'
    BY <1>5, Constants DEF Reboot, NoLostWakeUp
  <2>5. StartedOnce'
    BY <1>5 DEF Reboot, StartedOnce
  <2> QED BY <2>3, <2>4, <2>5 DEF PowerInv
<1>6. CASE \E r \in Requests : HttpStep(r)
  BY <1>6, HttpKeepsInv
<1>7. CASE UNCHANGED vars
  BY <1>7 DEF vars, PowerInv, TypeOK, NoLostWakeUp, StartedOnce, bmcVars, httpVars, history
<1> QED BY <1>1, <1>2, <1>3, <1>4, <1>5, <1>6, <1>7 DEF Next

(* Type correctness and the agreement of channel and worker, for every set *)
(* of requests, capacity and duration.                                     *)
THEOREM TypeCorrect == Spec => []TypeOK
<1>1. PowerInv => TypeOK
  BY DEF PowerInv
<1> QED BY <1>1, PowerInvInit, PowerInvNext, PTL DEF Spec

(* An action never waits in the channel while the worker is parked.         *)
THEOREM WorkerNeverStranded == Spec => []NoLostWakeUp
<1>1. PowerInv => NoLostWakeUp
  BY DEF PowerInv
<1> QED BY <1>1, PowerInvInit, PowerInvNext, PTL DEF Spec

-----------------------------------------------------------------------------
(* Lemmas on sequences.                                                    *)

(* Append is concatenation with one element.                               *)
LEMMA AppendConcat ==
  \A s, t \in Seq(Requests) : \A e \in Requests :
     /\ Append(s, e) = s \o <<e>>
     /\ Append(s \o t, e) = s \o Append(t, e)
<1> TAKE s, t \in Seq(Requests)
<1> TAKE e \in Requests
<1>1. Append(s, e) = s \o <<e>>
  BY SMTT(60)
<1>2. Append(s \o t, e) = s \o Append(t, e)
  BY SMTT(60)
<1> QED BY <1>1, <1>2

(* Concatenation is associative.                                           *)
LEMMA ConcatAssoc ==
  \A s, t, u \in Seq(Requests) : (s \o t) \o u = s \o (t \o u)
OBVIOUS

(* The element after a prefix, and the lengths.                            *)
LEMMA PrefixNext ==
  \A s, t \in Seq(Requests) : \A e \in Requests :
     /\ ((s \o <<e>>) \o t)[Len(s) + 1] = e
     /\ Len((s \o <<e>>) \o t) = Len(s) + 1 + Len(t)
     /\ Len(s \o t) = Len(s) + Len(t)
     /\ << >> \o s = s /\ s \o << >> = s
OBVIOUS

-----------------------------------------------------------------------------
(* The hand-over.  Three kinds of step touch the histories: an accepted    *)
(* request, a completed press, a restart.  Every other step leaves         *)
(* executed \o InHand \o queue as it was.                                  *)
OrderInv == PowerInv /\ NothingLostOrReordered

(* The worker's action, as a sequence of none or one.                      *)
LEMMA InHandType == ASSUME PowerInv PROVE InHand \in Seq(Requests)
BY DEF PowerInv, TypeOK, InHand

(* At most one in hand and fewer than c buffered: room for one.            *)
LEMMA OneMore ==
  \A a, b, c \in Nat : (a = 0 \/ a = 1) /\ b < c => a + b < c + 1
OBVIOUS

(* An accepted request is put last, whichever way it goes.                 *)
LEMMA DecodeAccepts ==
  ASSUME OrderInv, NEW r \in Requests, CanEnqueue, Enqueue(r),
         accepted' = Append(accepted, r), executed' = executed
  PROVE  /\ NothingLostOrReordered'
         /\ Fifo!Put(r)
<1> DEFINE e == executed
<1>1. /\ e \in Seq(Requests) /\ queue \in Seq(Requests) /\ InHand \in Seq(Requests)
      /\ accepted = (e \o InHand) \o queue /\ r # NoRequest
      /\ e \o InHand \in Seq(Requests)
  BY InHandType, Constants DEF OrderInv, PowerInv, TypeOK, NothingLostOrReordered
<1>2. CASE worker = "parked"
  <2>1. InHand = << >> /\ queue = << >>
    BY <1>2 DEF OrderInv, PowerInv, NoLostWakeUp, InHand
  <2>2. InHand' = <<r>> /\ queue' = << >>
    BY <1>1, <1>2, <2>1 DEF Enqueue, InHand
  <2>3. accepted = e
    BY <1>1, <2>1, PrefixNext
  <2>4. accepted' = (e \o <<r>>) \o << >>
    <3>1. Append(e, r) = e \o <<r>> /\ e \o <<r>> \in Seq(Requests)
      BY <1>1, AppendConcat
    <3> QED BY <2>3, <3>1, <1>1, PrefixNext
  <2>5. Fifo!UnderWay < QueueCap + 1
    BY <1>1, <2>3, Constants DEF Fifo!UnderWay
  <2> QED BY <2>2, <2>4, <2>5 DEF NothingLostOrReordered, Fifo!Put
<1>3. CASE worker # "parked"
  <2>1. queue' = Append(queue, r) /\ InHand' = InHand /\ Len(queue) < QueueCap
    BY <1>3 DEF Enqueue, CanEnqueue, InHand
  <2>2. accepted' = (e \o InHand) \o queue'
    <3>1. Append((e \o InHand) \o queue, r) = (e \o InHand) \o Append(queue, r)
      BY <1>1, AppendConcat, Zenon
    <3> QED BY <1>1, <2>1, <3>1
  <2>3. Fifo!UnderWay < QueueCap + 1
    <3>1. Len(InHand) = 0 \/ Len(InHand) = 1
      BY DEF InHand
    <3>7. Len(queue) < QueueCap
      BY <2>1
    <3>2. Len(accepted) = Len(e) + Len(InHand) + Len(queue)
      BY <1>1, PrefixNext
    <3>3. Len(e) \in Nat /\ Len(queue) \in Nat /\ Len(InHand) \in Nat
      BY <1>1
    <3>4. Len(accepted) - Len(e) = Len(InHand) + Len(queue)
      BY <3>2, <3>3
    <3>5. Len(InHand) + Len(queue) < QueueCap + 1
      BY <3>1, <3>3, <3>7, Constants, OneMore
    <3>6. Len(accepted) - Len(e) < QueueCap + 1
      BY <3>4, <3>5
    <3> QED BY <3>6 DEF Fifo!UnderWay
  <2> QED BY <2>1, <2>2, <2>3 DEF NothingLostOrReordered, Fifo!Put
<1> QED BY <1>2, <1>3

(* A receive moves the head of the buffer into the worker's hand.          *)
LEMMA ReceiveMoves ==
  ASSUME PowerInv, NEW h \in Hosts, Receive(h)
  PROVE  InHand' \o queue' = queue /\ InHand' \in Seq(Requests) /\ queue' \in Seq(Requests)
<1>1. Taken \/ Parked
  BY ReceiveCases DEF PowerInv
<1>2. CASE Taken
  <2>1. InHand' = <<Head(queue)>>
    BY <1>2, Constants DEF Taken, InHand
  <2> QED BY <1>2, <2>1 DEF Taken
<1>3. CASE Parked
  BY <1>3 DEF Parked, InHand
<1> QED BY <1>1, <1>2, <1>3

(* The end of an execution is a Get.                                       *)
LEMMA ReleaseTakes ==
  ASSUME OrderInv, WorkerRelease
  PROVE  /\ NothingLostOrReordered'
         /\ Fifo!Get
<1> DEFINE e == executed
<1>1. /\ e \in Seq(Requests) /\ queue \in Seq(Requests) /\ job \in Requests
      /\ InHand = <<job>> /\ accepted = (e \o <<job>>) \o queue
  BY DEF OrderInv, PowerInv, TypeOK, NoLostWakeUp, NothingLostOrReordered, WorkerRelease, InHand
<1>2. AfterRelease(host) \in Hosts
  BY HostTypes DEF OrderInv, PowerInv, TypeOK
<1>3. InHand' \o queue' = queue /\ InHand' \in Seq(Requests) /\ queue' \in Seq(Requests)
  BY <1>2, ReceiveMoves DEF WorkerRelease, OrderInv
<1>4. executed' = Append(e, job) /\ accepted' = accepted
  BY DEF WorkerRelease
<1>5. executed' = e \o <<job>> /\ executed' \in Seq(Requests)
  BY <1>1, <1>4, AppendConcat
<1>6. NothingLostOrReordered'
  <2>1. accepted' = executed' \o (InHand' \o queue')
    BY <1>1, <1>3, <1>4, <1>5
  <2>2. (executed' \o InHand') \o queue' = executed' \o (InHand' \o queue')
    BY <1>3, <1>5, ConcatAssoc, Zenon
  <2> QED BY <2>1, <2>2 DEF NothingLostOrReordered
<1>7. Fifo!Get
  <2>1. accepted[Len(e) + 1] = job /\ Len(accepted) = Len(e) + 1 + Len(queue)
    BY <1>1, PrefixNext
  <2>2. Len(e) \in Nat /\ Len(queue) \in Nat
    BY <1>1
  <2> QED BY <1>4, <2>1, <2>2 DEF Fifo!Get, Fifo!UnderWay
<1> QED BY <1>6, <1>7

(* Steps that neither accept nor complete nor restart.                     *)
LEMMA QuietStep ==
  ASSUME OrderInv, UNCHANGED history, InHand' \o queue' = InHand \o queue,
         InHand' \in Seq(Requests), queue' \in Seq(Requests)
  PROVE  NothingLostOrReordered'
<1>1. accepted = executed \o (InHand \o queue)
  <2>1. executed \in Seq(Requests) /\ InHand \in Seq(Requests) /\ queue \in Seq(Requests)
    BY InHandType DEF OrderInv, PowerInv, TypeOK
  <2>2. accepted = (executed \o InHand) \o queue
    BY DEF OrderInv, NothingLostOrReordered
  <2> QED BY <2>1, <2>2, ConcatAssoc
<1>2. accepted' = executed' \o (InHand' \o queue')
  BY <1>1 DEF history
<1>3. executed' \in Seq(Requests)
  BY DEF history, OrderInv, PowerInv, TypeOK
<1>4. (executed' \o InHand') \o queue' = executed' \o (InHand' \o queue')
  BY <1>3, ConcatAssoc, Zenon
<1> QED BY <1>2, <1>4 DEF NothingLostOrReordered

(* Every step keeps the order, and is a step of BoundedFifo or none.       *)
LEMMA OrderInvNext ==
  ASSUME OrderInv, [Next]_vars
  PROVE  NothingLostOrReordered' /\ [Fifo!FifoNext]_(Fifo!fifoVars)
<1> USE DEF Fifo!FifoNext, Fifo!fifoVars
<1>0. /\ InHand \in Seq(Requests) /\ queue \in Seq(Requests) /\ host \in Hosts
      /\ PowerInv
  BY InHandType DEF OrderInv, PowerInv, TypeOK
<1>1. CASE UNCHANGED <<job, queue, history>>
  BY <1>0, <1>1 DEF OrderInv, NothingLostOrReordered, InHand, history
<1>2. CASE WorkerStart
  <2>1. Receive(host) /\ UNCHANGED history /\ InHand = << >>
    BY <1>2, <1>0 DEF WorkerStart, PowerInv, NoLostWakeUp, InHand
  <2>2. InHand' \o queue' = queue /\ InHand' \in Seq(Requests) /\ queue' \in Seq(Requests)
    BY <1>0, <2>1, ReceiveMoves
  <2>3. InHand \o queue = queue
    BY <1>0, <2>1, PrefixNext
  <2> QED BY <2>1, <2>2, <2>3, QuietStep DEF history
<1>3. CASE WorkerWake
  BY <1>1, <1>3 DEF WorkerWake, Press
<1>4. CASE WorkerRelease
  BY <1>4, ReleaseTakes
<1>5. CASE Reboot
  <2>1. accepted' = << >> /\ executed' = << >> /\ queue' = << >> /\ InHand' = << >>
    BY <1>5 DEF Reboot, InHand
  <2> QED BY <2>1 DEF NothingLostOrReordered, Fifo!Restart
<1>6. ASSUME NEW r \in Requests, HttpStep(r)
      PROVE  NothingLostOrReordered' /\ [Fifo!FifoNext]_(Fifo!fifoVars)
  <2>1. CASE Decode(r)
    <3>1. CASE UNCHANGED <<bmcVars, history>>
      BY <1>1, <3>1 DEF bmcVars
    <3>2. CASE /\ CanEnqueue /\ Enqueue(r)
               /\ accepted' = Append(accepted, r) /\ executed' = executed
      BY <3>2, DecodeAccepts
    <3> QED BY <2>1, <3>1, <3>2 DEF Decode
  <2>2. CASE Arrive(r) \/ WriteReply(r) \/ Disconnect(r)
    BY <1>1, <2>2 DEF Arrive, WriteReply, Disconnect, bmcVars
  <2> QED BY <1>6, <2>1, <2>2 DEF HttpStep
<1>7. CASE BootStep
  BY <1>1, <1>7 DEF BootStep, ConfigureButton, ReleaseButton, startPowerActionWorker, startAPIServer
<1>8. CASE Tick \/ HostAlone \/ UNCHANGED vars
  BY <1>1, <1>8 DEF Tick, HostAlone, vars, bmcVars
<1> QED BY <1>2, <1>3, <1>4, <1>5, <1>6, <1>7, <1>8 DEF Next, WorkerStep

(* Nothing accepted, nothing executed.                                     *)
LEMMA OrderInvInit == Init => OrderInv
<1> SUFFICES ASSUME Init PROVE OrderInv
  OBVIOUS
<1>1. accepted = << >> /\ executed = << >> /\ queue = << >> /\ InHand = << >>
  BY DEF Init, InHand
<1>2. << >> \o << >> = << >>
  OBVIOUS
<1>3. NothingLostOrReordered
  BY <1>1, <1>2 DEF NothingLostOrReordered
<1> QED BY <1>3, PowerInvInit DEF OrderInv

(* No accepted action is lost, doubled or overtaken (api.go:172-190).      *)
THEOREM NothingLost == Spec => []NothingLostOrReordered
<1>1. OrderInv /\ [Next]_vars => OrderInv'
  BY OrderInvNext, PowerInvNext DEF OrderInv
<1>2. OrderInv => NothingLostOrReordered
  BY DEF OrderInv
<1> QED BY <1>1, <1>2, OrderInvInit, PTL DEF Spec

(* One executing, QueueCap pending: the channel and its worker implement   *)
(* the bounded FIFO.                                                       *)
THEOREM PowerImplementsFifo == Spec => OneExecutingOnePending
<1>1. Init => Fifo!FifoInit
  BY DEF Init, Fifo!FifoInit
<1>2. OrderInv /\ [Next]_vars => OrderInv' /\ [Fifo!FifoNext]_(Fifo!fifoVars)
  BY OrderInvNext, PowerInvNext DEF OrderInv
<1> QED BY <1>1, <1>2, OrderInvInit, PTL DEF Spec, Fifo!FifoSpec, OneExecutingOnePending

-----------------------------------------------------------------------------
(* The button.  What is accepted was authorised and will not be refused,   *)
(* and no request is accepted twice; the handler that still reads a body   *)
(* has passed the checks.  With the hand-over this places the job of a     *)
(* pressing worker among the accepted and apart from the executed.         *)
AcceptedOK ==
  /\ \A i \in 1 .. Len(accepted) : /\ Authorised(accepted[i])
                                  /\ http[accepted[i]] \in {"replying", "done"}
                                  /\ reply[accepted[i]] \in {"none", "202", "lost"}
  /\ \A i, j \in 1 .. Len(accepted) : i # j => accepted[i] # accepted[j]
  /\ \A r \in Requests : /\ http[r] = "reading" => Refusal(input[r]) = "none"
                         /\ http[r] \in {"new", "reading"} => reply[r] = "none"
LineOK == boot # "configured" => (button = "low" <=> worker = "pressing")

ButtonInv == OrderInv /\ AcceptedOK /\ LineOK

(* Accepted actions are requests.                                          *)
LEMMA ElementsType == ASSUME PowerInv PROVE \A i \in 1 .. Len(accepted) : accepted[i] \in Requests
BY DEF PowerInv, TypeOK

(* A request that is not refused has the method and the token.             *)
LEMMA Passed ==
  ASSUME NEW in, Refusal(in) = "none"
  PROVE  in.method = "POST" /\ TokenSet /\ in.token = "good"
BY DEF Refusal

(* The button is up at power-on.                                           *)
LEMMA ButtonInit == Init => ButtonInv
<1> SUFFICES ASSUME Init PROVE ButtonInv
  OBVIOUS
<1>1. \A i \in 1 .. Len(accepted) : FALSE
  BY DEF Init
<1>2. AcceptedOK
  BY <1>1 DEF Init, AcceptedOK
<1> QED BY <1>2, OrderInvInit DEF Init, LineOK, ButtonInv

(* A step of one handler leaves what is known of the others.               *)
LEMMA AcceptedHttp ==
  ASSUME PowerInv, AcceptedOK, NEW r \in Requests, HttpStep(r)
  PROVE  AcceptedOK'
<1>1. /\ http \in [Requests -> {"new", "reading", "replying", "done"}]
      /\ reply \in [Requests -> Replies] /\ accepted \in Seq(Requests) /\ input' = input
      /\ \A i \in 1 .. Len(accepted) : accepted[i] \in Requests
  BY ElementsType DEF PowerInv, TypeOK, HttpStep, Arrive, Decode, WriteReply, Disconnect
<1>2. \A i \in 1 .. Len(accepted) : http[r] \in {"new", "reading"} => accepted[i] # r
  BY DEF AcceptedOK
<1>3. CASE \E code \in Replies : http[r] # "replying" /\ Answer(r, code) /\ accepted' = accepted
  <2>1. \A q \in Requests : q # r => http'[q] = http[q] /\ reply'[q] = reply[q]
    BY <1>1, <1>3 DEF Answer
  <2>2. http'[r] = "done"
    BY <1>1, <1>3 DEF Answer
  <2>3. CASE http[r] = "done"
    BY <1>3, <2>3 DEF HttpStep, Arrive, Decode, WriteReply, Disconnect
  <2>4. CASE http[r] # "done"
    <3>1. \A i \in 1 .. Len(accepted) : accepted[i] # r
      BY <1>1, <1>2, <1>3, <2>4
    <3>2. accepted' = accepted
      BY <1>3
    <3> QED BY <1>1, <2>1, <2>2, <3>1, <3>2 DEF AcceptedOK, Authorised
  <2> QED BY <2>3, <2>4
<1>4. CASE Arrive(r)
  <2>1. CASE Refusal(input[r]) # "none"
    <3>1. /\ Refusal(input[r]) \in Replies /\ http[r] # "replying"
          /\ Answer(r, Refusal(input[r])) /\ accepted' = accepted
      BY <1>4, <2>1, RefusalType DEF Arrive, history
    <3> QED BY <1>3, <3>1
  <2>2. CASE Refusal(input[r]) = "none"
    <3>1. /\ http[r] = "new" /\ http' = [http EXCEPT ![r] = "reading"]
          /\ reply' = reply /\ accepted' = accepted
      BY <1>4, <2>2 DEF Arrive, history
    <3>2. \A q \in Requests : http'[q] = IF q = r THEN "reading" ELSE http[q]
      BY <1>1, <3>1
    <3>3. \A i \in 1 .. Len(accepted) : accepted[i] # r
      BY <1>2, <3>1
    <3>4. reply[r] = "none"
      BY <3>1 DEF AcceptedOK
    <3> QED BY <1>1, <2>2, <3>1, <3>2, <3>3, <3>4 DEF AcceptedOK, Authorised
  <2> QED BY <2>1, <2>2
<1>5. CASE Decode(r)
  <2>1. CASE UNCHANGED <<bmcVars, history>> /\ \E code \in {"400", "429"} : Answer(r, code)
    BY <1>3, <1>5, <2>1 DEF Decode, Replies, history
  <2>2. CASE /\ input[r].type \in ResetTypes
             /\ accepted' = Append(accepted, r)
             /\ http' = [http EXCEPT ![r] = "replying"] /\ reply' = reply
    <3>1. Authorised(r) /\ reply[r] = "none" /\ http[r] = "reading"
      BY <1>5, <2>2, Passed DEF AcceptedOK, Authorised, Decode
    <3>2. /\ Len(accepted) \in Nat /\ Len(accepted') = Len(accepted) + 1
          /\ accepted'[Len(accepted) + 1] = r
          /\ \A i \in 1 .. Len(accepted) : accepted'[i] = accepted[i]
      BY <1>1, <2>2
    <3>3. /\ \A i \in 1 .. Len(accepted) : accepted'[i] # r
          /\ \A i \in 1 .. Len(accepted') : i = Len(accepted) + 1 \/ i \in 1 .. Len(accepted)
      BY <1>2, <3>1, <3>2
    <3>4. \A q \in Requests : http'[q] = IF q = r THEN "replying" ELSE http[q]
      BY <1>1, <2>2
    <3>5. \A i \in 1 .. Len(accepted') : /\ Authorised(accepted'[i])
                                         /\ http'[accepted'[i]] \in {"replying", "done"}
                                         /\ reply'[accepted'[i]] \in {"none", "202", "lost"}
      BY <1>1, <2>2, <3>1, <3>2, <3>3, <3>4 DEF AcceptedOK
    <3>6. \A i, j \in 1 .. Len(accepted') : i # j => accepted'[i] # accepted'[j]
      BY <3>2, <3>3 DEF AcceptedOK
    <3>7. \A q \in Requests : /\ http'[q] = "reading" => Refusal(input'[q]) = "none"
                              /\ http'[q] \in {"new", "reading"} => reply'[q] = "none"
      BY <1>1, <2>2, <3>4 DEF AcceptedOK
    <3> QED BY <1>1, <3>5, <3>6, <3>7 DEF AcceptedOK, Authorised
  <2> QED BY <1>5, <2>1, <2>2 DEF Decode
<1>6. CASE WriteReply(r)
  <2>1. PICK code \in {"202", "lost"} : Answer(r, code)
    BY <1>6 DEF WriteReply
  <2>2. \A q \in Requests : /\ http'[q] = IF q = r THEN "done" ELSE http[q]
                            /\ reply'[q] = IF q = r THEN code ELSE reply[q]
    BY <1>1, <2>1 DEF Answer
  <2>3. accepted' = accepted
    BY <1>6 DEF WriteReply, history
  <2> QED BY <1>1, <2>2, <2>3 DEF AcceptedOK, Authorised
<1>7. CASE Disconnect(r)
  BY <1>3, <1>7 DEF Disconnect, Replies, history
<1> QED BY <1>4, <1>5, <1>6, <1>7 DEF HttpStep

(* Every step keeps the button honest.                                     *)
LEMMA ButtonNext == ButtonInv /\ [Next]_vars => ButtonInv'
<1> SUFFICES ASSUME ButtonInv, [Next]_vars PROVE ButtonInv'
  OBVIOUS
<1>1. PowerInv /\ AcceptedOK /\ LineOK /\ StartedOnce
  BY DEF ButtonInv, OrderInv, PowerInv
<1>2. OrderInv'
  BY OrderInvNext, PowerInvNext DEF ButtonInv, OrderInv
<1>3. AcceptedOK'
  <2>1. CASE UNCHANGED <<httpVars, accepted>>
    BY <1>1, <2>1 DEF AcceptedOK, Authorised, httpVars
  <2>2. CASE Reboot
    <3>1. /\ accepted' = << >>
          /\ \A r \in Requests : /\ http'[r] # "reading"
                                 /\ http'[r] = "new" => http[r] = "new" /\ reply'[r] = reply[r]
      BY <1>1, <2>2 DEF Reboot, PowerInv, TypeOK
    <3>2. \A i \in 1 .. Len(accepted') : FALSE
      BY <3>1
    <3> QED BY <1>1, <3>1, <3>2 DEF AcceptedOK
  <2>3. CASE \E r \in Requests : HttpStep(r)
    BY <1>1, <2>3, AcceptedHttp
  <2>4. CASE BootStep \/ WorkerStep \/ Tick \/ HostAlone \/ UNCHANGED vars
    BY <2>1, <2>4 DEF BootStep, ConfigureButton, ReleaseButton, startPowerActionWorker, startAPIServer,
       WorkerStep, WorkerStart, WorkerWake, WorkerRelease, Tick, HostAlone, vars, history
  <2> QED BY <2>2, <2>3, <2>4 DEF Next
<1>4. LineOK'
  <2>1. CASE UNCHANGED <<button, boot>> /\ (worker' = "pressing" <=> worker = "pressing")
    BY <1>1, <2>1 DEF LineOK
  <2>2. CASE BootStep
    BY <1>1, <2>2 DEF LineOK, StartedOnce, BootStep, ConfigureButton, ReleaseButton,
                      startPowerActionWorker, startAPIServer
  <2>3. CASE WorkerStart \/ WorkerRelease
    <3>1. PICK h \in Hosts : Receive(h)
      BY <1>1, <2>3, HostTypes DEF WorkerStart, WorkerRelease, PowerInv, TypeOK
    <3>2. Taken \/ Parked
      BY <1>1, <3>1, ReceiveCases DEF PowerInv
    <3> QED BY <3>2 DEF LineOK, Taken, Parked
  <2>4. CASE WorkerWake
    BY <2>4 DEF LineOK, WorkerWake, Press
  <2>5. CASE Reboot
    BY <2>5 DEF LineOK, Reboot
  <2>6. CASE \E r \in Requests : HttpStep(r)
    <3>1. UNCHANGED <<button, boot>> /\ (worker' = worker \/ (worker = "parked" /\ worker' = "handed"))
      BY <2>6 DEF HttpStep, Arrive, Decode, Enqueue, WriteReply, Disconnect, bmcVars
    <3> QED BY <2>1, <3>1
  <2>7. CASE Tick \/ HostAlone \/ UNCHANGED vars
    BY <2>1, <2>7 DEF Tick, HostAlone, vars, bmcVars
  <2> QED BY <2>2, <2>3, <2>4, <2>5, <2>6, <2>7 DEF Next, WorkerStep
<1> QED BY <1>2, <1>3, <1>4 DEF ButtonInv

(* The job of a pressing worker is the first accepted one not executed.    *)
LEMMA JobPlace ==
  ASSUME OrderInv, job # NoRequest
  PROVE  /\ Len(executed) + 1 \in 1 .. Len(accepted)
         /\ accepted[Len(executed) + 1] = job
         /\ \A i \in 1 .. Len(executed) : accepted[i] = executed[i] /\ i \in 1 .. Len(accepted)
<1>1. /\ executed \in Seq(Requests) /\ queue \in Seq(Requests) /\ job \in Requests
      /\ accepted = (executed \o <<job>>) \o queue
  BY DEF OrderInv, PowerInv, TypeOK, NothingLostOrReordered, InHand
<1>2. /\ ((executed \o <<job>>) \o queue)[Len(executed) + 1] = job
      /\ Len((executed \o <<job>>) \o queue) = Len(executed) + 1 + Len(queue)
  BY <1>1, PrefixNext
<1>3. \A i \in 1 .. Len(executed) : ((executed \o <<job>>) \o queue)[i] = executed[i]
  BY <1>1
<1>4. Len(executed) \in Nat /\ Len(queue) \in Nat
  BY <1>1
<1> QED BY <1>1, <1>2, <1>3, <1>4

(* The button line is low only for one accepted, authorised action that    *)
(* has not been executed yet.                                              *)
THEOREM ButtonHonest == Spec => []ButtonOnlyForAcceptedAction
<1>1. ButtonInv => ButtonOnlyForAcceptedAction
  <2> SUFFICES ASSUME ButtonInv PROVE ButtonOnlyForAcceptedAction
    OBVIOUS
  <2>1. ASSUME worker = "pressing"
        PROVE  /\ Authorised(job) /\ reply[job] \in {"none", "202", "lost"}
               /\ job \notin Elements(executed)
    <3>1. job # NoRequest
      BY <2>1 DEF ButtonInv, OrderInv, PowerInv, NoLostWakeUp
    <3>2. /\ Len(executed) + 1 \in 1 .. Len(accepted)
          /\ accepted[Len(executed) + 1] = job
          /\ \A i \in 1 .. Len(executed) : accepted[i] = executed[i] /\ i \in 1 .. Len(accepted)
      BY <3>1, JobPlace DEF ButtonInv
    <3>3. DOMAIN executed = 1 .. Len(executed) /\ Len(executed) \in Nat
      BY DEF ButtonInv, OrderInv, PowerInv, TypeOK
    <3>4. \A i \in 1 .. Len(executed) : executed[i] # job
      BY <3>2, <3>3 DEF ButtonInv, AcceptedOK
    <3> QED BY <3>2, <3>3, <3>4 DEF ButtonInv, AcceptedOK, Elements
  <2> QED BY <2>1 DEF ButtonInv, LineOK, ButtonOnlyForAcceptedAction
<1> QED BY <1>1, ButtonInit, ButtonNext, PTL DEF Spec

-----------------------------------------------------------------------------
(* A refusal.  A handler that reads a body runs under a server that came   *)
(* up after the worker had been scheduled.                                 *)
ServingInv ==
  /\ PowerInv
  /\ boot \in {"serving", "failed"} => worker # "ready"
  /\ \A r \in Requests : http[r] = "reading" => boot = "serving"

(* No action at power-on.                                                  *)
LEMMA ServingInit == Init => ServingInv
BY PowerInvInit DEF Init, ServingInv

(* Every step keeps it.                                                    *)
LEMMA ServingNext == ServingInv /\ [Next]_vars => ServingInv'
<1> SUFFICES ASSUME ServingInv, [Next]_vars PROVE ServingInv'
  OBVIOUS
<1>1. PowerInv /\ PowerInv' /\ StartedOnce
  BY PowerInvNext DEF ServingInv, PowerInv
<1>2. CASE BootStep
  <2>1. http' = http /\ boot # "serving" /\ (boot' \in {"serving", "failed"} => worker' # "ready")
    BY <1>2 DEF BootStep, ConfigureButton, ReleaseButton, startPowerActionWorker, startAPIServer, httpVars
  <2> QED BY <1>1, <2>1 DEF ServingInv
<1>3. CASE WorkerStep
  <2>1. boot' = boot /\ http' = http /\ worker' # "ready"
    BY <1>3 DEF WorkerStep, WorkerStart, WorkerWake, WorkerRelease, Receive, Press, httpVars
  <2> QED BY <1>1, <2>1 DEF ServingInv
<1>4. CASE Tick \/ HostAlone \/ UNCHANGED vars
  BY <1>1, <1>4 DEF Tick, HostAlone, vars, bmcVars, httpVars, ServingInv
<1>5. CASE Reboot
  BY <1>1, <1>5 DEF Reboot, ServingInv, PowerInv, TypeOK
<1>6. ASSUME NEW r \in Requests, HttpStep(r) PROVE ServingInv'
  <2>1. boot' = boot /\ (worker' = worker \/ worker' = "handed")
    BY <1>6 DEF HttpStep, Arrive, Decode, Enqueue, WriteReply, Disconnect, bmcVars
  <2>2. \A q \in Requests : http'[q] = "reading" => http[q] = "reading" \/ boot = "serving"
    BY <1>1, <1>6 DEF HttpStep, Arrive, Decode, WriteReply, Disconnect, Answer, PowerInv, TypeOK
  <2> QED BY <1>1, <2>1, <2>2 DEF ServingInv
<1> QED BY <1>2, <1>3, <1>4, <1>5, <1>6 DEF Next

(* A request is refused as busy only while an action is being executed.    *)
THEOREM BusyMeansBusy == Spec => RefusedOnlyWhileExecuting
<1>1. ASSUME ServingInv, [Next]_vars
      PROVE  [\A r \in Requests : reply'[r] = "429" /\ reply[r] # "429" => job # NoRequest]_vars
  <2> SUFFICES ASSUME Next, NEW r \in Requests, reply'[r] = "429", reply[r] # "429"
               PROVE  job # NoRequest
    BY <1>1
  <2>1. reply \in [Requests -> Replies] /\ NoLostWakeUp /\ StartedOnce /\ queue \in Seq(Requests)
    BY <1>1 DEF ServingInv, PowerInv, TypeOK
  <2>2. \A q \in Requests : \A code : Answer(q, code) => (reply'[r] = reply[r] \/ (q = r /\ reply'[r] = code))
    BY <2>1 DEF Answer
  <2>3. PICK q \in Requests : HttpStep(q)
    BY <2>1 DEF Next, BootStep, ConfigureButton, ReleaseButton, startPowerActionWorker, startAPIServer,
                WorkerStep, WorkerStart, WorkerWake, WorkerRelease, Tick, HostAlone, Reboot, httpVars
  <2>4. CASE Decode(q)
    <3>1. q = r /\ http[r] = "reading" /\ ~CanEnqueue
      BY <2>2, <2>4 DEF Decode
    <3>2. worker \notin {"absent", "ready", "parked"}
      BY <1>1, <2>1, <3>1 DEF ServingInv, StartedOnce, CanEnqueue
    <3> QED BY <1>1, <2>1, <3>2 DEF NoLostWakeUp, ServingInv, PowerInv, TypeOK
  <2>5. CASE Arrive(q)
    <3>1. Refusal(input[q]) # "429"
      BY DEF Refusal
    <3> QED BY <2>2, <2>5, <3>1 DEF Arrive
  <2>6. CASE WriteReply(q) \/ Disconnect(q)
    BY <2>2, <2>6 DEF WriteReply, Disconnect
  <2> QED BY <2>3, <2>4, <2>5, <2>6 DEF HttpStep
<1> QED BY <1>1, ServingInit, ServingNext, PTL DEF Spec, RefusedOnlyWhileExecuting

-----------------------------------------------------------------------------
(* How long the button is held.  Once it has been for ForceTicks the host  *)
(* is off, and as the line is still low nothing wakes it.                  *)
HeldInv == worker = "pressing" /\ held >= ForceTicks => host.power = "off"

PressInv == ButtonInv /\ HeldInv

(* The durations are numbers.                                              *)
LEMMA Durations ==
  /\ \A r : Duration(r) \in Nat /\ ForceTicks \in Nat \ {0} /\ ShortTicks \in Nat
  /\ \A r : input[r].type = "ForceOff" => Duration(r) >= ForceTicks
  /\ ShortTicks < ForceTicks
BY PowerAssumption, DurationAssumption DEF Duration

(* A press begins with nothing held.                                       *)
LEMMA PressBegins == ASSUME held' = 0 PROVE HeldInv'
BY Durations DEF HeldInv

(* Every step keeps the time that the button is held.                      *)
LEMMA HeldNext == ASSUME PressInv, [Next]_vars PROVE HeldInv'
<1>1. PowerInv /\ LineOK /\ HeldInv /\ held \in Nat /\ host \in Hosts /\ input' = input
  BY DEF PressInv, ButtonInv, OrderInv, PowerInv, TypeOK, Next, BootStep, ConfigureButton,
         ReleaseButton, startPowerActionWorker, startAPIServer, WorkerStep, WorkerStart, WorkerWake,
         WorkerRelease, Tick, HostAlone, Reboot, HttpStep, Arrive, Decode, WriteReply, Disconnect,
         vars, httpVars
<1>2. CASE UNCHANGED <<job, held, host>> /\ (worker' = "pressing" => worker = "pressing")
  BY <1>1, <1>2 DEF HeldInv
<1>3. CASE WorkerStart \/ WorkerRelease
  <2>1. PICK h \in Hosts : Receive(h)
    BY <1>1, <1>3, HostTypes DEF WorkerStart, WorkerRelease
  <2>2. Taken \/ Parked
    BY <1>1, <2>1, ReceiveCases DEF PowerInv
  <2> QED BY <1>1, <2>2, PressBegins DEF Taken, Parked, HeldInv
<1>4. CASE WorkerWake
  BY <1>4, PressBegins DEF WorkerWake, Press
<1>5. CASE Tick
  <2>1. worker = "pressing" /\ held' = held + 1 /\ host' = AfterTick(host, held + 1)
    BY <1>5 DEF Tick
  <2>2. held' >= ForceTicks => held >= ForceTicks \/ held + 1 = ForceTicks
    BY <1>1, <2>1, Durations
  <2>3. held' >= ForceTicks => host'.power = "off"
    BY <1>1, <2>1, <2>2 DEF HeldInv, AfterTick
  <2> QED BY <2>3 DEF HeldInv
<1>6. CASE HostAlone
  <2>1. UNCHANGED <<worker, job, held>> /\ (button = "high" \/ host'.power = "off")
    BY <1>6 DEF HostAlone, bmcVars
  <2>2. worker = "pressing" => button = "low"
    BY <1>1 DEF LineOK, PowerInv, StartedOnce
  <2>3. worker = "pressing" => host'.power = "off"
    BY <2>1, <2>2
  <2> QED BY <1>1, <2>1, <2>3 DEF HeldInv
<1>7. CASE Reboot
  BY <1>7 DEF Reboot, HeldInv
<1>8. CASE BootStep
  BY <1>2, <1>8 DEF BootStep, ConfigureButton, ReleaseButton, startPowerActionWorker, startAPIServer
<1>9. ASSUME NEW r \in Requests, HttpStep(r) PROVE HeldInv'
  <2>1. CASE worker = "parked"
    <3>1. worker' \in {"parked", "handed"}
      BY <1>9, <2>1 DEF HttpStep, Arrive, Decode, Enqueue, WriteReply, Disconnect, bmcVars
    <3> QED BY <3>1 DEF HeldInv
  <2>2. CASE worker # "parked"
    BY <1>2, <1>9, <2>2 DEF HttpStep, Arrive, Decode, Enqueue, WriteReply, Disconnect, bmcVars
  <2> QED BY <2>1, <2>2
<1>10. CASE UNCHANGED vars
  BY <1>2, <1>10 DEF vars, bmcVars
<1> QED BY <1>3, <1>4, <1>5, <1>6, <1>7, <1>8, <1>9, <1>10 DEF Next, WorkerStep

(* What a step does of what its request asked.                             *)
Fits == /\ Len(executed') > Len(executed) /\ input[job].type = "ForceOff" => host.power = "off"
        /\ worker = "pressing" /\ held' = held + 1 /\ input[job].type # "ForceOff"
             /\ host'.power # host.power => held >= ShortTicks

LEMMA StepFits == ASSUME PressInv, Next PROVE Fits
<1>1. /\ PowerInv /\ HeldInv /\ held \in Nat /\ executed \in Seq(Requests) /\ Len(executed) \in Nat
  BY DEF PressInv, ButtonInv, OrderInv, PowerInv, TypeOK
<1>2. CASE WorkerRelease
  <2>1. /\ worker = "pressing" /\ held >= Duration(job)
    BY <1>2 DEF WorkerRelease
  <2>2. input[job].type = "ForceOff" => held >= ForceTicks
    BY <1>1, <2>1, Durations
  <2>3. held' # held + 1
    <3>1. PICK h \in Hosts : Receive(h)
      BY <1>1, <1>2, HostTypes DEF WorkerRelease, PowerInv, TypeOK
    <3>2. Taken \/ Parked
      BY <1>1, <3>1, ReceiveCases DEF PowerInv
    <3> QED BY <1>1, <3>2 DEF Taken, Parked
  <2> QED BY <1>1, <2>1, <2>2, <2>3 DEF HeldInv, Fits
<1>3. CASE Tick
  <2>1. executed' = executed /\ host' = AfterTick(host, held + 1)
    BY <1>3 DEF Tick, history
  <2>2. held + 1 = ForceTicks => held >= ShortTicks
    BY <1>1, Durations
  <2> QED BY <1>1, <2>1, <2>2 DEF Fits, AfterTick
<1>4. CASE Reboot
  <2>1. executed' = << >> /\ held' = 0
    BY <1>4 DEF Reboot
  <2>2. ~(Len(executed') > Len(executed)) /\ held' # held + 1
    BY <1>1, <2>1
  <2> QED BY <2>2 DEF Fits
<1>5. CASE WorkerStart \/ WorkerWake
  <2>1. executed' = executed /\ worker # "pressing"
    BY <1>5 DEF WorkerStart, WorkerWake, history
  <2> QED BY <1>1, <2>1 DEF Fits
<1>6. CASE BootStep \/ HostAlone \/ \E r \in Requests : HttpStep(r)
  <2>1. executed' = executed /\ held' = held
    BY <1>6 DEF BootStep, ConfigureButton, ReleaseButton, startPowerActionWorker, startAPIServer,
           HostAlone, HttpStep, Arrive, Decode, WriteReply, Disconnect, bmcVars, history
  <2> QED BY <1>1, <2>1 DEF Fits
<1> QED BY <1>2, <1>3, <1>4, <1>5, <1>6 DEF Next, WorkerStep

(* For all durations in the order 500 ms < 4 s < 6 s, however late the     *)
(* worker is woken: a ForceOff ends with the host off, and another press   *)
(* cuts the power of a host only when its 500 ms were already over.        *)
THEOREM PressesFit == Spec => PressFitsRequest
<1>1. Init => PressInv
  BY ButtonInit DEF PressInv, HeldInv, Init
<1>2. PressInv /\ [Next]_vars => PressInv'
  BY HeldNext, ButtonNext DEF PressInv
<1>3. PressInv /\ [Next]_vars => [Fits]_vars
  BY StepFits
<1> QED BY <1>1, <1>2, <1>3, PTL DEF Spec, PressFitsRequest, Fits
=============================================================================
