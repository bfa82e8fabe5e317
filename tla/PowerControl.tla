---------------------------- MODULE PowerControl ----------------------------
(***************************************************************************)
(* Power control of the managed host: the reset handler of api.go, the     *)
(* power action channel, the worker that presses the power button, and the *)
(* start-up of main.go that must have happened before any of them runs.    *)
(*                                                                         *)
(* The firmware is built with TinyGo's "tasks" scheduler: a goroutine runs *)
(* until it blocks, so every action below is the code from one blocking    *)
(* point to the next.  The worker blocks in the channel receive and in     *)
(* time.Sleep; a handler blocks while it reads the request body and while  *)
(* it writes the response.                                                 *)
(*                                                                         *)
(* The host behind the button is external: an ATX-style power button, as   *)
(* the code's two durations (500 ms and 6 s) and its active-low sense pin  *)
(* presuppose.                                                             *)
(***************************************************************************)
EXTENDS Naturals, Sequences, FiniteSets

CONSTANTS Requests,     \* identities of HTTP requests, each sent at most once
          Inputs,       \* the requests clients send: [method, token, type]
          NoRequest,    \* the worker's job when it has none
          TokenSet,     \* TRUE iff configuredResetAuthToken is not ""
          QueueCap,     \* capacity of powerActionQueue (1 in the code)
          ShortTicks,   \* 500 ms in clock ticks
          LongTicks,    \* 6 s in clock ticks
          ForceTicks,   \* host: a press held this long cuts its power (4 s)
          MaxLate,      \* bound: ticks the scheduler may wake a sleeper late
          MaxReboots    \* bound on the number of BMC restarts

ResetTypes == {"On", "GracefulShutdown", "ForceOff"}

ASSUME PowerAssumption ==
  /\ NoRequest \notin Requests
  /\ Inputs \subseteq [method : {"GET", "POST"}, token : {"good", "bad"},
                       type : ResetTypes \cup {"Bogus"}]
  /\ TokenSet \in BOOLEAN
  /\ QueueCap \in Nat
  /\ ShortTicks \in Nat /\ LongTicks \in Nat /\ ForceTicks \in Nat
  /\ MaxLate \in Nat /\ MaxReboots \in Nat

(* What the two durations are for: 6 s outlast the 4 s after which an      *)
(* ATX-style host cuts its power, 500 ms do not.                           *)
ASSUME DurationAssumption == ShortTicks < ForceTicks /\ ForceTicks <= LongTicks

VARIABLES boot,      \* how far main has got
          worker,    \* the power action goroutine
          job,       \* the request the worker received last, until released
          queue,     \* the buffer of powerActionQueue
          button,    \* level of pwrButton, active low
          held,      \* ticks since the worker drove the button low
          http,      \* what each request's handler is doing
          input,     \* what each request asked
          reply,     \* the answer its client got
          host,      \* [power, armed]: the managed host and its button logic
          reboots,   \* restarts so far
          accepted,  \* history: requests enqueued since the last restart
          executed   \* history: requests whose press was completed since then

bmcVars  == <<boot, worker, job, queue, button, held>>
httpVars == <<http, input, reply>>
history  == <<accepted, executed>>
vars     == <<bmcVars, httpVars, host, reboots, history>>

Replies == {"none", "202", "400", "401", "405", "429", "503", "lost"}

Hosts   == [power : {"off", "on", "stopping"}, armed : BOOLEAN]

TypeOK ==
  /\ boot \in {"reset", "configured", "released", "starting", "serving", "failed"}
  /\ worker \in {"absent", "ready", "parked", "handed", "pressing"}
  /\ job \in Requests \cup {NoRequest}
  /\ queue \in Seq(Requests)
  /\ button \in {"low", "high"}
  /\ held \in Nat
  /\ http \in [Requests -> {"new", "reading", "replying", "done"}]
  /\ input \in [Requests -> Inputs]
  /\ reply \in [Requests -> Replies]
  /\ host \in Hosts
  /\ reboots \in Nat
  /\ accepted \in Seq(Requests)
  /\ executed \in Seq(Requests)

-----------------------------------------------------------------------------
(* The host's button logic (external).  A press wakes a host that is off;  *)
(* on a running host the release asks for a shutdown; a press held for     *)
(* ForceTicks cuts the power.                                              *)

AfterPress(h) == IF h.power = "off" THEN [power |-> "on", armed |-> FALSE]
                                    ELSE [power |-> h.power, armed |-> TRUE]

AfterRelease(h) == [power |-> IF h.armed /\ h.power = "on" THEN "stopping" ELSE h.power,
                    armed |-> FALSE]

(* The button is held one tick more; at ForceTicks the host loses power.   *)
AfterTick(h, t) == IF t = ForceTicks THEN [power |-> "off", armed |-> FALSE] ELSE h

(* The host starts or stops by itself: its operating system halts, it is   *)
(* woken over the network or at its front panel.                           *)
HostAlone ==
  /\ \/ /\ host.power = "off" /\ button = "high"
        /\ host' = [power |-> "on", armed |-> host.armed]
     \/ /\ host.power # "off"
        /\ host' = [power |-> "off", armed |-> FALSE]
  /\ UNCHANGED <<bmcVars, httpVars, reboots, history>>

-----------------------------------------------------------------------------
(* Start-up: main and setupGPIO.                                           *)

Init ==
  /\ boot = "reset" /\ worker = "absent" /\ job = NoRequest /\ queue = << >>
  /\ button = "high" /\ held = 0
  /\ http = [r \in Requests |-> "new"] /\ input \in [Requests -> Inputs]
  /\ reply = [r \in Requests |-> "none"]
  /\ host \in [power : {"off", "on"}, armed : {FALSE}]
  /\ reboots = 0 /\ accepted = << >> /\ executed = << >>

(* Configure enables the output before anything was written to the OUT     *)
(* register, whose reset value is 0: the open-drain button line goes low.  *)
(* The next statement ends this; the host's debouncing hides it.           *)
ConfigureButton ==
  /\ boot = "reset"
  /\ boot' = "configured" /\ button' = "low"
  /\ UNCHANGED <<worker, job, queue, held, httpVars, host, reboots, history>>

ReleaseButton ==
  /\ boot = "configured"
  /\ boot' = "released" /\ button' = "high"
  /\ UNCHANGED <<worker, job, queue, held, httpVars, host, reboots, history>>

startPowerActionWorker ==
  /\ boot = "released"
  /\ boot' = "starting" /\ worker' = "ready"
  /\ UNCHANGED <<job, queue, button, held, httpVars, host, reboots, history>>

(* Mutant: the API is up before the worker was scheduled.                  *)
startAPIServer_Early ==
  /\ boot = "starting"
  /\ boot' \in {"serving", "failed"}
  /\ UNCHANGED <<worker, job, queue, button, held, httpVars, host, reboots, history>>

(* initStorage and initSerial never stop main.  The API server comes up    *)
(* unless initEthernet fails; by then (it sleeps) the worker has run.      *)
startAPIServer ==
  /\ boot = "starting" /\ worker # "ready"
  /\ boot' \in {"serving", "failed"}
  /\ UNCHANGED <<worker, job, queue, button, held, httpVars, host, reboots, history>>

-----------------------------------------------------------------------------
(* The reset handler.                                                      *)

(* Mutants: another status code; the token is not compared.                *)
Refusal_Forbidden(in) == CASE in.method # "POST"              -> "405"
                           [] in.method = "POST" /\ ~TokenSet -> "503"
                           [] OTHER -> IF in.token = "good" THEN "none" ELSE "403"
Refusal_NoToken(in) == CASE in.method # "POST"              -> "405"
                         [] in.method = "POST" /\ ~TokenSet -> "503"
                         [] OTHER                           -> "none"

(* The answer handlePowerReset gives before it touches the body.           *)
Refusal(in) == CASE in.method # "POST"                      -> "405"
                 [] in.method = "POST" /\ ~TokenSet         -> "503"
                 [] in.method = "POST" /\ TokenSet /\ in.token # "good" -> "401"
                 [] OTHER                                   -> "none"

Answer(r, code) == http' = [http EXCEPT ![r] = "done"] /\ reply' = [reply EXCEPT ![r] = code]

(* Method and token are checked as soon as the header is in.               *)
Arrive(r) ==
  /\ boot = "serving" /\ http[r] = "new"
  /\ IF Refusal(input[r]) # "none"
       THEN Answer(r, Refusal(input[r]))
       ELSE http' = [http EXCEPT ![r] = "reading"] /\ UNCHANGED reply
  /\ UNCHANGED <<bmcVars, input, host, reboots, history>>

(* Mutants: one place too many; the parked worker is not woken.            *)
CanEnqueue_OneMore == worker = "parked" \/ Len(queue) <= QueueCap
Enqueue_Unseen(r) == queue' = Append(queue, r) /\ UNCHANGED <<worker, job>>

(* enqueuePowerAction, a send in a select with a default: handed straight  *)
(* to a worker parked in its receive, or buffered, or refused.             *)
CanEnqueue == worker = "parked" \/ Len(queue) < QueueCap

Enqueue(r) ==
  IF worker = "parked"
    THEN worker' = "handed" /\ job' = r /\ UNCHANGED queue
    ELSE queue' = Append(queue, r) /\ UNCHANGED <<worker, job>>

(* The body is in: decode it, choose the duration, enqueue.                *)
Decode(r) ==
  /\ http[r] = "reading"
  /\ \/ /\ input[r].type \notin ResetTypes
        /\ Answer(r, "400")
        /\ UNCHANGED <<bmcVars, history>>
     \/ /\ input[r].type \in ResetTypes /\ ~CanEnqueue
        /\ Answer(r, "429")
        /\ UNCHANGED <<bmcVars, history>>
     \/ /\ input[r].type \in ResetTypes /\ CanEnqueue
        /\ Enqueue(r)
        /\ accepted' = Append(accepted, r)
        /\ http' = [http EXCEPT ![r] = "replying"]
        /\ UNCHANGED <<boot, button, held, reply, executed>>
  /\ UNCHANGED <<input, host, reboots>>

(* Writing the 202 may fail: the action stays accepted, its client is not  *)
(* told.                                                                   *)
WriteReply(r) ==
  /\ http[r] = "replying"
  /\ \E code \in {"202", "lost"} : Answer(r, code)
  /\ UNCHANGED <<bmcVars, input, host, reboots, history>>

(* The client gives up while the body is being read: decoding fails.       *)
Disconnect(r) ==
  /\ http[r] = "reading"
  /\ Answer(r, "lost")
  /\ UNCHANGED <<bmcVars, input, host, reboots, history>>

-----------------------------------------------------------------------------
(* The worker: for duration := range powerActionQueue { pressButton }.     *)

(* Mutant: one duration for all.                                           *)
Duration_Short(r) == ShortTicks

Duration(r) == IF input[r].type = "ForceOff" THEN LongTicks ELSE ShortTicks

Press(r, h) == /\ worker' = "pressing" /\ job' = r
               /\ button' = "low" /\ held' = 0
               /\ host' = AfterPress(h)

(* Mutants: the action stays in the channel; the channel is not looked at. *)
Receive_Peek(h) ==
  \/ queue # << >> /\ Press(Head(queue), h) /\ UNCHANGED queue
  \/ /\ queue = << >>
     /\ worker' = "parked" /\ job' = NoRequest /\ button' = "high" /\ host' = h
     /\ UNCHANGED <<queue, held>>
Receive_Blind(h) ==
  /\ worker' = "parked" /\ job' = NoRequest /\ button' = "high" /\ host' = h
  /\ UNCHANGED <<queue, held>>

(* The range loop's receive: go on with the buffered action, or park.      *)
Receive(h) ==
  \/ /\ queue # << >>
     /\ queue' = Tail(queue)
     /\ Press(Head(queue), h)
  \/ /\ queue = << >>
     /\ worker' = "parked" /\ job' = NoRequest
     /\ button' = "high" /\ host' = h
     /\ UNCHANGED <<queue, held>>

WorkerStart ==
  /\ worker = "ready"
  /\ Receive(host)
  /\ UNCHANGED <<boot, httpVars, reboots, history>>

(* A parked worker was handed an action and is scheduled.                  *)
WorkerWake ==
  /\ worker = "handed"
  /\ Press(job, host)
  /\ UNCHANGED <<boot, queue, httpVars, reboots, history>>

(* time.Sleep(duration) returned: release the button, then go round the    *)
(* loop; with an action buffered the next press begins at once.            *)
WorkerRelease ==
  /\ worker = "pressing" /\ held >= Duration(job)
  /\ executed' = Append(executed, job)
  /\ Receive(AfterRelease(host))
  /\ UNCHANGED <<boot, httpVars, reboots, accepted>>

-----------------------------------------------------------------------------
(* Time passes only where it matters, while the button is held.            *)
Tick ==
  /\ worker = "pressing" /\ held < Duration(job) + MaxLate
  /\ held' = held + 1
  /\ host' = AfterTick(host, held + 1)
  /\ UNCHANGED <<boot, worker, job, queue, button, httpVars, reboots, history>>

(* The BMC loses power or is reset: the channel and the goroutines are     *)
(* gone, the pin is an input again, open connections break.                *)
Reboot ==
  /\ reboots < MaxReboots
  /\ reboots' = reboots + 1
  /\ boot' = "reset" /\ worker' = "absent" /\ job' = NoRequest /\ queue' = << >>
  /\ button' = "high" /\ held' = 0
  /\ host' = AfterRelease(host)
  /\ http' = [r \in Requests |-> IF http[r] \in {"reading", "replying"} THEN "done" ELSE http[r]]
  /\ reply' = [r \in Requests |-> IF http[r] \in {"reading", "replying"} THEN "lost" ELSE reply[r]]
  /\ accepted' = << >> /\ executed' = << >>
  /\ UNCHANGED input

-----------------------------------------------------------------------------
BootStep   == ConfigureButton \/ ReleaseButton \/ startPowerActionWorker \/ startAPIServer
WorkerStep == WorkerStart \/ WorkerWake \/ WorkerRelease
HttpStep(r) == Arrive(r) \/ Decode(r) \/ WriteReply(r) \/ Disconnect(r)

Next == \/ BootStep \/ WorkerStep \/ Tick \/ HostAlone \/ Reboot
        \/ \E r \in Requests : HttpStep(r)

Spec == Init /\ [][Next]_vars

(* Fairness: no goroutine keeps the CPU for ever, so the worker runs when  *)
(* it can and is woken when its time has come; time passes.                *)
FairSpec == Spec /\ WF_vars(WorkerStep) /\ WF_vars(Tick)

-----------------------------------------------------------------------------
(* Properties.                                                             *)

Elements(s) == {s[i] : i \in DOMAIN s}
InHand == IF job = NoRequest THEN << >> ELSE <<job>>

(* Every accepted action is in exactly one place, in order of acceptance:  *)
(* pressed already, with the worker, or in the channel (api.go:172-190).   *)
(* A lost, doubled or overtaken action breaks the equation.                *)
NothingLostOrReordered == accepted = executed \o InHand \o queue

(* The channel and its worker agree: the worker is never parked while an   *)
(* action is buffered (no lost wake-up), it holds an action exactly while  *)
(* it is woken or pressing, and the buffer keeps its capacity.             *)
NoLostWakeUp ==
  /\ worker = "parked" => queue = << >>
  /\ job # NoRequest <=> worker \in {"handed", "pressing"}
  /\ Len(queue) <= QueueCap

(* "one executing, one pending max": the hand-over is a FIFO with at most  *)
(* one action with the worker and QueueCap buffered, also right after a    *)
(* direct hand-off to a parked worker.                                     *)
Fifo == INSTANCE BoundedFifo WITH Item <- Requests, Capacity <- QueueCap + 1,
                                  put <- accepted, got <- executed
OneExecutingOnePending == Fifo!FifoSpec

(* A request is refused as busy only while an action is being executed,    *)
(* as the comment on powerActionQueue says (api.go:30).                    *)
RefusedOnlyWhileExecuting ==
  [][\A r \in Requests : reply'[r] = "429" /\ reply[r] # "429" => job # NoRequest]_vars

(* Outside start-up the button line is low only for one accepted action    *)
(* not yet completed, of an authorised POST with a known ResetType; and a  *)
(* button that is low is being timed.                                      *)
Authorised(r) == /\ TokenSet
                 /\ input[r].method = "POST" /\ input[r].token = "good"
                 /\ input[r].type \in ResetTypes
ButtonOnlyForAcceptedAction ==
  /\ boot # "configured" => (button = "low" <=> worker = "pressing")
  /\ worker = "pressing" => /\ Authorised(job)
                            /\ reply[job] \in {"none", "202", "lost"}
                            /\ job \notin Elements(executed)

(* Each press does what its request asked.  ForceOff holds the button long *)
(* enough: when its press ends the host has no power, though it may start  *)
(* by itself and the BMC may restart at any time.  The other two release   *)
(* it in time if the worker is woken in time: they cut the power of a host *)
(* only when their 500 ms are long over, which nothing in the code rules   *)
(* out (main.go:72-76).                                                    *)
PressFitsRequest ==
  [][/\ Len(executed') > Len(executed) /\ input[job].type = "ForceOff" => host.power = "off"
     /\ worker = "pressing" /\ held' = held + 1 /\ input[job].type # "ForceOff"
          /\ host'.power # host.power => held >= ShortTicks]_vars

(* Every accepted action is carried out, its press included, unless the    *)
(* BMC restarts first.                                                     *)
AcceptedIsExecuted ==
  \A r \in Requests : (r \in Elements(accepted)) ~> (\/ r \in Elements(executed)
                                                     \/ r \notin Elements(accepted))
=============================================================================
