------------------------------- MODULE Serial -------------------------------
(***************************************************************************)
(* The serial terminal (serial.go): TCP clients bridged to UART1, under    *)
(* TinyGo's "tasks" scheduler (targets/esp32p4.json).  A goroutine keeps   *)
(* the CPU until it blocks; `go` puts the new one at the end of the run    *)
(* queue.  The network stack is a goroutine too (external): what clients   *)
(* do reaches the program only when it runs.                               *)
(***************************************************************************)
EXTENDS Naturals, Sequences

CONSTANTS Clients,   \* clients, each of which connects once
          Net,       \* the goroutine of the network stack
          Listen,    \* startSerialTerminal
          Nobody,    \* no goroutine has the CPU
          MaxBytes   \* bound: bytes a client sends

(* The goroutines of a client's connection: bridgeSerialConn itself, and   *)
(* the io.Copy it starts.                                                  *)
Bridge(c) == <<"bridge", c>>
Relay(c)  == <<"relay", c>>

VARIABLES running,  \* the goroutine that has the CPU
          runq,     \* the goroutines that could run, in order
          conn,     \* each connection, as the program knows it
          inbox,    \* bytes of each connection not yet read
          client,   \* what each client has done
          sent,     \* bytes each client has sent
          onWire,   \* of these, the ones the stack has not seen
          relayed   \* bytes of each client written to the UART

progVars   == <<running, runq, conn, inbox, relayed>>
clientVars == <<client, sent, onWire>>
vars       == <<progVars, clientVars>>

TypeOK ==
  LET Tasks == {Net, Listen} \cup {Bridge(c) : c \in Clients} \cup {Relay(c) : c \in Clients}
  IN /\ running \in Tasks \cup {Nobody} /\ runq \in Seq(Tasks)
     /\ conn \in [Clients -> {"none", "backlog", "accepted", "bridged", "eof", "ended"}]
     /\ client \in [Clients -> {"away", "connected", "gone"}]
     /\ inbox \in [Clients -> 0 .. MaxBytes] /\ sent \in [Clients -> 0 .. MaxBytes]
     /\ onWire \in [Clients -> 0 .. MaxBytes] /\ relayed \in [Clients -> 0 .. MaxBytes]

Init ==
  /\ running = Nobody /\ runq = <<Net, Listen>>
  /\ conn = [c \in Clients |-> "none"] /\ inbox = [c \in Clients |-> 0]
  /\ client = [c \in Clients |-> "away"] /\ sent = [c \in Clients |-> 0]
  /\ onWire = [c \in Clients |-> 0] /\ relayed = [c \in Clients |-> 0]

-----------------------------------------------------------------------------
(* Clients (external).                                                     *)

Connect(c) ==
  /\ client[c] = "away" /\ client' = [client EXCEPT ![c] = "connected"]
  /\ UNCHANGED <<progVars, sent, onWire>>

Send(c) ==
  /\ client[c] = "connected" /\ sent[c] < MaxBytes
  /\ sent' = [sent EXCEPT ![c] = @ + 1] /\ onWire' = [onWire EXCEPT ![c] = @ + 1]
  /\ UNCHANGED <<progVars, client>>

Disconnect(c) ==
  /\ client[c] = "connected" /\ client' = [client EXCEPT ![c] = "gone"]
  /\ UNCHANGED <<progVars, sent, onWire>>

-----------------------------------------------------------------------------
(* The scheduler and the network stack (external).                         *)

Schedule ==
  /\ running = Nobody /\ runq # << >>
  /\ running' = Head(runq) /\ runq' = Tail(runq)
  /\ UNCHANGED <<conn, inbox, relayed, clientVars>>

Block == running' = Nobody
Ready(t) == \E i \in DOMAIN runq : runq[i] = t
Wake(t)  == IF Ready(t) THEN << >> ELSE <<t>>

(* The stack takes what one client did from the wire, wakes the goroutine  *)
(* that waits for it, and goes to the end of the queue.                    *)
NetStep ==
  /\ running = Net /\ Block
  /\ \/ \E c \in Clients :
          \/ /\ conn[c] = "none" /\ client[c] # "away"
             /\ conn' = [conn EXCEPT ![c] = "backlog"]
             /\ runq' = runq \o Wake(Listen) \o <<Net>>
             /\ UNCHANGED <<inbox, onWire>>
          \/ /\ conn[c] \in {"backlog", "accepted", "bridged"} /\ onWire[c] > 0
             /\ inbox' = [inbox EXCEPT ![c] = @ + onWire[c]]
             /\ onWire' = [onWire EXCEPT ![c] = 0]
             /\ runq' = runq \o (IF conn[c] = "bridged" THEN Wake(Relay(c)) ELSE << >>) \o <<Net>>
             /\ UNCHANGED conn
          \/ /\ conn[c] = "bridged" /\ onWire[c] = 0 /\ client[c] = "gone"
             /\ conn' = [conn EXCEPT ![c] = "eof"]
             /\ runq' = runq \o Wake(Relay(c)) \o <<Net>>
             /\ UNCHANGED <<inbox, onWire>>
     \/ runq' = Append(runq, Net) /\ UNCHANGED <<conn, inbox, onWire>>
  /\ UNCHANGED <<relayed, client, sent>>

-----------------------------------------------------------------------------
(* startSerialTerminal after net.Listen (when that fails it returns, and   *)
(* no client ever connects): accept, start a bridge, accept again; after   *)
(* an error just accept again.                                             *)
Accept ==
  /\ running = Listen
  /\ \/ \E c \in Clients :
          /\ conn[c] = "backlog"
          /\ conn' = [conn EXCEPT ![c] = "accepted"]
          /\ runq' = Append(runq, Bridge(c))
          /\ UNCHANGED running
     \/ /\ \A c \in Clients : conn[c] # "backlog"
        /\ Block /\ UNCHANGED <<runq, conn>>
     \/ UNCHANGED <<running, runq, conn>>
  /\ UNCHANGED <<inbox, relayed, clientVars>>

(* bridgeSerialConn: go io.Copy(serialUART, conn) ...                      *)
StartRelay(c) ==
  /\ running = Bridge(c) /\ conn[c] = "accepted"
  /\ conn' = [conn EXCEPT ![c] = "bridged"]
  /\ runq' = Append(runq, Relay(c))
  /\ UNCHANGED <<running, inbox, relayed, clientVars>>

(* How many bytes UART.Read finds: no code of the target ever puts one     *)
(* into UART.Buffer.                                                       *)
Buffered == 0

(* ... and io.Copy(conn, serialUART): Read returns (0, nil) at once when   *)
(* nothing is buffered, and io.Copy calls it again.  It would block only   *)
(* in a write to conn, of which there is none.                             *)
CopyUart(c) ==
  /\ running = Bridge(c) /\ conn[c] \in {"bridged", "eof", "ended"}
  /\ running' = IF Buffered > 0 THEN Nobody ELSE running
  /\ UNCHANGED <<runq, conn, inbox, relayed, clientVars>>

(* The started io.Copy: write what has come to the UART, or block, or      *)
(* return at the end of the stream.                                        *)
CopyConn(c) ==
  /\ running = Relay(c)
  /\ IF inbox[c] > 0
       THEN /\ relayed' = [relayed EXCEPT ![c] = @ + inbox[c]]
            /\ inbox' = [inbox EXCEPT ![c] = 0]
            /\ UNCHANGED <<running, conn>>
       ELSE /\ Block
            /\ conn' = [conn EXCEPT ![c] = IF @ = "eof" THEN "ended" ELSE @]
            /\ UNCHANGED <<relayed, inbox>>
  /\ UNCHANGED <<runq, clientVars>>

-----------------------------------------------------------------------------
ProgramStep == \/ Schedule \/ NetStep \/ Accept
               \/ \E c \in Clients : StartRelay(c) \/ CopyUart(c) \/ CopyConn(c)

Next == ProgramStep \/ \E c \in Clients : Connect(c) \/ Send(c) \/ Disconnect(c)

Spec == Init /\ [][Next]_vars

(* Fairness: the CPU executes the running goroutine and the scheduler, and *)
(* the stack does not overlook a packet for ever.                          *)
FairSpec == Spec /\ WF_vars(ProgramStep) /\ SF_vars(NetStep /\ conn' # conn)
                 /\ SF_vars(NetStep /\ inbox' # inbox)

-----------------------------------------------------------------------------
(* "bridgeSerialConn relays data in both directions between conn and the   *)
(* remote machine's UART until the TCP client disconnects" (serial.go:65): *)
(* what a connected client sends is written to the UART, unless it goes.   *)
RelayedUntilDisconnect ==
  \A c \in Clients : (client[c] = "connected" /\ sent[c] > relayed[c])
                       ~> (relayed[c] = sent[c] \/ client[c] = "gone")
=============================================================================
