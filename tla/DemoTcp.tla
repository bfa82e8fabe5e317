------------------------------- MODULE DemoTcp -------------------------------
(***************************************************************************)
(* The demo's HTTP server (cmd/demo/main.go): handleIPv4, a TCP endpoint   *)
(* with one connection, against clients on a network that loses, doubles   *)
(* and reorders segments.                                                  *)
(*                                                                         *)
(* handleIPv4 is a function of the frame and of conn, called by one loop:  *)
(* each of its calls is one action.  Sequence numbers are counted from     *)
(* each side's first one; a request is one byte long, and so is the        *)
(* response.  The clients are external: ordinary TCP endpoints, which dial *)
(* again from the same port, with an initial number above all they sent    *)
(* before.  up and down hold every segment ever sent: one that is never    *)
(* received is lost, one may be received twice, in any order, and in a     *)
(* later connection.                                                       *)
(***************************************************************************)
EXTENDS Naturals, FiniteSets

CONSTANTS Clients,     \* client endpoints, told apart by address and port
          Strays,      \* those that dial port 81, where nothing listens
          NoClient,    \* srcIP and srcPort of the zero tcpConn
          MaxSeq       \* bound: the sequence numbers each client may use

ASSUME TcpAssumption ==
  Strays \subseteq Clients /\ NoClient \notin Clients /\ MaxSeq \in [Clients -> Nat]

VARIABLES conn,     \* the server's tcpConn
          client,   \* state of each client
          iss,      \* each client's initial sequence number of its last dial
          sndNxt,   \* the next sequence number of each client
          opened,   \* history: the clients that ever accepted a SYN-ACK
          up,       \* segments sent to the server
          down      \* segments sent by the server

clientVars == <<client, iss, sndNxt, opened>>
vars       == <<conn, clientVars, up, down>>

ClientStates == {"closed", "synSent", "estab", "requested", "answered", "finSent", "aborted"}
Flags   == {{"SYN"}, {"SYN", "ACK"}, {"ACK"}, {"FIN", "ACK"}, {"RST"}, {"RST", "ACK"}}

(* A segment between peer and the server's port, with pad bytes after it   *)
(* to fill Ethernet's shortest frame.                                      *)
Segment == [peer : Clients, port : {80, 81}, flags : Flags, seq : Nat, ack : Nat,
            len : {0, 1}, pad : {0, 1}]
NoConn  == [active |-> FALSE, peer |-> NoClient, seqNum |-> 0, ackNum |-> 0,
            state |-> "closed"]

TypeOK ==
  /\ conn \in [active : BOOLEAN, peer : Clients \cup {NoClient}, seqNum : 0 .. 3,
               ackNum : Nat, state : {"closed", "synRcvd", "estab", "closeWait"}]
  /\ client \in [Clients -> ClientStates]
  /\ iss \in [Clients -> Nat] /\ sndNxt \in [Clients -> Nat]
  /\ opened \subseteq Clients
  /\ up \subseteq Segment /\ down \subseteq Segment

Init ==
  /\ conn = NoConn
  /\ client = [c \in Clients |-> "closed"]
  /\ iss = [c \in Clients |-> 0] /\ sndNxt = [c \in Clients |-> 0]
  /\ opened = {} /\ up = {} /\ down = {}

-----------------------------------------------------------------------------
(* handleIPv4: the server receives segment s.                              *)

(* buildIPTCP: every reply comes from httpListenPort.                      *)
buildIPTCP(s, flags, seq, ack, n) ==
  [peer |-> s.peer, port |-> 80, flags |-> flags, seq |-> seq, ack |-> ack, len |-> n,
   pad |-> 0]

(* Mutant: the segment's sender is not compared with the connection's.     *)
Known_AnyPeer(s) == conn.active

Known(s) == conn.active /\ conn.peer = s.peer

HandleRst(s) ==
  /\ "RST" \in s.flags
  /\ conn' = IF Known(s) THEN NoConn ELSE conn
  /\ UNCHANGED down

(* Mutant: the SYN alone establishes the connection.                       *)
HandleSyn_Estab(s) ==
  /\ s.flags = {"SYN"} /\ s.port = 80
  /\ conn' = [active |-> TRUE, peer |-> s.peer, seqNum |-> 1, ackNum |-> s.seq + 1,
              state |-> "estab"]
  /\ down' = down \cup {buildIPTCP(s, {"SYN", "ACK"}, 0, s.seq + 1, 0)}

(* A SYN to another port is refused; one to port 80 replaces whatever      *)
(* connection there was.                                                   *)
HandleSyn(s) ==
  /\ s.flags = {"SYN"}
  /\ \/ /\ s.port # 80
        /\ down' = down \cup {buildIPTCP(s, {"RST", "ACK"}, 0, s.seq + 1, 0)}
        /\ UNCHANGED conn
     \/ /\ s.port = 80
        /\ conn' = [active |-> TRUE, peer |-> s.peer, seqNum |-> 1, ackNum |-> s.seq + 1,
                    state |-> "synRcvd"]
        /\ down' = down \cup {buildIPTCP(s, {"SYN", "ACK"}, 0, s.seq + 1, 0)}

(* The bytes after the TCP header, to the end of the frame: the padding is *)
(* among them.                                                             *)
DataLen(s) == s.len + s.pad

AckHandshake(s) == IF conn.state = "synRcvd" /\ "ACK" \in s.flags
                     THEN [conn EXCEPT !.state = "estab", !.ackNum = s.seq]
                     ELSE conn

(* Mutant: the connection stays established after the response.            *)
HandleSegment_StaysEstab(s) ==
  /\ "RST" \notin s.flags /\ s.flags # {"SYN"} /\ Known(s)
  /\ LET cn == AckHandshake(s)
     IN IF cn.state = "estab" /\ DataLen(s) > 0
          THEN /\ conn' = [cn EXCEPT !.seqNum = @ + 2, !.ackNum = s.seq + DataLen(s)]
               /\ down' = down \cup {buildIPTCP(s, {"FIN", "ACK"}, cn.seqNum, s.seq + DataLen(s), 1)}
          ELSE conn' = cn /\ UNCHANGED down

(* Any other segment of the connection: complete the handshake, answer     *)
(* data with the response and FIN, else acknowledge a FIN and forget the   *)
(* connection.                                                             *)
HandleSegment(s) ==
  /\ "RST" \notin s.flags /\ s.flags # {"SYN"} /\ Known(s)
  /\ LET cn == AckHandshake(s)
     IN \/ /\ cn.state = "estab" /\ DataLen(s) > 0
           /\ conn' = [cn EXCEPT !.state = "closeWait", !.ackNum = s.seq + DataLen(s),
                                 !.seqNum = @ + 2]
           /\ down' = down \cup {buildIPTCP(s, {"FIN", "ACK"}, cn.seqNum, s.seq + DataLen(s), 1)}
        \/ /\ ~(cn.state = "estab" /\ DataLen(s) > 0) /\ "FIN" \in s.flags
           /\ conn' = NoConn
           /\ down' = down \cup {buildIPTCP(s, {"ACK"}, cn.seqNum, s.seq + 1, 0)}
        \/ /\ ~(cn.state = "estab" /\ DataLen(s) > 0) /\ "FIN" \notin s.flags
           /\ conn' = cn
           /\ UNCHANGED down

HandleStranger(s) ==
  /\ "RST" \notin s.flags /\ s.flags # {"SYN"} /\ ~Known(s)
  /\ UNCHANGED <<conn, down>>

handleIPv4(s) ==
  /\ HandleRst(s) \/ HandleSyn(s) \/ HandleSegment(s) \/ HandleStranger(s)
  /\ UNCHANGED <<clientVars, up>>

-----------------------------------------------------------------------------
(* The clients (external).                                                 *)

Port(c) == IF c \in Strays THEN 81 ELSE 80

(* A frame is padded when it would be shorter than Ethernet's 60 bytes:    *)
(* one without data or options is.  Padding the server does not look at is *)
(* left out.                                                               *)
Send(c, flags, seq, ack, n) ==
  \E pad \in IF n = 0 /\ "ACK" \in flags THEN {0, 1} ELSE {0} :
    up' = up \cup {[peer |-> c, port |-> Port(c), flags |-> flags, seq |-> seq, ack |-> ack,
                   len |-> n, pad |-> pad]}

Become(c, from, to) == client[c] \in from /\ client' = [client EXCEPT ![c] = to]

(* A client dials, again once its last connection is over: from the same   *)
(* port, with numbers above those it used.                                *)
Connect(c) ==
  /\ sndNxt[c] < MaxSeq[c] /\ Become(c, {"closed", "finSent", "aborted"}, "synSent")
  /\ iss' = [iss EXCEPT ![c] = sndNxt[c]]
  /\ sndNxt' = [sndNxt EXCEPT ![c] = @ + 1]
  /\ Send(c, {"SYN"}, sndNxt[c], 0, 0)
  /\ UNCHANGED <<conn, opened, down>>

GetSynAck(c, s) ==
  /\ s.flags = {"SYN", "ACK"} /\ s.ack = iss[c] + 1
  /\ Become(c, {"synSent"}, "estab")
  /\ opened' = opened \cup {c}
  /\ Send(c, {"ACK"}, sndNxt[c], 1, 0)
  /\ UNCHANGED <<conn, iss, sndNxt, down>>

(* A SYN-ACK for an earlier dial is answered with a reset.                 *)
RefuseSynAck(c, s) ==
  /\ s.flags = {"SYN", "ACK"} /\ s.ack # iss[c] + 1 /\ client[c] = "synSent"
  /\ Send(c, {"RST"}, s.ack, 0, 0)
  /\ UNCHANGED <<conn, clientVars, down>>

SendRequest(c) ==
  /\ sndNxt[c] < MaxSeq[c] /\ Become(c, {"estab"}, "requested")
  /\ sndNxt' = [sndNxt EXCEPT ![c] = @ + 1]
  /\ Send(c, {"ACK"}, sndNxt[c], 1, 1)
  /\ UNCHANGED <<conn, iss, opened, down>>

(* The response counts if it acknowledges nothing the client did not send. *)
(* One of an earlier connection does too: the server always starts at the  *)
(* same number (line 264).                                                 *)
GetResponse(c, s) ==
  /\ s.len > 0 /\ s.ack <= sndNxt[c] /\ Become(c, {"estab", "requested"}, "answered")
  /\ Send(c, {"ACK"}, sndNxt[c], 3, 0)
  /\ UNCHANGED <<conn, iss, sndNxt, opened, down>>

Close(c) ==
  /\ sndNxt[c] < MaxSeq[c] /\ Become(c, {"answered"}, "finSent")
  /\ sndNxt' = [sndNxt EXCEPT ![c] = @ + 1]
  /\ Send(c, {"FIN", "ACK"}, sndNxt[c], 3, 0)
  /\ UNCHANGED <<conn, iss, opened, down>>

(* A stray, refused, has nothing to abort.                                 *)
Abort(c) ==
  /\ c \notin Strays /\ Become(c, {"synSent", "estab", "requested"}, "aborted")
  /\ Send(c, {"RST"}, sndNxt[c], 0, 0)
  /\ UNCHANGED <<conn, iss, sndNxt, opened, down>>

ClientStep(c) ==
  \/ Connect(c) \/ SendRequest(c) \/ Close(c) \/ Abort(c)
  \/ \E s \in {t \in down : t.peer = c /\ t.port = Port(c)} :
       GetSynAck(c, s) \/ RefuseSynAck(c, s) \/ GetResponse(c, s)

-----------------------------------------------------------------------------
Next == (\E s \in up : handleIPv4(s)) \/ (\E c \in Clients : ClientStep(c))

Spec == Init /\ [][Next]_vars

-----------------------------------------------------------------------------
(* Properties.                                                             *)

(* The server acknowledges, and counts as received on its connection, only *)
(* what that client has sent: no cross-talk between clients, no byte       *)
(* counted twice, whatever old segments still arrive.  Only the response   *)
(* may be one ahead: it can answer the padding of a segment.               *)
AckHonest ==
  /\ \A s \in down : s.ack <= sndNxt[s.peer] + s.len
  /\ conn.active =>
       conn.ackNum <= sndNxt[conn.peer] + (IF conn.state = "closeWait" THEN 1 ELSE 0)

(* A connection is taken for established, and the response sent, only if   *)
(* that client has accepted a SYN-ACK, though any segment with ACK set     *)
(* counts as the handshake's and its acknowledgment number is not looked   *)
(* at (line 279).  It may have accepted it in an earlier connection from   *)
(* the same port: an old ACK completes a new handshake.                    *)
EstablishedMeansHandshake ==
  /\ conn.state \in {"estab", "closeWait"} => conn.peer \in opened
  /\ \A s \in down : s.len > 0 => s.peer \in opened

(* "Data (HTTP request)", "Any data on port 80 -> send HTTP 200" (lines    *)
(* 284 and 289 of cmd/demo/main.go): the response acknowledges a request   *)
(* the client made.  Violated: the padding of the bare ACK that completes  *)
(* the handshake is taken for the request.                                 *)
AnswerOnlyToRequest ==
  \A s \in down : s.len > 0 =>
    \E r \in up : r.peer = s.peer /\ r.len > 0 /\ s.ack = r.seq + r.len
=============================================================================
