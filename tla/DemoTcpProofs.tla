---------------------------- MODULE DemoTcpProofs ----------------------------
(***************************************************************************)
(* Proofs about the demo's HTTP server (DemoTcp), for any set of clients   *)
(* that dial any number of times on a network that pads, loses, doubles    *)
(* and reorders segments: type correctness, that a connection counts as    *)
(* established only for a client that accepted a SYN-ACK, and that the     *)
(* server acknowledges only what that client sent, or the padding of it.   *)
(*                                                                         *)
(* The network keeps every segment for ever, so the invariant says of each *)
(* segment what its sender had done when it sent it; a client's numbers    *)
(* only grow and an accepted SYN-ACK stays accepted, which keeps that true *)
(* through every later connection.                                         *)
(***************************************************************************)
EXTENDS DemoTcp, TLAPS

-----------------------------------------------------------------------------
(* What a segment from a client tells of it.                               *)
UpOK(s) ==
  \/ s.flags = {"RST"}
  \/ s.flags = {"SYN"} /\ s.seq + 1 <= sndNxt[s.peer]
  \/ s.flags = {"ACK"} /\ s.seq + s.len <= sndNxt[s.peer] /\ s.peer \in opened
  \/ /\ s.flags = {"FIN", "ACK"} /\ s.len = 0
     /\ s.seq + 1 <= sndNxt[s.peer] /\ s.peer \in opened

(* What a reply of the server may say.                                     *)
DownOK(r) == r.ack <= sndNxt[r.peer] + r.len /\ (r.len > 0 => r.peer \in opened)

Conns == [active : BOOLEAN, peer : Clients \cup {NoClient}, seqNum : 0 .. 3,
          ackNum : Nat, state : {"closed", "synRcvd", "estab", "closeWait"}]

ConnOK ==
  /\ conn.active => /\ conn.peer \in Clients
                    /\ conn.ackNum <= sndNxt[conn.peer] + (IF conn.state = "closeWait" THEN 1 ELSE 0)
  /\ conn.state \in {"estab", "closeWait"} => conn.active /\ conn.peer \in opened
  /\ conn.state # "closeWait" => conn.seqNum <= 1

(* A client beyond the handshake has accepted a SYN-ACK.                   *)
ClientOK ==
  \A c \in Clients : client[c] \in {"estab", "requested", "answered", "finSent"} => c \in opened

TcpInv ==
  /\ TypeOK /\ ConnOK /\ ClientOK
  /\ \A s \in up : UpOK(s)
  /\ \A r \in down : DownOK(r)

-----------------------------------------------------------------------------
(* The invariant holds when the server starts.                             *)
LEMMA TcpInvInit == Init => TcpInv
<1> SUFFICES ASSUME Init PROVE TcpInv
  OBVIOUS
<1>1. TypeOK
  BY DEF Init, TypeOK, NoConn, ClientStates
<1>2. ConnOK /\ ClientOK
  BY DEF Init, ConnOK, ClientOK, NoConn
<1> QED BY <1>1, <1>2 DEF Init, TcpInv

(* The invariant gives the two properties.                                 *)
LEMMA TcpInvMeans == TcpInv => TypeOK /\ AckHonest /\ EstablishedMeansHandshake
BY DEF TcpInv, ConnOK, DownOK, AckHonest, EstablishedMeansHandshake

-----------------------------------------------------------------------------
(* The clients.                                                            *)

(* A client's step: its numbers grow, what it accepted stays, and it sends *)
(* one segment that tells the truth about it.                              *)
LEMMA ClientMove ==
  ASSUME TcpInv,
         client' \in [Clients -> ClientStates], iss' \in [Clients -> Nat],
         sndNxt' \in [Clients -> Nat], opened' \subseteq Clients, opened \subseteq opened',
         \A d \in Clients : sndNxt[d] <= sndNxt'[d], ClientOK',
         NEW m \in Segment, up' = up \cup {m}, UpOK(m)', conn' = conn, down' = down
  PROVE  TcpInv'
<1>1. TypeOK /\ ConnOK
  BY DEF TcpInv
<1>2. \A s \in up \cup down : s.peer \in Clients /\ s.seq \in Nat /\ s.ack \in Nat /\ s.len \in {0, 1}
  BY <1>1 DEF TypeOK, Segment
<1>3. \A d \in Clients : sndNxt[d] \in Nat /\ sndNxt'[d] \in Nat /\ sndNxt[d] <= sndNxt'[d]
  BY <1>1 DEF TypeOK
<1>4. TypeOK'
  BY <1>1 DEF TypeOK
<1>5. ConnOK'
  <2>1. conn.ackNum \in Nat
    BY <1>1 DEF TypeOK
  <2>2. ASSUME conn.active
        PROVE  conn.ackNum <= sndNxt'[conn.peer] + (IF conn.state = "closeWait" THEN 1 ELSE 0)
    BY <1>1, <1>3, <2>1, <2>2 DEF ConnOK
  <2> QED BY <1>1, <2>2 DEF ConnOK
<1>6. ASSUME NEW s \in up PROVE UpOK(s)'
  <2>1. UpOK(s)
    BY DEF TcpInv
  <2>2. s.peer \in Clients /\ s.seq \in Nat /\ s.len \in {0, 1}
    BY <1>2
  <2>3. sndNxt[s.peer] \in Nat /\ sndNxt'[s.peer] \in Nat /\ sndNxt[s.peer] <= sndNxt'[s.peer]
    BY <1>3, <2>2
  <2> QED BY <2>1, <2>2, <2>3 DEF UpOK
<1>7. ASSUME NEW r \in down PROVE DownOK(r)'
  <2>1. DownOK(r)
    BY DEF TcpInv
  <2>2. r.peer \in Clients /\ r.ack \in Nat /\ r.len \in {0, 1}
    BY <1>2
  <2>3. sndNxt[r.peer] \in Nat /\ sndNxt'[r.peer] \in Nat /\ sndNxt[r.peer] <= sndNxt'[r.peer]
    BY <1>3, <2>2
  <2> QED BY <2>1, <2>2, <2>3 DEF DownOK
<1> QED BY <1>4, <1>5, <1>6, <1>7 DEF TcpInv

(* A segment with new fields is a segment.                                 *)
LEMMA IsSegment ==
  ASSUME NEW c \in Clients, NEW f \in Flags, NEW q \in Nat, NEW a \in Nat, NEW n \in {0, 1},
         NEW p \in {0, 1}
  PROVE  [peer |-> c, port |-> Port(c), flags |-> f, seq |-> q, ack |-> a, len |-> n, pad |-> p]
           \in Segment
BY DEF Segment, Port

(* Every step of a client is such a move.                                  *)
LEMMA ClientKeeps ==
  ASSUME TcpInv, NEW c \in Clients, ClientStep(c)
  PROVE  TcpInv'
<1>0. /\ TypeOK /\ ClientOK /\ client[c] \in ClientStates
      /\ iss[c] \in Nat /\ sndNxt[c] \in Nat
  BY DEF TcpInv, TypeOK
<1>q. PICK q \in Nat : q = sndNxt[c]
  BY <1>0
<1>1. CASE Connect(c)
  <2> DEFINE m == [peer |-> c, port |-> Port(c), flags |-> {"SYN"}, seq |-> q,
                   ack |-> 0, len |-> 0, pad |-> 0]
  <2>1. up' = up \cup {m} /\ conn' = conn /\ down' = down /\ opened' = opened
    BY <1>1, <1>q DEF Connect, Send
  <2>2. m \in Segment
    BY <1>0, IsSegment DEF Flags
  <2>3. /\ client' = [client EXCEPT ![c] = "synSent"] /\ iss' = [iss EXCEPT ![c] = sndNxt[c]]
        /\ sndNxt' = [sndNxt EXCEPT ![c] = sndNxt[c] + 1]
    BY <1>1 DEF Connect, Become
  <2>4. /\ client' \in [Clients -> ClientStates] /\ iss' \in [Clients -> Nat]
        /\ sndNxt' \in [Clients -> Nat] /\ opened' \subseteq Clients
        /\ \A d \in Clients : sndNxt[d] <= sndNxt'[d]
    BY <1>0, <2>1, <2>3 DEF TypeOK, ClientStates
  <2>5. ClientOK'
    BY <1>0, <2>1, <2>3 DEF ClientOK, TypeOK
  <2>6. UpOK(m)'
    BY <1>0, <1>q, <2>3 DEF UpOK, TypeOK
  <2> HIDE DEF m
  <2> QED BY <2>1, <2>2, <2>4, <2>5, <2>6, ClientMove
<1>2. ASSUME NEW s \in down, GetSynAck(c, s) PROVE TcpInv'
  <2>0. PICK p \in {0, 1} : up' = up \cup {[peer |-> c, port |-> Port(c), flags |-> {"ACK"},
                                seq |-> q, ack |-> 1, len |-> 0, pad |-> p]}
    BY <1>2, <1>q DEF GetSynAck, Send
  <2> DEFINE m == [peer |-> c, port |-> Port(c), flags |-> {"ACK"}, seq |-> q,
                   ack |-> 1, len |-> 0, pad |-> p]
  <2>1. /\ up' = up \cup {m} /\ conn' = conn /\ down' = down /\ iss' = iss /\ sndNxt' = sndNxt
        /\ opened' = opened \cup {c} /\ client' = [client EXCEPT ![c] = "estab"]
    BY <1>2, <2>0 DEF GetSynAck, Become
  <2>2. m \in Segment
    BY <1>0, IsSegment DEF Flags
  <2>4. /\ client' \in [Clients -> ClientStates] /\ iss' \in [Clients -> Nat]
        /\ sndNxt' \in [Clients -> Nat] /\ opened' \subseteq Clients
        /\ \A d \in Clients : sndNxt[d] <= sndNxt'[d]
    BY <1>0, <2>1 DEF TypeOK, ClientStates
  <2>5. ClientOK'
    BY <1>0, <2>1 DEF ClientOK, TypeOK
  <2>6. UpOK(m)'
    BY <1>0, <1>q, <2>1 DEF UpOK
  <2> HIDE DEF m
  <2> QED BY <2>1, <2>2, <2>4, <2>5, <2>6, ClientMove
<1>3. ASSUME NEW s \in down, RefuseSynAck(c, s) PROVE TcpInv'
  <2> DEFINE m == [peer |-> c, port |-> Port(c), flags |-> {"RST"}, seq |-> s.ack,
                   ack |-> 0, len |-> 0, pad |-> 0]
  <2>1. /\ up' = up \cup {m} /\ conn' = conn /\ down' = down /\ client' = client /\ iss' = iss
        /\ sndNxt' = sndNxt /\ opened' = opened
    BY <1>3 DEF RefuseSynAck, Send, clientVars
  <2>2. m \in Segment
    <3>1. s.ack \in Nat
      BY <1>0 DEF TypeOK, Segment
    <3> QED BY <3>1, IsSegment DEF Flags
  <2>4. /\ client' \in [Clients -> ClientStates] /\ iss' \in [Clients -> Nat]
        /\ sndNxt' \in [Clients -> Nat] /\ opened' \subseteq Clients
        /\ \A d \in Clients : sndNxt[d] <= sndNxt'[d]
    BY <1>0, <2>1 DEF TypeOK
  <2>5. ClientOK' /\ UpOK(m)'
    BY <1>0, <2>1 DEF ClientOK, UpOK
  <2> HIDE DEF m
  <2> QED BY <2>1, <2>2, <2>4, <2>5, ClientMove
<1>4. CASE SendRequest(c)
  <2> DEFINE m == [peer |-> c, port |-> Port(c), flags |-> {"ACK"}, seq |-> q,
                   ack |-> 1, len |-> 1, pad |-> 0]
  <2>1. /\ up' = up \cup {m} /\ conn' = conn /\ down' = down /\ iss' = iss
        /\ sndNxt' = [sndNxt EXCEPT ![c] = sndNxt[c] + 1] /\ client[c] = "estab"
        /\ opened' = opened /\ client' = [client EXCEPT ![c] = "requested"]
    BY <1>4, <1>q DEF SendRequest, Become, Send
  <2>2. m \in Segment
    BY <1>0, IsSegment DEF Flags
  <2>4. /\ client' \in [Clients -> ClientStates] /\ iss' \in [Clients -> Nat]
        /\ sndNxt' \in [Clients -> Nat] /\ opened' \subseteq Clients
        /\ \A d \in Clients : sndNxt[d] <= sndNxt'[d]
    BY <1>0, <2>1 DEF TypeOK, ClientStates
  <2>5. ClientOK'
    BY <1>0, <2>1 DEF ClientOK, TypeOK
  <2>6. UpOK(m)'
    BY <1>0, <1>q, <2>1 DEF UpOK, TypeOK, ClientOK
  <2> HIDE DEF m
  <2> QED BY <2>1, <2>2, <2>4, <2>5, <2>6, ClientMove
<1>5. ASSUME NEW s \in down, GetResponse(c, s) PROVE TcpInv'
  <2>0. PICK p \in {0, 1} : up' = up \cup {[peer |-> c, port |-> Port(c), flags |-> {"ACK"},
                                seq |-> q, ack |-> 3, len |-> 0, pad |-> p]}
    BY <1>5, <1>q DEF GetResponse, Send
  <2> DEFINE m == [peer |-> c, port |-> Port(c), flags |-> {"ACK"}, seq |-> q,
                   ack |-> 3, len |-> 0, pad |-> p]
  <2>1. /\ up' = up \cup {m} /\ conn' = conn /\ down' = down /\ iss' = iss /\ sndNxt' = sndNxt
        /\ client[c] \in {"estab", "requested"}
        /\ opened' = opened /\ client' = [client EXCEPT ![c] = "answered"]
    BY <1>5, <2>0 DEF GetResponse, Become
  <2>2. m \in Segment
    BY <1>0, IsSegment DEF Flags
  <2>4. /\ client' \in [Clients -> ClientStates] /\ iss' \in [Clients -> Nat]
        /\ sndNxt' \in [Clients -> Nat] /\ opened' \subseteq Clients
        /\ \A d \in Clients : sndNxt[d] <= sndNxt'[d]
    BY <1>0, <2>1 DEF TypeOK, ClientStates
  <2>5. ClientOK'
    BY <1>0, <2>1 DEF ClientOK, TypeOK
  <2>6. UpOK(m)'
    BY <1>0, <1>q, <2>1 DEF UpOK, ClientOK
  <2> HIDE DEF m
  <2> QED BY <2>1, <2>2, <2>4, <2>5, <2>6, ClientMove
<1>6. CASE Close(c)
  <2>0. PICK p \in {0, 1} : up' = up \cup {[peer |-> c, port |-> Port(c), flags |-> {"FIN", "ACK"},
                                seq |-> q, ack |-> 3, len |-> 0, pad |-> p]}
    BY <1>6, <1>q DEF Close, Send
  <2> DEFINE m == [peer |-> c, port |-> Port(c), flags |-> {"FIN", "ACK"}, seq |-> q,
                   ack |-> 3, len |-> 0, pad |-> p]
  <2>1. /\ up' = up \cup {m} /\ conn' = conn /\ down' = down /\ iss' = iss
        /\ sndNxt' = [sndNxt EXCEPT ![c] = sndNxt[c] + 1] /\ client[c] = "answered"
        /\ opened' = opened /\ client' = [client EXCEPT ![c] = "finSent"]
    BY <1>6, <2>0 DEF Close, Become
  <2>2. m \in Segment
    BY <1>0, IsSegment DEF Flags
  <2>4. /\ client' \in [Clients -> ClientStates] /\ iss' \in [Clients -> Nat]
        /\ sndNxt' \in [Clients -> Nat] /\ opened' \subseteq Clients
        /\ \A d \in Clients : sndNxt[d] <= sndNxt'[d]
    BY <1>0, <2>1 DEF TypeOK, ClientStates
  <2>5. ClientOK'
    BY <1>0, <2>1 DEF ClientOK, TypeOK
  <2>6. UpOK(m)'
    BY <1>0, <1>q, <2>1 DEF UpOK, TypeOK, ClientOK
  <2> HIDE DEF m
  <2> QED BY <2>1, <2>2, <2>4, <2>5, <2>6, ClientMove
<1>7. CASE Abort(c)
  <2> DEFINE m == [peer |-> c, port |-> Port(c), flags |-> {"RST"}, seq |-> q,
                   ack |-> 0, len |-> 0, pad |-> 0]
  <2>1. /\ up' = up \cup {m} /\ conn' = conn /\ down' = down /\ iss' = iss /\ sndNxt' = sndNxt
        /\ opened' = opened /\ client' = [client EXCEPT ![c] = "aborted"]
    BY <1>7, <1>q DEF Abort, Become, Send
  <2>2. m \in Segment
    BY <1>0, IsSegment DEF Flags
  <2>4. /\ client' \in [Clients -> ClientStates] /\ iss' \in [Clients -> Nat]
        /\ sndNxt' \in [Clients -> Nat] /\ opened' \subseteq Clients
        /\ \A d \in Clients : sndNxt[d] <= sndNxt'[d]
    BY <1>0, <2>1 DEF TypeOK, ClientStates
  <2>5. ClientOK'
    BY <1>0, <2>1 DEF ClientOK, TypeOK
  <2>6. UpOK(m)'
    BY DEF UpOK
  <2> HIDE DEF m
  <2> QED BY <2>1, <2>2, <2>4, <2>5, <2>6, ClientMove
<1> QED BY <1>1, <1>2, <1>3, <1>4, <1>5, <1>6, <1>7 DEF ClientStep

-----------------------------------------------------------------------------
(* The server.                                                             *)

(* Its step gives a new connection record and at most one reply.           *)
LEMMA ServerMove ==
  ASSUME TcpInv, UNCHANGED <<clientVars, up>>, conn' \in Conns, ConnOK',
         down' \subseteq Segment, \A r \in down' \ down : DownOK(r)
  PROVE  TcpInv'
<1>1. client' = client /\ iss' = iss /\ sndNxt' = sndNxt /\ opened' = opened /\ up' = up
  BY DEF clientVars
<1>2. TypeOK'
  BY <1>1 DEF TcpInv, TypeOK, Conns
<1>3. ClientOK' /\ (\A s \in up : UpOK(s)') /\ (\A r \in down' : DownOK(r)')
  BY <1>1 DEF TcpInv, ClientOK, UpOK, DownOK
<1> QED BY <1>1, <1>2, <1>3 DEF TcpInv

(* A segment of the network.                                               *)
LEMMA Received ==
  ASSUME TcpInv, NEW s \in up
  PROVE  /\ s \in Segment /\ s.peer \in Clients /\ UpOK(s) /\ s.seq \in Nat
         /\ s.len \in {0, 1} /\ s.pad \in {0, 1} /\ sndNxt[s.peer] \in Nat
BY DEF TcpInv, TypeOK, Segment

(* The flags a reply can have.                                             *)
LEMMA ReplyFlags ==
  /\ {"SYN", "ACK"} \in Flags /\ {"RST", "ACK"} \in Flags
  /\ {"FIN", "ACK"} \in Flags /\ {"ACK"} \in Flags
BY Zenon DEF Flags

(* A reset forgets the connection or nothing.                              *)
LEMMA RstKeeps ==
  ASSUME TcpInv, NEW s \in up, HandleRst(s), UNCHANGED <<clientVars, up>>
  PROVE  TcpInv'
<1>1. conn' \in {conn, NoConn} /\ down' = down
  BY DEF HandleRst
<1>2. conn' \in Conns /\ down' \subseteq Segment
  <2>1. conn \in Conns /\ down \subseteq Segment
    BY DEF TcpInv, TypeOK, Conns
  <2>2. NoConn \in Conns
    BY DEF NoConn, Conns
  <2> QED BY <1>1, <2>1, <2>2
<1>3. ConnOK'
  BY <1>1 DEF TcpInv, ConnOK, NoConn, clientVars
<1> QED BY <1>1, <1>2, <1>3, ServerMove

(* A SYN is refused or starts a new connection.                            *)
LEMMA SynKeeps ==
  ASSUME TcpInv, NEW s \in up, HandleSyn(s), UNCHANGED <<clientVars, up>>
  PROVE  TcpInv'
<1>1. /\ s \in Segment /\ s.peer \in Clients /\ s.flags = {"SYN"} /\ s.seq \in Nat
      /\ sndNxt[s.peer] \in Nat /\ s.seq + 1 <= sndNxt[s.peer]
  BY Received DEF HandleSyn, UpOK
<1>2. conn \in Conns /\ ConnOK /\ down \subseteq Segment /\ sndNxt' = sndNxt /\ opened' = opened
  BY DEF TcpInv, TypeOK, Conns, clientVars
<1>3. CASE s.port # 80
  <2> DEFINE r == buildIPTCP(s, {"RST", "ACK"}, 0, s.seq + 1, 0)
  <2>1. conn' = conn /\ down' = down \cup {r}
    BY <1>3 DEF HandleSyn
  <2>2. r \in Segment /\ r.ack = s.seq + 1 /\ r.len = 0 /\ r.peer = s.peer
    BY <1>1, ReplyFlags DEF buildIPTCP, Segment
  <2> HIDE DEF r
  <2>3. DownOK(r)
    BY <1>1, <2>2 DEF DownOK
  <2>4. ConnOK'
    BY <1>2, <2>1 DEF ConnOK
  <2> QED BY <1>2, <2>1, <2>2, <2>3, <2>4, ServerMove
<1>4. CASE s.port = 80
  <2> DEFINE r == buildIPTCP(s, {"SYN", "ACK"}, 0, s.seq + 1, 0)
  <2>1. /\ conn' = [active |-> TRUE, peer |-> s.peer, seqNum |-> 1, ackNum |-> s.seq + 1,
                    state |-> "synRcvd"]
        /\ down' = down \cup {r}
    BY <1>4 DEF HandleSyn
  <2>2. r \in Segment /\ r.ack = s.seq + 1 /\ r.len = 0 /\ r.peer = s.peer
    BY <1>1, ReplyFlags DEF buildIPTCP, Segment
  <2> HIDE DEF r
  <2>3. DownOK(r)
    BY <1>1, <2>2 DEF DownOK
  <2>4. conn' \in Conns
    BY <1>1, <2>1 DEF Conns
  <2>5. ConnOK'
    BY <1>1, <1>2, <2>1 DEF ConnOK
  <2> QED BY <1>2, <2>1, <2>2, <2>3, <2>4, <2>5, ServerMove
<1> QED BY <1>3, <1>4

(* The connection after the handshake's ACK, if the segment is one.        *)
LEMMA AckHandshakeOK ==
  ASSUME TcpInv, NEW s \in up, Known(s), "RST" \notin s.flags, s.flags # {"SYN"}
  PROVE  /\ AckHandshake(s) \in Conns
         /\ AckHandshake(s).active /\ AckHandshake(s).peer = s.peer
         /\ s.peer \in opened
         /\ AckHandshake(s).state # "closeWait" => AckHandshake(s).seqNum <= 1
         /\ AckHandshake(s).ackNum
              <= sndNxt[s.peer] + (IF AckHandshake(s).state = "closeWait" THEN 1 ELSE 0)
<1>1. /\ UpOK(s) /\ s.seq \in Nat /\ s.len \in {0, 1} /\ sndNxt[s.peer] \in Nat
  BY Received
<1>2. conn \in Conns /\ ConnOK /\ conn.active /\ conn.peer = s.peer
  BY DEF TcpInv, TypeOK, Conns, Known
<1>3. s.seq <= sndNxt[s.peer] /\ s.peer \in opened
  BY <1>1 DEF UpOK
<1>4. CASE conn.state = "synRcvd" /\ "ACK" \in s.flags
  <2>1. AckHandshake(s) = [conn EXCEPT !.state = "estab", !.ackNum = s.seq]
    BY <1>4 DEF AckHandshake
  <2>2. /\ AckHandshake(s) \in Conns /\ AckHandshake(s).active /\ AckHandshake(s).peer = s.peer
        /\ AckHandshake(s).seqNum = conn.seqNum /\ AckHandshake(s).ackNum = s.seq
        /\ AckHandshake(s).state = "estab"
    BY <1>1, <1>2, <2>1 DEF Conns
  <2> QED BY <1>1, <1>2, <1>3, <1>4, <2>2 DEF ConnOK
<1>5. CASE ~(conn.state = "synRcvd" /\ "ACK" \in s.flags)
  <2>1. AckHandshake(s) = conn
    BY <1>5 DEF AckHandshake
  <2> QED BY <1>2, <1>3, <2>1 DEF ConnOK
<1> QED BY <1>4, <1>5

(* Any other segment of the connection.                                    *)
LEMMA SegmentKeeps ==
  ASSUME TcpInv, NEW s \in up, HandleSegment(s), UNCHANGED <<clientVars, up>>
  PROVE  TcpInv'
<1>1. "RST" \notin s.flags /\ s.flags # {"SYN"} /\ Known(s)
  BY DEF HandleSegment
<1>2. PICK cn \in Conns :
        /\ cn = AckHandshake(s) /\ cn.active /\ cn.peer = s.peer /\ s.peer \in opened
        /\ cn.state # "closeWait" => cn.seqNum <= 1
        /\ cn.ackNum <= sndNxt[s.peer] + (IF cn.state = "closeWait" THEN 1 ELSE 0)
  BY <1>1, AckHandshakeOK
<1>3. /\ s \in Segment /\ s.peer \in Clients /\ UpOK(s) /\ s.seq \in Nat
      /\ s.len \in {0, 1} /\ s.pad \in {0, 1} /\ sndNxt[s.peer] \in Nat
  BY <1>1, Received
<1>4. conn \in Conns /\ ConnOK /\ down \subseteq Segment /\ sndNxt' = sndNxt /\ opened' = opened
  BY DEF TcpInv, TypeOK, Conns, clientVars
<1>5. CASE /\ cn.state = "estab" /\ DataLen(s) > 0
           /\ conn' = [cn EXCEPT !.state = "closeWait", !.ackNum = s.seq + DataLen(s),
                                 !.seqNum = @ + 2]
           /\ down' = down \cup {buildIPTCP(s, {"FIN", "ACK"}, cn.seqNum, s.seq + DataLen(s), 1)}
  <2>1. DataLen(s) \in Nat /\ s.seq + DataLen(s) \in Nat
    BY <1>3 DEF DataLen
  <2>2. s.seq + DataLen(s) <= sndNxt[s.peer] + 1
    <3>1. CASE s.flags = {"ACK"}
      BY <1>3, <3>1 DEF UpOK, DataLen
    <3>2. CASE s.flags # {"ACK"}
      <4>1. s.len = 0 /\ s.seq + 1 <= sndNxt[s.peer]
        BY <1>1, <1>3, <3>2 DEF UpOK
      <4> QED BY <1>3, <4>1 DEF DataLen
    <3> QED BY <3>1, <3>2
  <2>3. cn.seqNum \in Nat /\ cn.seqNum + 2 \in 0 .. 3
    BY <1>2, <1>5 DEF Conns
  <2> DEFINE r == buildIPTCP(s, {"FIN", "ACK"}, cn.seqNum, s.seq + DataLen(s), 1)
  <2>4. r \in Segment /\ r.ack = s.seq + DataLen(s) /\ r.len = 1 /\ r.peer = s.peer
    BY <1>3, <2>1, <2>3, ReplyFlags DEF buildIPTCP, Segment
  <2>5. down' = down \cup {r}
    BY <1>5
  <2> HIDE DEF r
  <2>6. DownOK(r)
    BY <1>2, <2>2, <2>4 DEF DownOK
  <2>7. /\ conn' \in Conns /\ conn'.active /\ conn'.peer = s.peer
        /\ conn'.ackNum = s.seq + DataLen(s) /\ conn'.state = "closeWait"
    BY <1>2, <1>5, <2>1, <2>3 DEF Conns
  <2>8. ConnOK'
    BY <1>2, <1>3, <1>4, <2>2, <2>7 DEF ConnOK
  <2> QED BY <1>4, <2>4, <2>5, <2>6, <2>7, <2>8, ServerMove
<1>6. CASE /\ "FIN" \in s.flags /\ conn' = NoConn
           /\ down' = down \cup {buildIPTCP(s, {"ACK"}, cn.seqNum, s.seq + 1, 0)}
  <2> DEFINE r == buildIPTCP(s, {"ACK"}, cn.seqNum, s.seq + 1, 0)
  <2>1. cn.seqNum \in Nat
    BY DEF Conns
  <2>2. r \in Segment /\ r.ack = s.seq + 1 /\ r.peer = s.peer /\ r.len = 0
    BY <1>3, <2>1, ReplyFlags DEF buildIPTCP, Segment
  <2>3. down' = down \cup {r}
    BY <1>6
  <2> HIDE DEF r
  <2>4. s.seq + 1 <= sndNxt[s.peer]
    BY <1>1, <1>3, <1>6 DEF UpOK
  <2>5. DownOK(r)
    BY <1>3, <2>2, <2>4 DEF DownOK
  <2>6. conn' \in Conns /\ ConnOK'
    BY <1>6 DEF NoConn, Conns, ConnOK
  <2> QED BY <1>4, <2>2, <2>3, <2>5, <2>6, ServerMove
<1>7. CASE conn' = cn /\ down' = down
  <2>1. ConnOK'
    BY <1>2, <1>3, <1>4, <1>7 DEF ConnOK
  <2> QED BY <1>4, <1>7, <2>1, ServerMove
<1> QED BY <1>2, <1>5, <1>6, <1>7 DEF HandleSegment

(* Every step keeps the invariant.                                         *)
LEMMA TcpStep == TcpInv /\ [Next]_vars => TcpInv'
<1> SUFFICES ASSUME TcpInv, [Next]_vars PROVE TcpInv'
  OBVIOUS
<1>1. ASSUME UNCHANGED <<conn, down, clientVars, up>> PROVE TcpInv'
  <2>1. conn' = conn /\ down' = down /\ UNCHANGED <<clientVars, up>>
    BY <1>1
  <2>2. conn' \in Conns /\ down' \subseteq Segment
    BY <2>1 DEF TcpInv, TypeOK, Conns
  <2>3. ConnOK'
    BY <2>1 DEF TcpInv, ConnOK, clientVars
  <2> QED BY <2>1, <2>2, <2>3, ServerMove
<1>2. ASSUME NEW s \in up, handleIPv4(s) PROVE TcpInv'
  <2>1. UNCHANGED <<clientVars, up>>
    BY <1>2 DEF handleIPv4
  <2>2. CASE HandleRst(s)
    BY <2>1, <2>2, RstKeeps
  <2>3. CASE HandleSyn(s)
    BY <2>1, <2>3, SynKeeps
  <2>4. CASE HandleSegment(s)
    BY <2>1, <2>4, SegmentKeeps
  <2>5. CASE HandleStranger(s)
    BY <1>1, <2>1, <2>5 DEF HandleStranger
  <2> QED BY <1>2, <2>2, <2>3, <2>4, <2>5 DEF handleIPv4
<1>3. CASE UNCHANGED vars
  BY <1>1, <1>3 DEF vars
<1> QED BY <1>2, <1>3, ClientKeeps DEF Next

-----------------------------------------------------------------------------
(* Theorems.                                                               *)

(* Every variable keeps its type, for any set of clients and any number of *)
(* connections; the server's own numbers stay within one connection's.     *)
THEOREM TcpTypeCorrect == Spec => []TypeOK
BY TcpInvInit, TcpStep, TcpInvMeans, PTL DEF Spec

(* The connection counts as established, and is answered, only for a       *)
(* client that has accepted a SYN-ACK, although handleIPv4 looks at no     *)
(* acknowledgment number and segments of earlier connections keep          *)
(* arriving.                                                               *)
THEOREM HandshakeCompleted == Spec => []EstablishedMeansHandshake
BY TcpInvInit, TcpStep, TcpInvMeans, PTL DEF Spec

(* The server acknowledges only what that client sent, in this or an       *)
(* earlier connection, and with a response at most the padding after it.   *)
THEOREM NoCrossTalk == Spec => []AckHonest
BY TcpInvInit, TcpStep, TcpInvMeans, PTL DEF Spec
=============================================================================
