---------------------------- MODULE I2cMasterProofs ----------------------------
(***************************************************************************)
(* Proofs about the I2C driver, for FIFOs of any depth above one, calls of *)
(* any length and a device that may refuse or hold the clock at any point: *)
(* type correctness, that neither the command registers nor the FIFO are   *)
(* given more than they hold, and that the bus sees the whole transaction. *)
(*                                                                         *)
(* BusInv says where transmit is: what is left of the call is in order,    *)
(* each command finds the list short enough, and a load of w that is not   *)
(* the last one ends one byte short of a multiple of the depth.  LoadInv   *)
(* counts: the write commands of the list take out of the FIFO exactly     *)
(* the bytes that were put into it.  WireInv follows the bytes: from what  *)
(* bus and FIFOs hold now, the list leads to where the transaction is to   *)
(* have got when it is done.                                               *)
(***************************************************************************)
EXTENDS I2cMaster, Integers, SequenceTheorems, FiniteSetTheorems, TLAPS

-----------------------------------------------------------------------------
(* Sequences.                                                              *)

LEMMA DropType ==
  ASSUME NEW S, NEW s \in Seq(S), NEW n \in Nat
  PROVE  /\ Drop(s, n) \in Seq(S)
         /\ Len(Drop(s, n)) = IF n <= Len(s) THEN Len(s) - n ELSE 0
<1>1. \A i \in n + 1 .. Len(s) : s[i] \in S
  OBVIOUS
<1> QED BY <1>1, SubSeqProperties DEF Drop

LEMMA FitsType ==
  ASSUME NEW S, NEW s \in Seq(S)
  PROVE  /\ Fits(s) \in Seq(S)
         /\ Len(Fits(s)) = Smaller(Len(s), Depth)
         /\ Len(Fits(s)) <= Depth
<1>1. Smaller(Len(s), Depth) \in 0 .. Len(s) /\ Smaller(Len(s), Depth) <= Depth
  BY I2cAssumption DEF Smaller
<1>2. \A i \in 1 .. Smaller(Len(s), Depth) : s[i] \in S
  BY <1>1
<1> QED BY <1>1, <1>2, SubSeqProperties DEF Fits

LEMMA OneType ==
  ASSUME NEW S, NEW e \in S
  PROVE  <<e>> \in Seq(S) /\ Len(<<e>>) = 1 /\ <<e>>[1] = e
OBVIOUS

LEMMA TwoType ==
  ASSUME NEW S, NEW e \in S, NEW f \in S
  PROVE  <<e, f>> \in Seq(S) /\ Len(<<e, f>>) = 2 /\ <<e, f>>[1] = e /\ <<e, f>>[2] = f
OBVIOUS

LEMMA Prefixed ==
  ASSUME NEW S, NEW e \in S, NEW s \in Seq(S)
  PROVE  /\ <<e>> \o s \in Seq(S) /\ Len(<<e>> \o s) = 1 + Len(s)
         /\ (<<e>> \o s)[1] = e /\ \A i \in 1 .. Len(s) : (<<e>> \o s)[i + 1] = s[i]
<1> DEFINE t == <<e>>
<1>1. t \in Seq(S) /\ Len(t) = 1 /\ t[1] = e
  BY OneType
<1> HIDE DEF t
<1> DEFINE u == t \o s
<1>2. /\ u \in Seq(S) /\ Len(u) = Len(t) + Len(s)
      /\ \A i \in 1 .. Len(t) + Len(s) : u[i] = IF i <= Len(t) THEN t[i] ELSE s[i - Len(t)]
  BY <1>1, ConcatProperties
<1> HIDE DEF u
<1>3. u[1] = e /\ \A i \in 1 .. Len(s) : u[i + 1] = s[i]
  BY <1>1, <1>2
<1> QED BY <1>1, <1>2, <1>3 DEF t, u

LEMMA Appended ==
  ASSUME NEW S, NEW e \in S, NEW s \in Seq(S)
  PROVE  /\ s \o <<e>> \in Seq(S) /\ Len(s \o <<e>>) = Len(s) + 1
         /\ (s \o <<e>>)[Len(s) + 1] = e
         /\ \A i \in 1 .. Len(s) : (s \o <<e>>)[i] = s[i]
         /\ Append(s, e) = s \o <<e>>
<1> DEFINE t == <<e>>
<1>1. t \in Seq(S) /\ Len(t) = 1 /\ t[1] = e
  BY OneType
<1>2. Append(s, e) = s \o <<e>>
  OBVIOUS
<1> HIDE DEF t
<1> DEFINE u == s \o t
<1>3. /\ u \in Seq(S) /\ Len(u) = Len(s) + Len(t)
      /\ \A i \in 1 .. Len(s) + Len(t) : u[i] = IF i <= Len(s) THEN s[i] ELSE t[i - Len(s)]
  BY <1>1, ConcatProperties
<1> HIDE DEF u
<1>4. u[Len(s) + 1] = e /\ \A i \in 1 .. Len(s) : u[i] = s[i]
  BY <1>1, <1>3
<1> QED BY <1>1, <1>2, <1>3, <1>4 DEF t, u

LEMMA WhenType ==
  ASSUME NEW S, NEW cond \in BOOLEAN, NEW s \in Seq(S)
  PROVE  /\ When(cond, s) \in Seq(S)
         /\ Len(When(cond, s)) = IF cond THEN Len(s) ELSE 0
BY DEF When

LEMMA ItemType == /\ Start \in Items /\ Stop \in Items /\ ToWrite \in Items
                  /\ ToRead \in Items /\ Junk \in Items
BY DEF Start, Stop, ToWrite, ToRead, Junk, Item, Items

LEMMA BytesType ==
  ASSUME NEW a \in Nat, NEW n \in Nat
  PROVE  /\ Written(a, a + n) \in Seq(Items) /\ Len(Written(a, a + n)) = n
         /\ Replies(a, a + n) \in Seq(Items) /\ Len(Replies(a, a + n)) = n
<1>1. (a + n) - a = n
  OBVIOUS
<1>2. \A i \in 1 .. n : Item("data", a + i) \in Items /\ Item("reply", a + i) \in Items
  BY DEF Item, Items
<1> QED BY <1>1, <1>2 DEF Written, Replies

-----------------------------------------------------------------------------
(* The order of the commands, and how many registers may be filled before  *)
(* each.                                                                   *)
Ops  == {"rstart", "write", "read", "stop"}
Rank == [op \in Ops |-> IF op = "rstart" THEN 1 ELSE IF op = "write" THEN 2
                        ELSE IF op = "read" THEN 3 ELSE 4]
Room == [op \in Ops |-> IF op = "rstart" THEN 0 ELSE IF op = "write" THEN 1
                        ELSE IF op = "read" THEN 2 ELSE 6]

(* What is left of a call is in order and ends in STOP.                    *)
InOrder(seq, w, n) ==
  /\ \A j, k \in DOMAIN seq : j < k => Rank[seq[j]] < Rank[seq[k]]
  /\ \A k \in DOMAIN seq : /\ k = Len(seq) <=> seq[k] = "stop"
                           /\ seq[k] = "write" => w > 0
                           /\ seq[k] = "read" => n > 0
CommandsOK == InOrder(cmds, job.w, job.r)

(* The loads of w end where one byte more would be a multiple of Depth:    *)
(* the first holds the address as well.                                    *)
FullLoads(n) == \E q \in Nat : n + 1 = q * Depth

(* Where transmit is: what is left of w or r, and what the list has room   *)
(* for.                                                                    *)
PlaceOK ==
  /\ pc = "build" => /\ cmds # << >> /\ todo = << >> /\ ints = {}
                     /\ Len(comd) <= Room[Head(cmds)]
                     /\ Head(cmds) # "stop" => readTo = NoSlice
  /\ pc = "wait" => /\ comd = << >>
                    /\ cmds # << >> => Head(cmds) \in {"write", "read"}
  /\ pc # "idle" /\ cmds # << >> =>
       /\ Head(cmds) = "write" => /\ readTo = NoSlice /\ head < job.w
                                  /\ IF needAddress THEN head = 0 ELSE FullLoads(head)
       /\ Head(cmds) = "read" => head + readTo.len < job.r
       /\ Head(cmds) = "rstart" => head = 0 /\ needAddress
       /\ ~(needAddress /\ needRestart)

(* STOP and END are last in a list; nothing is left of one when a cause is *)
(* raised.                                                                 *)
Inner == {c \in Cmds : c.op \notin {"stop", "end"}}
ListsOK ==
  /\ comd \in Seq(Inner) /\ Len(comd) <= 6 /\ Len(todo) <= 7
  /\ \A k \in DOMAIN todo : k < Len(todo) => todo[k] \in Inner
  /\ ints # {} => todo = << >>

BusInv == TypeOK /\ CommandsOK /\ PlaceOK /\ ListsOK

-----------------------------------------------------------------------------
(* The commands.                                                           *)

(* With what is left in order, the next command is another, and STOP is    *)
(* last.                                                                   *)
LEMMA NextIsLater ==
  ASSUME BusInv, cmds # << >>, Head(cmds) # "stop", cmds' = Tail(cmds), job' = job
  PROVE  /\ cmds' \in Seq(Ops) /\ cmds' # << >> /\ Head(cmds') \in Ops
         /\ CommandsOK' /\ Rank[Head(cmds)] < Rank[Head(cmds')]
         /\ Head(cmds') = "write" => job.w > 0
         /\ Head(cmds') = "read" => job.r > 0
<1>1. /\ cmds \in Seq(Ops) /\ Head(cmds) = cmds[1] /\ 1 \in DOMAIN cmds
      /\ DOMAIN cmds = 1 .. Len(cmds) /\ Len(cmds) \in Nat
  BY DEF BusInv, TypeOK, Ops
<1>2. /\ Tail(cmds) \in Seq(Ops) /\ Len(Tail(cmds)) = Len(cmds) - 1
      /\ \A i \in 1 .. Len(Tail(cmds)) : Tail(cmds)[i] = cmds[i + 1]
  BY <1>1, HeadTailProperties
<1>3. Len(cmds) # 1
  BY <1>1 DEF BusInv, CommandsOK, InOrder
<1>4. 2 \in DOMAIN cmds /\ Head(cmds') = cmds[2] /\ cmds' # << >>
  <2>1. Len(cmds') >= 1 /\ 2 \in 1 .. Len(cmds)
    BY <1>1, <1>2, <1>3
  <2> QED BY <1>1, <1>2, <2>1
<1>5. DOMAIN cmds' = 1 .. (Len(cmds) - 1) /\ Len(cmds') = Len(cmds) - 1
  BY <1>1, <1>2
<1>6. CommandsOK'
  <2> DEFINE rest == Tail(cmds)
             m == Len(rest)
  <2>1. /\ rest \in Seq(Ops) /\ m \in Nat /\ DOMAIN rest = 1 .. m /\ Len(cmds) = m + 1
        /\ \A k \in 1 .. m : rest[k] = cmds[k + 1] /\ k + 1 \in DOMAIN cmds
    BY <1>1, <1>2
  <2> HIDE DEF rest, m
  <2>2. /\ \A j, k \in DOMAIN cmds : j < k => Rank[cmds[j]] < Rank[cmds[k]]
        /\ \A k \in DOMAIN cmds : /\ k = Len(cmds) <=> cmds[k] = "stop"
                                  /\ cmds[k] = "write" => job.w > 0
                                  /\ cmds[k] = "read" => job.r > 0
    BY DEF BusInv, CommandsOK, InOrder
  <2>3. \A j, k \in DOMAIN rest : j < k => Rank[rest[j]] < Rank[rest[k]]
    <3> SUFFICES ASSUME NEW j \in 1 .. m, NEW k \in 1 .. m, j < k
                 PROVE  Rank[rest[j]] < Rank[rest[k]]
      BY <2>1
    <3>1. /\ j + 1 < k + 1 /\ j + 1 \in DOMAIN cmds /\ k + 1 \in DOMAIN cmds
          /\ rest[j] = cmds[j + 1] /\ rest[k] = cmds[k + 1]
      BY <2>1
    <3> QED BY <3>1, <2>2
  <2>4. \A k \in DOMAIN rest : /\ k = m <=> rest[k] = "stop"
                               /\ rest[k] = "write" => job.w > 0
                               /\ rest[k] = "read" => job.r > 0
    <3> SUFFICES ASSUME NEW k \in 1 .. m
                 PROVE  /\ k = m <=> rest[k] = "stop"
                        /\ rest[k] = "write" => job.w > 0
                        /\ rest[k] = "read" => job.r > 0
      BY <2>1
    <3>1. (k = m <=> k + 1 = Len(cmds)) /\ k + 1 \in DOMAIN cmds /\ rest[k] = cmds[k + 1]
      BY <2>1
    <3> QED BY <3>1, <2>2
  <2>5. InOrder(rest, job.w, job.r)
    BY <2>3, <2>4 DEF InOrder, m
  <2> QED BY <2>5 DEF CommandsOK, rest
<1>7. Head(cmds') \in Ops
  BY <1>1, <1>4
<1> QED BY <1>1, <1>2, <1>4, <1>6, <1>7 DEF BusInv, CommandsOK, InOrder

Commands(w, n) ==
  <<"rstart">> \o When(w > 0, <<"write">>) \o When(n > 0, <<"read">>) \o <<"stop">>

LEMMA NewCommands ==
  ASSUME NEW w \in Nat, NEW n \in Nat
  PROVE  /\ Commands(w, n) \in Seq(Ops) /\ Commands(w, n) # << >>
         /\ Head(Commands(w, n)) = "rstart" /\ InOrder(Commands(w, n), w, n)
         /\ w > 0 => \E k \in DOMAIN Commands(w, n) : Commands(w, n)[k] = "write"
         /\ n > 0 => \E k \in DOMAIN Commands(w, n) : Commands(w, n)[k] = "read"
<1> DEFINE a == When(w > 0, <<"write">>)
           b == When(n > 0, <<"read">>)
           s == <<"rstart">> \o a
           t == s \o b
           c == t \o <<"stop">>
<1>1. /\ <<"write">> \in Seq(Ops) /\ Len(<<"write">>) = 1 /\ <<"write">>[1] = "write"
      /\ <<"read">> \in Seq(Ops) /\ Len(<<"read">>) = 1 /\ <<"read">>[1] = "read"
      /\ "rstart" \in Ops /\ "stop" \in Ops
  BY OneType DEF Ops
<1>2. /\ a \in Seq(Ops) /\ Len(a) = (IF w > 0 THEN 1 ELSE 0) /\ (w > 0 => a[1] = "write")
      /\ b \in Seq(Ops) /\ Len(b) = (IF n > 0 THEN 1 ELSE 0) /\ (n > 0 => b[1] = "read")
  BY <1>1, EmptySeq DEF When
<1> HIDE DEF a, b
<1>3. /\ s \in Seq(Ops) /\ Len(s) = 1 + Len(a) /\ s[1] = "rstart"
      /\ \A i \in 1 .. Len(a) : s[i + 1] = a[i]
  BY <1>1, <1>2, Prefixed
<1>4. w > 0 => s[2] = "write"
  BY <1>2, <1>3
<1> HIDE DEF s
<1>5. /\ t \in Seq(Ops) /\ Len(t) = Len(s) + Len(b)
      /\ \A i \in 1 .. Len(s) + Len(b) : t[i] = IF i <= Len(s) THEN s[i] ELSE b[i - Len(s)]
  BY <1>2, <1>3, ConcatProperties
<1>6. /\ t[1] = "rstart" /\ (w > 0 => t[2] = "write") /\ (n > 0 => t[Len(s) + 1] = "read")
  BY <1>2, <1>3, <1>4, <1>5
<1> HIDE DEF t
<1>7. /\ c \in Seq(Ops) /\ Len(c) = Len(t) + 1 /\ c[Len(t) + 1] = "stop"
      /\ \A i \in 1 .. Len(t) : c[i] = t[i]
  BY <1>1, <1>5, Appended
<1> HIDE DEF c
<1>8. /\ c[1] = "rstart" /\ (w > 0 => c[2] = "write")
      /\ (n > 0 => c[Len(s) + 1] = "read") /\ c[Len(t) + 1] = "stop"
  BY <1>2, <1>3, <1>5, <1>6, <1>7
<1>9. /\ Rank["rstart"] = 1 /\ Rank["write"] = 2 /\ Rank["read"] = 3 /\ Rank["stop"] = 4
  BY DEF Rank, Ops
<1>10. DOMAIN c = 1 .. Len(c)
  BY <1>7
<1>11. InOrder(c, w, n)
  <2>1. CASE w > 0 /\ n > 0
    <3>1. Len(c) = 4 /\ c[3] = "read" /\ c[4] = "stop"
      BY <2>1, <1>2, <1>3, <1>5, <1>7, <1>8
    <3> QED BY <2>1, <3>1, <1>8, <1>9, <1>10 DEF InOrder
  <2>2. CASE w > 0 /\ n = 0
    <3>1. Len(c) = 3 /\ c[3] = "stop"
      BY <2>2, <1>2, <1>3, <1>5, <1>7, <1>8
    <3> QED BY <2>2, <3>1, <1>8, <1>9, <1>10 DEF InOrder
  <2>3. CASE w = 0 /\ n > 0
    <3>1. Len(c) = 3 /\ c[2] = "read" /\ c[3] = "stop"
      BY <2>3, <1>2, <1>3, <1>5, <1>7, <1>8
    <3> QED BY <2>3, <3>1, <1>8, <1>9, <1>10 DEF InOrder
  <2>4. CASE w = 0 /\ n = 0
    <3>1. Len(c) = 2 /\ c[2] = "stop"
      BY <2>4, <1>2, <1>3, <1>5, <1>7, <1>8
    <3> QED BY <2>4, <3>1, <1>8, <1>9, <1>10 DEF InOrder
  <2> QED BY <2>1, <2>2, <2>3, <2>4
<1>12. c # << >> /\ Head(c) = "rstart"
  BY <1>5, <1>7, <1>8
<1>13. /\ w > 0 => \E k \in DOMAIN c : c[k] = "write"
       /\ n > 0 => \E k \in DOMAIN c : c[k] = "read"
  <2>1. /\ Len(c) \in Nat /\ Len(s) \in Nat /\ (w > 0 => 2 \in 1 .. Len(c))
        /\ (n > 0 => Len(s) + 1 \in 1 .. Len(c))
    BY <1>2, <1>3, <1>5, <1>7
  <2> QED BY <2>1, <1>8, <1>10
<1>14. c = Commands(w, n)
  BY DEF Commands, c, t, s, a, b
<1> QED BY <1>7, <1>11, <1>12, <1>13, <1>14

-----------------------------------------------------------------------------
(* The lists.                                                              *)

InnerOps == {"rstart", "write", "read", "readlast"}

LEMMA CmdType ==
  /\ \A op \in InnerOps, n \in Nat : Cmd(op, n) \in Inner /\ Cmd(op, n) \in Cmds
  /\ Cmd("stop", 0) \in Cmds /\ Cmd("end", 0) \in Cmds
  /\ \A op, n : Cmd(op, n).op = op /\ Cmd(op, n).n = n
BY DEF InnerOps, Cmd, Inner, Cmds

LEMMA InnerIsCmds == ASSUME NEW s \in Seq(Inner) PROVE s \in Seq(Cmds)
BY SeqMonotonic DEF Inner

(* A list that is started: all but its last command are inner ones.        *)
Startable(s) ==
  /\ s \in Seq(Cmds)
  /\ \A k \in DOMAIN s : k < Len(s) => s[k] \in Inner

LEMMA ListEnds ==
  ASSUME NEW s \in Seq(Inner), NEW t \in Seq(Inner), NEW e \in Cmds
  PROVE  Startable(s \o Append(t, e)) /\ Len(s \o Append(t, e)) = Len(s) + Len(t) + 1
<1> DEFINE u == s \o t
           v == u \o <<e>>
<1>1. u \in Seq(Inner) /\ Len(u) = Len(s) + Len(t)
  BY ConcatProperties
<1>2. s \in Seq(Cmds) /\ t \in Seq(Cmds) /\ u \in Seq(Cmds)
  BY <1>1, InnerIsCmds
<1>3. v = s \o Append(t, e)
  BY <1>2, OneType, Appended, ConcatAssociative
<1>4. /\ v \in Seq(Cmds) /\ Len(v) = Len(u) + 1
      /\ \A k \in 1 .. Len(u) : v[k] = u[k]
  BY <1>2, Appended
<1> HIDE DEF v, u
<1>5. \A k \in DOMAIN v : k < Len(v) => v[k] \in Inner
  <2>1. DOMAIN v = 1 .. Len(u) + 1 /\ \A k \in 1 .. Len(u) : u[k] \in Inner
    BY <1>1, <1>4
  <2> QED BY <2>1, <1>1, <1>4
<1>6. Startable(v)
  BY <1>4, <1>5 DEF Startable
<1> QED BY <1>1, <1>3, <1>4, <1>6

LEMMA TodoTail ==
  ASSUME BusInv, todo # << >>, todo' = Tail(todo)
  PROVE  /\ Head(todo) \in Cmds /\ Head(todo) = todo[1]
         /\ todo' \in Seq(Cmds) /\ Len(todo') <= 7
         /\ \A k \in DOMAIN todo' : k < Len(todo') => todo'[k] \in Inner
         /\ Head(todo).op \in {"stop", "end"} => todo' = << >>
         /\ ints = {}
<1>1. todo \in Seq(Cmds) /\ DOMAIN todo = 1 .. Len(todo) /\ Len(todo) \in Nat \ {0}
  BY EmptySeq DEF BusInv, TypeOK
<1>2. /\ todo' \in Seq(Cmds) /\ Len(todo') = Len(todo) - 1 /\ Head(todo) \in Cmds
      /\ \A k \in 1 .. Len(todo') : todo'[k] = todo[k + 1]
  BY <1>1, HeadTailProperties
<1>3. Head(todo) = todo[1]
  BY <1>1
<1>4. \A k \in DOMAIN todo' : k < Len(todo') => todo'[k] \in Inner
  BY <1>1, <1>2 DEF BusInv, ListsOK
<1>5. ASSUME Head(todo).op \in {"stop", "end"} PROVE todo' = << >>
  <2>1. todo[1] \notin Inner
    BY <1>3, <1>5 DEF Inner
  <2>2. Len(todo) = 1
    BY <2>1, <1>1 DEF BusInv, ListsOK
  <2> QED BY <2>2, <1>2
<1> QED BY <1>1, <1>2, <1>3, <1>4, <1>5 DEF BusInv, ListsOK

-----------------------------------------------------------------------------
(* The steps of the controller.                                            *)

LEMMA ExecRestartKeeps == ASSUME BusInv, ExecRestart PROVE BusInv'
<1>1. todo # << >> /\ todo' = Tail(todo) /\ wire' = Append(wire, Start)
  BY DEF ExecRestart, Executes
<1>2. wire' \in Seq(Items)
  BY <1>1, ItemType DEF BusInv, TypeOK
<1>3. TypeOK'
  BY <1>1, <1>2, TodoTail DEF BusInv, TypeOK, ExecRestart, SoftwareIdle, callVars, stateVars
<1>4. CommandsOK' /\ PlaceOK' /\ ListsOK'
  BY <1>1, TodoTail DEF BusInv, CommandsOK, PlaceOK, ListsOK, ExecRestart, SoftwareIdle,
     callVars, stateVars
<1> QED BY <1>3, <1>4 DEF BusInv

LEMMA ExecStopKeeps == ASSUME BusInv, ExecStop PROVE BusInv'
<1>1. /\ todo # << >> /\ todo' = Tail(todo) /\ wire' = Append(wire, Stop)
      /\ Head(todo).op = "stop"
  BY DEF ExecStop, Executes
<1>2. wire' \in Seq(Items)
  BY <1>1, ItemType DEF BusInv, TypeOK
<1>3. ints' \subseteq {"end", "complete", "timeout", "nack"}
  BY DEF ExecStop
<1>4. TypeOK'
  BY <1>1, <1>2, <1>3, TodoTail DEF BusInv, TypeOK, ExecStop, SoftwareIdle, callVars, stateVars
<1>5. CommandsOK' /\ PlaceOK' /\ ListsOK'
  BY <1>1, TodoTail DEF BusInv, CommandsOK, PlaceOK, ListsOK, ExecStop, SoftwareIdle,
     callVars, stateVars
<1> QED BY <1>4, <1>5 DEF BusInv

LEMMA ExecEndKeeps == ASSUME BusInv, ExecEnd PROVE BusInv'
<1>1. todo # << >> /\ todo' = Tail(todo) /\ Head(todo).op = "end" /\ ints' = {"end"}
  BY DEF ExecEnd, Executes
<1>2. TypeOK'
  BY <1>1, TodoTail DEF BusInv, TypeOK, ExecEnd, SoftwareIdle, callVars, stateVars
<1>3. CommandsOK' /\ PlaceOK' /\ ListsOK'
  BY <1>1, TodoTail DEF BusInv, CommandsOK, PlaceOK, ListsOK, ExecEnd, SoftwareIdle,
     callVars, stateVars
<1> QED BY <1>2, <1>3 DEF BusInv

LEMMA ExecTimeoutKeeps == ASSUME BusInv, ExecTimeout PROVE BusInv'
<1>1. TypeOK'
  BY EmptySeq DEF BusInv, TypeOK, ExecTimeout, SoftwareIdle, callVars, stateVars
<1>2. CommandsOK' /\ PlaceOK' /\ ListsOK'
  BY DEF BusInv, CommandsOK, PlaceOK, ListsOK, ExecTimeout, SoftwareIdle, callVars, stateVars
<1> QED BY <1>1, <1>2 DEF BusInv

(* The bytes of a write leave the FIFO and appear on the bus.              *)
LEMMA Taken ==
  ASSUME BusInv, NEW n \in Nat, n <= Len(txFifo)
  PROVE  /\ wire \o SubSeq(txFifo, 1, n) \in Seq(Items)
         /\ Drop(txFifo, n) \in Seq(Items) /\ Len(Drop(txFifo, n)) = Len(txFifo) - n
         /\ Len(Drop(txFifo, n)) <= Depth
<1>1. txFifo \in Seq(Items) /\ wire \in Seq(Items) /\ Len(txFifo) <= Depth
  BY DEF BusInv, TypeOK
<1>2. SubSeq(txFifo, 1, n) \in Seq(Items)
  BY <1>1, SubSeqProperties
<1>3. wire \o SubSeq(txFifo, 1, n) \in Seq(Items)
  BY <1>1, <1>2, ConcatProperties
<1>4. Drop(txFifo, n) \in Seq(Items) /\ Len(Drop(txFifo, n)) = Len(txFifo) - n
  BY <1>1, DropType
<1>5. Len(txFifo) - n <= Depth
  BY <1>1, I2cAssumption
<1> QED BY <1>3, <1>4, <1>5

LEMMA ExecWriteKeeps == ASSUME BusInv, ExecWrite PROVE BusInv'
<1>1. /\ todo # << >> /\ todo' = Tail(todo) /\ Head(todo).n <= Len(txFifo)
      /\ wire' = wire \o SubSeq(txFifo, 1, Head(todo).n)
      /\ txFifo' = Drop(txFifo, Head(todo).n)
  BY DEF ExecWrite, Executes
<1>2. Head(todo).n \in Nat
  BY <1>1, TodoTail DEF Cmds
<1>3. wire' \in Seq(Items) /\ txFifo' \in Seq(Items) /\ Len(txFifo') <= Depth
  BY <1>1, <1>2, Taken
<1>4. TypeOK'
  BY <1>1, <1>3, TodoTail DEF BusInv, TypeOK, ExecWrite, SoftwareIdle, callVars, stateVars
<1>5. CommandsOK' /\ PlaceOK' /\ ListsOK'
  BY <1>1, TodoTail DEF BusInv, CommandsOK, PlaceOK, ListsOK, ExecWrite, SoftwareIdle,
     callVars, stateVars
<1> QED BY <1>4, <1>5 DEF BusInv

LEMMA ExecRefusedKeeps == ASSUME BusInv, NEW k \in 1 .. Depth, ExecRefused(k) PROVE BusInv'
<1>1. /\ k \in Nat /\ k <= Len(txFifo) /\ todo # << >>
      /\ wire' = wire \o SubSeq(txFifo, 1, k) /\ txFifo' \in {Drop(txFifo, k), << >>}
  BY I2cAssumption DEF ExecRefused, Executes
<1>2. << >> \in Seq(Items) /\ Len(<< >>) <= Depth
  BY I2cAssumption, EmptySeq
<1>3. wire' \in Seq(Items) /\ txFifo' \in Seq(Items) /\ Len(txFifo') <= Depth
  BY <1>1, <1>2, Taken
<1>4. ints = {}
  BY <1>1 DEF BusInv, ListsOK
<1>5. TypeOK'
  BY <1>3, <1>4, EmptySeq DEF BusInv, TypeOK, ExecRefused, SoftwareIdle, callVars, stateVars
<1>6. CommandsOK' /\ PlaceOK' /\ ListsOK'
  BY <1>1 DEF BusInv, CommandsOK, PlaceOK, ListsOK, ExecRefused, SoftwareIdle,
     callVars, stateVars
<1> QED BY <1>5, <1>6 DEF BusInv

LEMMA ReadSoFarType == ASSUME BusInv PROVE ReadSoFar \in Nat
<1>1. DOMAIN wire = 1 .. Len(wire) /\ Len(wire) \in Nat
  BY DEF BusInv, TypeOK
<1>2. IsFiniteSet(1 .. Len(wire))
  BY <1>1, FS_Interval
<1>3. IsFiniteSet({i \in DOMAIN wire : wire[i].kind = "reply"})
  BY <1>1, <1>2, FS_Subset
<1> QED BY <1>3, FS_CardinalityType DEF ReadSoFar

LEMMA ExecReadKeeps == ASSUME BusInv, ExecRead PROVE BusInv'
<1> DEFINE bytes == Replies(ReadSoFar, ReadSoFar + Head(todo).n)
<1>1. /\ todo # << >> /\ todo' = Tail(todo)
      /\ wire' = wire \o bytes /\ rxFifo' = Fits(rxFifo \o bytes)
  BY DEF ExecRead, Executes
<1>2. Head(todo).n \in Nat
  BY <1>1, TodoTail DEF Cmds
<1>3. bytes \in Seq(Items)
  BY <1>2, BytesType, ReadSoFarType
<1> HIDE DEF bytes
<1>4. rxFifo \in Seq(Items) /\ wire \in Seq(Items)
  BY DEF BusInv, TypeOK
<1>5. rxFifo \o bytes \in Seq(Items) /\ wire' \in Seq(Items)
  BY <1>1, <1>3, <1>4, ConcatProperties
<1>6. rxFifo' \in Seq(Items) /\ Len(rxFifo') <= Depth
  BY <1>1, <1>5, FitsType
<1>7. UNCHANGED <<callVars, pc, stateVars, comd, lost, txFifo, ints, refused, clean>>
  BY DEF ExecRead, SoftwareIdle
<1>8. TypeOK'
  BY <1>1, <1>5, <1>6, <1>7, TodoTail DEF BusInv, TypeOK, callVars, stateVars
<1>9. CommandsOK' /\ PlaceOK' /\ ListsOK'
  BY <1>1, <1>7, TodoTail DEF BusInv, CommandsOK, PlaceOK, ListsOK, callVars, stateVars
<1> QED BY <1>8, <1>9 DEF BusInv

-----------------------------------------------------------------------------
(* The steps of the driver.                                                *)

LEMMA NothingFits == << >> \in Seq(Items) /\ << >> \in Seq(Cmds) /\ Len(<< >>) <= Depth
BY EmptySeq, I2cAssumption

LEMMA ConfigureKeeps == ASSUME BusInv, Configure PROVE BusInv'
<1>1. TypeOK'
  BY NothingFits DEF BusInv, TypeOK, Configure, stateVars
<1>2. CommandsOK' /\ PlaceOK' /\ ListsOK'
  BY DEF BusInv, CommandsOK, PlaceOK, ListsOK, Configure, stateVars
<1> QED BY <1>1, <1>2 DEF BusInv

LEMMA TxKeeps ==
  ASSUME BusInv, NEW w \in WriteLens, NEW n \in ReadLens, Tx(w, n)
  PROVE  BusInv'
<1>1. w \in Nat /\ n \in Nat
  BY I2cAssumption
<1>2. cmds' = Commands(w, n)
  BY DEF Tx, Commands
<1>3. /\ calls < MaxTx /\ calls' = calls + 1 /\ job' = [w |-> w, r |-> n]
      /\ result' = "none" /\ pc' = "build" /\ head' = 0 /\ comd' = << >> /\ ints' = {}
      /\ needAddress' = TRUE /\ needRestart' = FALSE /\ readLast' = FALSE
      /\ readTo' = NoSlice /\ r' = [i \in 1 .. n |-> Junk] /\ wire' = << >>
      /\ lost' = FALSE /\ refused' = FALSE
      /\ UNCHANGED <<txFifo, rxFifo, todo, clean>> /\ todo = << >>
  BY DEF Tx
<1>4. r' \in Seq(Items) /\ Len(r') = n
  BY <1>1, <1>3, ItemType
<1>5. cmds' \in Seq(Ops) /\ cmds' # << >> /\ Head(cmds') = "rstart" /\ InOrder(cmds', w, n)
  BY <1>1, <1>2, NewCommands
<1>6. /\ calls' \in 0 .. MaxTx /\ readTo' \in [from : Nat, len : Nat]
      /\ readTo'.from + readTo'.len <= job'.r /\ readTo'.len <= Depth
  BY <1>1, <1>3, I2cAssumption DEF BusInv, TypeOK, NoSlice
<1>9. TypeOK'
  BY <1>1, <1>3, <1>4, <1>5, <1>6, NothingFits DEF BusInv, TypeOK, Ops
<1>7. CommandsOK'
  BY <1>3, <1>5 DEF CommandsOK
<1>8. PlaceOK' /\ ListsOK'
  BY <1>3, <1>5, EmptySeq DEF BusInv, PlaceOK, ListsOK, Room, Ops
<1> QED BY <1>7, <1>8, <1>9 DEF BusInv

LEMMA RoomOf == /\ Room["rstart"] = 0 /\ Room["write"] = 1 /\ Room["read"] = 2
                /\ Room["stop"] = 6
                /\ Rank["rstart"] = 1 /\ Rank["write"] = 2 /\ Rank["read"] = 3
                /\ Rank["stop"] = 4
BY DEF Room, Rank, Ops

LEMMA RestartKeeps == ASSUME BusInv, Restart PROVE BusInv'
<1> DEFINE e == Cmd("rstart", 0)
<1>1. /\ pc = "build" /\ Head(cmds) = "rstart" /\ cmds # << >> /\ Head(cmds) # "stop"
      /\ comd' = comd \o <<e>> /\ cmds' = Tail(cmds) /\ head' = 0
      /\ UNCHANGED <<pc, todo, callVars, needAddress, needRestart, readLast, readTo, r,
                     txFifo, lost, coreVars>>
  BY DEF BusInv, PlaceOK, Restart, NextCommand
<1>2. e \in Inner
  BY CmdType DEF InnerOps
<1> HIDE DEF e
<1>3. comd \in Seq(Inner) /\ Len(comd) <= 0
  BY <1>1, RoomOf DEF BusInv, PlaceOK, ListsOK
<1>4. comd' \in Seq(Inner) /\ Len(comd') <= 1
  BY <1>1, <1>2, <1>3, Appended
<1>5. /\ cmds' \in Seq(Ops) /\ cmds' # << >> /\ CommandsOK'
      /\ Head(cmds') \in {"write", "read", "stop"}
      /\ Head(cmds') = "write" => job.w > 0
      /\ Head(cmds') = "read" => job.r > 0
  BY <1>1, NextIsLater, RoomOf DEF callVars, Ops
<1>6. TypeOK'
  BY <1>1, <1>4, <1>5, InnerIsCmds DEF BusInv, TypeOK, Ops, callVars, coreVars
<1>7. readTo = NoSlice /\ needAddress /\ todo = << >> /\ ints = {} /\ ~needRestart
  BY <1>1 DEF BusInv, PlaceOK
<1>8. PlaceOK'
  BY <1>1, <1>4, <1>5, <1>7, RoomOf DEF PlaceOK, callVars, coreVars, NoSlice
<1>9. ListsOK'
  BY <1>1, <1>4 DEF BusInv, ListsOK, coreVars
<1> QED BY <1>5, <1>6, <1>8, <1>9 DEF BusInv

LEMMA JobType ==
  ASSUME BusInv
  PROVE  job.w \in Nat /\ job.r \in Nat /\ head \in Nat /\ cmds \in Seq(Ops)
<1>1. job \in [w : WriteLens \cup {0}, r : ReadLens \cup {0}] /\ head \in Nat
      /\ cmds \in Seq(Ops)
  BY DEF BusInv, TypeOK, Ops
<1>2. job.w \in WriteLens \cup {0} /\ job.r \in ReadLens \cup {0}
  BY <1>1
<1>3. WriteLens \cup {0} \subseteq Nat /\ ReadLens \cup {0} \subseteq Nat
  BY I2cAssumption
<1> QED BY <1>1, <1>2, <1>3

(* What Write takes of w, and the load it pushes.                          *)
Taking == Smaller(WriteRoom, job.w - head)
Load == When(needAddress, <<ToWrite>>) \o Written(head, head + Taking)

LEMMA FullLoadsGrow ==
  ASSUME NEW n \in Nat, FullLoads(n) PROVE FullLoads(n + Depth)
<1>1. PICK q \in Nat : n + 1 = q * Depth
  BY DEF FullLoads
<1>2. (q + 1) * Depth = q * Depth + Depth
  BY I2cAssumption
<1>3. q + 1 \in Nat /\ (n + Depth) + 1 = (q + 1) * Depth
  BY <1>1, <1>2, I2cAssumption
<1> QED BY <1>3 DEF FullLoads

LEMMA FirstLoadFull == FullLoads(Depth - 1)
<1>1. (Depth - 1) + 1 = 1 * Depth
  BY I2cAssumption
<1> QED BY <1>1 DEF FullLoads

(* A load fits the FIFO, and it is full where w is cut.                    *)
LEMMA LoadSize ==
  ASSUME BusInv, pc = "build", Head(cmds) = "write"
  PROVE  /\ Taking \in Nat /\ Taking > 0 /\ head + Taking <= job.w
         /\ Load \in Seq(Items) /\ Len(Load) \in 1 .. Depth
         /\ head + Taking < job.w => Len(Load) = Depth
         /\ Len(Load) = Depth => FullLoads(head + Taking)
<1>1. /\ job.w \in Nat /\ head \in Nat /\ head < job.w
      /\ IF needAddress THEN head = 0 ELSE FullLoads(head)
      /\ Depth \in Nat \ {0, 1}
  <2>1. job.w \in Nat /\ head \in Nat /\ Depth \in Nat \ {0, 1}
    BY JobType, I2cAssumption
  <2>2. cmds # << >> /\ pc # "idle"
    BY DEF BusInv, PlaceOK
  <2>3. head < job.w /\ IF needAddress THEN head = 0 ELSE FullLoads(head)
    BY <2>2 DEF BusInv, PlaceOK
  <2> QED BY <2>1, <2>3
<1> DEFINE address == When(needAddress, <<ToWrite>>)
           some == Written(head, head + Taking)
<1>2. address \in Seq(Items) /\ Len(address) = IF needAddress THEN 1 ELSE 0
  BY ItemType, OneType, NothingFits, EmptySeq DEF When
<1>3. /\ Taking \in Nat /\ Taking > 0 /\ head + Taking <= job.w
      /\ Taking <= Depth - (IF needAddress THEN 1 ELSE 0)
      /\ head + Taking < job.w => Taking = Depth - (IF needAddress THEN 1 ELSE 0)
  BY <1>1 DEF Taking, Smaller, WriteRoom
<1>4. some \in Seq(Items) /\ Len(some) = Taking
  BY <1>1, <1>3, BytesType
<1>5. Load \in Seq(Items) /\ Len(Load) = Len(address) + Taking
  <2> HIDE DEF address, some
  <2>1. address \o some \in Seq(Items) /\ Len(address \o some) = Len(address) + Len(some)
    BY <1>2, <1>4, ConcatProperties
  <2>2. Load = address \o some
    BY DEF Load, address, some
  <2> QED BY <2>1, <2>2, <1>4
<1> HIDE DEF address, some
<1>6. ASSUME Len(Load) = Depth PROVE FullLoads(head + Taking)
  <2>1. CASE needAddress
    <3>1. head + Taking = Depth - 1
      BY <2>1, <1>1, <1>2, <1>3, <1>5, <1>6
    <3> QED BY <3>1, FirstLoadFull
  <2>2. CASE ~needAddress
    <3>1. Taking = Depth /\ FullLoads(head)
      BY <2>2, <1>1, <1>2, <1>3, <1>5, <1>6
    <3> QED BY <3>1, <1>1, FullLoadsGrow
  <2> QED BY <2>1, <2>2, <1>1
<1> QED BY <1>1, <1>2, <1>3, <1>5, <1>6

(* Whatever is pushed, the FIFO keeps its type.                            *)
LEMMA Pushed ==
  ASSUME BusInv, NEW bytes \in Seq(Items), Push(bytes)
  PROVE  /\ txFifo' \in Seq(Items) /\ Len(txFifo') <= Depth
         /\ Len(txFifo') = Smaller(Len(txFifo) + Len(bytes), Depth)
         /\ lost' = (lost \/ Len(txFifo) + Len(bytes) > Depth)
<1>1. txFifo \in Seq(Items) /\ txFifo' = Fits(txFifo \o bytes)
  BY DEF BusInv, TypeOK, Push
<1>2. txFifo \o bytes \in Seq(Items) /\ Len(txFifo \o bytes) = Len(txFifo) + Len(bytes)
  BY <1>1, ConcatProperties
<1>3. txFifo' \in Seq(Items) /\ Len(txFifo') <= Depth
      /\ Len(txFifo') = Smaller(Len(txFifo) + Len(bytes), Depth)
  BY <1>1, <1>2, FitsType
<1> QED BY <1>3 DEF Push

(* What Write does: the load, and either more of w or the next command.    *)
WriteOf == Cmd("write", Len(Load))
LEMMA WriteFacts ==
  ASSUME BusInv, Write
  PROVE  /\ pc = "build" /\ cmds # << >> /\ Head(cmds) = "write" /\ Push(Load)
         /\ WriteOf \in Inner /\ WriteOf.n = Len(Load) /\ WriteOf.op = "write"
         /\ needAddress' = FALSE /\ needRestart' = TRUE
         /\ UNCHANGED <<callVars, readLast, readTo, r, coreVars>>
         /\ \/ /\ head + Taking < job.w /\ head' = head + Taking /\ cmds' = cmds
               /\ todo' = comd \o Append(<<WriteOf>>, Cmd("end", 0)) /\ comd' = << >>
               /\ pc' = "wait"
            \/ /\ head + Taking = job.w /\ head' = 0 /\ cmds' = Tail(cmds)
               /\ comd' = comd \o <<WriteOf>> /\ todo' = todo /\ pc' = pc
<1>1. pc = "build" /\ Head(cmds) = "write"
  BY DEF Write
<1>2. cmds # << >>
  BY <1>1 DEF BusInv, PlaceOK
<1>3. Load \in Seq(Items) /\ Len(Load) \in Nat
  BY <1>1, LoadSize
<1>4. WriteOf \in Inner /\ WriteOf.n = Len(Load) /\ WriteOf.op = "write"
  BY <1>3, CmdType DEF WriteOf, InnerOps
<1> QED BY <1>1, <1>2, <1>4 DEF Write, WriteOf, Load, Taking, Transfer, NextCommand

LEMMA WriteKeeps == ASSUME BusInv, Write PROVE BusInv'
<1>1. /\ Load \in Seq(Items) /\ Taking \in Nat /\ Len(Load) \in 1 .. Depth
      /\ head + Taking < job.w => FullLoads(head + Taking)
      /\ pc = "build" /\ cmds # << >> /\ Head(cmds) = "write" /\ WriteOf \in Inner
  BY WriteFacts, LoadSize
<1>2. /\ needAddress' = FALSE /\ needRestart' = TRUE
      /\ UNCHANGED <<callVars, readLast, readTo, r, coreVars>>
  BY WriteFacts
<1>3. txFifo' \in Seq(Items) /\ Len(txFifo') <= Depth
      /\ lost' = (lost \/ Len(txFifo) + Len(Load) > Depth)
  BY WriteFacts, <1>1, Pushed
<1>4. comd \in Seq(Inner) /\ Len(comd) <= 1 /\ todo = << >> /\ ints = {} /\ readTo = NoSlice
  BY <1>1, RoomOf DEF BusInv, PlaceOK, ListsOK
<1>5. CASE /\ head + Taking < job.w /\ head' = head + Taking /\ cmds' = cmds
           /\ todo' = comd \o Append(<<WriteOf>>, Cmd("end", 0)) /\ comd' = << >>
           /\ pc' = "wait"
  <2>1. Startable(todo') /\ Len(todo') <= 3
    <3> DEFINE t == <<WriteOf>>
    <3>1. t \in Seq(Inner) /\ Len(t) = 1
      BY <1>1, OneType
    <3>2. todo' = comd \o Append(t, Cmd("end", 0))
      BY <1>5
    <3> HIDE DEF t
    <3>3. Startable(todo') /\ Len(todo') = Len(comd) + 1 + 1
      BY <3>1, <3>2, <1>4, ListEnds, CmdType
    <3> QED BY <3>3, <1>4
  <2>2. TypeOK'
    <3>1. head' \in Nat /\ todo' \in Seq(Cmds) /\ comd' \in Seq(Cmds)
      BY <1>1, <1>5, <2>1, JobType, NothingFits DEF Startable
    <3>2. UNCHANGED <<cmds, job, calls, result, readTo, readLast, r, rxFifo, ints, wire, refused,
                      clean>> /\ pc' = "wait"
      BY <1>2, <1>5 DEF callVars, coreVars
    <3> QED BY <3>1, <3>2, <1>2, <1>3 DEF BusInv, TypeOK
  <2>3. CommandsOK'
    BY <1>2, <1>5 DEF BusInv, CommandsOK, callVars
  <2>4. PlaceOK'
    BY <1>1, <1>2, <1>4, <1>5 DEF PlaceOK, callVars
  <2>5. ListsOK'
    BY <1>2, <1>4, <1>5, <2>1, EmptySeq DEF ListsOK, Startable, coreVars
  <2> QED BY <2>2, <2>3, <2>4, <2>5 DEF BusInv
<1>6. CASE /\ head + Taking = job.w /\ head' = 0 /\ cmds' = Tail(cmds)
           /\ comd' = comd \o <<WriteOf>> /\ todo' = todo /\ pc' = pc
  <2>1. comd' \in Seq(Inner) /\ Len(comd') <= 2
    BY <1>1, <1>4, <1>6, Appended
  <2>2. /\ cmds' \in Seq(Ops) /\ cmds' # << >> /\ CommandsOK'
        /\ Head(cmds') \in {"read", "stop"}
        /\ Head(cmds') = "read" => job.r > 0
    BY <1>1, <1>2, <1>6, NextIsLater, RoomOf DEF callVars, Ops
  <2>3. TypeOK'
    BY <1>2, <1>3, <1>6, <2>1, <2>2, InnerIsCmds DEF BusInv, TypeOK, Ops, callVars, coreVars
  <2>4. PlaceOK'
    <3>1. head' = 0 /\ readTo' = NoSlice /\ NoSlice.len = 0 /\ job' = job /\ job.r \in Nat
      BY <1>2, <1>4, <1>6, JobType DEF NoSlice, callVars
    <3>2. pc' = "build" /\ todo' = << >> /\ ints' = {} /\ needAddress' = FALSE
      BY <1>1, <1>2, <1>4, <1>6 DEF coreVars
    <3>3. Len(comd') <= Room[Head(cmds')]
      BY <2>1, <2>2, RoomOf
    <3> QED BY <3>1, <3>2, <3>3, <2>2 DEF PlaceOK
  <2>5. ListsOK'
    BY <1>2, <1>4, <1>6, <2>1 DEF BusInv, ListsOK, coreVars
  <2> QED BY <2>2, <2>3, <2>4, <2>5 DEF BusInv
<1> QED BY <1>5, <1>6, WriteFacts

(* What Read takes of r, and the commands and bytes it adds.               *)
Left == job.r - head
Getting == IF Split(Left) THEN Left - 1 ELSE Smaller(Left, Depth)
WriteOne == Cmd("write", 1)
ForAddress == When(needAddress, <<WriteOne>>)
ForRestart == When(needRestart, <<Cmd("rstart", 0), WriteOne>>)
ForBytes == When(Getting > 0, <<Cmd("read", Getting)>>)
Regs == ForAddress \o ForRestart \o ForBytes
Addresses == When(needAddress, <<ToRead>>) \o When(needRestart, <<ToRead>>)

LEMMA ReadSize ==
  ASSUME BusInv, pc = "build", Head(cmds) = "read"
  PROVE  /\ readTo = NoSlice /\ Left \in Nat \ {0} /\ Getting \in Nat
         /\ Getting <= Depth /\ head + Getting < job.r
         /\ Split(Left) => head + Getting + 1 = job.r /\ Getting + 1 <= Depth
         /\ ~(needAddress /\ needRestart)
<1>1. job.r \in Nat /\ head \in Nat /\ Depth \in Nat \ {0, 1}
  BY JobType, I2cAssumption
<1>2. readTo = NoSlice /\ head + readTo.len < job.r /\ ~(needAddress /\ needRestart)
  BY DEF BusInv, PlaceOK
<1>3. head < job.r
  BY <1>1, <1>2 DEF NoSlice
<1> QED BY <1>1, <1>2, <1>3 DEF Left, Getting, Split, Smaller

LEMMA ReadRegs ==
  ASSUME BusInv, pc = "build", Head(cmds) = "read"
  PROVE  /\ ForAddress \in Seq(Inner) /\ ForRestart \in Seq(Inner) /\ ForBytes \in Seq(Inner)
         /\ Regs \in Seq(Inner) /\ Len(Regs) <= 3
         /\ Addresses \in Seq(Items)
         /\ Len(Addresses) = IF needAddress \/ needRestart THEN 1 ELSE 0
<1>1. /\ WriteOne \in Inner /\ Cmd("rstart", 0) \in Inner /\ Cmd("read", Getting) \in Inner
  BY ReadSize, CmdType DEF InnerOps, WriteOne
<1>2. /\ ForAddress \in Seq(Inner) /\ Len(ForAddress) = IF needAddress THEN 1 ELSE 0
  BY <1>1, OneType, EmptySeq DEF ForAddress, When
<1>3. /\ ForRestart \in Seq(Inner) /\ Len(ForRestart) = IF needRestart THEN 2 ELSE 0
  BY <1>1, TwoType, EmptySeq DEF ForRestart, When
<1>4. /\ ForBytes \in Seq(Inner) /\ Len(ForBytes) <= 1
  BY <1>1, OneType, EmptySeq DEF ForBytes, When
<1>5. /\ ForAddress \o ForRestart \in Seq(Inner)
      /\ Len(ForAddress \o ForRestart) = Len(ForAddress) + Len(ForRestart)
  BY <1>2, <1>3, ConcatProperties
<1>6. Regs \in Seq(Inner) /\ Len(Regs) = Len(ForAddress \o ForRestart) + Len(ForBytes)
  BY <1>4, <1>5, ConcatProperties DEF Regs
<1>7. Len(Regs) <= 3
  <2>1. Len(ForAddress) + Len(ForRestart) <= 2
    BY <1>2, <1>3, ReadSize
  <2>2. Len(ForBytes) \in Nat /\ Len(ForAddress) \in Nat /\ Len(ForRestart) \in Nat
    BY <1>2, <1>3, <1>4
  <2> QED BY <2>1, <2>2, <1>4, <1>5, <1>6
<1> DEFINE s == When(needAddress, <<ToRead>>)
           t == When(needRestart, <<ToRead>>)
<1>8. /\ s \in Seq(Items) /\ Len(s) = IF needAddress THEN 1 ELSE 0
      /\ t \in Seq(Items) /\ Len(t) = IF needRestart THEN 1 ELSE 0
  BY ItemType, OneType, NothingFits, EmptySeq DEF When
<1>9. Addresses = s \o t
  BY DEF Addresses
<1> HIDE DEF s, t
<1>10. Addresses \in Seq(Items) /\ Len(Addresses) = Len(s) + Len(t)
  BY <1>8, <1>9, ConcatProperties
<1>11. Len(Addresses) = IF needAddress \/ needRestart THEN 1 ELSE 0
  BY <1>8, <1>10, ReadSize
<1> QED BY <1>2, <1>3, <1>4, <1>6, <1>7, <1>10, <1>11

LEMMA ReadFacts ==
  ASSUME BusInv, Read
  PROVE  /\ pc = "build" /\ cmds # << >> /\ Head(cmds) = "read" /\ Push(Addresses)
         /\ needAddress' = FALSE /\ needRestart' = FALSE
         /\ UNCHANGED <<callVars, r, coreVars>>
         /\ \/ /\ Split(Left) /\ cmds' = Tail(cmds) /\ head' = 0 /\ todo' = todo /\ pc' = pc
               /\ comd' = comd \o Append(Regs, Cmd("readlast", 1))
               /\ readTo' = [from |-> head, len |-> Getting + 1] /\ readLast' = TRUE
            \/ /\ ~Split(Left) /\ pc' = "wait" /\ comd' = << >>
               /\ todo' = comd \o Append(Regs, Cmd("end", 0))
               /\ readTo' = [from |-> head, len |-> Getting]
               /\ UNCHANGED <<cmds, head, readLast>>
<1>1. pc = "build" /\ Head(cmds) = "read"
  BY DEF Read
<1>2. cmds # << >>
  BY <1>1 DEF BusInv, PlaceOK
<1>3. Push(Addresses)
  BY DEF Read, Addresses
<1>4. /\ needAddress' = FALSE /\ needRestart' = FALSE
      /\ UNCHANGED <<callVars, r, coreVars>>
  BY DEF Read
<1>5. \/ /\ Split(Left) /\ NextCommand(Append(Regs, Cmd("readlast", 1)))
         /\ readTo' = [from |-> head, len |-> Getting + 1] /\ readLast' = TRUE
      \/ /\ ~Split(Left) /\ Transfer(Append(Regs, Cmd("end", 0)))
         /\ readTo' = [from |-> head, len |-> Getting]
         /\ UNCHANGED <<cmds, head, readLast>>
  BY DEF Read, Left, Getting, Regs, ForAddress, ForRestart, ForBytes, WriteOne
<1> QED BY <1>1, <1>2, <1>3, <1>4, <1>5 DEF NextCommand, Transfer

LEMMA ReadKeeps == ASSUME BusInv, Read PROVE BusInv'
<1>1. /\ pc = "build" /\ cmds # << >> /\ Head(cmds) = "read"
      /\ needAddress' = FALSE /\ needRestart' = FALSE
      /\ UNCHANGED <<callVars, r, coreVars>>
  BY ReadFacts
<1>2. /\ Regs \in Seq(Inner) /\ Len(Regs) <= 3 /\ Addresses \in Seq(Items)
      /\ Getting \in Nat /\ Getting <= Depth /\ head + Getting < job.r
      /\ Split(Left) => head + Getting + 1 = job.r /\ Getting + 1 <= Depth
  BY <1>1, ReadSize, ReadRegs
<1>3. txFifo' \in Seq(Items) /\ Len(txFifo') <= Depth
      /\ lost' = (lost \/ Len(txFifo) + Len(Addresses) > Depth)
  BY ReadFacts, <1>2, Pushed
<1>4. comd \in Seq(Inner) /\ Len(comd) <= 2 /\ todo = << >> /\ ints = {}
  BY <1>1, RoomOf DEF BusInv, PlaceOK, ListsOK
<1>5. CASE /\ Split(Left) /\ cmds' = Tail(cmds) /\ head' = 0 /\ todo' = todo /\ pc' = pc
           /\ comd' = comd \o Append(Regs, Cmd("readlast", 1))
           /\ readTo' = [from |-> head, len |-> Getting + 1] /\ readLast' = TRUE
  <2>1. comd' \in Seq(Inner) /\ Len(comd') <= 6
    <3> DEFINE e == Cmd("readlast", 1)
               t == Append(Regs, e)
    <3>1. e \in Inner
      BY CmdType DEF InnerOps
    <3> HIDE DEF e
    <3>2. t \in Seq(Inner) /\ Len(t) = Len(Regs) + 1
      BY <3>1, <1>2
    <3>3. comd' = comd \o t
      BY <1>5 DEF e
    <3> HIDE DEF t
    <3>4. comd' \in Seq(Inner) /\ Len(comd') = Len(comd) + Len(t)
      BY <3>2, <3>3, <1>4, ConcatProperties
    <3> QED BY <3>2, <3>4, <1>2, <1>4
  <2>2. /\ cmds' \in Seq(Ops) /\ cmds' # << >> /\ CommandsOK' /\ Head(cmds') = "stop"
    BY <1>1, <1>5, NextIsLater, RoomOf DEF callVars, Ops
  <2>3. TypeOK'
    <3>1. /\ readTo' \in [from : Nat, len : Nat]
          /\ readTo'.from + readTo'.len <= job.r /\ readTo'.len <= Depth
      BY <1>2, <1>5, JobType, I2cAssumption
    <3>2. comd' \in Seq(Cmds)
      BY <2>1, InnerIsCmds
    <3>3. /\ UNCHANGED <<job, calls, result, r, rxFifo, ints, wire, refused, clean, todo, pc>>
          /\ head' = 0 /\ readLast' = TRUE
      BY <1>1, <1>5 DEF callVars, coreVars
    <3> QED BY <1>1, <1>3, <2>2, <3>1, <3>2, <3>3 DEF BusInv, TypeOK, Ops
  <2>4. PlaceOK'
    <3>1. pc' = "build" /\ todo' = << >> /\ ints' = {}
      BY <1>1, <1>4, <1>5 DEF coreVars
    <3> QED BY <3>1, <1>1, <2>1, <2>2, RoomOf DEF PlaceOK
  <2>5. ListsOK'
    BY <1>1, <1>4, <1>5, <2>1 DEF BusInv, ListsOK, coreVars
  <2> QED BY <2>2, <2>3, <2>4, <2>5 DEF BusInv
<1>6. CASE /\ ~Split(Left) /\ pc' = "wait" /\ comd' = << >>
           /\ todo' = comd \o Append(Regs, Cmd("end", 0))
           /\ readTo' = [from |-> head, len |-> Getting]
           /\ UNCHANGED <<cmds, head, readLast>>
  <2>1. Startable(todo') /\ Len(todo') <= 6
    <3>1. Startable(todo') /\ Len(todo') = Len(comd) + Len(Regs) + 1
      BY <1>2, <1>4, <1>6, ListEnds, CmdType
    <3> QED BY <3>1, <1>2, <1>4
  <2>2. TypeOK'
    <3>1. /\ readTo' \in [from : Nat, len : Nat]
          /\ readTo'.from + readTo'.len <= job.r /\ readTo'.len <= Depth
      BY <1>2, <1>6, JobType, I2cAssumption
    <3>2. todo' \in Seq(Cmds) /\ comd' \in Seq(Cmds)
      BY <1>6, <2>1, NothingFits DEF Startable
    <3>3. /\ UNCHANGED <<job, calls, result, r, rxFifo, ints, wire, refused, clean, cmds, head,
                         readLast>>
          /\ pc' = "wait"
      BY <1>1, <1>6 DEF callVars, coreVars
    <3> QED BY <1>1, <1>3, <3>1, <3>2, <3>3 DEF BusInv, TypeOK
  <2>3. CommandsOK'
    BY <1>1, <1>6 DEF BusInv, CommandsOK, callVars
  <2>4. PlaceOK'
    BY <1>1, <1>2, <1>6 DEF PlaceOK, callVars
  <2>5. ListsOK'
    BY <1>1, <1>4, <1>6, <2>1, EmptySeq DEF ListsOK, Startable, coreVars
  <2> QED BY <2>2, <2>3, <2>4, <2>5 DEF BusInv
<1> QED BY <1>5, <1>6, ReadFacts

LEMMA StopFacts ==
  ASSUME BusInv, StopCommand
  PROVE  /\ pc = "build" /\ pc' = "wait" /\ comd' = << >> /\ cmds' = << >> /\ head' = 0
         /\ todo' = comd \o <<Cmd("stop", 0)>>
         /\ UNCHANGED <<callVars, needAddress, needRestart, readLast, readTo, r, txFifo, lost,
                        coreVars>>
         /\ comd \in Seq(Inner) /\ Len(comd) <= 6 /\ ints = {}
BY DEF StopCommand, Transfer, BusInv, ListsOK, PlaceOK

LEMMA StopKeeps == ASSUME BusInv, StopCommand PROVE BusInv'
<1> DEFINE e == Cmd("stop", 0)
<1>1. /\ e \in Cmds /\ todo' = comd \o <<e>> /\ comd \in Seq(Inner) /\ comd \in Seq(Cmds)
      /\ Len(comd) <= 6
  BY StopFacts, CmdType, InnerIsCmds
<1> HIDE DEF e
<1>2. /\ todo' \in Seq(Cmds) /\ Len(todo') = Len(comd) + 1
      /\ \A k \in 1 .. Len(comd) : todo'[k] = comd[k]
  BY <1>1, Appended
<1>3. /\ Len(todo') <= 7 /\ \A k \in DOMAIN todo' : k < Len(todo') => todo'[k] \in Inner
  <2>1. DOMAIN todo' = 1 .. Len(comd) + 1 /\ \A k \in 1 .. Len(comd) : comd[k] \in Inner
    BY <1>1, <1>2
  <2> QED BY <2>1, <1>1, <1>2
<1>4. << >> \in Seq(Ops) /\ << >> \in Seq(Inner) /\ Len(<< >>) = 0 /\ DOMAIN << >> = {}
  BY EmptySeq
<1>5. TypeOK'
  <2>1. /\ pc' = "wait" /\ head' = 0 /\ cmds' \in Seq(Ops) /\ comd' \in Seq(Cmds)
    BY <1>4, StopFacts, NothingFits
  <2>2. UNCHANGED <<calls, job, result, needAddress, needRestart, readLast, readTo, r, txFifo,
                    rxFifo, lost, ints, wire, refused, clean>>
    BY StopFacts DEF callVars, coreVars
  <2> QED BY <1>2, <2>1, <2>2 DEF BusInv, TypeOK, Ops
<1>6. CommandsOK'
  BY <1>4, StopFacts DEF CommandsOK, InOrder
<1>7. PlaceOK'
  BY StopFacts DEF PlaceOK
<1>8. ListsOK'
  BY <1>3, <1>4, StopFacts DEF ListsOK, coreVars
<1> QED BY <1>5, <1>6, <1>7, <1>8 DEF BusInv

(* transmit returns: nothing but its result changes.                       *)
LEMMA ReturnKeeps ==
  ASSUME BusInv, NEW res \in {"ack", "timeout"}, Return(res), clean' = clean \/ clean' = FALSE
  PROVE  BusInv'
<1>1. TypeOK'
  BY DEF BusInv, TypeOK, Return, stateVars
<1>2. CommandsOK' /\ PlaceOK' /\ ListsOK'
  BY DEF BusInv, CommandsOK, PlaceOK, ListsOK, Return, stateVars
<1> QED BY <1>1, <1>2 DEF BusInv

LEMMA FailKeeps == ASSUME BusInv, Fail PROVE BusInv'
BY ReturnKeeps DEF Fail

LEMMA GiveUpKeeps == ASSUME BusInv, GiveUp PROVE BusInv'
BY ReturnKeeps DEF GiveUp

LEMMA FetchKeeps == ASSUME BusInv, Fetch PROVE BusInv'
<1>1. /\ pc = "wait" /\ ints # {} /\ ints' = {} /\ readTo' = NoSlice /\ head' = AfterSlice
      /\ rxFifo' = Drop(rxFifo, readTo.len)
      /\ IF cmds = << >> THEN pc' = "idle" /\ result' = "nil"
                         ELSE pc' = "build" /\ UNCHANGED result
      /\ UNCHANGED <<calls, job, cmds, needAddress, needRestart, readLast, comd, txFifo, todo,
                     lost, wire, refused, clean>>
  BY DEF Fetch
<1>2. /\ todo = << >> /\ comd = << >> /\ comd \in Seq(Inner) /\ cmds \in Seq(Ops)
      /\ cmds # << >> => Head(cmds) \in {"write", "read"}
  BY <1>1, JobType DEF BusInv, PlaceOK, ListsOK
<1>3. /\ readTo \in [from : Nat, len : Nat] /\ rxFifo \in Seq(Items) /\ r \in Seq(Items)
      /\ Len(rxFifo) <= Depth /\ Len(r) = job.r /\ job.r \in Nat /\ head \in Nat
  BY JobType DEF BusInv, TypeOK
<1>4. r' \in Seq(Items) /\ Len(r') = job.r
  <2> DEFINE new(i) == IF i \in readTo.from + 1 .. readTo.from + readTo.len
                         THEN LET k == i - readTo.from
                              IN  IF k <= Len(rxFifo) THEN rxFifo[k] ELSE Junk
                         ELSE r[i]
  <2>1. r' = [i \in 1 .. Len(r) |-> new(i)]
    BY <1>3 DEF Fetch
  <2>2. \A i \in 1 .. Len(r) : new(i) \in Items
    BY <1>3, ItemType
  <2>3. r' \in [1 .. Len(r) -> Items]
    BY <2>1, <2>2
  <2> QED BY <1>3, <2>3
<1>5. rxFifo' \in Seq(Items) /\ Len(rxFifo') <= Depth
  <2>1. rxFifo' \in Seq(Items)
        /\ Len(rxFifo') = IF readTo.len <= Len(rxFifo) THEN Len(rxFifo) - readTo.len ELSE 0
    BY <1>1, <1>3, DropType
  <2>2. Len(rxFifo) \in Nat /\ readTo.len \in Nat /\ Depth \in Nat
    BY <1>3, I2cAssumption
  <2> QED BY <1>3, <2>1, <2>2
<1>6. /\ head' \in Nat /\ readTo' \in [from : Nat, len : Nat]
      /\ readTo'.from + readTo'.len <= job.r /\ readTo'.len <= Depth
      /\ cmds # << >> => head' = head + readTo.len
  BY <1>1, <1>3, I2cAssumption DEF AfterSlice, NoSlice
<1>7. TypeOK'
  BY <1>1, <1>4, <1>5, <1>6 DEF BusInv, TypeOK
<1>8. CommandsOK'
  BY <1>1 DEF BusInv, CommandsOK
<1>9. PlaceOK'
  <2>1. ASSUME cmds # << >> PROVE pc' = "build" /\ Len(comd') <= Room[Head(cmds')]
    BY <2>1, <1>1, <1>2, RoomOf, EmptySeq
  <2>2. ASSUME cmds # << >>, Head(cmds) = "write"
        PROVE  head' = head /\ head < job.w /\ IF needAddress THEN head = 0 ELSE FullLoads(head)
    <3>1. readTo = NoSlice /\ head < job.w /\ IF needAddress THEN head = 0 ELSE FullLoads(head)
      BY <2>2, <1>1 DEF BusInv, PlaceOK
    <3> QED BY <2>2, <3>1, <1>3, <1>6 DEF NoSlice
  <2>3. ASSUME cmds # << >>, Head(cmds) = "read" PROVE head' + readTo'.len < job.r
    <3>1. head + readTo.len < job.r
      BY <2>3, <1>1 DEF BusInv, PlaceOK
    <3> QED BY <2>3, <3>1, <1>1, <1>3, <1>6 DEF NoSlice
  <2>4. cmds # << >> => ~(needAddress /\ needRestart)
    BY <1>1 DEF BusInv, PlaceOK
  <2> QED BY <1>1, <1>2, <2>1, <2>2, <2>3, <2>4 DEF PlaceOK
<1>10. ListsOK'
  BY <1>1, <1>2 DEF BusInv, ListsOK
<1> QED BY <1>7, <1>8, <1>9, <1>10 DEF BusInv

LEMMA BusStutter == ASSUME BusInv, UNCHANGED vars PROVE BusInv'
<1>1. TypeOK'
  BY DEF BusInv, TypeOK, vars, callVars, stateVars, coreVars
<1>2. CommandsOK' /\ PlaceOK' /\ ListsOK'
  BY DEF BusInv, CommandsOK, PlaceOK, ListsOK, vars, callVars, stateVars, coreVars
<1> QED BY <1>1, <1>2 DEF BusInv

LEMMA BusInit == Init => BusInv
<1> SUFFICES ASSUME Init PROVE BusInv
  OBVIOUS
<1>1. << >> \in Seq(Ops) /\ << >> \in Seq(Inner) /\ Len(<< >>) = 0 /\ DOMAIN << >> = {}
  BY EmptySeq
<1>2. TypeOK
  <2>1. calls \in 0 .. MaxTx /\ job \in [w : WriteLens \cup {0}, r : ReadLens \cup {0}]
    BY I2cAssumption DEF Init
  <2>2. /\ readTo \in [from : Nat, len : Nat] /\ readTo.from + readTo.len <= job.r
        /\ readTo.len <= Depth
    BY I2cAssumption DEF Init, NoSlice
  <2>3. r \in Seq(Items) /\ Len(r) = job.r
    BY <1>1, NothingFits DEF Init
  <2> QED BY <1>1, <2>1, <2>2, <2>3, NothingFits DEF Init, TypeOK, Ops
<1>3. CommandsOK /\ PlaceOK /\ ListsOK
  BY <1>1 DEF Init, CommandsOK, InOrder, PlaceOK, ListsOK
<1> QED BY <1>2, <1>3 DEF BusInv

LEMMA BusStep == BusInv /\ [Next]_vars => BusInv'
<1> SUFFICES ASSUME BusInv, [Next]_vars PROVE BusInv'
  OBVIOUS
<1>1. CASE Transmit
  BY <1>1, RestartKeeps, WriteKeeps, ReadKeeps, StopKeeps, FailKeeps, GiveUpKeeps, FetchKeeps
  DEF Transmit
<1>2. CASE Controller
  BY <1>2, ExecRestartKeeps, ExecWriteKeeps, ExecReadKeeps, ExecStopKeeps, ExecEndKeeps,
     ExecTimeoutKeeps, ExecRefusedKeeps DEF Controller
<1>3. CASE \E w \in WriteLens, n \in ReadLens : Tx(w, n)
  BY <1>3, TxKeeps
<1> QED BY <1>1, <1>2, <1>3, ConfigureKeeps, BusStutter DEF Next

(* Every variable keeps its type; with it, what a read is to bring in      *)
(* stays within r, and r within its length, although transmit cuts and     *)
(* advances it by the FIFO's depth.                                        *)
THEOREM I2cTypeCorrect == Spec => []TypeOK
<1>1. BusInv => TypeOK
  BY DEF BusInv
<1> QED BY <1>1, BusInit, BusStep, PTL DEF Spec

-----------------------------------------------------------------------------
(* The bytes that a list takes out of the transmit FIFO; acc[k] is what    *)
(* its first k commands take.                                              *)
BytesOf(c) == IF c.op = "write" THEN c.n ELSE 0
IsCount(acc, s, n) ==
  /\ acc[0] = 0 /\ acc[Len(s)] = n
  /\ \A k \in 1 .. Len(s) : acc[k] = acc[k - 1] + BytesOf(s[k])
Counts(s, n) == \E acc \in [Nat -> Int] : IsCount(acc, s, n)

LEMMA BytesOfType == ASSUME NEW c \in Cmds PROVE BytesOf(c) \in Nat
BY DEF BytesOf, Cmds

LEMMA CountsNothing == ASSUME NEW n \in Int PROVE Counts(<< >>, n) <=> n = 0
<1>1. ASSUME Counts(<< >>, n) PROVE n = 0
  BY <1>1, EmptySeq DEF Counts, IsCount
<1>2. Counts(<< >>, 0)
  <2> DEFINE acc == [k \in Nat |-> 0]
  <2>1. acc \in [Nat -> Int] /\ IsCount(acc, << >>, 0)
    BY EmptySeq DEF IsCount
  <2> QED BY <2>1 DEF Counts
<1> QED BY <1>1, <1>2

LEMMA CountsOne == ASSUME NEW c \in Cmds PROVE Counts(<<c>>, BytesOf(c))
<1> DEFINE s == <<c>>
           b == BytesOf(c)
           acc == [k \in Nat |-> IF k = 0 THEN 0 ELSE b]
<1>1. Len(s) = 1 /\ s[1] = c /\ b \in Int
  BY OneType, BytesOfType
<1>2. acc \in [Nat -> Int] /\ acc[0] = 0 /\ acc[1] = 0 + b
  BY <1>1
<1>3. BytesOf(s[1]) = b
  BY <1>1
<1> HIDE DEF s, b, acc
<1>4. IsCount(acc, s, b)
  BY <1>1, <1>2, <1>3 DEF IsCount
<1>5. Counts(s, b)
  BY <1>2, <1>4 DEF Counts
<1> QED BY <1>5 DEF s, b

LEMMA CountsTwo ==
  ASSUME NEW c \in Cmds, NEW d \in Cmds PROVE Counts(<<c, d>>, BytesOf(c) + BytesOf(d))
<1> DEFINE s == <<c, d>>
           a == BytesOf(c)
           b == BytesOf(d)
           acc == [k \in Nat |-> IF k = 0 THEN 0 ELSE IF k = 1 THEN a ELSE a + b]
<1>1. Len(s) = 2 /\ s[1] = c /\ s[2] = d /\ a \in Nat /\ b \in Nat
  BY TwoType, BytesOfType
<1>2. acc \in [Nat -> Int] /\ acc[0] = 0 /\ acc[1] = 0 + a /\ acc[2] = a + b
  BY <1>1
<1>3. BytesOf(s[1]) = a /\ BytesOf(s[2]) = b
  BY <1>1
<1> HIDE DEF s, a, b, acc
<1>4. IsCount(acc, s, a + b)
  <2>1. ASSUME NEW k \in 1 .. 2 PROVE acc[k] = acc[k - 1] + BytesOf(s[k])
    <3>1. k = 1 \/ k = 2
      OBVIOUS
    <3> QED BY <3>1, <1>1, <1>2, <1>3
  <2> QED BY <2>1, <1>1, <1>2 DEF IsCount
<1>5. Counts(s, a + b)
  BY <1>2, <1>4 DEF Counts
<1> QED BY <1>5 DEF s, a, b

LEMMA CountsJoin ==
  ASSUME NEW s \in Seq(Cmds), NEW t \in Seq(Cmds), NEW m \in Int, NEW n \in Int,
         Counts(s, m), Counts(t, n)
  PROVE  Counts(s \o t, m + n)
<1>1. PICK f \in [Nat -> Int] : IsCount(f, s, m)
  BY DEF Counts
<1>2. PICK g \in [Nat -> Int] : IsCount(g, t, n)
  BY DEF Counts
<1> DEFINE u == s \o t
           acc == [k \in Nat |-> IF k <= Len(s) THEN f[k] ELSE m + g[k - Len(s)]]
<1>3. Len(u) = Len(s) + Len(t) /\ Len(s) \in Nat /\ Len(t) \in Nat
  BY ConcatProperties
<1>4. /\ \A i \in 1 .. Len(s) : u[i] = s[i]
      /\ \A i \in 1 .. Len(t) : u[Len(s) + i] = t[i]
  <2>1. \A i \in 1 .. Len(s) + Len(t) : u[i] = IF i <= Len(s) THEN s[i] ELSE t[i - Len(s)]
    BY ConcatProperties
  <2> HIDE DEF u
  <2>0. Len(s) \in Nat /\ Len(t) \in Nat
    BY <1>3
  <2>2. ASSUME NEW i \in 1 .. Len(s) PROVE u[i] = s[i]
    <3>1. i \in 1 .. Len(s) + Len(t) /\ i <= Len(s)
      BY <2>0
    <3> QED BY <2>1, <3>1
  <2>3. ASSUME NEW i \in 1 .. Len(t) PROVE u[Len(s) + i] = t[i]
    <3> DEFINE p == Len(s)
               q == Len(t)
    <3>1. p \in Nat /\ q \in Nat /\ i \in 1 .. q
      BY <2>0
    <3> HIDE DEF p, q
    <3>2. p + i \in 1 .. p + q /\ ~(p + i <= p) /\ (p + i) - p = i
      BY <3>1
    <3> QED BY <3>2, <2>1 DEF p, q
  <2> QED BY <2>2, <2>3
<1> HIDE DEF u
<1>5. acc \in [Nat -> Int]
  <2>1. ASSUME NEW k \in Nat PROVE (IF k <= Len(s) THEN f[k] ELSE m + g[k - Len(s)]) \in Int
    <3>1. CASE k <= Len(s)
      BY <3>1
    <3>2. CASE k > Len(s)
      <4>1. k - Len(s) \in Nat /\ ~(k <= Len(s))
        BY <3>2, <1>3
      <4>2. g[k - Len(s)] \in Int
        BY <4>1
      <4> QED BY <4>1, <4>2
    <3> QED BY <3>1, <3>2, <1>3
  <2> QED BY <2>1
<1>6. ASSUME NEW k \in Nat, k <= Len(s) PROVE acc[k] = f[k]
  BY <1>6
<1>7. ASSUME NEW k \in Nat PROVE acc[Len(s) + k] = m + g[k]
  <2>1. CASE k = 0
    <3>1. Len(s) + k = Len(s) /\ f[Len(s)] = m /\ g[k] = 0
      BY <2>1, <1>1, <1>2, <1>3 DEF IsCount
    <3>2. acc[Len(s)] = f[Len(s)]
      BY <1>3, <1>6
    <3> HIDE DEF acc
    <3> QED BY <3>1, <3>2
  <2>2. CASE k > 0
    <3>1. ~(Len(s) + k <= Len(s)) /\ (Len(s) + k) - Len(s) = k /\ Len(s) + k \in Nat
      BY <2>2, <1>3
    <3> QED BY <3>1
  <2> QED BY <2>1, <2>2
<1> HIDE DEF acc
<1>8. acc[0] = 0 /\ acc[Len(u)] = m + n
  <2>1. f[0] = 0 /\ g[Len(t)] = n
    BY <1>1, <1>2 DEF IsCount
  <2>2. acc[0] = f[0] /\ acc[Len(s) + Len(t)] = m + g[Len(t)]
    BY <1>3, <1>6, <1>7
  <2> QED BY <2>1, <2>2, <1>3
<1>9. ASSUME NEW k \in 1 .. Len(u) PROVE acc[k] = acc[k - 1] + BytesOf(u[k])
  <2>1. k \in Nat /\ k - 1 \in Nat /\ k <= Len(s) + Len(t)
    BY <1>3
  <2>2. CASE k <= Len(s)
    <3>1. k \in 1 .. Len(s) /\ k - 1 <= Len(s)
      BY <2>1, <2>2, <1>3
    <3>2. u[k] = s[k] /\ acc[k] = f[k] /\ acc[k - 1] = f[k - 1]
      BY <2>1, <2>2, <3>1, <1>4, <1>6
    <3>3. f[k] = f[k - 1] + BytesOf(s[k])
      BY <3>1, <1>1 DEF IsCount
    <3> QED BY <3>2, <3>3
  <2>3. CASE k > Len(s)
    <3>1. PICK j \in 1 .. Len(t) : k = Len(s) + j
      <4>1. k - Len(s) \in 1 .. Len(t) /\ k = Len(s) + (k - Len(s))
        BY <2>1, <2>3, <1>3
      <4> QED BY <4>1
    <3>2. j \in Nat /\ j - 1 \in Nat /\ k - 1 = Len(s) + (j - 1)
      BY <3>1, <1>3
    <3>3. u[k] = t[j] /\ acc[k] = m + g[j] /\ acc[k - 1] = m + g[j - 1]
      BY <3>1, <3>2, <1>4, <1>7
    <3>4. g[j] = g[j - 1] + BytesOf(t[j]) /\ g[j - 1] \in Int
      BY <3>1, <3>2, <1>2 DEF IsCount
    <3>5. BytesOf(t[j]) \in Nat
      <4>1. t[j] \in Cmds
        BY ElementOfSeq
      <4> QED BY <4>1, BytesOfType
    <3> QED BY <3>3, <3>4, <3>5
  <2> QED BY <2>1, <2>2, <2>3, <1>3
<1>10. IsCount(acc, u, m + n)
  BY <1>8, <1>9 DEF IsCount
<1> QED BY <1>5, <1>10 DEF Counts, u

(* END and the last byte to read take nothing.                             *)
LEMMA CountsEnded ==
  ASSUME NEW s \in Seq(Cmds), NEW t \in Seq(Cmds), NEW m \in Int, NEW n \in Int,
         Counts(s, m), Counts(t, n), NEW e \in Cmds, BytesOf(e) = 0
  PROVE  Counts(s \o Append(t, e), m + n)
<1> DEFINE u == <<e>>
           v == t \o u
<1>1. u \in Seq(Cmds) /\ Counts(u, 0)
  BY OneType, CountsOne
<1>2. Append(t, e) = v
  BY Appended
<1> HIDE DEF u
<1>3. v \in Seq(Cmds) /\ Counts(v, n + 0)
  BY <1>1, CountsJoin, ConcatProperties
<1> HIDE DEF v
<1>4. Counts(s \o v, m + (n + 0))
  BY <1>3, CountsJoin
<1>5. m + (n + 0) = m + n
  OBVIOUS
<1> QED BY <1>2, <1>4, <1>5

LEMMA CountsTail ==
  ASSUME NEW s \in Seq(Cmds), s # << >>, NEW n \in Int, Counts(s, n)
  PROVE  Counts(Tail(s), n - BytesOf(Head(s))) /\ BytesOf(Head(s)) \in Nat
<1>1. PICK f \in [Nat -> Int] : IsCount(f, s, n)
  BY DEF Counts
<1> DEFINE u == Tail(s)
           b == BytesOf(Head(s))
           acc == [k \in Nat |-> f[k + 1] - b]
<1>2. /\ Len(u) = Len(s) - 1 /\ Len(s) \in Nat \ {0} /\ Head(s) = s[1] /\ Head(s) \in Cmds
      /\ \A i \in 1 .. Len(u) : u[i] = s[i + 1]
  BY HeadTailProperties, EmptySeq
<1> HIDE DEF u
<1>3. b \in Nat
  BY <1>2, BytesOfType
<1>4. f[1] = 0 + b
  BY <1>1, <1>2 DEF IsCount
<1> HIDE DEF b
<1>5. acc \in [Nat -> Int]
  BY <1>3
<1>6. acc[0] = 0 /\ acc[Len(u)] = n - b
  <2>1. acc[0] = b - b
    BY <1>3, <1>4
  <2>2. Len(u) \in Nat /\ Len(u) + 1 = Len(s) /\ f[Len(s)] = n
    BY <1>1, <1>2 DEF IsCount
  <2>3. acc[Len(u)] = n - b
    BY <2>2
  <2> HIDE DEF acc
  <2> QED BY <2>1, <2>3, <1>3
<1>7. ASSUME NEW k \in 1 .. Len(u) PROVE acc[k] = acc[k - 1] + BytesOf(u[k])
  <2>1. /\ k + 1 \in 1 .. Len(s) /\ k \in Nat /\ k - 1 \in Nat
        /\ (k + 1) - 1 = k /\ (k - 1) + 1 = k
    BY <1>2
  <2>2. u[k] = s[k + 1]
    BY <1>2
  <2>3. f[k + 1] = f[k] + BytesOf(s[k + 1]) /\ f[k] \in Int
    BY <2>1, <1>1 DEF IsCount
  <2>4. acc[k] = f[k + 1] - b /\ acc[k - 1] = f[k] - b
    BY <2>1
  <2>5. BytesOf(s[k + 1]) \in Nat
    <3>1. s[k + 1] \in Cmds
      BY <2>1, ElementOfSeq
    <3> QED BY <3>1, BytesOfType
  <2> HIDE DEF acc
  <2> DEFINE before == f[k]
             after == f[k + 1]
             c == BytesOf(s[k + 1])
  <2>6. before \in Int /\ c \in Nat /\ after = before + c
    BY <2>3, <2>5
  <2>7. acc[k] = after - b /\ acc[k - 1] = before - b /\ BytesOf(u[k]) = c
    BY <2>2, <2>4
  <2> HIDE DEF before, after, c
  <2>8. after - b = (before - b) + c
    BY <2>6, <1>3
  <2> QED BY <2>7, <2>8
<1> HIDE DEF acc
<1>8. IsCount(acc, u, n - b)
  BY <1>6, <1>7 DEF IsCount
<1> QED BY <1>3, <1>5, <1>8 DEF Counts, u, b

-----------------------------------------------------------------------------
(* The FIFO and the list that empties it.                                  *)

(* The list under way, and what is right when nothing has gone wrong since *)
(* Configure: it takes out of the FIFO exactly what is in it, or more only *)
(* in the exceptional case.                                                *)
List == IF pc = "build" THEN comd ELSE todo
Matched(s) == \E n \in Int : Counts(s, n) /\ IF lost THEN n > Len(txFifo) ELSE n = Len(txFifo)
FifoOK == clean => /\ Matched(List)
                   /\ pc = "wait" => "timeout" \notin ints /\ ("nack" \in ints => readLast)
                   /\ lost => Overfull

(* Before the last of the loads of w and after it, while r is asked for.   *)
BuildOK ==
  clean /\ pc = "build" /\ Head(cmds) # "stop" =>
    /\ ~lost
    /\ Head(cmds) # "read" \/ ~needRestart => txFifo = << >>
    /\ Head(cmds) = "read" /\ needRestart /\ Len(txFifo) = Depth => FullLoads(job.w)

LoadInv == FifoOK /\ BuildOK

(* An empty list leaves an empty FIFO, and nothing lost.                   *)
LEMMA MatchedNothing ==
  ASSUME BusInv, Matched(<< >>) PROVE ~lost /\ txFifo = << >>
<1>1. txFifo \in Seq(Items) /\ Len(txFifo) \in Nat
  BY DEF BusInv, TypeOK
<1>2. ~lost /\ Len(txFifo) = 0
  BY <1>1, CountsNothing DEF Matched
<1> QED BY <1>1, <1>2

(* A command is done, and its bytes have left the FIFO.                    *)
LEMMA DoneKeepsLoads ==
  ASSUME BusInv, LoadInv, todo # << >>, todo' = Tail(todo), pc' = pc, lost' = lost,
         clean' = clean, job' = job, Len(txFifo') = Len(txFifo) - BytesOf(Head(todo)),
         clean /\ pc = "wait" => "timeout" \notin ints' /\ ("nack" \in ints' => readLast')
  PROVE  LoadInv'
<1>1. pc # "build" /\ todo \in Seq(Cmds) /\ Len(txFifo) \in Nat
  BY DEF BusInv, PlaceOK, TypeOK
<1>2. BuildOK'
  BY <1>1 DEF BuildOK
<1>3. ASSUME clean PROVE Matched(List)' /\ (lost => Overfull)'
  <2>1. Matched(todo) /\ (lost => Overfull)
    BY <1>1, <1>3 DEF LoadInv, FifoOK, List
  <2>2. PICK n \in Int : Counts(todo, n) /\ IF lost THEN n > Len(txFifo) ELSE n = Len(txFifo)
    BY <2>1 DEF Matched
  <2> DEFINE b == BytesOf(Head(todo))
  <2>3. Counts(todo', n - b) /\ b \in Nat
    BY <1>1, <2>2, CountsTail
  <2> HIDE DEF b
  <2>4. n - b \in Int /\ IF lost THEN n - b > Len(txFifo') ELSE n - b = Len(txFifo')
    <3>1. Len(txFifo') = Len(txFifo) - b
      BY DEF b
    <3> QED BY <3>1, <1>1, <2>2, <2>3
  <2>5. Matched(todo)'
    BY <2>3, <2>4 DEF Matched
  <2>6. (lost => Overfull)'
    BY <2>1 DEF Overfull
  <2> QED BY <1>1, <2>5, <2>6 DEF List
<1>4. FifoOK'
  BY <1>3 DEF FifoOK
<1> QED BY <1>2, <1>4 DEF LoadInv

(* After a refusal or a timeout nothing is claimed.                        *)
LEMMA UncleanLoads == ASSUME clean' = FALSE PROVE LoadInv'
BY DEF LoadInv, FifoOK, BuildOK

LEMMA ControllerLoads == ASSUME BusInv, LoadInv, Controller PROVE LoadInv'
<1>1. CASE ExecRestart
  <2>1. BytesOf(Head(todo)) = 0 /\ Len(txFifo) \in Nat
    BY <1>1 DEF ExecRestart, Executes, BytesOf, BusInv, TypeOK
  <2>2. clean /\ pc = "wait" => "timeout" \notin ints' /\ ("nack" \in ints' => readLast')
    BY <1>1 DEF ExecRestart, Executes, BusInv, ListsOK
  <2> QED BY <1>1, <2>1, <2>2, DoneKeepsLoads DEF ExecRestart, Executes, SoftwareIdle, callVars
<1>2. CASE ExecWrite
  <2>1. /\ BytesOf(Head(todo)) = Head(todo).n /\ Head(todo).n \in Nat
        /\ Head(todo).n <= Len(txFifo) /\ txFifo' = Drop(txFifo, Head(todo).n)
        /\ todo # << >> /\ todo' = Tail(todo) /\ ints' = ints
        /\ UNCHANGED <<pc, lost, clean, job>>
    <3>1. todo # << >> /\ todo' = Tail(todo) /\ Head(todo).op = "write"
      BY <1>2 DEF ExecWrite, Executes
    <3>2. Head(todo).n \in Nat
      BY <3>1, TodoTail DEF Cmds
    <3> QED BY <3>1, <3>2, <1>2 DEF ExecWrite, SoftwareIdle, callVars, BytesOf
  <2>2. Len(txFifo') = Len(txFifo) - BytesOf(Head(todo))
    BY <2>1, Taken
  <2>3. ints = {}
    BY <2>1 DEF BusInv, ListsOK
  <2> QED BY <2>1, <2>2, <2>3, DoneKeepsLoads
<1>3. CASE ExecRead
  <2>1. BytesOf(Head(todo)) = 0 /\ Len(txFifo) \in Nat
    BY <1>3 DEF ExecRead, Executes, BytesOf, BusInv, TypeOK
  <2>2. clean /\ pc = "wait" => "timeout" \notin ints' /\ ("nack" \in ints' => readLast')
    BY <1>3 DEF ExecRead, Executes, BusInv, ListsOK
  <2> QED BY <1>3, <2>1, <2>2, DoneKeepsLoads DEF ExecRead, Executes, SoftwareIdle, callVars
<1>4. CASE ExecStop
  <2>1. BytesOf(Head(todo)) = 0 /\ Len(txFifo) \in Nat
    BY <1>4 DEF ExecStop, Executes, BytesOf, BusInv, TypeOK
  <2>2. "timeout" \notin ints' /\ ("nack" \in ints' => readLast')
    BY <1>4 DEF ExecStop, SoftwareIdle, stateVars
  <2> QED BY <1>4, <2>1, <2>2, DoneKeepsLoads DEF ExecStop, Executes, SoftwareIdle, callVars
<1>5. CASE ExecEnd
  <2>1. BytesOf(Head(todo)) = 0 /\ Len(txFifo) \in Nat
    BY <1>5 DEF ExecEnd, Executes, BytesOf, BusInv, TypeOK
  <2>2. "timeout" \notin ints' /\ "nack" \notin ints'
    BY <1>5 DEF ExecEnd
  <2> QED BY <1>5, <2>1, <2>2, DoneKeepsLoads DEF ExecEnd, Executes, SoftwareIdle, callVars
<1>6. CASE ExecTimeout \/ \E k \in 1 .. Depth : ExecRefused(k)
  BY <1>6, UncleanLoads DEF ExecTimeout, ExecRefused
<1> QED BY <1>1, <1>2, <1>3, <1>4, <1>5, <1>6 DEF Controller

(* A load of w that ends where it should leaves a remainder of one.        *)
LEMMA FullLoadsRemainder ==
  ASSUME NEW n \in Nat, FullLoads(n) PROVE (n + 1) % Depth = 0
<1>1. PICK q \in Nat : n + 1 = q * Depth
  BY DEF FullLoads
<1> DEFINE a == n + 1
           p == a \div Depth
           x == a % Depth
<1>2. Depth \in Nat \ {0}
  BY I2cAssumption
<1>3. x \in 0 .. Depth - 1 /\ p \in Nat /\ a = Depth * p + x
  BY <1>2
<1> HIDE DEF p, x
<1>4. q * Depth = Depth * p + x /\ Depth * p \in Nat
  BY <1>1, <1>2, <1>3
<1>5. CASE q <= p
  <2>1. PICK d \in Nat : p = q + d
    <3>1. p - q \in Nat /\ p = q + (p - q)
      BY <1>5, <1>3
    <3> QED BY <3>1
  <2>2. Depth * p = q * Depth + Depth * d /\ Depth * d \in Nat /\ q * Depth \in Nat
    BY <2>1, <1>2
  <2> QED BY <2>2, <1>3, <1>4 DEF x
<1>6. CASE q > p
  <2>1. PICK d \in Nat : q = p + 1 + d
    <3>1. q - (p + 1) \in Nat /\ q = p + 1 + (q - (p + 1))
      BY <1>6, <1>3
    <3> QED BY <3>1
  <2>2. q * Depth = Depth * p + Depth + Depth * d /\ Depth * d \in Nat
    BY <2>1, <1>2, <1>3
  <2> QED BY <2>2, <1>2, <1>3, <1>4
<1> QED BY <1>3, <1>5, <1>6

LEMMA MatchedExactly ==
  ASSUME BusInv, ~lost, NEW s, Matched(s) PROVE Counts(s, Len(txFifo)) /\ Len(txFifo) \in Int
BY DEF Matched, BusInv, TypeOK

LEMMA ListType ==
  ASSUME BusInv PROVE comd \in Seq(Cmds) /\ todo \in Seq(Cmds) /\ Len(txFifo) \in Nat
BY DEF BusInv, TypeOK

LEMMA ConfigureLoads == ASSUME BusInv, LoadInv, Configure PROVE LoadInv'
<1>1. pc' = "idle" /\ todo' = << >> /\ txFifo' = << >> /\ lost' = FALSE
  BY DEF Configure
<1>2. Counts(<< >>, 0)
  BY CountsNothing
<1>3. Matched(List)'
  BY <1>1, <1>2, EmptySeq DEF Matched, List
<1> QED BY <1>1, <1>3 DEF LoadInv, FifoOK, BuildOK

LEMMA TxLoads ==
  ASSUME BusInv, LoadInv, NEW w \in WriteLens, NEW n \in ReadLens, Tx(w, n)
  PROVE  LoadInv'
<1>1. /\ pc = "idle" /\ todo = << >> /\ pc' = "build" /\ comd' = << >> /\ needRestart' = FALSE
      /\ lost' = FALSE /\ txFifo' = txFifo /\ clean' = clean /\ cmds' = Commands(w, n)
  BY DEF Tx, Commands
<1>2. clean => txFifo = << >>
  BY <1>1, MatchedNothing DEF LoadInv, FifoOK, List
<1>3. Counts(<< >>, 0)
  BY CountsNothing
<1>4. clean => Matched(List)'
  BY <1>1, <1>2, <1>3, EmptySeq DEF Matched, List
<1> QED BY <1>1, <1>2, <1>4 DEF LoadInv, FifoOK, BuildOK

LEMMA RestartLoads == ASSUME BusInv, LoadInv, Restart PROVE LoadInv'
<1> DEFINE e == Cmd("rstart", 0)
           t == <<e>>
<1>1. /\ pc = "build" /\ Head(cmds) = "rstart" /\ pc' = "build" /\ comd' = comd \o t
      /\ UNCHANGED <<needRestart, txFifo, lost, clean>>
  BY DEF Restart, NextCommand, coreVars
<1>2. e \in Cmds /\ BytesOf(e) = 0 /\ comd \in Seq(Cmds) /\ Len(txFifo) \in Nat
  BY CmdType DEF InnerOps, BytesOf, BusInv, TypeOK
<1>3. t \in Seq(Cmds) /\ Counts(t, 0)
  BY <1>2, OneType, CountsOne
<1> HIDE DEF e, t
<1>4. ~needRestart
  BY <1>1 DEF BusInv, PlaceOK
<1>5. ASSUME clean PROVE ~lost /\ txFifo = << >> /\ Matched(comd)
  BY <1>1, <1>4, <1>5 DEF LoadInv, FifoOK, BuildOK, List
<1>6. ASSUME clean PROVE Matched(comd)'
  <2>1. Counts(comd, 0)
    BY <1>5, <1>6, MatchedExactly, EmptySeq
  <2>2. Counts(comd \o t, 0 + 0)
    BY <2>1, <1>2, <1>3, CountsJoin
  <2>3. ~lost' /\ Len(txFifo') = 0 /\ comd' = comd \o t
    BY <1>1, <1>5, <1>6, EmptySeq
  <2> QED BY <2>2, <2>3 DEF Matched
<1> QED BY <1>1, <1>4, <1>5, <1>6 DEF LoadInv, FifoOK, BuildOK, List

LEMMA WriteLoads == ASSUME BusInv, LoadInv, Write PROVE LoadInv'
<1> DEFINE t == <<WriteOf>>
           end == Cmd("end", 0)
           b == Len(Load)
<1>1. /\ pc = "build" /\ Head(cmds) = "write" /\ WriteOf \in Cmds /\ BytesOf(WriteOf) = b
      /\ needRestart' = TRUE /\ clean' = clean /\ ints' = ints /\ job' = job /\ Push(Load)
  BY WriteFacts DEF BytesOf, Inner, callVars, coreVars
<1>2. /\ Load \in Seq(Items) /\ b \in 1 .. Depth /\ comd \in Seq(Cmds)
      /\ b = Depth => FullLoads(head + Taking)
  BY <1>1, LoadSize DEF BusInv, TypeOK
<1>3. t \in Seq(Cmds) /\ Counts(t, b)
  BY <1>1, OneType, CountsOne
<1>4. end \in Cmds /\ BytesOf(end) = 0
  BY CmdType DEF BytesOf
<1> HIDE DEF t, b, end
<1>6. ASSUME clean PROVE ~lost /\ txFifo = << >> /\ Counts(comd, 0)
  <2>1. ~lost /\ txFifo = << >> /\ Matched(comd)
    BY <1>1, <1>6 DEF LoadInv, FifoOK, BuildOK, List
  <2> QED BY <2>1, MatchedExactly, EmptySeq
<1>7. ASSUME clean PROVE ~lost' /\ Len(txFifo') = b
  <2>1. /\ Len(txFifo') = Smaller(0 + b, Depth) /\ lost' = (lost \/ 0 + b > Depth)
    BY <1>1, <1>2, <1>6, <1>7, Pushed, EmptySeq DEF b
  <2>2. 0 + b = b /\ ~(b > Depth) /\ Smaller(b, Depth) = b
    BY <1>2, I2cAssumption DEF Smaller
  <2> QED BY <2>1, <2>2, <1>6, <1>7
<1>8. ASSUME clean PROVE Counts(comd \o t, b) /\ comd \o t \in Seq(Cmds)
  <2>1. Counts(comd \o t, 0 + b) /\ b \in Int
    BY <1>2, <1>3, <1>6, <1>8, CountsJoin
  <2> QED BY <2>1, <1>2, <1>3, ConcatProperties
<1>9. ints = {} /\ b \in Nat
  BY <1>1, <1>2 DEF BusInv, PlaceOK
<1>10. CASE /\ todo' = comd \o Append(<<WriteOf>>, Cmd("end", 0)) /\ pc' = "wait"
  <2>2. ASSUME clean PROVE Matched(todo)' /\ ~lost'
    <3>1. Counts(todo', 0 + b)
      <4>1. todo' = comd \o Append(t, end)
        BY <1>10 DEF t, end
      <4>2. Counts(comd, 0) /\ b \in Int
        BY <2>2, <1>6, <1>9
      <4> QED BY <4>1, <4>2, <1>2, <1>3, <1>4, CountsEnded
    <3>2. 0 + b = Len(txFifo') /\ 0 + b \in Int /\ ~lost'
      BY <2>2, <1>7, <1>9
    <3> QED BY <3>1, <3>2 DEF Matched
  <2>3. FifoOK'
    BY <2>2, <1>1, <1>9, <1>10 DEF FifoOK, List
  <2> QED BY <2>3, <1>10 DEF LoadInv, BuildOK
<1>11. CASE /\ head + Taking = job.w /\ comd' = comd \o <<WriteOf>> /\ pc' = pc
            /\ cmds' = Tail(cmds)
  <2>1. ASSUME clean PROVE Matched(comd)' /\ ~lost'
    <3>1. comd' = comd \o t
      BY <1>11 DEF t
    <3>2. b = Len(txFifo') /\ b \in Int /\ ~lost' /\ Counts(comd', b)
      BY <2>1, <3>1, <1>7, <1>8, <1>9
    <3> QED BY <3>2 DEF Matched
  <2>2. b = Depth => FullLoads(job'.w)
    BY <1>1, <1>2, <1>11 DEF b
  <2>3. Head(cmds') # "write" /\ Head(cmds') # "rstart" /\ Head(cmds') \in Ops
    BY <1>1, <1>11, WriteFacts, NextIsLater, RoomOf DEF callVars
  <2>4. BuildOK'
    BY <2>1, <2>2, <2>3, <1>1, <1>7 DEF BuildOK, Ops
  <2>5. FifoOK'
    BY <2>1, <1>1, <1>11 DEF FifoOK, List
  <2> QED BY <2>4, <2>5 DEF LoadInv
<1> QED BY <1>10, <1>11, WriteFacts

(* The commands Read adds take out of the FIFO what it pushes.             *)
LEMMA RegsCount ==
  ASSUME BusInv, pc = "build", Head(cmds) = "read"
  PROVE  Counts(Regs, Len(Addresses))
<1> DEFINE one == IF needAddress THEN 1 ELSE 0
           two == IF needRestart THEN 1 ELSE 0
<1>1. /\ WriteOne \in Cmds /\ BytesOf(WriteOne) = 1
      /\ Cmd("rstart", 0) \in Cmds /\ BytesOf(Cmd("rstart", 0)) = 0
      /\ Cmd("read", Getting) \in Cmds /\ BytesOf(Cmd("read", Getting)) = 0
  BY ReadSize, CmdType DEF InnerOps, WriteOne, BytesOf
<1>2. Counts(<< >>, 0)
  BY CountsNothing
<1>3. Counts(ForAddress, one)
  <2>1. Counts(<<WriteOne>>, 1)
    BY <1>1, CountsOne
  <2> QED BY <2>1, <1>2 DEF ForAddress, When
<1>4. Counts(ForRestart, two)
  <2>1. Counts(<<Cmd("rstart", 0), WriteOne>>, 0 + 1)
    BY <1>1, CountsTwo
  <2> QED BY <2>1, <1>2 DEF ForRestart, When
<1>5. Counts(ForBytes, 0)
  <2>1. Counts(<<Cmd("read", Getting)>>, 0)
    BY <1>1, CountsOne
  <2> QED BY <2>1, <1>2 DEF ForBytes, When
<1>6. /\ ForAddress \in Seq(Cmds) /\ ForRestart \in Seq(Cmds) /\ ForBytes \in Seq(Cmds)
      /\ Len(Addresses) = one + two /\ one \in Int /\ two \in Int
  <2>1. /\ ForAddress \in Seq(Cmds) /\ ForRestart \in Seq(Cmds) /\ ForBytes \in Seq(Cmds)
    BY ReadRegs, InnerIsCmds
  <2>2. Len(Addresses) = IF needAddress \/ needRestart THEN 1 ELSE 0
    BY ReadRegs
  <2>3. ~(needAddress /\ needRestart)
    BY ReadSize
  <2> QED BY <2>1, <2>2, <2>3
<1> HIDE DEF one, two
<1> DEFINE u == ForAddress \o ForRestart
<1>7. u \in Seq(Cmds) /\ Counts(u, one + two)
  BY <1>3, <1>4, <1>6, CountsJoin, ConcatProperties
<1>8. Regs = u \o ForBytes
  BY DEF Regs
<1> HIDE DEF u
<1>9. Counts(Regs, (one + two) + 0)
  BY <1>5, <1>6, <1>7, <1>8, CountsJoin
<1> QED BY <1>6, <1>9

LEMMA ReadLoads == ASSUME BusInv, LoadInv, Read PROVE LoadInv'
<1> DEFINE b == Len(Addresses)
<1>1. /\ pc = "build" /\ Head(cmds) = "read" /\ needRestart' = FALSE
      /\ clean' = clean /\ ints' = ints /\ job' = job /\ Push(Addresses)
  BY ReadFacts DEF callVars, coreVars
<1>2. /\ Regs \in Seq(Cmds) /\ Addresses \in Seq(Items) /\ Counts(Regs, b)
      /\ b = IF needAddress \/ needRestart THEN 1 ELSE 0
      /\ comd \in Seq(Cmds) /\ Len(txFifo) \in Nat /\ ints = {}
  BY <1>1, ReadRegs, RegsCount, InnerIsCmds, ListType DEF BusInv, PlaceOK
<1> HIDE DEF b
<1> DEFINE n == Len(txFifo) + b
<1>3. b \in {0, 1} /\ n \in Nat
  BY <1>2
<1>4. ASSUME clean
      PROVE  /\ Counts(comd, Len(txFifo))
             /\ IF lost' THEN n > Len(txFifo') ELSE n = Len(txFifo')
             /\ lost' => Overfull
  <2>1. ~lost /\ Matched(comd) /\ (~needRestart => txFifo = << >>)
        /\ (needRestart /\ Len(txFifo) = Depth => FullLoads(job.w))
    BY <1>1, <1>4 DEF LoadInv, FifoOK, BuildOK, List
  <2>2. Counts(comd, Len(txFifo))
    BY <2>1, MatchedExactly
  <2>4. Len(txFifo') = Smaller(n, Depth) /\ lost' = (lost \/ n > Depth)
    BY <1>1, <1>2, Pushed DEF b
  <2>5. IF lost' THEN n > Len(txFifo') ELSE n = Len(txFifo')
    <3>1. Depth \in Nat
      BY I2cAssumption
    <3>2. CASE n > Depth
      <4>1. lost'
        BY <3>2, <2>4
      <4>2. Len(txFifo') = Depth
        BY <3>1, <3>2, <2>4, <1>3 DEF Smaller
      <4> QED BY <3>2, <4>1, <4>2
    <3>3. CASE ~(n > Depth)
      <4>1. ~lost'
        BY <3>3, <2>1, <2>4
      <4>2. Len(txFifo') = n
        BY <3>1, <3>3, <2>4, <1>3 DEF Smaller
      <4> QED BY <4>1, <4>2
    <3> QED BY <3>2, <3>3
  <2>6. ASSUME n > Depth PROVE Overfull
    <3>1. Len(txFifo) <= Depth
      BY DEF BusInv, TypeOK
    <3>2. Len(txFifo) = Depth /\ b = 1
      BY <2>6, <3>1, <1>2, <1>3, I2cAssumption
    <3>3. needRestart
      <4>1. ~needRestart => Len(txFifo) = 0
        BY <2>1, EmptySeq
      <4> QED BY <4>1, <3>2, I2cAssumption
    <3>4. (job.w + 1) % Depth = 0
      BY <2>1, <3>2, <3>3, JobType, FullLoadsRemainder
    <3>5. job.r > 0
      BY <1>1, JobType, ReadSize
    <3> QED BY <3>4, <3>5 DEF Overfull
  <2> QED BY <2>1, <2>2, <2>4, <2>5, <2>6
<1>5. Overfull' <=> Overfull
  BY <1>1 DEF Overfull
<1>6. ASSUME clean, NEW e \in Cmds, BytesOf(e) = 0
      PROVE  Counts(comd \o Append(Regs, e), n)
  BY <1>2, <1>3, <1>4, <1>6, CountsEnded
<1> HIDE DEF n
<1>7. CASE /\ Split(Left) /\ cmds' = Tail(cmds) /\ pc' = pc
           /\ comd' = comd \o Append(Regs, Cmd("readlast", 1))
  <2>1. Cmd("readlast", 1) \in Cmds /\ BytesOf(Cmd("readlast", 1)) = 0
    BY CmdType DEF InnerOps, BytesOf
  <2>2. ASSUME clean PROVE Matched(comd)'
    <3>1. Counts(comd', n)
      BY <2>1, <2>2, <1>6, <1>7
    <3> QED BY <3>1, <2>2, <1>3, <1>4 DEF Matched
  <2>3. Head(cmds') = "stop"
    BY <1>1, <1>7, ReadFacts, NextIsLater, RoomOf DEF callVars, Ops
  <2> QED BY <2>2, <2>3, <1>1, <1>4, <1>5, <1>7 DEF LoadInv, FifoOK, BuildOK, List
<1>8. CASE todo' = comd \o Append(Regs, Cmd("end", 0)) /\ pc' = "wait"
  <2>1. Cmd("end", 0) \in Cmds /\ BytesOf(Cmd("end", 0)) = 0
    BY CmdType DEF BytesOf
  <2>2. ASSUME clean PROVE Matched(todo)'
    <3>1. Counts(todo', n)
      BY <2>1, <2>2, <1>6, <1>8
    <3> QED BY <3>1, <2>2, <1>3, <1>4 DEF Matched
  <2>3. FifoOK'
    BY <2>2, <1>1, <1>2, <1>4, <1>5, <1>8 DEF FifoOK, List
  <2> QED BY <2>3, <1>8 DEF LoadInv, BuildOK
<1> QED BY <1>7, <1>8, ReadFacts

LEMMA StopLoads == ASSUME BusInv, LoadInv, StopCommand PROVE LoadInv'
<1> DEFINE e == Cmd("stop", 0)
           t == <<e>>
<1>1. /\ pc = "build" /\ pc' = "wait" /\ todo' = comd \o t /\ ints' = {}
      /\ UNCHANGED <<txFifo, lost, clean, job>>
  BY StopFacts DEF callVars, coreVars
<1>2. e \in Cmds /\ BytesOf(e) = 0
  BY CmdType DEF BytesOf
<1>3. t \in Seq(Cmds) /\ Counts(t, 0)
  BY <1>2, OneType, CountsOne
<1> HIDE DEF e, t
<1>4. ASSUME clean PROVE Matched(todo)' /\ (lost => Overfull)
  <2>1. Matched(comd) /\ (lost => Overfull)
    BY <1>1, <1>4 DEF LoadInv, FifoOK, List
  <2>2. PICK n \in Int : Counts(comd, n) /\ IF lost THEN n > Len(txFifo) ELSE n = Len(txFifo)
    BY <2>1 DEF Matched
  <2>3. Counts(todo', n + 0)
    BY <2>2, <1>1, <1>3, ListType, CountsJoin
  <2>4. Counts(todo', n)
    BY <2>3
  <2> QED BY <2>1, <2>2, <2>4, <1>1 DEF Matched
<1>5. Overfull' <=> Overfull
  BY <1>1 DEF Overfull
<1> QED BY <1>1, <1>4, <1>5 DEF LoadInv, FifoOK, BuildOK, List

LEMMA ReturnLoads ==
  ASSUME BusInv, LoadInv, pc = "wait", NEW res, Return(res), clean' => clean
  PROVE  LoadInv'
<1>1. pc' = "idle" /\ UNCHANGED <<todo, txFifo, lost, job>>
  BY DEF Return
<1>2. Overfull' <=> Overfull
  BY <1>1 DEF Overfull
<1>3. clean => Matched(todo)' /\ (lost => Overfull)
  BY <1>1 DEF LoadInv, FifoOK, List, Matched
<1> QED BY <1>1, <1>2, <1>3 DEF LoadInv, FifoOK, BuildOK, List

LEMMA FetchLoads == ASSUME BusInv, LoadInv, Fetch PROVE LoadInv'
<1>1. /\ pc = "wait" /\ ints # {} /\ ints' = {} /\ pc' \in {"idle", "build"}
      /\ UNCHANGED <<job, cmds, comd, txFifo, todo, lost, clean>>
  BY DEF Fetch
<1>2. todo = << >> /\ comd = << >>
  BY <1>1 DEF BusInv, PlaceOK, ListsOK
<1>3. ASSUME clean PROVE ~lost /\ txFifo = << >> /\ Matched(List)'
  <2>1. Matched(<< >>)
    BY <1>1, <1>2, <1>3 DEF LoadInv, FifoOK, List
  <2>2. ~lost /\ txFifo = << >>
    BY <2>1, MatchedNothing
  <2>3. List' = << >>
    BY <1>1, <1>2 DEF List
  <2> QED BY <2>1, <2>2, <2>3, <1>1 DEF Matched
<1>4. Len(<< >>) # Depth
  BY I2cAssumption, EmptySeq
<1> QED BY <1>1, <1>3, <1>4 DEF LoadInv, FifoOK, BuildOK

LEMMA LoadInit == Init => LoadInv
<1> SUFFICES ASSUME Init PROVE LoadInv
  OBVIOUS
<1>1. Counts(<< >>, 0) /\ Len(<< >>) = 0
  BY CountsNothing, EmptySeq
<1>2. Matched(List)
  BY <1>1 DEF Init, Matched, List
<1> QED BY <1>2 DEF Init, LoadInv, FifoOK, BuildOK

LEMMA LoadStutter == ASSUME LoadInv, UNCHANGED vars PROVE LoadInv'
<1>1. Matched(List)' <=> Matched(List)
  BY DEF Matched, List, vars, callVars, stateVars, coreVars
<1> QED BY <1>1 DEF LoadInv, FifoOK, BuildOK, Overfull, vars, callVars, stateVars, coreVars

LEMMA LoadStep == BusInv /\ LoadInv /\ [Next]_vars => LoadInv'
<1> SUFFICES ASSUME BusInv, LoadInv, [Next]_vars PROVE LoadInv'
  OBVIOUS
<1>1. CASE Fail
  BY <1>1, ReturnLoads DEF Fail
<1>2. CASE GiveUp
  BY <1>2, ReturnLoads DEF GiveUp
<1>3. CASE \E w \in WriteLens, n \in ReadLens : Tx(w, n)
  BY <1>3, TxLoads
<1> QED BY <1>1, <1>2, <1>3, ControllerLoads, ConfigureLoads, RestartLoads, WriteLoads, ReadLoads,
           StopLoads, FetchLoads, LoadStutter DEF Next, Transmit

(* A list never needs more than seven command registers, and, until a      *)
(* refusal or a timeout has left bytes behind, no byte is pushed into a    *)
(* full FIFO, except for the address of a read after a last load of w that *)
(* filled it.  The chip has eight registers.                               *)
THEOREM LoadsAlwaysFit ==
  ASSUME Registers >= 7 PROVE Spec => []LoadsFit
<1>1. BusInv /\ LoadInv => LoadsFit
  <2> SUFFICES ASSUME BusInv, LoadInv PROVE LoadsFit
    OBVIOUS
  <2>1. Len(comd) <= 6 /\ Len(todo) <= 7 /\ Len(comd) \in Nat /\ Len(todo) \in Nat
    BY DEF BusInv, ListsOK, TypeOK
  <2>2. Registers \in Nat
    BY I2cAssumption
  <2>3. Len(comd) <= Registers /\ Len(todo) <= Registers
    BY <2>1, <2>2
  <2> QED BY <2>3 DEF LoadInv, FifoOK, LoadsFit
<1> QED BY <1>1, BusInit, BusStep, LoadInit, LoadStep, PTL DEF Spec

-----------------------------------------------------------------------------
(* What the controller makes of a list: bus, transmit and receive FIFO     *)
(* after each of its commands, when the device refuses nothing.            *)
States == [bus : Seq(Items), tx : Seq(Items), rx : Seq(Items)]
State(bus, tx, rx) == [bus |-> bus, tx |-> tx, rx |-> rx]

Replied(s) == Cardinality({i \in DOMAIN s : s[i].kind = "reply"})
Reads(c) == c.op \in {"read", "readlast"}
Answer(c, st) == Replies(Replied(st.bus), Replied(st.bus) + c.n)

Can(c, st) == c.op = "write" => c.n <= Len(st.tx)
Exec(c, st) ==
  CASE c.op = "rstart" -> State(st.bus \o <<Start>>, st.tx, st.rx)
    [] c.op = "write"  -> State(st.bus \o SubSeq(st.tx, 1, c.n), Drop(st.tx, c.n), st.rx)
    [] Reads(c)        -> State(st.bus \o Answer(c, st), st.tx, Fits(st.rx \o Answer(c, st)))
    [] c.op = "stop"   -> State(st.bus \o <<Stop>>, st.tx, st.rx)
    [] OTHER           -> st

IsRun(f, s, a, b) ==
  /\ f[0] = a /\ f[Len(s)] = b
  /\ \A k \in 1 .. Len(s) : Can(s[k], f[k - 1]) /\ f[k] = Exec(s[k], f[k - 1])
Runs(s, a, b) == \E f \in [Nat -> States] : IsRun(f, s, a, b)

LEMMA StateType ==
  /\ \A bus, tx, rx \in Seq(Items) : State(bus, tx, rx) \in States
  /\ \A st \in States : /\ st = State(st.bus, st.tx, st.rx)
                        /\ st.bus \in Seq(Items) /\ st.tx \in Seq(Items)
                        /\ st.rx \in Seq(Items)
BY DEF State, States

LEMMA StateParts ==
  \A bus, tx, rx : /\ State(bus, tx, rx).bus = bus /\ State(bus, tx, rx).tx = tx
                   /\ State(bus, tx, rx).rx = rx
BY DEF State

LEMMA RepliedType == ASSUME NEW s \in Seq(Items) PROVE Replied(s) \in Nat
<1>1. IsFiniteSet(DOMAIN s)
  BY FS_Interval
<1>2. IsFiniteSet({i \in DOMAIN s : s[i].kind = "reply"})
  BY <1>1, FS_Subset
<1> QED BY <1>2, FS_CardinalityType DEF Replied

LEMMA ExecType ==
  ASSUME NEW c \in Cmds, NEW st \in States, Can(c, st) PROVE Exec(c, st) \in States
<1>1. /\ st.bus \in Seq(Items) /\ st.tx \in Seq(Items) /\ st.rx \in Seq(Items)
      /\ c.n \in Nat /\ <<Start>> \in Seq(Items) /\ <<Stop>> \in Seq(Items)
  BY StateType, ItemType, OneType DEF Cmds
<1>2. Answer(c, st) \in Seq(Items)
  BY <1>1, RepliedType, BytesType DEF Answer
<1>3. CASE c.op = "write"
  <2>1. Drop(st.tx, c.n) \in Seq(Items)
    BY <1>1, DropType
  <2>2. SubSeq(st.tx, 1, c.n) \in Seq(Items)
    <3>1. \A i \in 1 .. c.n : st.tx[i] \in Items
      BY <1>1, <1>3 DEF Can
    <3> QED BY <3>1, <1>1, SubSeqProperties
  <2>3. st.bus \o SubSeq(st.tx, 1, c.n) \in Seq(Items)
    BY <2>2, <1>1, ConcatProperties
  <2> QED BY <2>1, <2>3, <1>1, <1>3, StateType DEF Exec, Reads
<1>4. CASE Reads(c)
  <2>1. st.bus \o Answer(c, st) \in Seq(Items) /\ st.rx \o Answer(c, st) \in Seq(Items)
    BY <1>1, <1>2, ConcatProperties
  <2>2. Fits(st.rx \o Answer(c, st)) \in Seq(Items)
    BY <2>1, FitsType
  <2> QED BY <2>1, <2>2, <1>1, <1>4, StateType DEF Exec, Reads
<1>5. CASE c.op \in {"rstart", "stop"}
  <2>1. st.bus \o <<Start>> \in Seq(Items) /\ st.bus \o <<Stop>> \in Seq(Items)
    BY <1>1, ConcatProperties
  <2> QED BY <2>1, <1>1, <1>5, StateType DEF Exec, Reads
<1>6. CASE ~Reads(c) /\ c.op \notin {"rstart", "stop", "write"}
  BY <1>6 DEF Exec
<1> QED BY <1>3, <1>4, <1>5, <1>6

LEMMA RunsNothing == ASSUME NEW a \in States, NEW b PROVE Runs(<< >>, a, b) <=> a = b
<1>1. ASSUME Runs(<< >>, a, b) PROVE a = b
  BY <1>1, EmptySeq DEF Runs, IsRun
<1>2. Runs(<< >>, a, a)
  <2> DEFINE f == [k \in Nat |-> a]
  <2>1. f \in [Nat -> States] /\ IsRun(f, << >>, a, a)
    BY EmptySeq DEF IsRun
  <2> QED BY <2>1 DEF Runs
<1> QED BY <1>1, <1>2

(* The first command of a list is executed.                                *)
LEMMA RunsFirst ==
  ASSUME NEW s \in Seq(Cmds), s # << >>, NEW a, NEW b, Runs(s, a, b)
  PROVE  Can(Head(s), a) /\ Runs(Tail(s), Exec(Head(s), a), b)
<1>1. PICK f \in [Nat -> States] : IsRun(f, s, a, b)
  BY DEF Runs
<1> DEFINE g == [k \in Nat |-> f[k + 1]]
           t == Tail(s)
<1>2. /\ t \in Seq(Cmds) /\ Len(t) = Len(s) - 1 /\ Len(s) \in Nat \ {0} /\ Head(s) = s[1]
      /\ \A k \in 1 .. Len(t) : t[k] = s[k + 1]
  BY HeadTailProperties, EmptySeq
<1> HIDE DEF t
<1>3. g \in [Nat -> States] /\ \A k \in Nat : g[k] = f[k + 1]
  <2>1. \A k \in Nat : f[k + 1] \in States
    OBVIOUS
  <2> QED BY <2>1
<1> HIDE DEF g
<1>4. Can(s[1], a) /\ f[1] = Exec(s[1], a)
  <2>1. 1 \in 1 .. Len(s) /\ 1 - 1 = 0
    BY <1>2
  <2> QED BY <2>1, <1>1 DEF IsRun
<1>5. g[0] = Exec(s[1], a) /\ g[Len(t)] = b
  <2>1. Len(t) \in Nat /\ Len(t) + 1 = Len(s) /\ 0 + 1 = 1 /\ 0 \in Nat
    BY <1>2
  <2>2. f[Len(s)] = b
    BY <1>1 DEF IsRun
  <2> QED BY <2>1, <2>2, <1>3, <1>4
<1>6. ASSUME NEW k \in 1 .. Len(t) PROVE Can(t[k], g[k - 1]) /\ g[k] = Exec(t[k], g[k - 1])
  <2>1. k + 1 \in 1 .. Len(s) /\ (k + 1) - 1 = k /\ (k - 1) + 1 = k /\ k \in Nat /\ k - 1 \in Nat
    BY <1>2
  <2>2. Can(s[k + 1], f[k]) /\ f[k + 1] = Exec(s[k + 1], f[k])
    BY <2>1, <1>1 DEF IsRun
  <2>3. g[k] = f[k + 1] /\ g[k - 1] = f[k] /\ t[k] = s[k + 1]
    BY <2>1, <1>2, <1>3
  <2> QED BY <2>2, <2>3
<1>7. IsRun(g, t, Exec(s[1], a), b)
  BY <1>5, <1>6 DEF IsRun
<1>8. Runs(t, Exec(s[1], a), b)
  BY <1>3, <1>7 DEF Runs
<1> QED BY <1>2, <1>4, <1>8 DEF t

(* A command is added to a list.                                           *)
LEMMA RunsLast ==
  ASSUME NEW s \in Seq(Cmds), NEW c \in Cmds, NEW a, NEW b \in States, Runs(s, a, b), Can(c, b)
  PROVE  Runs(s \o <<c>>, a, Exec(c, b)) /\ Exec(c, b) \in States
<1>1. PICK f \in [Nat -> States] : IsRun(f, s, a, b)
  BY DEF Runs
<1> DEFINE d == Exec(c, b)
           t == s \o <<c>>
           g == [k \in Nat |-> IF k <= Len(s) THEN f[k] ELSE d]
<1>2. /\ t \in Seq(Cmds) /\ Len(t) = Len(s) + 1 /\ t[Len(s) + 1] = c
      /\ \A k \in 1 .. Len(s) : t[k] = s[k]
  BY Appended
<1>3. d \in States /\ Len(s) \in Nat
  BY ExecType
<1> HIDE DEF t
<1>4. /\ g \in [Nat -> States] /\ \A k \in Nat : k <= Len(s) => g[k] = f[k]
      /\ g[Len(s) + 1] = d
  <2> HIDE DEF d
  <2>1. ~(Len(s) + 1 <= Len(s)) /\ Len(s) + 1 \in Nat
    BY <1>3
  <2> QED BY <2>1, <1>3
<1> HIDE DEF g
<1>5. g[0] = a /\ g[Len(t)] = d
  BY <1>1, <1>2, <1>3, <1>4 DEF IsRun
<1>6. ASSUME NEW k \in 1 .. Len(t) PROVE Can(t[k], g[k - 1]) /\ g[k] = Exec(t[k], g[k - 1])
  <2>1. k \in Nat /\ k - 1 \in Nat /\ k - 1 <= Len(s) /\ g[k - 1] = f[k - 1]
    BY <1>2, <1>3, <1>4
  <2>2. CASE k \in 1 .. Len(s)
    <3>1. g[k] = f[k] /\ t[k] = s[k]
      BY <2>1, <2>2, <1>2, <1>3, <1>4
    <3>2. Can(s[k], f[k - 1]) /\ f[k] = Exec(s[k], f[k - 1])
      BY <2>2, <1>1 DEF IsRun
    <3> QED BY <2>1, <3>1, <3>2
  <2>3. CASE k = Len(s) + 1
    <3>1. k - 1 = Len(s) /\ f[Len(s)] = b
      BY <2>3, <1>1, <1>3 DEF IsRun
    <3> QED BY <2>1, <2>3, <3>1, <1>2, <1>4 DEF d
  <2> QED BY <2>2, <2>3, <1>2, <1>3
<1>7. IsRun(g, t, a, d)
  BY <1>5, <1>6 DEF IsRun
<1> QED BY <1>3, <1>4, <1>7 DEF Runs, t, d

LEMMA ExecOf ==
  ASSUME NEW c, NEW st
  PROVE  /\ c.op = "rstart" => Exec(c, st) = State(st.bus \o <<Start>>, st.tx, st.rx)
         /\ c.op = "write" =>
              Exec(c, st) = State(st.bus \o SubSeq(st.tx, 1, c.n), Drop(st.tx, c.n), st.rx)
         /\ Reads(c) => Exec(c, st) = State(st.bus \o Answer(c, st), st.tx,
                                            Fits(st.rx \o Answer(c, st)))
         /\ c.op = "stop" => Exec(c, st) = State(st.bus \o <<Stop>>, st.tx, st.rx)
         /\ c.op = "end" => Exec(c, st) = st
BY DEF Exec, Reads

(* Bytes behind those that a list takes stay where they are.               *)
Grow(st, t) == State(st.bus, st.tx \o t, st.rx)

LEMMA FrontOf ==
  ASSUME NEW S, NEW s \in Seq(S), NEW t \in Seq(S), NEW n \in Nat, n <= Len(s)
  PROVE  /\ SubSeq(s \o t, 1, n) = SubSeq(s, 1, n)
         /\ Drop(s \o t, n) = Drop(s, n) \o t
<1> DEFINE u == s \o t
           d == SubSeq(s, n + 1, Len(s))
           e == SubSeq(u, n + 1, Len(u))
<1>1. /\ u \in Seq(S) /\ Len(u) = Len(s) + Len(t) /\ Len(s) \in Nat /\ Len(t) \in Nat
      /\ \A i \in 1 .. Len(s) + Len(t) : u[i] = IF i <= Len(s) THEN s[i] ELSE t[i - Len(s)]
  BY ConcatProperties
<1> HIDE DEF u
<1>2. SubSeq(u, 1, n) = SubSeq(s, 1, n)
  <2> DEFINE a == SubSeq(u, 1, n)
             b == SubSeq(s, 1, n)
  <2>1. /\ \A i \in 1 .. n : u[i] \in S /\ s[i] \in S /\ u[i] = s[i]
    BY <1>1
  <2>2. /\ a \in Seq(S) /\ Len(a) = n /\ \A i \in 1 .. n - 1 + 1 : a[i] = u[1 + i - 1]
        /\ b \in Seq(S) /\ Len(b) = n /\ \A i \in 1 .. n - 1 + 1 : b[i] = s[1 + i - 1]
    BY <2>1, SubSeqProperties
  <2> HIDE DEF a, b
  <2>3. \A i \in 1 .. n : a[i] = b[i]
    BY <2>1, <2>2
  <2>4. a = b
    BY <2>2, <2>3, SeqEqual
  <2> QED BY <2>4 DEF a, b
<1>3. /\ d \in Seq(S) /\ Len(d) = Len(s) - n
      /\ \A i \in 1 .. Len(s) - n : d[i] = s[n + i]
  <2>1. \A i \in n + 1 .. Len(s) : s[i] \in S
    BY <1>1
  <2>2. /\ d \in Seq(S) /\ Len(d) = (IF n + 1 <= Len(s) THEN Len(s) - (n + 1) + 1 ELSE 0)
        /\ \A i \in 1 .. Len(s) - (n + 1) + 1 : d[i] = s[(n + 1) + i - 1]
    BY <2>1, <1>1, SubSeqProperties
  <2> HIDE DEF d
  <2> QED BY <2>2, <1>1
<1>4. /\ e \in Seq(S) /\ Len(e) = Len(u) - n
      /\ \A i \in 1 .. Len(u) - n : e[i] = u[n + i]
  <2>1. \A i \in n + 1 .. Len(u) : u[i] \in S
    BY <1>1
  <2>2. /\ e \in Seq(S) /\ Len(e) = (IF n + 1 <= Len(u) THEN Len(u) - (n + 1) + 1 ELSE 0)
        /\ \A i \in 1 .. Len(u) - (n + 1) + 1 : e[i] = u[(n + 1) + i - 1]
    BY <2>1, <1>1, SubSeqProperties
  <2> HIDE DEF e
  <2> QED BY <2>2, <1>1
<1> HIDE DEF d, e
<1> DEFINE v == d \o t
<1>5. /\ v \in Seq(S) /\ Len(v) = Len(d) + Len(t)
      /\ \A i \in 1 .. Len(d) + Len(t) : v[i] = IF i <= Len(d) THEN d[i] ELSE t[i - Len(d)]
  BY <1>3, ConcatProperties
<1> HIDE DEF v
<1>6. ASSUME NEW i \in 1 .. Len(e) PROVE e[i] = v[i]
  <2>1. /\ i \in 1 .. Len(u) - n /\ n + i \in 1 .. Len(s) + Len(t) /\ i \in 1 .. Len(d) + Len(t)
        /\ i <= Len(d) <=> n + i <= Len(s)
        /\ (n + i) - Len(s) = i - Len(d)
    BY <1>1, <1>3, <1>4
  <2>2. CASE i <= Len(d)
    <3>1. i \in 1 .. Len(s) - n
      BY <2>1, <2>2, <1>3
    <3>2. d[i] = s[n + i]
      BY <3>1, <1>3
    <3> QED BY <3>2, <2>1, <2>2, <1>1, <1>4, <1>5
  <2>3. CASE ~(i <= Len(d))
    BY <2>1, <2>3, <1>1, <1>4, <1>5
  <2> QED BY <2>2, <2>3
<1>7. Len(e) = Len(v)
  BY <1>1, <1>3, <1>4, <1>5
<1>8. e = v
  BY <1>4, <1>5, <1>6, <1>7, SeqEqual
<1> QED BY <1>2, <1>8 DEF Drop, e, v, d, u

LEMMA ExecGrows ==
  ASSUME NEW c \in Cmds, NEW st \in States, NEW t \in Seq(Items), Can(c, st)
  PROVE  Can(c, Grow(st, t)) /\ Exec(c, Grow(st, t)) = Grow(Exec(c, st), t)
<1> DEFINE g == Grow(st, t)
<1>1. /\ g.bus = st.bus /\ g.tx = st.tx \o t /\ g.rx = st.rx
      /\ st.bus \in Seq(Items) /\ st.tx \in Seq(Items) /\ st.rx \in Seq(Items) /\ c.n \in Nat
  <2>1. c.n \in Nat
    BY DEF Cmds
  <2>2. st.bus \in Seq(Items) /\ st.tx \in Seq(Items) /\ st.rx \in Seq(Items)
    BY StateType
  <2>3. g.bus = st.bus /\ g.tx = st.tx \o t /\ g.rx = st.rx
    BY DEF Grow, State
  <2> HIDE DEF g
  <2> QED BY <2>1, <2>2, <2>3
<1>2. \A x, y, z : Grow(State(x, y, z), t) = State(x, y \o t, z)
  BY StateParts DEF Grow
<1> HIDE DEF g
<1>3. Len(g.tx) = Len(st.tx) + Len(t) /\ Len(st.tx) \in Nat /\ Len(t) \in Nat
  BY <1>1, ConcatProperties
<1>4. Can(c, g)
  BY <1>1, <1>3 DEF Can
<1>5. Answer(c, g) = Answer(c, st)
  BY <1>1 DEF Answer
<1>6. ASSUME c.op = "write" PROVE Exec(c, g) = Grow(Exec(c, st), t)
  <2>1. SubSeq(g.tx, 1, c.n) = SubSeq(st.tx, 1, c.n) /\ Drop(g.tx, c.n) = Drop(st.tx, c.n) \o t
    BY <1>1, <1>6, FrontOf DEF Can
  <2>2. /\ Exec(c, g) = State(g.bus \o SubSeq(g.tx, 1, c.n), Drop(g.tx, c.n), g.rx)
        /\ Exec(c, st) = State(st.bus \o SubSeq(st.tx, 1, c.n), Drop(st.tx, c.n), st.rx)
    BY <1>6, ExecOf
  <2>3. Grow(Exec(c, st), t)
          = State(st.bus \o SubSeq(st.tx, 1, c.n), Drop(st.tx, c.n) \o t, st.rx)
    BY <2>2, <1>2
  <2> QED BY <2>1, <2>2, <2>3, <1>1
<1>7. ASSUME Reads(c) PROVE Exec(c, g) = Grow(Exec(c, st), t)
  <2>1. /\ Exec(c, g) = State(g.bus \o Answer(c, g), g.tx, Fits(g.rx \o Answer(c, g)))
        /\ Exec(c, st) = State(st.bus \o Answer(c, st), st.tx, Fits(st.rx \o Answer(c, st)))
    BY <1>7, ExecOf
  <2> QED BY <2>1, <1>1, <1>2, <1>5
<1>8. ASSUME NEW e, Exec(c, g) = State(g.bus \o e, g.tx, g.rx),
             Exec(c, st) = State(st.bus \o e, st.tx, st.rx)
      PROVE  Exec(c, g) = Grow(Exec(c, st), t)
  BY <1>8, <1>1, <1>2
<1>9. ASSUME c.op = "end" PROVE Exec(c, g) = Grow(Exec(c, st), t)
  BY <1>9, ExecOf DEF g
<1>10. Exec(c, g) = Grow(Exec(c, st), t)
  <2>1. c.op \in {"rstart", "write", "read", "readlast", "stop", "end"}
    BY DEF Cmds
  <2>2. ASSUME c.op \in {"rstart", "stop"} PROVE Exec(c, g) = Grow(Exec(c, st), t)
    BY <2>2, <1>8, ExecOf
  <2> QED BY <2>1, <2>2, <1>6, <1>7, <1>9 DEF Reads
<1> QED BY <1>4, <1>10 DEF g

(* Bytes are pushed while a list is built.                                 *)
LEMMA RunsGrow ==
  ASSUME NEW s \in Seq(Cmds), NEW a, NEW b, NEW t \in Seq(Items), Runs(s, a, b)
  PROVE  Runs(s, Grow(a, t), Grow(b, t))
<1>1. PICK f \in [Nat -> States] : IsRun(f, s, a, b)
  BY DEF Runs
<1> DEFINE g == [k \in Nat |-> Grow(f[k], t)]
<1>2. ASSUME NEW st \in States PROVE Grow(st, t) \in States
  <2>1. st.bus \in Seq(Items) /\ st.tx \o t \in Seq(Items) /\ st.rx \in Seq(Items)
    BY StateType, ConcatProperties
  <2> QED BY <2>1, StateType DEF Grow
<1>3. g \in [Nat -> States] /\ \A k \in Nat : g[k] = Grow(f[k], t)
  <2>1. \A k \in Nat : f[k] \in States
    OBVIOUS
  <2> QED BY <2>1, <1>2
<1> HIDE DEF g
<1>4. g[0] = Grow(a, t) /\ g[Len(s)] = Grow(b, t)
  BY <1>1, <1>3 DEF IsRun
<1>5. ASSUME NEW k \in 1 .. Len(s) PROVE Can(s[k], g[k - 1]) /\ g[k] = Exec(s[k], g[k - 1])
  <2>1. /\ k \in Nat /\ k - 1 \in Nat /\ s[k] \in Cmds /\ f[k - 1] \in States
        /\ Can(s[k], f[k - 1]) /\ f[k] = Exec(s[k], f[k - 1])
    BY <1>1, ElementOfSeq DEF IsRun
  <2>2. Can(s[k], Grow(f[k - 1], t)) /\ Exec(s[k], Grow(f[k - 1], t)) = Grow(f[k], t)
    BY <2>1, ExecGrows
  <2> QED BY <2>1, <2>2, <1>3
<1>6. IsRun(g, s, Grow(a, t), Grow(b, t))
  BY <1>4, <1>5 DEF IsRun
<1> QED BY <1>3, <1>6 DEF Runs

-----------------------------------------------------------------------------
(* Loads and replies, put together.                                        *)

LEMMA Joined ==
  ASSUME NEW S, NEW a \in Seq(S), NEW b \in Seq(S), NEW c \in Seq(S)
  PROVE  /\ a \o b \in Seq(S) /\ a \o (b \o c) \in Seq(S)
         /\ (a \o b) \o c = a \o (b \o c)
<1>1. a \o b \in Seq(S) /\ b \o c \in Seq(S)
  BY ConcatProperties
<1>2. a \o (b \o c) \in Seq(S)
  BY <1>1, ConcatProperties
<1>3. (a \o b) \o c = a \o (b \o c)
  BY ConcatAssociative
<1> QED BY <1>1, <1>2, <1>3

LEMMA FourJoined ==
  \A a, b, c, d \in Seq(Items) : /\ (a \o (b \o c)) \o d = a \o (b \o (c \o d))
                                 /\ a \o (b \o c) \in Seq(Items)
                                 /\ a \o (b \o (c \o d)) \in Seq(Items)
<1> SUFFICES ASSUME NEW a \in Seq(Items), NEW b \in Seq(Items), NEW c \in Seq(Items),
                    NEW d \in Seq(Items)
             PROVE  /\ (a \o (b \o c)) \o d = a \o (b \o (c \o d))
                    /\ a \o (b \o c) \in Seq(Items)
                    /\ a \o (b \o (c \o d)) \in Seq(Items)
  OBVIOUS
<1>1. b \o c \in Seq(Items) /\ c \o d \in Seq(Items)
  BY ConcatProperties
<1>2. b \o (c \o d) \in Seq(Items) /\ a \o (b \o c) \in Seq(Items)
  BY <1>1, ConcatProperties
<1>3. a \o (b \o (c \o d)) \in Seq(Items)
  BY <1>2, ConcatProperties
<1>4. (b \o c) \o d = b \o (c \o d)
  BY ConcatAssociative
<1>5. (a \o (b \o c)) \o d = a \o ((b \o c) \o d)
  <2> DEFINE mid == b \o c
  <2>1. mid \in Seq(Items)
    BY <1>1
  <2> HIDE DEF mid
  <2>2. (a \o mid) \o d = a \o (mid \o d)
    BY <2>1, ConcatAssociative
  <2> QED BY <2>2 DEF mid
<1> QED BY <1>2, <1>3, <1>4, <1>5

LEMMA CmdsJoined ==
  \A a, b, c \in Seq(Cmds) : /\ a \o b \in Seq(Cmds) /\ a \o (b \o c) \in Seq(Cmds)
                             /\ (a \o b) \o c = a \o (b \o c)
BY Joined

LEMMA FitsSame == ASSUME NEW S, NEW s \in Seq(S), Len(s) <= Depth PROVE Fits(s) = s
<1>1. Smaller(Len(s), Depth) = Len(s)
  BY I2cAssumption DEF Smaller
<1> QED BY <1>1, SubSeqFull DEF Fits

LEMMA SpanType ==
  ASSUME NEW a \in Nat, NEW b \in Nat, a <= b
  PROVE  /\ Written(a, b) \in Seq(Items) /\ Len(Written(a, b)) = b - a
         /\ \A i \in 1 .. b - a : Written(a, b)[i] = Item("data", a + i)
         /\ Replies(a, b) \in Seq(Items) /\ Len(Replies(a, b)) = b - a
         /\ \A i \in 1 .. b - a : Replies(a, b)[i] = Item("reply", a + i)
<1>1. PICK n \in Nat : b = a + n
  <2>1. b - a \in Nat /\ b = a + (b - a)
    OBVIOUS
  <2> QED BY <2>1
<1>2. b - a = n
  BY <1>1
<1>3. \A i \in 1 .. b - a : Written(a, b)[i] = Item("data", a + i)
  BY DEF Written
<1>4. \A i \in 1 .. b - a : Replies(a, b)[i] = Item("reply", a + i)
  BY DEF Replies
<1> QED BY <1>1, <1>2, <1>3, <1>4, BytesType

LEMMA NoSpan == ASSUME NEW a \in Nat PROVE Written(a, a) = << >> /\ Replies(a, a) = << >>
<1>1. a <= a /\ a - a = 0
  OBVIOUS
<1>2. Len(Written(a, a)) = 0 /\ Len(Replies(a, a)) = 0
      /\ Written(a, a) \in Seq(Items) /\ Replies(a, a) \in Seq(Items)
  BY <1>1, SpanType
<1> QED BY <1>2, EmptySeq

LEMMA SpansJoin ==
  ASSUME NEW a \in Nat, NEW b \in Nat, NEW c \in Nat, a <= b, b <= c
  PROVE  /\ Written(a, b) \o Written(b, c) = Written(a, c)
         /\ Replies(a, b) \o Replies(b, c) = Replies(a, c)
<1>1. ASSUME NEW kind, NEW s \in Seq(Items), NEW t \in Seq(Items), NEW u \in Seq(Items),
             Len(s) = b - a, Len(t) = c - b, Len(u) = c - a,
             \A i \in 1 .. b - a : s[i] = Item(kind, a + i),
             \A i \in 1 .. c - b : t[i] = Item(kind, b + i),
             \A i \in 1 .. c - a : u[i] = Item(kind, a + i)
      PROVE  s \o t = u
  <2> DEFINE v == s \o t
  <2>1. /\ v \in Seq(Items) /\ Len(v) = c - a
        /\ \A i \in 1 .. c - a : v[i] = IF i <= b - a THEN s[i] ELSE t[i - (b - a)]
    <3>1. /\ v \in Seq(Items) /\ Len(v) = Len(s) + Len(t)
          /\ \A i \in 1 .. Len(s) + Len(t) : v[i] = IF i <= Len(s) THEN s[i] ELSE t[i - Len(s)]
      BY ConcatProperties
    <3>2. Len(s) + Len(t) = c - a
      BY <1>1
    <3> HIDE DEF v
    <3> QED BY <3>1, <3>2, <1>1
  <2> HIDE DEF v
  <2>2. ASSUME NEW i \in 1 .. c - a PROVE v[i] = u[i]
    <3>1. CASE i <= b - a
      BY <3>1, <2>1, <1>1
    <3>2. CASE ~(i <= b - a)
      <4>1. i - (b - a) \in 1 .. c - b /\ b + (i - (b - a)) = a + i
        BY <3>2
      <4>2. t[i - (b - a)] = Item(kind, a + i)
        BY <4>1, <1>1
      <4> QED BY <4>2, <3>2, <2>1, <1>1
    <3> QED BY <3>1, <3>2
  <2>3. v = u
    BY <2>1, <2>2, <1>1, SeqEqual
  <2> QED BY <2>3 DEF v
<1>2. a <= c
  OBVIOUS
<1>3. Written(a, b) \o Written(b, c) = Written(a, c)
  <2>1. /\ Written(a, b) \in Seq(Items) /\ Len(Written(a, b)) = b - a
        /\ \A i \in 1 .. b - a : Written(a, b)[i] = Item("data", a + i)
    BY SpanType
  <2>2. /\ Written(b, c) \in Seq(Items) /\ Len(Written(b, c)) = c - b
        /\ \A i \in 1 .. c - b : Written(b, c)[i] = Item("data", b + i)
    BY SpanType
  <2>3. /\ Written(a, c) \in Seq(Items) /\ Len(Written(a, c)) = c - a
        /\ \A i \in 1 .. c - a : Written(a, c)[i] = Item("data", a + i)
    BY <1>2, SpanType
  <2> QED BY <2>1, <2>2, <2>3, <1>1
<1>4. Replies(a, b) \o Replies(b, c) = Replies(a, c)
  <2>1. /\ Replies(a, b) \in Seq(Items) /\ Len(Replies(a, b)) = b - a
        /\ \A i \in 1 .. b - a : Replies(a, b)[i] = Item("reply", a + i)
    BY SpanType
  <2>2. /\ Replies(b, c) \in Seq(Items) /\ Len(Replies(b, c)) = c - b
        /\ \A i \in 1 .. c - b : Replies(b, c)[i] = Item("reply", b + i)
    BY SpanType
  <2>3. /\ Replies(a, c) \in Seq(Items) /\ Len(Replies(a, c)) = c - a
        /\ \A i \in 1 .. c - a : Replies(a, c)[i] = Item("reply", a + i)
    BY <1>2, SpanType
  <2> QED BY <2>1, <2>2, <2>3, <1>1
<1> QED BY <1>3, <1>4

(* Where no byte is a reply yet, the replies that follow can be counted.   *)
Silent(s) == \A i \in 1 .. Len(s) : s[i].kind # "reply"

LEMMA SilentJoin ==
  ASSUME NEW s \in Seq(Items), NEW t \in Seq(Items), Silent(s), Silent(t)
  PROVE  s \o t \in Seq(Items) /\ Silent(s \o t)
<1> DEFINE u == s \o t
<1>1. /\ u \in Seq(Items) /\ Len(u) = Len(s) + Len(t) /\ Len(s) \in Nat /\ Len(t) \in Nat
      /\ \A i \in 1 .. Len(s) + Len(t) : u[i] = IF i <= Len(s) THEN s[i] ELSE t[i - Len(s)]
  BY ConcatProperties
<1> HIDE DEF u
<1>2. ASSUME NEW i \in 1 .. Len(u) PROVE u[i].kind # "reply"
  <2>1. CASE i <= Len(s)
    BY <2>1, <1>1 DEF Silent
  <2>2. CASE ~(i <= Len(s))
    <3>1. i - Len(s) \in 1 .. Len(t)
      BY <2>2, <1>1
    <3> QED BY <3>1, <2>2, <1>1 DEF Silent
  <2> QED BY <2>1, <2>2
<1>3. Silent(u)
  BY <1>2 DEF Silent
<1> QED BY <1>1, <1>3 DEF u

LEMMA RepliedOf ==
  ASSUME NEW s \in Seq(Items), Silent(s), NEW n \in Nat
  PROVE  Replied(s \o Replies(0, n)) = n
<1> DEFINE t == Replies(0, n)
           u == s \o t
           l == Len(s)
<1>1. /\ t \in Seq(Items) /\ Len(t) = n /\ \A i \in 1 .. n : t[i] = Item("reply", i)
  <2>1. 0 <= n /\ n - 0 = n /\ \A i \in 1 .. n : 0 + i = i
    OBVIOUS
  <2>2. /\ t \in Seq(Items) /\ Len(t) = n - 0
        /\ \A i \in 1 .. n - 0 : t[i] = Item("reply", 0 + i)
    BY <2>1, SpanType
  <2> HIDE DEF t
  <2> QED BY <2>1, <2>2
<1> HIDE DEF t
<1>2. /\ u \in Seq(Items) /\ Len(u) = l + n /\ l \in Nat
      /\ \A i \in 1 .. l + n : u[i] = IF i <= l THEN s[i] ELSE t[i - l]
  BY <1>1, ConcatProperties
<1> HIDE DEF u
<1>3. ASSUME NEW i \in 1 .. l + n PROVE u[i].kind = "reply" <=> i > l
  <2>1. CASE i <= l
    BY <2>1, <1>2 DEF Silent
  <2>2. CASE i > l
    <3>1. i - l \in 1 .. n /\ ~(i <= l)
      BY <2>2, <1>2
    <3>2. u[i] = Item("reply", i - l)
      BY <3>1, <1>1, <1>2
    <3> QED BY <3>2, <2>2 DEF Item
  <2> QED BY <2>1, <2>2, <1>2
<1>4. DOMAIN u = 1 .. l + n
  BY <1>2
<1>5. {i \in DOMAIN u : u[i].kind = "reply"} = l + 1 .. l + n
  BY <1>2, <1>3, <1>4
<1>6. Cardinality(l + 1 .. l + n) = n
  <2>1. l + 1 \in Int /\ l + n \in Int
    BY <1>2
  <2>2. Cardinality(l + 1 .. l + n) = IF l + 1 > l + n THEN 0 ELSE (l + n) - (l + 1) + 1
    BY <2>1, FS_Interval
  <2> QED BY <2>2, <1>2
<1>7. Replied(u) = n
  BY <1>5, <1>6 DEF Replied
<1> QED BY <1>7 DEF u, t

-----------------------------------------------------------------------------
(* How far the transaction has got when the list is done.                  *)

Opening == <<Start>> \o When(job.w > 0, <<ToWrite>> \o Written(0, job.w))
Turn == When(job.w > 0, <<Start>>) \o <<ToRead>>
Asked(n) == Turn \o Replies(0, n)
Body == Opening \o When(job.r > 0, Asked(job.r))

LEMMA WholeIsBody == Whole = Body \o <<Stop>>
BY DEF Whole, Body, Opening, Asked, Turn

LEMMA SilentParts ==
  ASSUME job.w \in Nat
  PROVE  /\ Opening \in Seq(Items) /\ Silent(Opening)
         /\ Turn \in Seq(Items) /\ Silent(Turn)
         /\ Opening \o Turn \in Seq(Items) /\ Silent(Opening \o Turn)
<1> DEFINE d == Written(0, job.w)
<1>1. d \in Seq(Items) /\ Silent(d)
  <2>1. 0 <= job.w /\ job.w - 0 = job.w
    OBVIOUS
  <2>2. /\ d \in Seq(Items) /\ Len(d) = job.w
        /\ \A i \in 1 .. job.w : d[i] = Item("data", 0 + i)
    BY <2>1, SpanType
  <2> HIDE DEF d
  <2>3. \A i : Item("data", 0 + i).kind # "reply"
    BY DEF Item
  <2> QED BY <2>2, <2>3 DEF Silent
<1> HIDE DEF d
<1>2. ASSUME NEW e \in {Start, ToWrite, ToRead} PROVE <<e>> \in Seq(Items) /\ Silent(<<e>>)
  <2>1. e \in Items /\ e.kind # "reply"
    BY ItemType DEF Start, ToWrite, ToRead, Item
  <2>2. Len(<<e>>) = 1 /\ <<e>>[1] = e /\ <<e>> \in Seq(Items)
    BY <2>1, OneType
  <2> QED BY <2>1, <2>2 DEF Silent
<1>3. << >> \in Seq(Items) /\ Silent(<< >>)
  BY EmptySeq DEF Silent
<1>4. <<ToWrite>> \o d \in Seq(Items) /\ Silent(<<ToWrite>> \o d)
  BY <1>1, <1>2, SilentJoin
<1>5. Opening \in Seq(Items) /\ Silent(Opening)
  <2> DEFINE e == When(job.w > 0, <<ToWrite>> \o d)
  <2>1. e \in Seq(Items) /\ Silent(e)
    BY <1>3, <1>4 DEF When
  <2>2. Opening = <<Start>> \o e
    BY DEF Opening, d
  <2> HIDE DEF e
  <2> QED BY <2>1, <2>2, <1>2, SilentJoin
<1>6. Turn \in Seq(Items) /\ Silent(Turn)
  <2> DEFINE e == When(job.w > 0, <<Start>>)
  <2>1. e \in Seq(Items) /\ Silent(e)
    BY <1>2, <1>3 DEF When
  <2>2. Turn = e \o <<ToRead>>
    BY DEF Turn
  <2> HIDE DEF e
  <2> QED BY <2>1, <2>2, <1>2, SilentJoin
<1> QED BY <1>5, <1>6, SilentJoin

(* While r is read: h of it before this list, up to j by this list.        *)
Reading(h, j) == State(Opening \o Asked(j), << >>, Replies(h, j))

LEMMA AskedType ==
  ASSUME job.w \in Nat, NEW n \in Nat
  PROVE  /\ Opening \o Asked(n) \in Seq(Items)
         /\ Opening \o Asked(n) = (Opening \o Turn) \o Replies(0, n)
         /\ Replied(Opening \o Asked(n)) = n
<1>1. Replies(0, n) \in Seq(Items)
  BY SpanType
<1>2. Opening \o Asked(n) = (Opening \o Turn) \o Replies(0, n)
  <2> DEFINE t == Replies(0, n)
  <2>1. Opening \in Seq(Items) /\ Turn \in Seq(Items) /\ t \in Seq(Items)
        /\ Asked(n) = Turn \o t
    BY <1>1, SilentParts DEF Asked
  <2> HIDE DEF t
  <2>2. (Opening \o Turn) \o t = Opening \o (Turn \o t)
    BY <2>1, ConcatAssociative
  <2> QED BY <2>1, <2>2 DEF t
<1>3. Opening \o Asked(n) \in Seq(Items)
  BY <1>1, <1>2, SilentParts, ConcatProperties
<1> QED BY <1>2, <1>3, SilentParts, RepliedOf

LEMMA ReadingType ==
  ASSUME job.w \in Nat, NEW h \in Nat, NEW j \in Nat, h <= j PROVE Reading(h, j) \in States
<1>1. Replies(h, j) \in Seq(Items) /\ << >> \in Seq(Items)
  BY SpanType, NothingFits
<1> QED BY <1>1, AskedType, StateType DEF Reading

LEMMA ReadMore ==
  ASSUME job.w \in Nat, NEW h \in Nat, NEW j \in Nat, NEW k \in Nat,
         h <= j, j <= k, k - h <= Depth, NEW c, Reads(c), c.n = k - j
  PROVE  Exec(c, Reading(h, j)) = Reading(h, k)
<1> DEFINE st == Reading(h, j)
           bus == Opening \o Asked(j)
           more == Replies(j, k)
           front == Opening \o Turn
<1>0. 0 \in Nat /\ 0 <= j /\ 0 <= k /\ h <= k
  OBVIOUS
<1>1. st.bus = bus /\ st.tx = << >> /\ st.rx = Replies(h, j)
  BY DEF Reading, State
<1>2. Replied(st.bus) = j
  BY <1>1, AskedType
<1> HIDE DEF st
<1>3. Answer(c, st) = more
  <2>1. j + c.n = k
    OBVIOUS
  <2> QED BY <2>1, <1>2 DEF Answer
<1>4. Exec(c, st) = State(bus \o more, << >>, Fits(Replies(h, j) \o more))
  <2>1. Exec(c, st) = State(st.bus \o Answer(c, st), st.tx, Fits(st.rx \o Answer(c, st)))
    BY ExecOf
  <2> QED BY <2>1, <1>1, <1>3
<1>5. bus \o more = Opening \o Asked(k)
  <2>1. bus = front \o Replies(0, j) /\ Opening \o Asked(k) = front \o Replies(0, k)
    BY AskedType
  <2>2. Replies(0, j) \o more = Replies(0, k)
    BY <1>0, SpansJoin
  <2>3. Replies(0, j) \in Seq(Items) /\ more \in Seq(Items)
    BY <1>0, SpanType
  <2>4. front \in Seq(Items)
    BY SilentParts
  <2> HIDE DEF bus, more, front
  <2>5. (front \o Replies(0, j)) \o more = front \o (Replies(0, j) \o more)
    BY <2>3, <2>4, ConcatAssociative
  <2> QED BY <2>1, <2>2, <2>5
<1>6. Fits(Replies(h, j) \o more) = Replies(h, k)
  <2>1. Replies(h, j) \o more = Replies(h, k)
    BY SpansJoin
  <2>2. Replies(h, k) \in Seq(Items) /\ Len(Replies(h, k)) = k - h
    BY <1>0, SpanType
  <2> HIDE DEF more
  <2> QED BY <2>1, <2>2, FitsSame
<1>7. Exec(c, st) = State(Opening \o Asked(k), << >>, Replies(h, k))
  BY <1>4, <1>5, <1>6
<1> QED BY <1>7 DEF Reading, st

-----------------------------------------------------------------------------
(* The invariant.                                                          *)

AtNext(op) == cmds # << >> /\ Head(cmds) = op

(* What the bus will have seen when the list is done.                      *)
SoFar ==
  CASE AtNext("rstart") -> << >>
    [] AtNext("write")  -> IF needAddress THEN <<Start>>
                           ELSE <<Start>> \o (<<ToWrite>> \o Written(0, head))
    [] AtNext("read")   -> IF needAddress \/ needRestart THEN Opening
                           ELSE Opening \o Asked(head + readTo.len)
    [] AtNext("stop")   -> Body
    [] OTHER            -> Whole

(* From the present state of bus and FIFOs the list leads there, and to    *)
(* the bytes that transmit is about to fetch.                              *)
Now == State(wire, txFifo, rxFifo)
Due == State(SoFar, << >>, Replies(readTo.from, readTo.from + readTo.len))
Sound == clean /\ ~lost /\ pc # "idle"
GoesOn == Sound => Runs(List, Now, Due)

(* What has been fetched is in its place.                                  *)
Fetched == IF AtNext("read") THEN head ELSE readTo.from
FetchedOK == Sound => \A i \in 1 .. Fetched : r[i] = Item("reply", i)

(* No command is forgotten, and the slice follows what was fetched.        *)
PresentOK ==
  pc # "idle" =>
    /\ AtNext("rstart") /\ job.w > 0 => \E k \in DOMAIN cmds : cmds[k] = "write"
    /\ (AtNext("rstart") \/ AtNext("write")) /\ job.r > 0 =>
         \E k \in DOMAIN cmds : cmds[k] = "read"
SliceOK ==
  pc # "idle" =>
    /\ AtNext("rstart") => readTo = NoSlice
    /\ AtNext("read") =>
         /\ needAddress => job.w = 0
         /\ needRestart => job.w > 0
         /\ needAddress \/ needRestart => head = 0 /\ readTo = NoSlice
         /\ readTo = NoSlice \/ readTo.from = head
    /\ cmds = << >> \/ AtNext("stop") => readTo.from + readTo.len = job.r

(* Between calls.                                                          *)
IdleOK ==
  clean /\ pc = "idle" =>
    /\ todo = << >> /\ rxFifo = << >>
    /\ result = "nil" => wire = Whole /\ r = Replies(0, job.r)

(* A call under way has no result yet, and the refusal of a byte of w is   *)
(* seen before transmit goes on.                                           *)
RefusalOK ==
  /\ readLast => job.r > 0
  /\ pc # "idle" => result = "none"
  /\ pc = "idle" /\ todo # << >> => result # "nil"
  /\ refused /\ job.r = 0 => \/ pc = "wait" /\ "nack" \in ints
                             \/ pc = "idle" /\ result # "nil"

OrderOK == PresentOK /\ SliceOK
WireInv == GoesOn /\ FetchedOK /\ IdleOK

LEMMA SoFarOf ==
  /\ AtNext("rstart") => SoFar = << >>
  /\ AtNext("write") /\ needAddress => SoFar = <<Start>>
  /\ AtNext("write") /\ ~needAddress =>
       SoFar = <<Start>> \o (<<ToWrite>> \o Written(0, head))
  /\ AtNext("read") /\ (needAddress \/ needRestart) => SoFar = Opening
  /\ AtNext("read") /\ ~(needAddress \/ needRestart) =>
       SoFar = Opening \o Asked(head + readTo.len)
  /\ AtNext("stop") => SoFar = Body
  /\ cmds = << >> => SoFar = Whole
BY DEF SoFar, AtNext

LEMMA SoFarNext ==
  /\ AtNext("write")' /\ needAddress' => SoFar' = <<Start>>
  /\ AtNext("read")' /\ (needAddress' \/ needRestart') => SoFar' = Opening'
  /\ AtNext("read")' /\ ~(needAddress' \/ needRestart') =>
       SoFar' = Opening' \o Asked(head + readTo.len)'
  /\ AtNext("stop")' => SoFar' = Body'
BY DEF SoFar, AtNext

LEMMA SameJob ==
  ASSUME job' = job
  PROVE  /\ Opening' = Opening /\ Turn' = Turn /\ Body' = Body /\ Whole' = Whole
         /\ \A n : Asked(n)' = Asked(n)
BY DEF Opening, Turn, Body, Whole, Asked

LEMMA PresentNext ==
  ASSUME BusInv, cmds # << >>, Head(cmds) # "stop", cmds' = Tail(cmds), job' = job,
         NEW op, NEW k \in DOMAIN cmds, cmds[k] = op, Head(cmds) # op
  PROVE  /\ \E j \in DOMAIN cmds' : cmds'[j] = op
         /\ Head(cmds') = op \/ Rank[Head(cmds')] < Rank[op]
<1>1. /\ cmds \in Seq(Ops) /\ Head(cmds) = cmds[1] /\ DOMAIN cmds = 1 .. Len(cmds)
      /\ Len(cmds) \in Nat
  BY DEF BusInv, TypeOK, Ops
<1>2. /\ cmds' \in Seq(Ops) /\ Len(cmds') = Len(cmds) - 1
      /\ \A i \in 1 .. Len(cmds') : cmds'[i] = cmds[i + 1]
  BY <1>1, HeadTailProperties
<1>3. k - 1 \in DOMAIN cmds' /\ cmds'[k - 1] = op
  <2>1. k # 1 /\ k \in 1 .. Len(cmds)
    BY <1>1
  <2>2. k - 1 \in 1 .. Len(cmds') /\ (k - 1) + 1 = k
    BY <2>1, <1>1, <1>2
  <2> QED BY <2>2, <1>2
<1>4. CommandsOK' /\ cmds' # << >>
  BY NextIsLater
<1>5. Head(cmds') = cmds'[1] /\ 1 \in DOMAIN cmds'
  BY <1>2, <1>4
<1>6. ASSUME k - 1 # 1 PROVE Rank[Head(cmds')] < Rank[op]
  <2>1. 1 < k - 1
    BY <1>2, <1>3, <1>6
  <2> QED BY <2>1, <1>3, <1>4, <1>5 DEF CommandsOK, InOrder
<1> QED BY <1>3, <1>5, <1>6

LEMMA NextCommandIs ==
  ASSUME BusInv, PresentOK, pc # "idle", cmds # << >>, Head(cmds) # "stop",
         cmds' = Tail(cmds), job' = job
  PROVE  /\ cmds' # << >>
         /\ Head(cmds) = "rstart" => IF job.w > 0 THEN Head(cmds') = "write"
                                     ELSE IF job.r > 0 THEN Head(cmds') = "read"
                                     ELSE Head(cmds') = "stop"
         /\ Head(cmds) = "write" => IF job.r > 0 THEN Head(cmds') = "read"
                                    ELSE Head(cmds') = "stop"
         /\ Head(cmds) = "read" => Head(cmds') = "stop"
         /\ PresentOK'
<1>1. /\ cmds' # << >> /\ Head(cmds') \in Ops /\ Rank[Head(cmds)] < Rank[Head(cmds')]
      /\ Head(cmds') = "write" => job.w > 0
      /\ Head(cmds') = "read" => job.r > 0
  BY NextIsLater
<1>2. Head(cmds') # "rstart" /\ (Head(cmds) = "write" => Head(cmds') \in {"read", "stop"})
      /\ (Head(cmds) = "read" => Head(cmds') = "stop")
      /\ Head(cmds) \in {"rstart", "write", "read"}
  <2>1. Head(cmds) \in Ops
    BY DEF BusInv, TypeOK, Ops
  <2> QED BY <2>1, <1>1, RoomOf DEF Ops
<1>3. ASSUME Head(cmds) = "rstart", job.w > 0 PROVE Head(cmds') = "write"
  <2>1. PICK k \in DOMAIN cmds : cmds[k] = "write"
    BY <1>3 DEF PresentOK, AtNext
  <2>2. Head(cmds') = "write" \/ Rank[Head(cmds')] < Rank["write"]
    BY <2>1, <1>3, PresentNext
  <2> QED BY <2>2, <1>1, <1>2, RoomOf DEF Ops
<1>4. ASSUME Head(cmds) \in {"rstart", "write"}, job.r > 0
      PROVE  /\ \E j \in DOMAIN cmds' : cmds'[j] = "read"
             /\ Head(cmds') \in {"write", "read"}
  <2>1. PICK k \in DOMAIN cmds : cmds[k] = "read"
    BY <1>4 DEF PresentOK, AtNext
  <2>2. /\ \E j \in DOMAIN cmds' : cmds'[j] = "read"
        /\ Head(cmds') = "read" \/ Rank[Head(cmds')] < Rank["read"]
    BY <2>1, <1>4, PresentNext
  <2> QED BY <2>2, <1>1, <1>2, RoomOf DEF Ops
<1>5. PresentOK'
  BY <1>1, <1>2, <1>4 DEF PresentOK, AtNext
<1>6. job.w \in Nat /\ job.r \in Nat
  BY JobType
<1> QED BY <1>1, <1>2, <1>3, <1>4, <1>5, <1>6 DEF Ops

-----------------------------------------------------------------------------
(* A refusal is not forgotten.                                             *)

LEMMA RefusalStep == ASSUME BusInv, RefusalOK, [Next]_vars PROVE RefusalOK'
<1>1. /\ ints # {} => todo = << >>
      /\ pc = "build" => todo = << >> /\ ints = {}
      /\ pc \in {"idle", "build", "wait"}
  BY DEF BusInv, PlaceOK, ListsOK, TypeOK
<1>2. CASE Controller
  <2>1. todo # << >> /\ SoftwareIdle
    BY <1>2 DEF Controller, Executes, ExecRestart, ExecStop, ExecEnd, ExecTimeout, ExecWrite,
       ExecRead, ExecRefused
  <2>2. ints = {} /\ pc # "build" /\ (pc = "idle" => result # "nil")
    BY <2>1, <1>1 DEF RefusalOK
  <2>3. refused' = refused \/ "nack" \in ints'
    BY <1>2 DEF Controller, ExecRestart, ExecStop, ExecEnd, ExecTimeout, ExecWrite,
       ExecRead, ExecRefused
  <2> QED BY <2>1, <2>2, <2>3, <1>1 DEF RefusalOK, SoftwareIdle, callVars, stateVars
<1>3. CASE Fail \/ GiveUp
  <2>1. /\ pc' = "idle" /\ result' \in {"ack", "timeout"}
        /\ UNCHANGED <<job, readLast, refused>>
    BY <1>3 DEF Fail, GiveUp, Return, stateVars
  <2> QED BY <2>1 DEF RefusalOK
<1>4. CASE Fetch
  <2>1. /\ pc = "wait" /\ ints # {} /\ ~("nack" \in ints /\ ~readLast)
        /\ UNCHANGED <<job, readLast, refused, todo>>
        /\ pc' # "idle" => result' = result
    BY <1>4 DEF Fetch, NackSeen
  <2>2. todo' = << >> /\ ~(refused /\ job.r = 0)
    <3>1. job.r \in Nat
      BY JobType
    <3> QED BY <2>1, <1>1, <3>1 DEF RefusalOK
  <2> QED BY <2>1, <2>2 DEF RefusalOK
<1>5. CASE Configure
  BY <1>5 DEF Configure, RefusalOK, stateVars
<1>6. CASE \E w \in WriteLens, n \in ReadLens : Tx(w, n)
  BY <1>6 DEF Tx, RefusalOK
<1>7. CASE Restart \/ Write \/ StopCommand
  <2>1. pc = "build" /\ UNCHANGED <<job, result, readLast, refused>>
    BY <1>7 DEF Restart, Write, StopCommand, callVars, coreVars
  <2>2. pc' \in {"build", "wait"}
    BY <1>7, <2>1 DEF Restart, Write, StopCommand, NextCommand, Transfer
  <2> QED BY <2>1, <2>2 DEF RefusalOK
<1>8. CASE Read
  <2>1. pc = "build" /\ UNCHANGED <<job, refused, result>> /\ job.r > 0
    <3>1. job.r \in Nat /\ Left \in Nat \ {0} /\ head \in Nat
      BY <1>8, ReadFacts, ReadSize, JobType
    <3>2. job.r > 0
      BY <3>1 DEF Left
    <3> QED BY <3>2, <1>8, ReadFacts DEF callVars, coreVars
  <2>2. pc' \in {"build", "wait"}
    BY <1>8, ReadFacts
  <2> QED BY <2>1, <2>2 DEF RefusalOK
<1>9. CASE UNCHANGED vars
  BY <1>9 DEF vars, callVars, stateVars, coreVars, RefusalOK
<1> QED BY <1>2, <1>3, <1>4, <1>5, <1>6, <1>7, <1>8, <1>9 DEF Next, Transmit

-----------------------------------------------------------------------------
(* Commands and slices stay in order.                                      *)

LEMMA OrderTx ==
  ASSUME BusInv, NEW w \in WriteLens, NEW n \in ReadLens, Tx(w, n) PROVE OrderOK'
<1>1. w \in Nat /\ n \in Nat
  BY I2cAssumption
<1>2. cmds' = Commands(w, n) /\ job' = [w |-> w, r |-> n] /\ readTo' = NoSlice
  BY DEF Tx, Commands
<1>3. PresentOK'
  BY <1>1, <1>2, NewCommands DEF PresentOK, AtNext
<1>4. SliceOK'
  BY <1>1, <1>2, NewCommands DEF SliceOK, AtNext
<1> QED BY <1>3, <1>4 DEF OrderOK

LEMMA OrderRestart == ASSUME BusInv, OrderOK, Restart PROVE OrderOK'
<1>1. /\ pc = "build" /\ cmds # << >> /\ Head(cmds) = "rstart"
      /\ cmds' = Tail(cmds) /\ head' = 0
      /\ UNCHANGED <<pc, job, needAddress, needRestart, readTo>>
  BY DEF BusInv, PlaceOK, Restart, NextCommand, callVars
<1>2. needAddress /\ ~needRestart /\ readTo = NoSlice
  BY <1>1 DEF BusInv, PlaceOK, OrderOK, SliceOK, AtNext
<1>3. /\ cmds' # << >> /\ PresentOK'
      /\ IF job.w > 0 THEN Head(cmds') = "write"
         ELSE IF job.r > 0 THEN Head(cmds') = "read" ELSE Head(cmds') = "stop"
  BY <1>1, NextCommandIs DEF OrderOK
<1>4. job.w \in Nat /\ job.r \in Nat
  BY JobType
<1>5. SliceOK'
  BY <1>1, <1>2, <1>3, <1>4 DEF SliceOK, AtNext, NoSlice
<1> QED BY <1>3, <1>5 DEF OrderOK

LEMMA OrderWrite == ASSUME BusInv, OrderOK, Write PROVE OrderOK'
<1>1. /\ pc = "build" /\ cmds # << >> /\ Head(cmds) = "write"
      /\ needAddress' = FALSE /\ needRestart' = TRUE
      /\ UNCHANGED <<job, readTo>>
  BY WriteFacts DEF callVars
<1>2. readTo = NoSlice /\ job.w > 0 /\ job.r \in Nat
  <2>1. job.w \in Nat /\ head \in Nat /\ job.r \in Nat
    BY JobType
  <2> QED BY <1>1, <2>1 DEF BusInv, PlaceOK
<1>3. CASE cmds' = cmds
  BY <1>1, <1>3 DEF OrderOK, PresentOK, SliceOK, AtNext
<1>4. CASE cmds' = Tail(cmds) /\ head' = 0
  <2>1. /\ cmds' # << >> /\ PresentOK'
        /\ IF job.r > 0 THEN Head(cmds') = "read" ELSE Head(cmds') = "stop"
    BY <1>1, <1>4, NextCommandIs DEF OrderOK
  <2>2. SliceOK'
    BY <1>1, <1>2, <1>4, <2>1 DEF SliceOK, AtNext, NoSlice
  <2> QED BY <2>1, <2>2 DEF OrderOK
<1> QED BY <1>3, <1>4, WriteFacts

LEMMA OrderRead == ASSUME BusInv, OrderOK, Read PROVE OrderOK'
<1>1. /\ pc = "build" /\ cmds # << >> /\ Head(cmds) = "read"
      /\ needAddress' = FALSE /\ needRestart' = FALSE /\ job' = job
  BY ReadFacts DEF callVars
<1>2. /\ job.r \in Nat /\ head \in Nat /\ Getting \in Nat
      /\ Split(Left) => head + (Getting + 1) = job.r
  BY <1>1, JobType, ReadSize
<1>3. CASE /\ ~Split(Left) /\ cmds' = cmds /\ head' = head
           /\ readTo' = [from |-> head, len |-> Getting]
  BY <1>1, <1>3 DEF OrderOK, PresentOK, SliceOK, AtNext
<1>4. CASE /\ Split(Left) /\ cmds' = Tail(cmds)
           /\ readTo' = [from |-> head, len |-> Getting + 1]
  <2>1. cmds' # << >> /\ PresentOK' /\ Head(cmds') = "stop"
    BY <1>1, <1>4, NextCommandIs DEF OrderOK
  <2>2. SliceOK'
    BY <1>1, <1>2, <1>4, <2>1 DEF SliceOK, AtNext
  <2> QED BY <2>1, <2>2 DEF OrderOK
<1> QED BY <1>3, <1>4, ReadFacts

LEMMA OrderFetch == ASSUME BusInv, OrderOK, Fetch PROVE OrderOK'
<1>1. /\ pc = "wait" /\ readTo' = NoSlice /\ UNCHANGED <<cmds, job, needAddress, needRestart>>
      /\ IF cmds = << >> THEN pc' = "idle" ELSE pc' = "build" /\ head' = head + readTo.len
  BY DEF Fetch, AfterSlice
<1>2. cmds # << >> => Head(cmds) \in {"write", "read"}
  BY <1>1 DEF BusInv, PlaceOK
<1>3. PresentOK'
  BY <1>1 DEF OrderOK, PresentOK, AtNext
<1>4. SliceOK'
  BY <1>1, <1>2 DEF OrderOK, SliceOK, AtNext, NoSlice
<1> QED BY <1>3, <1>4 DEF OrderOK

LEMMA OrderStep == ASSUME BusInv, OrderOK, [Next]_vars PROVE OrderOK'
<1>1. CASE Controller \/ UNCHANGED vars
  <2>1. UNCHANGED <<pc, job, cmds, head, needAddress, needRestart, readTo>>
    BY <1>1 DEF Controller, ExecRestart, ExecStop, ExecEnd, ExecTimeout, ExecWrite, ExecRead,
       ExecRefused, SoftwareIdle, callVars, stateVars, vars
  <2> QED BY <2>1 DEF OrderOK, PresentOK, SliceOK, AtNext
<1>2. CASE StopCommand
  <2>1. /\ pc = "build" /\ cmds # << >> /\ Head(cmds) = "stop" /\ cmds' = << >>
        /\ UNCHANGED <<job, readTo>>
    BY <1>2 DEF BusInv, PlaceOK, StopCommand, callVars
  <2> QED BY <2>1 DEF OrderOK, PresentOK, SliceOK, AtNext
<1>3. CASE Configure \/ Fail \/ GiveUp
  <2>1. pc' = "idle"
    BY <1>3 DEF Configure, Fail, GiveUp, Return
  <2> QED BY <2>1 DEF OrderOK, PresentOK, SliceOK
<1>4. CASE \E w \in WriteLens, n \in ReadLens : Tx(w, n)
  BY <1>4, OrderTx
<1> QED BY <1>1, <1>2, <1>3, <1>4, OrderRestart, OrderWrite, OrderRead, OrderFetch
        DEF Next, Transmit

-----------------------------------------------------------------------------
(* The controller gets on with the list.                                   *)

LEMMA NowType == ASSUME BusInv PROVE Now \in States
BY StateType DEF BusInv, TypeOK, Now

LEMMA IdleDone ==
  ASSUME WireInv, clean, todo # << >>, ~lost, BusInv
  PROVE  pc = "wait" /\ Runs(todo, Now, Due)
<1>1. pc = "wait"
  BY DEF WireInv, IdleOK, BusInv, PlaceOK, TypeOK
<1> QED BY <1>1 DEF WireInv, GoesOn, Sound, List

(* A command is executed as Exec says.                                     *)
LEMMA ExecutedGoesOn ==
  ASSUME BusInv, WireInv, todo # << >>, todo' = Tail(todo), SoftwareIdle, clean' = clean,
         Now' = Exec(Head(todo), Now)
  PROVE  WireInv'
<1>1. /\ UNCHANGED <<cmds, head, needAddress, needRestart, readTo, r, pc, job, result, lost>>
  BY DEF SoftwareIdle, stateVars, callVars
<1>3. Sound' => Sound /\ clean
  BY <1>1 DEF Sound
<1>4. FetchedOK'
  BY <1>1, <1>3 DEF WireInv, FetchedOK, Fetched, AtNext
<1>5. GoesOn'
  <2> SUFFICES ASSUME Sound' PROVE Runs(List', Now', Due')
    BY DEF GoesOn
  <2>1. pc = "wait" /\ Runs(todo, Now, Due)
    BY <1>3, IdleDone DEF Sound
  <2>2. todo \in Seq(Cmds)
    BY DEF BusInv, TypeOK
  <2>3. Runs(Tail(todo), Exec(Head(todo), Now), Due)
    BY <2>1, <2>2, RunsFirst
  <2>4. Due' = Due
    <3>1. SoFar' = SoFar
      BY <1>1, SameJob DEF SoFar, AtNext
    <3> QED BY <3>1, <1>1 DEF Due
  <2>5. List' = Tail(todo)
    BY <2>1, <1>1 DEF List
  <2> QED BY <2>3, <2>4, <2>5
<1>6. IdleOK'
  <2>1. ~(clean /\ pc = "idle")
    BY DEF WireInv, IdleOK
  <2> QED BY <2>1, <1>1 DEF IdleOK
<1> QED BY <1>4, <1>5, <1>6 DEF WireInv

LEMMA UncleanWire == ASSUME clean' = FALSE PROVE WireInv'
BY DEF WireInv, GoesOn, FetchedOK, IdleOK, Sound

LEMMA ControllerWire == ASSUME BusInv, WireInv, Controller PROVE WireInv'
<1> DEFINE c == Head(todo)
<1>1. /\ wire \in Seq(Items) /\ txFifo \in Seq(Items) /\ rxFifo \in Seq(Items)
      /\ Now = State(wire, txFifo, rxFifo) /\ Now' = State(wire', txFifo', rxFifo')
  BY DEF BusInv, TypeOK, Now
<1>2. Now.bus = wire /\ Now.tx = txFifo /\ Now.rx = rxFifo
  BY DEF Now, State
<1>3. CASE ExecRestart \/ ExecStop
  <2>1. /\ todo # << >> /\ todo' = Tail(todo) /\ SoftwareIdle /\ clean' = clean
        /\ UNCHANGED <<txFifo, rxFifo>>
        /\ \/ c.op = "rstart" /\ wire' = Append(wire, Start)
           \/ c.op = "stop" /\ wire' = Append(wire, Stop)
    BY <1>3 DEF ExecRestart, ExecStop, Executes
  <2>2. Append(wire, Start) = wire \o <<Start>> /\ Append(wire, Stop) = wire \o <<Stop>>
    BY <1>1, ItemType, Appended
  <2>3. Now' = Exec(c, Now)
    BY <2>1, <2>2, <1>1, <1>2, ExecOf
  <2> QED BY <2>1, <2>3, ExecutedGoesOn
<1>4. CASE ExecEnd
  <2>1. /\ todo # << >> /\ todo' = Tail(todo) /\ SoftwareIdle /\ clean' = clean
        /\ UNCHANGED <<txFifo, rxFifo, wire>> /\ c.op = "end"
    BY <1>4 DEF ExecEnd, Executes
  <2>2. Now' = Exec(c, Now)
    BY <2>1, <1>1, ExecOf
  <2> QED BY <2>1, <2>2, ExecutedGoesOn
<1>5. CASE ExecWrite
  <2>1. /\ todo # << >> /\ todo' = Tail(todo) /\ SoftwareIdle /\ clean' = clean
        /\ rxFifo' = rxFifo /\ c.op = "write"
        /\ wire' = wire \o SubSeq(txFifo, 1, c.n) /\ txFifo' = Drop(txFifo, c.n)
    BY <1>5 DEF ExecWrite, Executes
  <2>2. Now' = Exec(c, Now)
    BY <2>1, <1>1, <1>2, ExecOf
  <2> QED BY <2>1, <2>2, ExecutedGoesOn
<1>6. CASE ExecRead
  <2>1. /\ todo # << >> /\ todo' = Tail(todo) /\ SoftwareIdle /\ clean' = clean
        /\ txFifo' = txFifo /\ Reads(c)
        /\ wire' = wire \o Replies(ReadSoFar, ReadSoFar + c.n)
        /\ rxFifo' = Fits(rxFifo \o Replies(ReadSoFar, ReadSoFar + c.n))
    BY <1>6 DEF ExecRead, Executes, Reads
  <2>2. Answer(c, Now) = Replies(ReadSoFar, ReadSoFar + c.n)
    BY <1>2 DEF Answer, Replied, ReadSoFar
  <2>3. Now' = Exec(c, Now)
    BY <2>1, <2>2, <1>1, <1>2, ExecOf
  <2> QED BY <2>1, <2>3, ExecutedGoesOn
<1>7. CASE ExecTimeout \/ \E k \in 1 .. Depth : ExecRefused(k)
  BY <1>7, UncleanWire DEF ExecTimeout, ExecRefused
<1> QED BY <1>3, <1>4, <1>5, <1>6, <1>7 DEF Controller

-----------------------------------------------------------------------------
(* A call begins and ends.                                                 *)

LEMMA ConfigureWire == ASSUME Configure PROVE WireInv'
BY DEF Configure, WireInv, GoesOn, FetchedOK, IdleOK, Sound

LEMMA ReturnWire == ASSUME BusInv, LoadInv, Fail \/ GiveUp PROVE WireInv'
<1>1. clean' = FALSE
  <2>1. CASE GiveUp
    BY <2>1 DEF GiveUp
  <2>2. CASE Fail
    <3>1. /\ pc = "wait" /\ clean' = clean
          /\ ("nack" \in ints /\ ~readLast) \/ "timeout" \in ints
      BY <2>2 DEF Fail, NackSeen
    <3>2. ~clean /\ clean \in BOOLEAN
      BY <3>1 DEF LoadInv, FifoOK, BusInv, TypeOK
    <3> QED BY <3>1, <3>2
  <2> QED BY <2>1, <2>2
<1> QED BY <1>1, UncleanWire

LEMMA TxWire ==
  ASSUME BusInv, LoadInv, WireInv, NEW w \in WriteLens, NEW n \in ReadLens, Tx(w, n)
  PROVE  WireInv'
<1>1. w \in Nat /\ n \in Nat
  BY I2cAssumption
<1>2. /\ cmds' = Commands(w, n) /\ readTo' = NoSlice /\ pc' = "build" /\ pc = "idle"
      /\ comd' = << >> /\ wire' = << >> /\ todo = << >> /\ UNCHANGED <<txFifo, rxFifo, clean>>
  BY DEF Tx, Commands
<1>3. AtNext("rstart")'
  BY <1>1, <1>2, NewCommands DEF AtNext
<1>4. SoFar' = << >>
  BY <1>3 DEF SoFar, AtNext
<1>5. Replies(0, 0) = << >>
  BY NoSpan
<1>6. Due' = State(<< >>, << >>, << >>)
  BY <1>2, <1>4, <1>5 DEF Due, NoSlice
<1>7. ASSUME clean PROVE Now' = State(<< >>, << >>, << >>)
  <2>1. rxFifo = << >>
    BY <1>2, <1>7 DEF WireInv, IdleOK
  <2>2. Matched(<< >>)
    BY <1>2, <1>7 DEF LoadInv, FifoOK, List
  <2>3. txFifo = << >>
    BY <2>2, MatchedNothing
  <2> QED BY <2>1, <2>3, <1>2 DEF Now
<1>8. GoesOn'
  <2> SUFFICES ASSUME clean PROVE Runs(List', Now', Due')
    BY <1>2 DEF GoesOn, Sound
  <2>1. List' = << >> /\ State(<< >>, << >>, << >>) \in States
    BY <1>2, NothingFits, StateType DEF List
  <2> QED BY <2>1, <1>6, <1>7, RunsNothing
<1>9. FetchedOK'
  <2>1. Fetched' = 0
    BY <1>2, <1>3 DEF Fetched, AtNext, NoSlice
  <2> QED BY <2>1 DEF FetchedOK
<1>10. IdleOK'
  BY <1>2 DEF IdleOK
<1> QED BY <1>8, <1>9, <1>10 DEF WireInv

(* What a list has read is fetched.                                        *)
LEMMA FetchWire ==
  ASSUME BusInv, LoadInv, OrderOK, WireInv, Fetch PROVE WireInv'
<1>1. /\ pc = "wait" /\ ints # {} /\ readTo' = NoSlice /\ head' = AfterSlice
      /\ r' = [i \in DOMAIN r |->
                IF i \in readTo.from + 1 .. readTo.from + readTo.len
                  THEN LET k == i - readTo.from
                       IN  IF k <= Len(rxFifo) THEN rxFifo[k] ELSE Junk
                  ELSE r[i]]
      /\ rxFifo' = Drop(rxFifo, readTo.len)
      /\ IF cmds = << >> THEN pc' = "idle" /\ result' = "nil" ELSE pc' = "build"
      /\ UNCHANGED <<job, cmds, needAddress, needRestart, comd, txFifo, todo, lost, wire, clean>>
  BY DEF Fetch
<1>2. todo = << >> /\ comd = << >> /\ (cmds # << >> => Head(cmds) \in {"write", "read"})
  BY <1>1 DEF BusInv, PlaceOK, ListsOK
<1> SUFFICES ASSUME clean PROVE WireInv'
  <2>1. clean \in BOOLEAN
    BY DEF BusInv, TypeOK
  <2> QED BY <2>1, <1>1, UncleanWire
<1>3. ~lost
  <2>1. Matched(<< >>)
    BY <1>1, <1>2 DEF LoadInv, FifoOK, List
  <2> QED BY <2>1, MatchedNothing
<1> DEFINE from == readTo.from
           len == readTo.len
           upTo == from + len
<1>4. Now = Due
  <2>1. Runs(<< >>, Now, Due)
    BY <1>1, <1>2, <1>3 DEF WireInv, GoesOn, Sound, List
  <2> QED BY <2>1, NowType, RunsNothing
<1>5. wire = SoFar /\ txFifo = << >> /\ rxFifo = Replies(from, upTo)
  BY <1>4 DEF Now, Due, State
<1>6. /\ from \in Nat /\ len \in Nat /\ upTo \in Nat /\ from <= upTo /\ upTo - from = len
      /\ upTo <= job.r /\ job.r \in Nat /\ job.w \in Nat /\ head \in Nat
      /\ DOMAIN r = 1 .. job.r /\ r \in Seq(Items) /\ Len(r) = job.r
  <2>1. from \in Nat /\ len \in Nat /\ from + len <= job.r /\ r \in Seq(Items) /\ Len(r) = job.r
    BY DEF BusInv, TypeOK
  <2> QED BY <2>1, JobType
<1>7. /\ rxFifo \in Seq(Items) /\ Len(rxFifo) = len
      /\ \A k \in 1 .. len : rxFifo[k] = Item("reply", from + k)
  <2> HIDE DEF from, len, upTo
  <2> DEFINE s == Replies(from, upTo)
  <2>1. /\ s \in Seq(Items) /\ Len(s) = upTo - from
        /\ \A i \in 1 .. upTo - from : s[i] = Item("reply", from + i)
    BY <1>6, SpanType
  <2>2. rxFifo = s
    BY <1>5
  <2> HIDE DEF s
  <2> QED BY <2>1, <2>2, <1>6
<1>8. rxFifo' = << >>
  <2>0. rxFifo' = Drop(rxFifo, len)
    BY <1>1
  <2> HIDE DEF from, len, upTo
  <2>1. Drop(rxFifo, len) \in Seq(Items) /\ Len(Drop(rxFifo, len)) = 0
    BY <1>6, <1>7, DropType
  <2>2. Drop(rxFifo, len) = << >>
    BY <2>1, EmptySeq
  <2> QED BY <2>0, <2>2
<1>9. \A i \in 1 .. Fetched : r[i] = Item("reply", i)
  BY <1>1, <1>3 DEF WireInv, FetchedOK, Sound
<1>10. from <= Fetched /\ Fetched \in Nat /\ (len = 0 \/ from = Fetched)
  <2>1. CASE AtNext("read")
    <3>1. readTo = NoSlice \/ from = head
      BY <1>1, <2>1 DEF OrderOK, SliceOK
    <3>2. readTo = NoSlice => from = 0 /\ len = 0
      BY DEF NoSlice
    <3>3. Fetched = head
      BY <2>1 DEF Fetched
    <3> HIDE DEF from, len, upTo
    <3> QED BY <3>1, <3>2, <3>3, <1>6
  <2>2. CASE ~AtNext("read")
    <3>1. Fetched = from
      BY <2>2 DEF Fetched
    <3> HIDE DEF from, len, upTo
    <3> QED BY <3>1, <1>6
  <2> QED BY <2>1, <2>2
<1> HIDE DEF from, len, upTo
<1>12. ASSUME NEW i \in 1 .. job.r, i <= Fetched \/ i <= upTo PROVE r'[i] = Item("reply", i)
  <2>1. i \in DOMAIN r
    BY <1>6
  <2>2. CASE i \in from + 1 .. upTo
    <3>1. i - from \in 1 .. len /\ i - from <= len /\ from + (i - from) = i
      BY <2>2, <1>6
    <3>2. r'[i] = rxFifo[i - from]
      BY <2>1, <2>2, <3>1, <1>1, <1>7 DEF from, len, upTo
    <3> QED BY <3>1, <3>2, <1>7
  <2>3. CASE i \notin from + 1 .. upTo
    <3>1. i \in 1 .. Fetched
      BY <2>3, <1>6, <1>10, <1>12
    <3>2. r'[i] = r[i]
      BY <2>1, <2>3, <1>1 DEF from, len, upTo
    <3> QED BY <3>1, <3>2, <1>9
  <2> QED BY <2>2, <2>3
<1>13. CASE cmds = << >>
  <2>1. wire = Whole /\ upTo = job.r
    BY <1>1, <1>5, <1>13, SoFarOf DEF OrderOK, SliceOK, from, len, upTo
  <2>2. wire' = Whole'
    BY <2>1, <1>1, SameJob
  <2>3. r' = Replies(0, job.r)
    <3> DEFINE s == Replies(0, job.r)
    <3>1. 0 \in Nat /\ 0 <= job.r /\ job.r - 0 = job.r /\ \A i \in 1 .. job.r : 0 + i = i
      BY <1>6
    <3>2. s \in Seq(Items) /\ Len(s) = job.r - 0
          /\ \A i \in 1 .. job.r - 0 : s[i] = Item("reply", 0 + i)
      BY <3>1, <1>6, SpanType
    <3> HIDE DEF s
    <3>3. \A i \in 1 .. job.r : s[i] = Item("reply", i)
      BY <3>1, <3>2
    <3>4. s = [i \in 1 .. job.r |-> s[i]]
      BY <3>1, <3>2
    <3>5. r' = [i \in 1 .. job.r |-> r'[i]]
      BY <1>1, <1>6
    <3>6. \A i \in 1 .. job.r : r'[i] = s[i]
      BY <3>3, <2>1, <1>12
    <3> QED BY <3>4, <3>5, <3>6 DEF s
  <2> QED BY <2>2, <2>3, <1>1, <1>2, <1>8, <1>13 DEF WireInv, GoesOn, FetchedOK, IdleOK, Sound
<1>14. CASE cmds # << >>
  <2>1. pc' = "build" /\ head' = head + len /\ (AtNext("write") \/ AtNext("read"))
        /\ (AtNext("write") <=> AtNext("write")') /\ (AtNext("read") <=> AtNext("read")')
    BY <1>1, <1>2, <1>14 DEF AfterSlice, AtNext, len
  <2>2. SoFar' = SoFar
    <3>1. CASE AtNext("write")
      <4>1. ~AtNext("read") /\ ~AtNext("rstart")
        BY <3>1 DEF AtNext
      <4>2. readTo = NoSlice
        BY <1>1, <3>1 DEF BusInv, PlaceOK, AtNext
      <4>3. head' = head
        BY <2>1, <4>2, <1>6 DEF len, NoSlice
      <4> QED BY <3>1, <4>3, <2>1, <1>1 DEF SoFar, AtNext
    <3>2. CASE AtNext("read")
      <4>1. head' + readTo'.len = head + readTo.len
        BY <2>1, <1>1, <1>6 DEF len, NoSlice
      <4> QED BY <3>2, <4>1, <2>1, <1>1, SameJob DEF SoFar, AtNext
    <3> QED BY <3>1, <3>2, <2>1
  <2>3. Runs(List', Now', Due')
    <3>1. Due' = State(SoFar, << >>, << >>)
      <4>1. Replies(0, 0) = << >>
        BY NoSpan
      <4> QED BY <4>1, <2>2, <1>1 DEF Due, NoSlice
    <3>2. Now' = State(SoFar, << >>, << >>)
      BY <1>1, <1>5, <1>8 DEF Now
    <3>3. Now' \in States
      <4>1. wire' \in Seq(Items) /\ txFifo' \in Seq(Items) /\ rxFifo' \in Seq(Items)
        BY <1>1, <1>8, NothingFits DEF BusInv, TypeOK
      <4> QED BY <4>1, StateType DEF Now
    <3>4. List' = << >>
      BY <1>1, <1>2, <2>1 DEF List
    <3> QED BY <3>1, <3>2, <3>3, <3>4, RunsNothing
  <2>4. \A i \in 1 .. Fetched' : r'[i] = Item("reply", i)
    <3>1. CASE AtNext("read")
      <4>1. Fetched = head /\ Fetched' = head + len
        BY <3>1, <2>1 DEF Fetched
      <4>2. head + len <= job.r /\ head + len \in Nat
        BY <1>1, <1>6, <3>1 DEF BusInv, PlaceOK, AtNext, len
      <4>3. \A i \in 1 .. head + len : i \in 1 .. job.r /\ (i <= Fetched \/ i <= upTo)
        BY <4>1, <4>2, <1>6, <1>10
      <4> QED BY <4>1, <4>3, <1>12
    <3>2. CASE ~AtNext("read")
      <4>1. Fetched' = 0
        BY <3>2, <2>1, <1>1 DEF Fetched, NoSlice
      <4> QED BY <4>1
    <3> QED BY <3>1, <3>2
  <2> QED BY <2>1, <2>3, <2>4 DEF WireInv, GoesOn, FetchedOK, IdleOK
<1> QED BY <1>13, <1>14
-----------------------------------------------------------------------------
(* A list is built.                                                        *)

(* A write that takes all the FIFO holds puts it on the bus.               *)
LEMMA SendsAll ==
  ASSUME NEW c, NEW b, NEW rx, NEW s \in Seq(Items), c.op = "write", c.n = Len(s)
  PROVE  Can(c, State(b, s, rx)) /\ Exec(c, State(b, s, rx)) = State(b \o s, << >>, rx)
<1> DEFINE st == State(b, s, rx)
<1>1. st.bus = b /\ st.tx = s /\ st.rx = rx
  BY DEF State
<1> HIDE DEF st
<1>2. Len(s) \in Nat /\ SubSeq(s, 1, Len(s)) = s
  BY SubSeqFull
<1>3. Drop(s, Len(s)) \in Seq(Items) /\ Len(Drop(s, Len(s))) = 0
  BY <1>2, DropType
<1>4. Drop(s, Len(s)) = << >>
  BY <1>3, EmptySeq
<1>5. Exec(c, st) = State(st.bus \o SubSeq(st.tx, 1, c.n), Drop(st.tx, c.n), st.rx)
  BY ExecOf
<1>6. Can(c, st)
  BY <1>1, <1>2 DEF Can
<1> QED BY <1>1, <1>2, <1>4, <1>5, <1>6 DEF st

(* Before a command other than STOP, the list so far leads to what the     *)
(* call has put on the bus, with the bytes pushed now left over.           *)
LEMMA Building ==
  ASSUME BusInv, WireInv, Sound, pc = "build", Head(cmds) # "stop",
         NEW t \in Seq(Items), Push(t), ~lost', UNCHANGED <<wire, rxFifo>>
  PROVE  Runs(comd, Now', State(SoFar, t, << >>))
<1>1. Runs(comd, Now, State(SoFar, << >>, << >>))
  <2>1. readTo = NoSlice
    BY DEF BusInv, PlaceOK
  <2>2. Replies(0, 0) = << >>
    BY NoSpan
  <2> QED BY <2>1, <2>2 DEF WireInv, GoesOn, List, Due, NoSlice
<1>2. comd \in Seq(Cmds) /\ txFifo \in Seq(Items) /\ << >> \o t = t
  BY ConcatEmptySeq DEF BusInv, TypeOK
<1>3. Runs(comd, Grow(Now, t), Grow(State(SoFar, << >>, << >>), t))
  BY <1>1, <1>2, RunsGrow
<1>4. Grow(Now, t) = State(wire, txFifo \o t, rxFifo)
      /\ Grow(State(SoFar, << >>, << >>), t) = State(SoFar, t, << >>)
  BY <1>2, StateParts DEF Grow, Now, State
<1>5. txFifo' = txFifo \o t
  <2>1. txFifo \o t \in Seq(Items) /\ Len(txFifo \o t) = Len(txFifo) + Len(t)
    BY <1>2, ConcatProperties
  <2>2. ~(Len(txFifo) + Len(t) > Depth)
    BY DEF Push
  <2>3. Len(txFifo \o t) <= Depth
    BY <2>1, <2>2, <1>2, I2cAssumption
  <2> QED BY <2>1, <2>3, FitsSame DEF Push
<1> QED BY <1>3, <1>4, <1>5 DEF Now

LEMMA BodyType == ASSUME job.w \in Nat, job.r \in Nat PROVE Body \in Seq(Items)
<1>1. CASE job.r > 0
  BY <1>1, AskedType DEF Body, When
<1>2. CASE ~(job.r > 0)
  <2>1. Opening \in Seq(Items)
    BY SilentParts
  <2>2. Body = Opening \o << >>
    BY <1>2 DEF Body, When
  <2> QED BY <2>1, <2>2, ConcatEmptySeq
<1> QED BY <1>1, <1>2

(* When w or r is empty, so is its part of the transaction.                *)
LEMMA EmptyParts ==
  ASSUME job.w \in Nat, job.r \in Nat
  PROVE  /\ job.w > 0 => Opening = <<Start>> \o (<<ToWrite>> \o Written(0, job.w))
         /\ job.w = 0 => Opening = <<Start>> /\ Turn = <<ToRead>>
         /\ job.w > 0 => Turn = <<Start>> \o <<ToRead>>
         /\ job.r > 0 => Body = Opening \o Asked(job.r)
         /\ job.r = 0 => Body = Opening
<1>1. <<Start>> \in Seq(Items) /\ <<ToRead>> \in Seq(Items) /\ Opening \in Seq(Items)
  BY ItemType, OneType, SilentParts
<1>2. /\ <<Start>> \o << >> = <<Start>> /\ << >> \o <<ToRead>> = <<ToRead>>
      /\ Opening \o << >> = Opening
  BY <1>1, ConcatEmptySeq
<1>3. job.w > 0 => /\ Opening = <<Start>> \o (<<ToWrite>> \o Written(0, job.w))
                   /\ Turn = <<Start>> \o <<ToRead>>
  BY DEF Opening, Turn, When
<1>4. job.w = 0 => Opening = <<Start>> \o << >> /\ Turn = << >> \o <<ToRead>>
  BY DEF Opening, Turn, When
<1>5. job.r > 0 => Body = Opening \o Asked(job.r)
  BY DEF Body, When
<1>6. job.r = 0 => Body = Opening \o << >>
  BY DEF Body, When
<1> QED BY <1>2, <1>3, <1>4, <1>5, <1>6

LEMMA RestartWire == ASSUME BusInv, OrderOK, WireInv, Restart PROVE WireInv'
<1> DEFINE e == Cmd("rstart", 0)
           empty == State(<< >>, << >>, << >>)
           started == State(<<Start>>, << >>, << >>)
<1>1. /\ pc = "build" /\ cmds # << >> /\ Head(cmds) = "rstart" /\ pc' = "build"
      /\ comd' = comd \o <<e>> /\ cmds' = Tail(cmds) /\ head' = 0
      /\ UNCHANGED <<job, needAddress, needRestart, readTo, txFifo, rxFifo, wire, lost, clean>>
  BY DEF BusInv, PlaceOK, Restart, NextCommand, callVars, coreVars
<1>2. needAddress /\ readTo = NoSlice /\ job.w \in Nat /\ job.r \in Nat
  BY <1>1, JobType DEF BusInv, PlaceOK
<1>3. /\ cmds' # << >>
      /\ IF job.w > 0 THEN Head(cmds') = "write"
         ELSE IF job.r > 0 THEN Head(cmds') = "read" ELSE Head(cmds') = "stop"
  BY <1>1, NextCommandIs DEF OrderOK
<1>4. SoFar = << >> /\ SoFar' = <<Start>>
  <2>1. SoFar = << >>
    BY <1>1, SoFarOf DEF AtNext
  <2>2. job.w = 0 => Opening' = <<Start>>
    BY <1>1, <1>2, EmptyParts, SameJob
  <2>3. job.w = 0 /\ job.r = 0 => Body' = <<Start>>
    BY <1>1, <1>2, EmptyParts, SameJob
  <2>4. SoFar' = <<Start>>
    <3>1. \/ job.w > 0 /\ AtNext("write")'
          \/ job.w = 0 /\ AtNext("read")'
          \/ job.w = 0 /\ job.r = 0 /\ AtNext("stop")'
      BY <1>2, <1>3 DEF AtNext
    <3>2. needAddress'
      BY <1>1, <1>2
    <3> QED BY <3>1, <3>2, <2>2, <2>3, SoFarNext
  <2> QED BY <2>1, <2>4
<1>5. Replies(0, 0) = << >>
  BY NoSpan
<1>6. Due = empty /\ Due' = started /\ Now' = Now
  BY <1>1, <1>2, <1>4, <1>5 DEF Due, Now, NoSlice
<1>7. GoesOn'
  <2> SUFFICES ASSUME Sound' PROVE Runs(comd', Now', Due')
    BY <1>1 DEF GoesOn, List
  <2>1. Runs(comd, Now, empty)
    BY <1>1, <1>6 DEF WireInv, GoesOn, Sound, List
  <2>2. e \in Cmds /\ e.op = "rstart" /\ comd \in Seq(Cmds) /\ empty \in States
    BY CmdType, NothingFits, StateType DEF InnerOps, BusInv, TypeOK
  <2>3. Can(e, empty) /\ Exec(e, empty) = started
    <3>1. /\ empty.bus = << >> /\ empty.tx = << >> /\ empty.rx = << >>
          /\ << >> \o <<Start>> = <<Start>>
      BY ConcatEmptySeq, ItemType, OneType DEF State
    <3> HIDE DEF e, empty
    <3> QED BY <2>2, <3>1, ExecOf DEF Can
  <2> HIDE DEF e, empty, started
  <2> QED BY <2>1, <2>2, <2>3, <1>1, <1>6, RunsLast
<1>8. FetchedOK'
  <2>1. Fetched' = 0
    BY <1>1, <1>2 DEF Fetched, NoSlice
  <2> QED BY <2>1 DEF FetchedOK
<1>9. IdleOK'
  BY <1>1 DEF IdleOK
<1> QED BY <1>7, <1>8, <1>9 DEF WireInv

LEMMA StopWire == ASSUME BusInv, OrderOK, WireInv, StopCommand PROVE WireInv'
<1> DEFINE e == Cmd("stop", 0)
           got == Replies(readTo.from, readTo.from + readTo.len)
<1>1. /\ pc = "build" /\ cmds # << >> /\ Head(cmds) = "stop" /\ pc' = "wait" /\ cmds' = << >>
      /\ todo' = comd \o <<e>>
      /\ UNCHANGED <<job, readTo, r, txFifo, rxFifo, wire, lost, clean>>
  BY StopFacts DEF BusInv, PlaceOK, StopCommand, callVars, coreVars
<1>2. job.w \in Nat /\ job.r \in Nat /\ comd \in Seq(Cmds)
  BY JobType DEF BusInv, TypeOK
<1>3. SoFar = Body /\ SoFar' = Body \o <<Stop>>
  <2>1. SoFar = Body
    BY <1>1, SoFarOf DEF AtNext
  <2>2. SoFar' = Whole'
    BY <1>1 DEF SoFar, AtNext
  <2> QED BY <2>1, <2>2, <1>1, SameJob, WholeIsBody
<1>4. Due = State(Body, << >>, got) /\ Due' = State(Body \o <<Stop>>, << >>, got) /\ Now' = Now
  BY <1>1, <1>3 DEF Due, Now
<1>5. GoesOn'
  <2> SUFFICES ASSUME Sound' PROVE Runs(todo', Now', Due')
    BY <1>1 DEF GoesOn, List
  <2>1. Runs(comd, Now, Due)
    BY <1>1 DEF WireInv, GoesOn, Sound, List
  <2>2. e \in Cmds /\ e.op = "stop"
    BY CmdType
  <2>3. got \in Seq(Items)
    <3>1. readTo.from \in Nat /\ readTo.len \in Nat
      BY DEF BusInv, TypeOK
    <3> QED BY <3>1, BytesType
  <2> HIDE DEF e, got
  <2>4. Due \in States
    BY <2>3, <1>2, <1>4, BodyType, NothingFits, StateType
  <2>5. Can(e, Due) /\ Exec(e, Due) = Due'
    <3>1. Due.bus = Body /\ Due.tx = << >> /\ Due.rx = got
      BY <1>4 DEF State
    <3>2. Exec(e, Due) = State(Due.bus \o <<Stop>>, Due.tx, Due.rx)
      BY <2>2, ExecOf
    <3>3. Can(e, Due)
      BY <2>2 DEF Can
    <3> QED BY <3>1, <3>2, <3>3, <1>4
  <2> QED BY <2>1, <2>2, <2>4, <2>5, <1>1, <1>2, <1>4, RunsLast
<1>6. FetchedOK'
  <2>1. Fetched' = Fetched
    BY <1>1 DEF Fetched, AtNext
  <2>2. Sound' => Sound
    BY <1>1 DEF Sound
  <2> QED BY <2>1, <2>2, <1>1 DEF WireInv, FetchedOK
<1>7. IdleOK'
  BY <1>1 DEF IdleOK
<1> QED BY <1>5, <1>6, <1>7 DEF WireInv

LEMMA WriteWire == ASSUME BusInv, OrderOK, WireInv, Write PROVE WireInv'
<1> DEFINE e == Cmd("end", 0)
           reach == <<Start>> \o (<<ToWrite>> \o Written(0, head + Taking))
           there == State(reach, << >>, << >>)
<1>1. /\ pc = "build" /\ cmds # << >> /\ Head(cmds) = "write" /\ Push(Load)
      /\ WriteOf \in Cmds /\ WriteOf.n = Len(Load) /\ WriteOf.op = "write"
      /\ needAddress' = FALSE /\ needRestart' = TRUE
      /\ UNCHANGED <<job, readTo, r, rxFifo, wire, clean>>
  BY WriteFacts DEF Inner, callVars, coreVars
<1>2. /\ job.w \in Nat /\ job.r \in Nat /\ head \in Nat /\ comd \in Seq(Cmds)
      /\ Taking \in Nat /\ Load \in Seq(Items) /\ readTo = NoSlice
      /\ head < job.w /\ (needAddress => head = 0)
  BY <1>1, JobType, LoadSize DEF BusInv, TypeOK, PlaceOK
<1>3. SoFar \o Load = reach /\ SoFar \in Seq(Items) /\ reach \in Seq(Items)
  <2>1. /\ <<Start>> \in Seq(Items) /\ <<ToWrite>> \in Seq(Items)
        /\ Written(0, head) \in Seq(Items) /\ Written(head, head + Taking) \in Seq(Items)
        /\ Written(0, head + Taking) \in Seq(Items)
        /\ Written(0, head) \o Written(head, head + Taking) = Written(0, head + Taking)
    <3>1. 0 \in Nat /\ head + Taking \in Nat /\ 0 <= head /\ head <= head + Taking
          /\ 0 <= head + Taking
      BY <1>2
    <3> QED BY <3>1, <1>2, ItemType, OneType, SpanType, SpansJoin
  <2>2. CASE needAddress
    <3>1. SoFar = <<Start>> /\ head = 0 /\ Load = <<ToWrite>> \o Written(head, head + Taking)
      BY <2>2, <1>1, <1>2, SoFarOf DEF AtNext, Load, When
    <3>2. <<ToWrite>> \o Written(0, head + Taking) \in Seq(Items)
      BY <2>1, ConcatProperties
    <3> QED BY <3>1, <3>2, <2>1, ConcatProperties
  <2>3. CASE ~needAddress
    <3> DEFINE a == Written(0, head)
               b == Written(head, head + Taking)
    <3>1. SoFar = <<Start>> \o (<<ToWrite>> \o a) /\ Load = << >> \o b
      BY <2>3, <1>1, SoFarOf DEF AtNext, Load, When
    <3>2. a \in Seq(Items) /\ b \in Seq(Items) /\ a \o b = Written(0, head + Taking)
      BY <2>1
    <3> HIDE DEF a, b
    <3>3. Load = b
      BY <3>1, <3>2, ConcatEmptySeq
    <3> DEFINE x == <<ToWrite>>
               y == <<Start>>
    <3>4. x \in Seq(Items) /\ y \in Seq(Items) /\ SoFar = y \o (x \o a)
          /\ reach = y \o (x \o (a \o b))
      BY <2>1, <3>1, <3>2
    <3> HIDE DEF x, y, reach
    <3>5. y \in Seq(Items) /\ x \in Seq(Items) /\ a \in Seq(Items) /\ b \in Seq(Items)
      BY <3>2, <3>4
    <3>6. /\ (y \o (x \o a)) \o b = y \o (x \o (a \o b))
          /\ y \o (x \o a) \in Seq(Items) /\ y \o (x \o (a \o b)) \in Seq(Items)
      BY <3>5, FourJoined
    <3> QED BY <3>3, <3>4, <3>6
  <2> QED BY <2>2, <2>3
<1>4. there \in States /\ Replies(0, 0) = << >>
  BY <1>3, NothingFits, StateType, NoSpan
<1> HIDE DEF reach
<1>5. ASSUME Sound' PROVE Sound /\ Runs(comd \o <<WriteOf>>, Now', there)
  <2>1. Sound /\ ~lost'
    BY <1>1, <1>5 DEF Sound, Push
  <2>2. Runs(comd, Now', State(SoFar, Load, << >>))
    BY <2>1, <1>1, <1>2, Building
  <2>3. State(SoFar, Load, << >>) \in States
    BY <1>2, <1>3, NothingFits, StateType
  <2>4. /\ Can(WriteOf, State(SoFar, Load, << >>))
        /\ Exec(WriteOf, State(SoFar, Load, << >>)) = State(SoFar \o Load, << >>, << >>)
    BY <1>1, <1>2, SendsAll
  <2> QED BY <2>1, <2>2, <2>3, <2>4, <1>1, <1>2, <1>3, RunsLast
<1>6. Due' = State(SoFar', << >>, << >>)
  BY <1>1, <1>2, <1>4 DEF Due, NoSlice
<1>7. CASE /\ head + Taking < job.w /\ head' = head + Taking /\ cmds' = cmds
           /\ todo' = comd \o Append(<<WriteOf>>, Cmd("end", 0)) /\ pc' = "wait"
  <2>1. SoFar' = reach
    BY <1>1, <1>7 DEF SoFar, AtNext, reach
  <2>2. ASSUME Sound' PROVE Runs(List', Now', Due')
    <3>1. e \in Cmds /\ e.op = "end" /\ todo' = comd \o Append(<<WriteOf>>, e)
      BY <1>7, CmdType
    <3>2. /\ <<WriteOf>> \in Seq(Cmds) /\ comd \o <<WriteOf>> \in Seq(Cmds)
          /\ Append(<<WriteOf>>, e) = <<WriteOf>> \o <<e>> /\ <<e>> \in Seq(Cmds)
      BY <1>1, <1>2, <3>1, OneType, Appended, ConcatProperties
    <3> HIDE DEF e, there
    <3>3. todo' = (comd \o <<WriteOf>>) \o <<e>>
      BY <1>2, <3>1, <3>2, ConcatAssociative
    <3>4. Can(e, there) /\ Exec(e, there) = there
      BY <3>1, ExecOf DEF Can
    <3>5. Runs(todo', Now', there)
      <4> DEFINE l == comd \o <<WriteOf>>
      <4>1. l \in Seq(Cmds) /\ Runs(l, Now', there) /\ todo' = l \o <<e>>
        BY <2>2, <3>2, <3>3, <1>5
      <4> HIDE DEF l
      <4> QED BY <4>1, <3>1, <3>4, <1>4, RunsLast
    <3> QED BY <3>5, <2>1, <1>6, <1>7 DEF List, there
  <2>3. Fetched' = 0
    BY <1>1, <1>2, <1>7 DEF Fetched, AtNext, NoSlice
  <2> QED BY <2>2, <2>3, <1>7 DEF WireInv, GoesOn, FetchedOK, IdleOK
<1>8. CASE /\ head + Taking = job.w /\ head' = 0 /\ cmds' = Tail(cmds)
           /\ comd' = comd \o <<WriteOf>> /\ pc' = pc
  <2>1. cmds' # << >> /\ IF job.r > 0 THEN Head(cmds') = "read" ELSE Head(cmds') = "stop"
    BY <1>1, <1>8, NextCommandIs DEF OrderOK
  <2>2. SoFar' = reach
    <3>1. Opening' = reach /\ (job.r = 0 => Body' = reach)
      <4>1. job.w > 0 /\ reach = <<Start>> \o (<<ToWrite>> \o Written(0, job.w))
        BY <1>2, <1>8 DEF reach
      <4>2. Opening = reach /\ (job.r = 0 => Body = reach)
        BY <4>1, <1>2, EmptyParts
      <4> QED BY <4>2, <1>1, SameJob
    <3>2. AtNext("read")' \/ (job.r = 0 /\ AtNext("stop")')
      BY <2>1, <1>2 DEF AtNext
    <3> QED BY <3>1, <3>2, <1>1, SoFarNext
  <2>3. ASSUME Sound' PROVE Runs(List', Now', Due')
    BY <2>2, <2>3, <1>1, <1>5, <1>6, <1>8 DEF List
  <2>4. Fetched' = 0
    BY <1>1, <1>2, <1>8 DEF Fetched, NoSlice
  <2> QED BY <2>3, <2>4, <1>1, <1>8 DEF WireInv, GoesOn, FetchedOK, IdleOK
<1> QED BY <1>7, <1>8, WriteFacts
LEMMA ReadWire == ASSUME BusInv, OrderOK, WireInv, Read PROVE WireInv'
<1> DEFINE first == ForAddress \o ForRestart
           upTo == head + Getting
<1>1. /\ pc = "build" /\ cmds # << >> /\ Head(cmds) = "read" /\ Push(Addresses)
      /\ needAddress' = FALSE /\ needRestart' = FALSE
      /\ UNCHANGED <<job, r, rxFifo, wire, clean>>
  BY ReadFacts DEF callVars, coreVars
<1>2. /\ job.w \in Nat /\ job.r \in Nat /\ head \in Nat /\ comd \in Seq(Cmds)
      /\ Getting \in Nat /\ Getting <= Depth /\ readTo = NoSlice /\ head + Getting < job.r
      /\ Split(Left) => head + Getting + 1 = job.r /\ Getting + 1 <= Depth
  BY <1>1, JobType, ReadSize DEF BusInv, TypeOK
<1>3. /\ first \in Seq(Cmds) /\ ForBytes \in Seq(Cmds) /\ Regs \in Seq(Cmds)
      /\ Regs = first \o ForBytes /\ Addresses \in Seq(Items)
  <2>1. /\ ForAddress \in Seq(Cmds) /\ ForRestart \in Seq(Cmds) /\ ForBytes \in Seq(Cmds)
        /\ Regs \in Seq(Cmds) /\ Addresses \in Seq(Items)
    BY <1>1, ReadRegs, InnerIsCmds
  <2>2. first \in Seq(Cmds)
    BY <2>1, ConcatProperties
  <2> QED BY <2>1, <2>2 DEF Regs
<1>4. /\ needAddress => job.w = 0 /\ head = 0 /\ ~needRestart
      /\ needRestart => job.w > 0 /\ head = 0
  BY <1>1, ReadSize DEF OrderOK, SliceOK, AtNext
<1>5. Opening \in Seq(Items) /\ Turn \in Seq(Items)
      /\ <<Start>> \in Seq(Items) /\ <<ToRead>> \in Seq(Items)
  BY <1>2, SilentParts, ItemType, OneType
<1>6. Reading(0, 0) = State(Opening \o Turn, << >>, << >>)
  <2>1. Replies(0, 0) = << >> /\ Turn \o << >> = Turn
    BY <1>5, NoSpan, ConcatEmptySeq
  <2> QED BY <2>1 DEF Reading, Asked
<1>7. WriteOne \in Cmds /\ WriteOne.op = "write" /\ WriteOne.n = 1
      /\ Len(<<ToRead>>) = 1
  BY CmdType, ItemType, OneType DEF WriteOne, InnerOps
<1> HIDE DEF first, upTo
<1>8. ASSUME Sound' PROVE Sound /\ Runs(comd, Now', State(SoFar, Addresses, << >>))
  <2>1. Sound /\ ~lost'
    BY <1>1, <1>8 DEF Sound, Push
  <2> QED BY <2>1, <1>1, <1>3, Building
<1>9. ASSUME Sound' PROVE Runs(comd \o first, Now', Reading(head, head))
  <2>1. CASE needAddress
    <3>1. first = <<WriteOne>> \o << >> /\ Addresses = <<ToRead>> \o << >> /\ SoFar = Opening
          /\ Turn = <<ToRead>>
      BY <2>1, <1>1, <1>2, <1>4, SoFarOf, EmptyParts
         DEF first, ForAddress, ForRestart, Addresses, When, AtNext
    <3>2. first = <<WriteOne>> /\ Addresses = <<ToRead>>
      BY <3>1, <1>5, <1>7, OneType, ConcatEmptySeq
    <3> DEFINE ask == <<ToRead>>
               st == State(Opening, ask, << >>)
    <3>3. st \in States /\ Runs(comd, Now', st)
      BY <3>1, <3>2, <1>5, <1>8, <1>9, NothingFits, StateType
    <3>4. Can(WriteOne, st) /\ Exec(WriteOne, st) = State(Opening \o ask, << >>, << >>)
      <4>1. ask \in Seq(Items) /\ WriteOne.op = "write" /\ WriteOne.n = Len(ask)
        BY <1>5, <1>7
      <4> HIDE DEF ask
      <4> QED BY <4>1, SendsAll
    <3> HIDE DEF st
    <3>5. Runs(comd \o <<WriteOne>>, Now', Reading(0, 0))
      BY <3>1, <3>3, <3>4, <1>2, <1>6, <1>7, RunsLast
    <3> QED BY <3>2, <3>5, <2>1, <1>4
  <2>2. CASE needRestart
    <3> DEFINE e == Cmd("rstart", 0)
    <3>1. first = << >> \o <<e, WriteOne>> /\ Addresses = << >> \o <<ToRead>> /\ SoFar = Opening
          /\ Turn = <<Start>> \o <<ToRead>>
      BY <2>2, <1>1, <1>2, <1>4, SoFarOf, EmptyParts
         DEF first, ForAddress, ForRestart, Addresses, When, AtNext
    <3>2. e \in Cmds /\ e.op = "rstart"
      BY CmdType DEF InnerOps
    <3> HIDE DEF e
    <3>3. first = <<e, WriteOne>> /\ Addresses = <<ToRead>>
      BY <3>1, <3>2, <1>5, <1>7, TwoType, ConcatEmptySeq
    <3> DEFINE ask == <<ToRead>>
               st == State(Opening, ask, << >>)
               mid == State(Opening \o <<Start>>, ask, << >>)
    <3>4. st \in States /\ Runs(comd, Now', st)
      BY <3>1, <3>3, <1>5, <1>8, <1>9, NothingFits, StateType
    <3>5. Can(e, st) /\ Exec(e, st) = mid
      <4>1. st.bus = Opening /\ st.tx = ask /\ st.rx = << >>
        BY DEF State
      <4> HIDE DEF st
      <4> QED BY <4>1, <3>2, ExecOf DEF Can
    <3>6. /\ Can(WriteOne, mid)
          /\ Exec(WriteOne, mid) = State((Opening \o <<Start>>) \o ask, << >>, << >>)
      <4>1. ask \in Seq(Items) /\ WriteOne.op = "write" /\ WriteOne.n = Len(ask)
        BY <1>5, <1>7
      <4> HIDE DEF ask
      <4> QED BY <4>1, SendsAll
    <3>7. (Opening \o <<Start>>) \o <<ToRead>> = Opening \o Turn
      BY <3>1, <1>5, ConcatAssociative
    <3> HIDE DEF st, mid
    <3>8. Runs(comd \o <<e>>, Now', mid) /\ mid \in States
      BY <3>2, <3>4, <3>5, <1>2, RunsLast
    <3>9. comd \o <<e>> \in Seq(Cmds) /\ (comd \o <<e>>) \o <<WriteOne>> = comd \o first
      <4>1. /\ <<e>> \in Seq(Cmds) /\ <<WriteOne>> \in Seq(Cmds)
            /\ <<e, WriteOne>> = <<e>> \o <<WriteOne>>
        BY <3>2, <1>7, OneType
      <4> QED BY <4>1, <3>3, <1>2, ConcatProperties, ConcatAssociative
    <3>10. Runs((comd \o <<e>>) \o <<WriteOne>>, Now', Reading(0, 0))
      <4> DEFINE l == comd \o <<e>>
      <4>1. l \in Seq(Cmds) /\ Runs(l, Now', mid)
        BY <3>8, <3>9
      <4> HIDE DEF l
      <4>2. Runs(l \o <<WriteOne>>, Now', Reading(0, 0))
        BY <4>1, <3>6, <3>7, <3>8, <1>6, <1>7, RunsLast
      <4> QED BY <4>2 DEF l
    <3> QED BY <3>9, <3>10, <2>2, <1>4
  <2>3. CASE ~needAddress /\ ~needRestart
    <3>1. first = << >> \o << >> /\ Addresses = << >> \o << >>
          /\ SoFar = Opening \o Asked(head + readTo.len)
      BY <2>3, <1>1, SoFarOf DEF first, ForAddress, ForRestart, Addresses, When, AtNext
    <3>2. first = << >> /\ Addresses = << >> /\ comd \o << >> = comd
      BY <3>1, <1>2, NothingFits, ConcatEmptySeq
    <3>3. head + readTo.len = head /\ Replies(head, head) = << >>
      BY <1>2, NoSpan DEF NoSlice
    <3> QED BY <3>1, <3>2, <3>3, <1>8, <1>9 DEF Reading
  <2> QED BY <2>1, <2>2, <2>3
<1>10. comd \o first \in Seq(Cmds) /\ comd \o Regs = (comd \o first) \o ForBytes
       /\ comd \o Regs \in Seq(Cmds)
  <2>1. comd \in Seq(Cmds) /\ first \in Seq(Cmds) /\ ForBytes \in Seq(Cmds)
    BY <1>2, <1>3
  <2>2. comd \o first \in Seq(Cmds) /\ comd \o (first \o ForBytes) \in Seq(Cmds)
        /\ (comd \o first) \o ForBytes = comd \o (first \o ForBytes)
    BY <2>1, CmdsJoined
  <2> QED BY <2>2, <1>3
<1>11. upTo \in Nat /\ head <= upTo /\ upTo - head = Getting /\ upTo < job.r /\ head <= head
       /\ upTo <= upTo + 1 /\ head <= upTo + 1 /\ upTo + 1 \in Nat /\ (upTo + 1) - upTo = 1
       /\ (upTo + 1) - head = Getting + 1 /\ (Split(Left) => upTo + 1 = job.r)
  BY <1>2 DEF upTo
<1>12. ASSUME Sound' PROVE Runs(comd \o Regs, Now', Reading(head, upTo))
  <2> DEFINE l == comd \o first
  <2>1. l \in Seq(Cmds) /\ Runs(l, Now', Reading(head, head)) /\ comd \o Regs = l \o ForBytes
    BY <1>9, <1>10, <1>12
  <2> HIDE DEF l
  <2>2. CASE Getting = 0
    <3>1. ForBytes = << >> /\ upTo = head /\ l \o << >> = l
      BY <2>1, <2>2, <1>2, ConcatEmptySeq DEF ForBytes, When, upTo
    <3> QED BY <3>1, <2>1
  <2>3. CASE Getting > 0
    <3> DEFINE c == Cmd("read", Getting)
    <3>1. c \in Cmds /\ c.op = "read" /\ c.n = Getting /\ ForBytes = <<c>>
      BY <2>3, <1>2, CmdType DEF InnerOps, ForBytes, When
    <3> HIDE DEF c
    <3>2. Reading(head, head) \in States
      BY <1>2, <1>11, ReadingType
    <3>3. Can(c, Reading(head, head)) /\ Reads(c)
      BY <3>1 DEF Can, Reads
    <3>4. Exec(c, Reading(head, head)) = Reading(head, upTo)
      BY <3>1, <3>3, <1>2, <1>11, ReadMore
    <3> QED BY <3>1, <3>2, <3>3, <3>4, <2>1, RunsLast
  <2> QED BY <2>2, <2>3, <1>2
<1>13. Reading(head, upTo) \in States
  BY <1>2, <1>11, ReadingType
<1>14. ASSUME NEW e \in Cmds PROVE comd \o Append(Regs, e) = (comd \o Regs) \o <<e>>
  <2>1. <<e>> \in Seq(Cmds) /\ Append(Regs, e) = Regs \o <<e>>
    BY <1>3, OneType, Appended
  <2> DEFINE t == <<e>>
  <2>2. t \in Seq(Cmds) /\ Append(Regs, e) = Regs \o t
    BY <2>1
  <2> HIDE DEF t
  <2>3. comd \o (Regs \o t) = (comd \o Regs) \o t
    <3>1. comd \in Seq(Cmds) /\ Regs \in Seq(Cmds) /\ t \in Seq(Cmds)
      BY <2>2, <1>2, <1>3
    <3> QED BY <3>1, CmdsJoined
  <2> QED BY <2>2, <2>3 DEF t
<1>15. Sound' => \A i \in 1 .. head : r'[i] = Item("reply", i)
  <2>1. Fetched = head
    BY <1>1 DEF Fetched, AtNext
  <2> QED BY <2>1, <1>1, <1>8 DEF WireInv, FetchedOK
<1>16. CASE /\ ~Split(Left) /\ pc' = "wait"
            /\ todo' = comd \o Append(Regs, Cmd("end", 0))
            /\ readTo' = [from |-> head, len |-> Getting] /\ UNCHANGED <<cmds, head>>
  <2> DEFINE e == Cmd("end", 0)
  <2>1. Due' = Reading(head, upTo)
    <3>1. AtNext("read")' /\ (head + readTo.len)' = upTo
      BY <1>1, <1>16 DEF AtNext, upTo
    <3>2. SoFar' = Opening' \o Asked(head + readTo.len)'
      BY <3>1, <1>1, SoFarNext
    <3>3. SoFar' = Opening \o Asked(upTo)
      BY <3>1, <3>2, <1>1, SameJob
    <3>4. readTo'.from = head /\ readTo'.from + readTo'.len = upTo
      BY <1>16 DEF upTo
    <3> QED BY <3>3, <3>4 DEF Due, Reading
  <2>2. ASSUME Sound' PROVE Runs(List', Now', Due')
    <3> DEFINE l == comd \o Regs
    <3>1. e \in Cmds /\ e.op = "end" /\ todo' = comd \o Append(Regs, e)
      BY <1>16, CmdType
    <3>2. l \in Seq(Cmds) /\ Runs(l, Now', Reading(head, upTo)) /\ todo' = l \o <<e>>
      BY <2>2, <3>1, <1>10, <1>12, <1>14
    <3> HIDE DEF e, l
    <3>3. Can(e, Reading(head, upTo)) /\ Exec(e, Reading(head, upTo)) = Reading(head, upTo)
      BY <3>1, ExecOf DEF Can
    <3>4. Runs(l \o <<e>>, Now', Reading(head, upTo))
      BY <3>1, <3>2, <3>3, <1>13, RunsLast
    <3> QED BY <3>2, <3>4, <2>1, <1>16 DEF List
  <2>3. Fetched' = head
    BY <1>1, <1>16 DEF Fetched, AtNext
  <2> QED BY <2>2, <2>3, <1>15, <1>16 DEF WireInv, GoesOn, FetchedOK, IdleOK
<1>17. CASE /\ Split(Left) /\ cmds' = Tail(cmds) /\ pc' = pc
            /\ comd' = comd \o Append(Regs, Cmd("readlast", 1))
            /\ readTo' = [from |-> head, len |-> Getting + 1]
  <2> DEFINE e == Cmd("readlast", 1)
  <2>1. AtNext("stop")'
    BY <1>1, <1>17, NextCommandIs DEF OrderOK, AtNext
  <2>2. Due' = Reading(head, upTo + 1)
    <3>1. job.r > 0 /\ upTo + 1 = job.r
      BY <1>2, <1>11, <1>17
    <3>2. SoFar' = Opening \o Asked(upTo + 1)
      BY <2>1, <3>1, <1>1, <1>2, SoFarNext, SameJob, EmptyParts
    <3>3. readTo'.from = head /\ readTo'.from + readTo'.len = upTo + 1
      BY <1>2, <1>17 DEF upTo
    <3> QED BY <3>2, <3>3 DEF Due, Reading
  <2>3. ASSUME Sound' PROVE Runs(List', Now', Due')
    <3> DEFINE l == comd \o Regs
    <3>1. e \in Cmds /\ e.op = "readlast" /\ e.n = 1 /\ comd' = comd \o Append(Regs, e)
      BY <1>17, CmdType DEF InnerOps
    <3>2. l \in Seq(Cmds) /\ Runs(l, Now', Reading(head, upTo)) /\ comd' = l \o <<e>>
      BY <2>3, <3>1, <1>10, <1>12, <1>14
    <3> HIDE DEF e, l
    <3>3. Can(e, Reading(head, upTo)) /\ Reads(e)
      BY <3>1 DEF Can, Reads
    <3>4. Exec(e, Reading(head, upTo)) = Reading(head, upTo + 1)
      BY <3>1, <3>3, <1>2, <1>11, <1>17, ReadMore
    <3>5. Runs(l \o <<e>>, Now', Reading(head, upTo + 1))
      BY <3>1, <3>2, <3>3, <3>4, <1>13, RunsLast
    <3> QED BY <3>2, <3>5, <2>2, <1>1, <1>17 DEF List
  <2>4. Fetched' = head
    BY <2>1, <1>17 DEF Fetched, AtNext
  <2> QED BY <2>3, <2>4, <1>1, <1>15, <1>17 DEF WireInv, GoesOn, FetchedOK, IdleOK
<1> QED BY <1>16, <1>17, ReadFacts

-----------------------------------------------------------------------------
(* Every step.                                                             *)

LEMMA WireStutter == ASSUME WireInv, UNCHANGED vars PROVE WireInv'
<1>1. UNCHANGED <<pc, job, result, cmds, head, needAddress, needRestart, readTo, r, comd, todo,
                  txFifo, rxFifo, wire, lost, clean>>
  BY DEF vars, callVars, stateVars, coreVars
<1>2. Whole' = Whole /\ Due' = Due /\ Now' = Now /\ List' = List
  BY <1>1, SameJob DEF Due, Now, List, SoFar, AtNext
<1> QED BY <1>1, <1>2 DEF WireInv, GoesOn, FetchedOK, IdleOK, Sound, Fetched, AtNext

LEMMA WireInit == Init => OrderOK /\ RefusalOK /\ WireInv
<1> SUFFICES ASSUME Init PROVE OrderOK /\ RefusalOK /\ WireInv
  OBVIOUS
<1>1. pc = "idle" /\ result = "none" /\ ~readLast /\ ~refused /\ todo = << >> /\ rxFifo = << >>
  BY DEF Init
<1>2. OrderOK /\ RefusalOK
  BY <1>1 DEF OrderOK, PresentOK, SliceOK, RefusalOK
<1>3. WireInv
  BY <1>1 DEF WireInv, GoesOn, FetchedOK, IdleOK, Sound
<1> QED BY <1>2, <1>3

LEMMA WireStep ==
  ASSUME BusInv, LoadInv, OrderOK, WireInv, [Next]_vars PROVE WireInv'
<1>1. CASE \E w \in WriteLens, n \in ReadLens : Tx(w, n)
  BY <1>1, TxWire
<1>2. CASE Transmit
  BY <1>2, RestartWire, WriteWire, ReadWire, StopWire, ReturnWire, FetchWire DEF Transmit
<1>3. CASE Configure \/ Controller
  BY <1>3, ConfigureWire, ControllerWire
<1>4. CASE UNCHANGED vars
  BY <1>4, WireStutter
<1> QED BY <1>1, <1>2, <1>3, <1>4 DEF Next

LEMMA OnWire == IdleOK /\ RefusalOK => TransactionOnWire
BY DEF IdleOK, RefusalOK, TransactionOnWire

(* However a transaction is cut into lists and loads, when Tx returns nil  *)
(* with nothing gone wrong since Configure, the bus has seen the whole     *)
(* transaction once and in order, and r holds what the device answered,    *)
(* each byte at its place; a refused write is never reported as done       *)
(* (transmit).                                                             *)
THEOREM TransactionIsOnWire == Spec => []TransactionOnWire
<1> DEFINE Inv == BusInv /\ LoadInv /\ OrderOK /\ RefusalOK /\ WireInv
<1>1. Init => Inv
  BY BusInit, LoadInit, WireInit
<1>2. Inv /\ [Next]_vars => Inv'
  BY BusStep, LoadStep, OrderStep, RefusalStep, WireStep
<1>3. Inv => TransactionOnWire
  BY OnWire DEF WireInv
<1> QED BY <1>1, <1>2, <1>3, PTL DEF Spec
=============================================================================
