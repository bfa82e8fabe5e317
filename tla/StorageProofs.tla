--------------------------- MODULE StorageProofs ---------------------------
(***************************************************************************)
(* Proofs about Storage, for every size of card, tail and erase block,     *)
(* aligned or not, and every number of power losses and errors.            *)
(*                                                                         *)
(* Placed says where the partitions are once initStorage has made them,    *)
(* and that a write of the host under way ends within the front one: which *)
(* sectors can change.  SectorsHold says what they contain, and rests on   *)
(* what the SPI master's recursive functions make of a sector, cut into    *)
(* loads: all of it, in order, whatever the two lengths.                   *)
(***************************************************************************)
EXTENDS Storage, SequenceTheorems, WellFoundedInduction, TLAPS

Parted == boot \in {"mount", "erase", "mark", "remount", "ready"}

Placed ==
  /\ card = [s \in Sectors |-> card[s]]
  /\ Parted => /\ Total > LfsSize
               /\ mscDevice = [start |-> 0, size |-> Total - LfsSize]
               /\ lfsDevice = [start |-> Total - LfsSize, size |-> LfsSize]
  /\ media => boot = "ready"
  /\ op = Idle \/ /\ boot = "ready"
                  /\ op.sector \in Nat /\ op.left \in Nat
                  /\ op.sector + op.left <= Total - LfsSize

-----------------------------------------------------------------------------
(* A write to one sector changes that one, an erasure the blocks named.    *)
LEMMA OneSector ==
  ASSUME card = [s \in Sectors |-> card[s]], NEW i, NEW data, card' = [card EXCEPT ![i] = data]
  PROVE  Changed \subseteq {i} /\ card' = [s \in Sectors |-> card'[s]]
BY DEF Changed

(* A step that leaves the card alone changes no sector.                    *)
LEMMA Untouched ==
  ASSUME card' = card, Placed
  PROVE  Changed = {} /\ card' = [s \in Sectors |-> card'[s]]
BY DEF Changed, Placed

(* Erasing from the tail's start on leaves the host's own sectors alone.   *)
LEMMA EraseStays ==
  ASSUME Placed, Parted, NEW n \in Nat, EraseBlocks(lfsDevice, 0, n)
  PROVE  Changed \cap Own = {} /\ card' = [s \in Sectors |-> card'[s]]
<1> DEFINE b == (Total - LfsSize) \div EraseSize
<1>1. Total - LfsSize \in Nat /\ lfsDevice.start = Total - LfsSize /\ EraseSize \in Nat \ {0}
  BY StorageAssumption DEF Placed
<1>2. b \in Nat /\ b + 0 = b
  BY <1>1
<1>3. card' = [s \in Sectors |-> IF s \div EraseSize \in b .. b + n - 1
                                 THEN Content(0) ELSE card[s]]
  BY <1>1, <1>2 DEF EraseBlocks
<1>4. ASSUME NEW s \in Changed, s \in Own PROVE FALSE
  <2>1. s \in Sectors /\ s \div EraseSize \in b .. b + n - 1
    BY <1>3 DEF Changed
  <2>2. s \div EraseSize < b
    BY <1>4 DEF Own
  <2>3. s \div EraseSize \in Nat
    BY <1>1, <2>1, StorageAssumption DEF Sectors
  <2> HIDE DEF b
  <2> QED BY <1>2, <2>1, <2>2, <2>3
<1>5. card' = [s \in Sectors |-> card'[s]]
  BY <1>3
<1> QED BY <1>4, <1>5

(* So does an erasure of the tail that was cut short.                      *)
LEMMA EraseSomeStays ==
  ASSUME Placed, boot = "erase", EraseSome
  PROVE  Changed \cap Own = {} /\ card' = [s \in Sectors |-> card'[s]]
<1>1. PICK n \in 0 .. lfsDevice.size \div EraseSize : EraseBlocks(lfsDevice, 0, n)
  BY DEF EraseSome
<1>2. n \in Nat /\ Parted
  BY DEF Parted
<1> QED BY <1>1, <1>2, EraseStays

(* A sector of the tail is none of the host's.                             *)
LEMMA BackNotOwn == Back \cap Own = {}
BY DEF Back, Own

-----------------------------------------------------------------------------
(* Every step keeps the partitions where they are and changes the card on  *)
(* one side of their border only.                                          *)
Apart == /\ op' # op => Changed \subseteq Front
         /\ boot' # boot => Changed \cap Own = {}

(* No partition before boot.                                               *)
LEMMA PlacedInit == Init => Placed
BY DEF Init, Placed, Parted

(* Start-up places the partitions and formats only the tail.               *)
LEMMA BootKeeps == ASSUME Placed, initStorage PROVE Placed' /\ Apart
<1>1. CASE ConfigureCard
  <2>1. card' = card /\ boot = "reset" /\ boot' \in {"parts", "failed"} /\ UNCHANGED <<driver, op>>
    BY <1>1 DEF ConfigureCard, Fail, hostVars
  <2> QED BY <2>1, Untouched DEF Placed, Parted, Apart, driver
<1>2. CASE Partition
  <2>1. /\ card' = card /\ boot = "parts" /\ UNCHANGED <<media, op>>
        /\ \/ boot' = "failed"
           \/ /\ boot' = "mount" /\ ~(Total <= LfsSize)
              /\ mscDevice' = [start |-> 0, size |-> Total - LfsSize]
              /\ lfsDevice' = [start |-> Total - LfsSize, size |-> LfsSize]
    BY <1>2 DEF Partition, hostVars
  <2> QED BY <2>1, Untouched, StorageAssumption DEF Placed, Parted, Apart
<1>3. CASE mountFilesystem \/ MountAgain
  <2>1. /\ card' = card /\ boot \in {"mount", "remount"} /\ boot' \in {"ready", "erase", "failed"}
        /\ UNCHANGED <<mscDevice, lfsDevice, media, op>>
    BY <1>3 DEF mountFilesystem, MountAgain, Mount, hostVars
  <2> QED BY <2>1, Untouched DEF Placed, Parted, Apart
<1>4. CASE FormatErase
  <2>1. boot = "erase" /\ UNCHANGED <<driver, op>>
    BY <1>4 DEF FormatErase, hostVars
  <2>2. CASE EraseBlocks(lfsDevice, 0, lfsDevice.size \div EraseSize) /\ boot' = "mark"
    <3>1. Parted /\ lfsDevice.size = LfsSize
      BY <2>1 DEF Placed, Parted
    <3>2. lfsDevice.size \div EraseSize \in Nat
      BY <3>1, StorageAssumption
    <3>3. Changed \cap Own = {} /\ card' = [s \in Sectors |-> card'[s]]
      BY <2>2, <3>1, <3>2, EraseStays
    <3> QED BY <2>1, <2>2, <3>3 DEF Placed, Parted, Apart, driver
  <2>3. CASE EraseSome /\ boot' = "failed"
    BY <2>1, <2>3, EraseSomeStays DEF Placed, Parted, Apart, driver
  <2> QED BY <1>4, <2>2, <2>3 DEF FormatErase
<1>5. CASE FormatMark
  <2>1. boot = "mark" /\ UNCHANGED <<driver, op>>
    BY <1>5 DEF FormatMark, hostVars
  <2>2. CASE WriteAt(lfsDevice, Superblock, 0) /\ boot' = "remount"
    <3>1. lfsDevice.start + 0 = Total - LfsSize /\ Total > LfsSize
      BY <2>1, StorageAssumption DEF Placed, Parted
    <3>2. card' = [card EXCEPT ![Total - LfsSize] = Spi!Tx(Superblock, 0)]
      BY <2>2, <3>1 DEF WriteAt
    <3>3. Changed \subseteq {Total - LfsSize} /\ card' = [s \in Sectors |-> card'[s]]
      BY <3>2, OneSector DEF Placed
    <3>4. Changed \subseteq Sectors /\ Total - LfsSize \notin Front
      BY <3>1, StorageAssumption DEF Changed, Front
    <3>5. Changed \subseteq Back
      BY <3>3, <3>4 DEF Back
    <3>6. Changed \cap Own = {}
      BY <3>5, BackNotOwn
    <3> QED BY <2>1, <2>2, <3>3, <3>6 DEF Placed, Parted, Apart, driver
  <2>3. CASE Fail
    <3>1. card' = card /\ boot' = "failed"
      BY <2>3 DEF Fail
    <3> QED BY <2>1, <3>1, Untouched DEF Placed, Parted, Apart, driver
  <2> QED BY <1>5, <2>2, <2>3 DEF FormatMark
<1> QED BY <1>1, <1>2, <1>3, <1>4, <1>5 DEF initStorage

(* The host writes to the front.                                           *)
LEMMA HostWriteKeeps ==
  ASSUME Placed, NEW off \in Sectors, NEW n \in 1 .. Total, HostWrite(off, n)
  PROVE  Placed' /\ Apart
<1>1. /\ media /\ off + n <= mscDevice.size /\ op' = [sector |-> off, left |-> n]
      /\ card' = card /\ boot' = boot /\ UNCHANGED <<mscDevice, lfsDevice, media>>
  BY DEF HostWrite, driver
<1>2. boot = "ready" /\ mscDevice.size = Total - LfsSize
  BY <1>1 DEF Placed, Parted
<1>3. off \in Nat /\ n \in Nat
  BY StorageAssumption DEF Sectors
<1>4. op'.sector = off /\ op'.left = n
  BY <1>1
<1> QED BY <1>1, <1>2, <1>3, <1>4, Untouched DEF Placed, Parted, Apart

(* A sector goes where its transfer goes.                                  *)
LEMMA WriteSectorKeeps == ASSUME Placed, WriteSector PROVE Placed' /\ Apart
<1>1. /\ op.left > 0 /\ boot' = boot /\ UNCHANGED <<mscDevice, lfsDevice, media>>
  BY DEF WriteSector, driver
<1>2. /\ boot = "ready" /\ op.sector \in Nat /\ op.left \in Nat
      /\ op.sector + op.left <= Total - LfsSize
  BY <1>1 DEF Placed, Idle
<1>3. CASE /\ WriteAt(mscDevice, Content(writes), op.sector)
           /\ op' = IF op.left = 1 THEN Idle ELSE [sector |-> op.sector + 1, left |-> op.left - 1]
  <2>1. mscDevice.start + op.sector = op.sector /\ Total > LfsSize
    BY <1>2 DEF Placed, Parted
  <2>2. card' = [card EXCEPT ![op.sector] = Spi!Tx(Content(writes), 0)]
    BY <1>3, <2>1 DEF WriteAt
  <2>3. Changed \subseteq {op.sector} /\ card' = [s \in Sectors |-> card'[s]]
    BY <2>2, OneSector DEF Placed
  <2>4. op.sector \in Front
    BY <1>1, <1>2, StorageAssumption DEF Front
  <2>5. op' = Idle \/ (op'.sector = op.sector + 1 /\ op'.left = op.left - 1 /\ op.left # 1)
    BY <1>3
  <2>6. \/ op' = Idle
        \/ op'.sector \in Nat /\ op'.left \in Nat /\ op'.sector + op'.left <= Total - LfsSize
    BY <1>1, <1>2, <2>5, StorageAssumption
  <2> QED BY <1>1, <1>2, <2>3, <2>4, <2>6 DEF Placed, Parted, Apart
<1>4. CASE op' = Idle /\ card' = card
  BY <1>1, <1>4, Untouched DEF Placed, Parted, Apart
<1> QED BY <1>3, <1>4 DEF WriteSector

(* Every step keeps the placing.                                           *)
LEMMA PlacedNext == Placed /\ [Next]_vars => Placed' /\ [Apart]_vars
<1> SUFFICES ASSUME Placed, [Next]_vars PROVE Placed' /\ [Apart]_vars
  OBVIOUS
<1>1. CASE startVirtualMedia
  <2>1. /\ boot = "ready" /\ UNCHANGED <<card, boot, mscDevice, lfsDevice, op>>
    BY <1>1 DEF startVirtualMedia, hostVars
  <2> QED BY <2>1, Untouched DEF Placed, Parted, Apart
<1>2. CASE PowerLoss
  <2>1. /\ boot' = "reset" /\ media' = FALSE /\ op' = Idle
        /\ IF boot = "erase" THEN EraseSome ELSE card' = card
    BY <1>2 DEF PowerLoss
  <2>2. CASE boot = "erase"
    <3>1. op = Idle
      BY <2>2 DEF Placed
    <3> QED BY <2>1, <2>2, <3>1, EraseSomeStays DEF Placed, Parted, Apart
  <2>3. CASE boot # "erase"
    BY <2>1, <2>3, Untouched DEF Placed, Parted, Apart
  <2> QED BY <2>2, <2>3
<1>3. CASE UNCHANGED vars
  BY <1>3, Untouched DEF vars, driver, hostVars, Placed, Parted, Apart
<1>4. CASE \E off \in Sectors, n \in 1 .. Total : HostWrite(off, n)
  BY <1>4, HostWriteKeeps
<1> QED BY <1>1, <1>2, <1>3, <1>4, BootKeeps, WriteSectorKeeps DEF Next

(* On any card, through any loss of power: the managed host never writes   *)
(* to the tail, and the controller, mounting and formatting, never to a    *)
(* sector of the front that shares no erase block with the tail.           *)
THEOREM TailIsInvisible == Spec => PartitionsApart
<1>1. Placed /\ [Next]_vars =>
        [/\ op' # op => Changed \subseteq Front
         /\ boot' # boot => Changed \cap Own = {}]_vars
  BY PlacedNext DEF Apart
<1> QED BY <1>1, PlacedInit, PlacedNext, PTL DEF Spec, PartitionsApart

-----------------------------------------------------------------------------
(* What the SPI master makes of a sequence, load by load.  An induction    *)
(* here is a least counterexample.                                         *)

(* A set of numbers that is not empty has a least one.                     *)
LEMMA LeastOf == ASSUME NEW T, T \subseteq Nat, T # {} PROVE \E m \in T : \A k \in T : m <= k
<1> DEFINE R == OpToRel(<, Nat)
<1>1. IsWellFoundedOn(R, Nat)
  BY NatLessThanWellFounded
<1>2. R = {ss \in Nat \X Nat : ss[1] < ss[2]}
  BY DEF OpToRel
<1> HIDE DEF R
<1>3. PICK m \in T : \A y \in T : ~(<<y, m>> \in R)
  BY <1>1, WFMin
<1>4. ASSUME NEW k \in T PROVE m <= k
  <2>1. <<k, m>> \notin R
    BY <1>3
  <2> QED BY <1>2, <2>1
<1> QED BY <1>3, <1>4

(* The first m units of a sequence, and the next ones.                     *)
First(s, m) == [i \in 1 .. m |-> s[i]]
Load(s, c, m) == [i \in 1 .. m |-> s[c + i]]

(* They join.                                                              *)
LEMMA Joined ==
  ASSUME NEW S, NEW s \in Seq(S), NEW c \in Nat, NEW m \in Nat, c + m <= Len(s)
  PROVE  First(s, c) \o Load(s, c, m) = First(s, c + m)
<1>1. First(s, c) \in Seq(S) /\ Len(First(s, c)) = c /\ \A i \in 1 .. c : First(s, c)[i] = s[i]
  BY LenProperties DEF First
<1>2. Load(s, c, m) \in Seq(S) /\ Len(Load(s, c, m)) = m /\ \A i \in 1 .. m : Load(s, c, m)[i] = s[c + i]
  <2>1. Len(s) \in Nat /\ \A i \in 1 .. m : s[c + i] \in S
    <3>1. Len(s) \in Nat /\ \A j \in 1 .. Len(s) : s[j] \in S
      BY LenProperties
    <3>2. \A i \in 1 .. m : c + i \in 1 .. Len(s)
      BY <3>1
    <3> QED BY <3>1, <3>2
  <2> QED BY <2>1 DEF Load
<1>3. First(s, c + m) \in Seq(S) /\ Len(First(s, c + m)) = c + m
      /\ \A i \in 1 .. c + m : First(s, c + m)[i] = s[i]
  BY LenProperties DEF First
<1>4. PICK a \in Seq(S), b \in Seq(S), d \in Seq(S) :
        a = First(s, c) /\ b = Load(s, c, m) /\ d = First(s, c + m)
  BY <1>1, <1>2, <1>3
<1>5. Len(a) = c /\ Len(b) = m /\ Len(d) = c + m
  BY <1>1, <1>2, <1>3, <1>4
<1>6. /\ a \o b \in Seq(S) /\ Len(a \o b) = Len(a) + Len(b)
      /\ \A i \in 1 .. Len(a) + Len(b) : (a \o b)[i] = IF i <= Len(a) THEN a[i] ELSE b[i - Len(a)]
  BY ConcatProperties
<1>7. ASSUME NEW i \in 1 .. c + m PROVE (a \o b)[i] = d[i]
  <2>1. CASE i <= c
    <3>1. a[i] = s[i] /\ d[i] = s[i]
      BY <1>1, <1>3, <1>4, <2>1
    <3> QED BY <1>5, <1>6, <2>1, <3>1
  <2>2. CASE ~(i <= c)
    <3>1. i - c \in 1 .. m /\ c + (i - c) = i
      BY <2>2
    <3>2. b[i - c] = s[i] /\ d[i] = s[i]
      BY <1>2, <1>3, <1>4, <3>1
    <3> QED BY <1>5, <1>6, <2>2, <3>2
  <2> QED BY <2>1, <2>2
<1>8. a \o b = d
  BY <1>5, <1>6, <1>7, SeqEqual
<1> QED BY <1>4, <1>8

(* Where load k of a sequence of n units begins and ends.                  *)
Size(n, k) == Spi!Least(Depth, n - (k - 1) * Depth)
LEMMA LoadEnds ==
  ASSUME NEW n \in Nat
  PROVE  /\ Spi!Loads(n) \in Nat
         /\ \A k \in 1 .. Spi!Loads(n) :
              /\ (k - 1) * Depth \in Nat /\ (k - 1) * Depth < n /\ (k - 1) * Depth + Size(n, k) <= n
              /\ Size(n, k) \in 0 .. Depth
              /\ Spi!Least((k - 1) * Depth, n) = (k - 1) * Depth
              /\ Spi!Least(k * Depth, n) = (k - 1) * Depth + Size(n, k)
         /\ Spi!Least(0 * Depth, n) = 0
         /\ Spi!Least(Spi!Loads(n) * Depth, n) = n
<1> DEFINE L == Spi!Loads(n)
<1>0. Depth \in Nat \ {0}
  BY StorageAssumption
<1>1. L \in Nat /\ L * Depth <= n + Depth - 1 /\ n <= L * Depth
  <2>1. PICK x \in Nat : x = n + Depth - 1
    BY <1>0
  <2>2. L = x \div Depth
    BY <2>1 DEF Spi!Loads
  <2>3. x \div Depth \in Nat /\ x = Depth * (x \div Depth) + (x % Depth) /\ x % Depth \in 0 .. Depth - 1
    BY <1>0
  <2>4. Depth * (x \div Depth) = L * Depth
    BY <1>0, <2>2, <2>3
  <2>5. L * Depth \in Nat
    BY <1>0, <2>2, <2>3
  <2> HIDE DEF L
  <2> QED BY <1>0, <2>1, <2>2, <2>3, <2>4, <2>5
<1> HIDE DEF L
<1>2. ASSUME NEW k \in 1 .. L PROVE
         /\ (k - 1) * Depth \in Nat /\ (k - 1) * Depth < n /\ (k - 1) * Depth + Size(n, k) <= n
         /\ Size(n, k) \in 0 .. Depth
         /\ Spi!Least((k - 1) * Depth, n) = (k - 1) * Depth
         /\ Spi!Least(k * Depth, n) = (k - 1) * Depth + Size(n, k)
  <2>1. (k - 1) * Depth \in Nat /\ k * Depth = (k - 1) * Depth + Depth
    BY <1>0, <1>1
  <2>2. k * Depth <= L * Depth
    BY <1>0, <1>1
  <2>3. PICK c \in Nat : c = (k - 1) * Depth
    BY <2>1
  <2>4. c < n
    BY <1>0, <1>1, <2>1, <2>2, <2>3
  <2> QED BY <1>0, <2>1, <2>3, <2>4 DEF Size, Spi!Least
<1>3. Spi!Least(0 * Depth, n) = 0 /\ Spi!Least(L * Depth, n) = n
  BY <1>0, <1>1 DEF Spi!Least
<1> QED BY <1>1, <1>2, <1>3 DEF L

(* A sequence put together load by load is the sequence.                   *)
LEMMA LoadByLoad ==
  ASSUME NEW S, NEW s \in Seq(S), NEW f,
         f = [k \in 0 .. Spi!Loads(Len(s)) |->
                IF k = 0 THEN << >>
                ELSE f[k - 1] \o Load(s, (k - 1) * Depth, Size(Len(s), k))]
  PROVE  f[Spi!Loads(Len(s))] = s
<1> DEFINE n == Len(s)
           L == Spi!Loads(n)
           W(k) == First(s, Spi!Least(k * Depth, n))
           T == {k \in 0 .. L : f[k] # W(k)}
<1>1. n \in Nat /\ L \in Nat /\ Depth \in Nat \ {0}
  BY LenProperties, LoadEnds, StorageAssumption
<1>2. T = {}
  <2> SUFFICES ASSUME T # {} PROVE FALSE
    OBVIOUS
  <2>1. T \subseteq Nat
    BY <1>1
  <2>2. PICK m \in T : \A k \in T : m <= k
    <3> HIDE DEF T
    <3> QED BY <2>1, LeastOf
  <2>3. m \in 0 .. L /\ f[m] # W(m)
    OBVIOUS
  <2>4. CASE m = 0
    <3>1. f[0] = << >>
      BY <1>1
    <3>2. Spi!Least(0 * Depth, n) = 0
      BY <1>1, LoadEnds
    <3>3. W(0) = << >>
      BY <3>2 DEF First
    <3> QED BY <2>3, <2>4, <3>1, <3>3
  <2>5. CASE m # 0
    <3>1. m \in 1 .. L /\ m - 1 \in 0 .. L /\ ~(m <= m - 1)
      BY <1>1, <2>3, <2>5
    <3>2. f[m - 1] = W(m - 1)
      BY <2>2, <3>1
    <3>3. f[m] = f[m - 1] \o Load(s, (m - 1) * Depth, Size(n, m))
      BY <2>3, <2>5
    <3>4. /\ (m - 1) * Depth \in Nat /\ (m - 1) * Depth < n /\ (m - 1) * Depth + Size(n, m) <= n
          /\ Size(n, m) \in 0 .. Depth
          /\ Spi!Least((m - 1) * Depth, n) = (m - 1) * Depth
          /\ Spi!Least(m * Depth, n) = (m - 1) * Depth + Size(n, m)
      BY <1>1, <3>1, LoadEnds
    <3>5. PICK c \in Nat, d \in Nat : c = (m - 1) * Depth /\ d = Size(n, m)
      BY <1>1, <3>4
    <3>6. c + d <= n
      BY <3>4, <3>5
    <3>8. First(s, c) \o Load(s, c, d) = First(s, c + d)
      BY <3>6, Joined
    <3>7. f[m] = W(m)
      BY <3>2, <3>3, <3>4, <3>5, <3>8
    <3> QED BY <2>3, <3>7
  <2> QED BY <2>4, <2>5
<1>3. f[L] = W(L)
  <2>1. L \in 0 .. L
    BY <1>1
  <2>2. L \notin T
    BY <1>2
  <2> QED BY <2>1, <2>2
<1>4. W(L) = First(s, n)
  BY <1>1, LoadEnds
<1>5. First(s, n) = s
  BY DEF First
<1> QED BY <1>3, <1>4, <1>5

(* It can be put together so.                                              *)
LEMMA LoadsJoin ==
  ASSUME NEW S, NEW s \in Seq(S)
  PROVE  \E f : f = [k \in 0 .. Spi!Loads(Len(s)) |->
                       IF k = 0 THEN << >>
                       ELSE f[k - 1] \o Load(s, (k - 1) * Depth, Size(Len(s), k))]
<1> DEFINE n == Len(s)
           L == Spi!Loads(n)
           W == [k \in 0 .. L |-> First(s, Spi!Least(k * Depth, n))]
           V == [k \in 0 .. L |-> IF k = 0 THEN << >>
                                  ELSE W[k - 1] \o Load(s, (k - 1) * Depth, Size(n, k))]
<1>1. n \in Nat /\ L \in Nat /\ Depth \in Nat \ {0}
  BY LenProperties, LoadEnds, StorageAssumption
<1>2. ASSUME NEW k \in 0 .. L PROVE V[k] = W[k]
  <2>1. CASE k = 0
    <3>1. W[0] = First(s, Spi!Least(0 * Depth, n)) /\ V[0] = << >>
      BY <1>1
    <3> HIDE DEF V, W
    <3>2. W[0] = << >>
      <4>1. Spi!Least(0 * Depth, n) = 0
        BY <1>1, LoadEnds
      <4>2. First(s, 0) = << >>
        BY DEF First
      <4> QED BY <3>1, <4>1, <4>2
    <3> QED BY <2>1, <3>1, <3>2
  <2>2. CASE k # 0
    <3>1. k \in 1 .. L /\ k - 1 \in 0 .. L
      BY <1>1, <2>2
    <3>2. /\ V[k] = W[k - 1] \o Load(s, (k - 1) * Depth, Size(n, k))
          /\ W[k - 1] = First(s, Spi!Least((k - 1) * Depth, n))
          /\ W[k] = First(s, Spi!Least(k * Depth, n))
      BY <2>2, <3>1
    <3> HIDE DEF V, W
    <3>3. /\ (k - 1) * Depth \in Nat /\ (k - 1) * Depth + Size(n, k) <= n
          /\ Size(n, k) \in 0 .. Depth
          /\ Spi!Least((k - 1) * Depth, n) = (k - 1) * Depth
          /\ Spi!Least(k * Depth, n) = (k - 1) * Depth + Size(n, k)
      BY <1>1, <3>1, LoadEnds
    <3>4. PICK c \in Nat, d \in Nat : c = (k - 1) * Depth /\ d = Size(n, k)
      BY <1>1, <3>3
    <3>5. First(s, c) \o Load(s, c, d) = First(s, c + d)
      BY <3>3, <3>4, Joined
    <3> QED BY <3>2, <3>3, <3>4, <3>5
  <2> QED BY <2>1, <2>2
<1>3. V = W
  <2>1. V = [k \in 0 .. L |-> V[k]] /\ W = [k \in 0 .. L |-> W[k]]
    OBVIOUS
  <2> HIDE DEF V, W
  <2> QED BY <1>2, <2>1
<1>4. W = [k \in 0 .. L |-> IF k = 0 THEN << >>
                            ELSE W[k - 1] \o Load(s, (k - 1) * Depth, Size(n, k))]
  <2> HIDE DEF W
  <2> QED BY <1>3
<1> HIDE DEF W
<1> QED BY <1>4 DEF n, L

(* What goes over the wire.                                                *)
LEMMA TxWhole == ASSUME NEW S, NEW w \in Seq(S) PROVE Spi!Tx(w, 0) = w
<1> DEFINE n == Len(w)
           L == Spi!Loads(n)
           Wire(f) == [k \in 0 .. L |-> IF k = 0 THEN << >>
                         ELSE f[k - 1] \o SubSeq(Spi!spiTxFillBuffer(w, k), 1, Spi!LoadSize(n, k))]
           Put(f) == [k \in 0 .. L |-> IF k = 0 THEN << >>
                        ELSE f[k - 1] \o Load(w, (k - 1) * Depth, Size(n, k))]
<1>1. n \in Nat /\ L \in Nat /\ Depth \in Nat \ {0} /\ Spi!Amount(w, 0) = n
  <2>1. n \in Nat
    BY LenProperties
  <2> QED BY <2>1, LoadEnds, StorageAssumption DEF Spi!Amount, Spi!Greatest
<1>2. ASSUME NEW k \in 1 .. L
      PROVE  SubSeq(Spi!spiTxFillBuffer(w, k), 1, Spi!LoadSize(n, k)) = Load(w, (k - 1) * Depth, Size(n, k))
  <2>1. /\ (k - 1) * Depth \in Nat /\ (k - 1) * Depth + Size(n, k) <= n /\ Size(n, k) \in 0 .. Depth
        /\ Spi!LoadSize(n, k) = Size(n, k)
    BY <1>1, LoadEnds DEF Spi!LoadSize, Size
  <2>2. PICK c \in Nat, d \in Nat : c = (k - 1) * Depth /\ d = Size(n, k)
    BY <1>1, <2>1
  <2> DEFINE fill == [i \in 1 .. Depth |-> IF c + i <= n THEN w[c + i] ELSE [write |-> 0, place |-> 0]]
  <2>3. Spi!spiTxFillBuffer(w, k) = fill
    BY <2>2 DEF Spi!spiTxFillBuffer
  <2>4. \A i \in 1 .. d : fill[i] = w[c + i]
    BY <1>1, <2>1, <2>2
  <2>5. SubSeq(fill, 1, d) = [i \in 1 .. d |-> fill[i]]
    OBVIOUS
  <2>6. [i \in 1 .. d |-> fill[i]] = Load(w, c, d)
    <3> HIDE DEF fill
    <3> QED BY <2>4 DEF Load
  <2> HIDE DEF fill
  <2> QED BY <2>1, <2>2, <2>3, <2>5, <2>6
<1>3. ASSUME NEW f PROVE Wire(f) = Put(f)
  <2> DEFINE sub(k) == SubSeq(Spi!spiTxFillBuffer(w, k), 1, Spi!LoadSize(n, k))
             put(k) == Load(w, (k - 1) * Depth, Size(n, k))
  <2>1. \A k \in 1 .. L : sub(k) = put(k)
    BY <1>2
  <2> HIDE DEF sub, put
  <2>2. ASSUME NEW k \in 0 .. L
        PROVE  (IF k = 0 THEN << >> ELSE f[k - 1] \o sub(k)) = (IF k = 0 THEN << >> ELSE f[k - 1] \o put(k))
    <3>1. CASE k = 0
      BY <3>1
    <3>2. CASE k # 0
      <4>1. k \in 1 .. L
        BY <1>1, <3>2
      <4> QED BY <2>1, <4>1
    <3> QED BY <3>1, <3>2
  <2>3. [k \in 0 .. L |-> IF k = 0 THEN << >> ELSE f[k - 1] \o sub(k)]
          = [k \in 0 .. L |-> IF k = 0 THEN << >> ELSE f[k - 1] \o put(k)]
    BY <2>2
  <2> QED BY <2>3 DEF sub, put
<1>4. Spi!Tx(w, 0) = (CHOOSE f : f = Wire(f))[L]
  BY <1>1 DEF Spi!Tx
<1>5. \E f : f = Put(f)
  BY LoadsJoin
<1> HIDE DEF Wire
<1>6. PICK f : f = Put(f) /\ Spi!Tx(w, 0) = f[L]
  <2>1. \E f : f = Wire(f)
    BY <1>3, <1>5, Zenon
  <2>2. (CHOOSE f : f = Wire(f)) = Wire(CHOOSE f : f = Wire(f))
    BY <2>1, Zenon
  <2> DEFINE g == CHOOSE f : f = Wire(f)
  <2>3. g = Put(g)
    BY <1>3, <2>2, Zenon
  <2> HIDE DEF Put
  <2> QED BY <1>4, <2>3
<1>7. f[L] = w
  BY <1>6, LoadByLoad
<1> QED BY <1>6, <1>7

(* What comes back, when the device answers as long as r has room.         *)
LEMMA TxReceivedWhole == ASSUME NEW S, NEW in \in Seq(S) PROVE Spi!TxReceived(in, Len(in)) = in
<1>1. Spi!Amount(in, 0) = Len(in)
  BY LenProperties DEF Spi!Amount, Spi!Greatest
<1>2. Spi!TxReceived(in, Len(in)) = Spi!Tx(in, 0)
  BY <1>1 DEF Spi!Tx, Spi!TxReceived, Spi!spiTxFillBuffer, Spi!LoadSize
<1> QED BY <1>2, TxWhole

-----------------------------------------------------------------------------
(* The contents of the card.                                               *)
Sector == [1 .. SectorUnits -> Unit]

(* A sector of the front holds what the host last wrote to it, unless that *)
(* write was not acknowledged; while a write is under way, its sectors     *)
(* behind the next one hold its data, and nothing else bears its number.   *)
SectorsHold ==
  /\ card \in [Sectors -> Sector]
  /\ told \in [Sectors -> 0 .. MaxWrites] /\ writes \in 0 .. MaxWrites
  /\ \A s \in Sectors : told[s] <= writes
  /\ \A s \in Own \ unsure : card[s] = Content(told[s])
  /\ op # Idle =>
       /\ \A s \in Sectors : s >= op.sector /\ s < op.sector + op.left => s \in unsure /\ told[s] = writes
       /\ \A s \in Sectors : told[s] = writes =>
            /\ s < op.sector + op.left
            /\ s < op.sector => card[s] = Content(writes)

StorageInv == TypeOK /\ Placed /\ SectorsHold

(* A sector is a sequence of units, which the SPI master passes on whole.  *)
LEMMA SectorWhole ==
  ASSUME NEW data \in Sector
  PROVE  data \in Seq(Unit) /\ Spi!Tx(data, 0) = data /\ Spi!TxReceived(data, SectorUnits) = data
<1>1. data \in Seq(Unit) /\ Len(data) = SectorUnits
  BY StorageAssumption DEF Sector
<1> QED BY <1>1, TxWhole, TxReceivedWhole

(* The data of a write fills a sector.                                     *)
LEMMA ContentSector == ASSUME NEW k \in 0 .. MaxWrites + 1 PROVE Content(k) \in Sector
<1>1. ASSUME NEW i \in 1 .. SectorUnits
      PROVE  [write |-> k, place |-> IF k = 0 THEN 0 ELSE i] \in Unit
  BY StorageAssumption DEF Unit
<1> QED BY <1>1 DEF Content, Sector

(* A write puts its data where it belongs and nothing anywhere else.       *)
LEMMA WriteAtPuts ==
  ASSUME card \in [Sectors -> Sector], NEW p, NEW off, NEW data \in Sector, WriteAt(p, data, off)
  PROVE  /\ card' \in [Sectors -> Sector]
         /\ \A s \in Sectors : card'[s] = IF s = p.start + off THEN data ELSE card[s]
<1>1. card' = [card EXCEPT ![p.start + off] = data]
  BY SectorWhole DEF WriteAt
<1> HIDE DEF Sector
<1> QED BY <1>1

(* An erasure leaves sectors behind.                                       *)
LEMMA EraseLeaves ==
  ASSUME card \in [Sectors -> Sector], NEW p, NEW start, NEW count, EraseBlocks(p, start, count)
  PROVE  card' \in [Sectors -> Sector]
<1>1. Content(0) \in Sector
  BY StorageAssumption, ContentSector
<1> HIDE DEF Sector
<1> QED BY <1>1 DEF EraseBlocks

(* A sequence of sectors has the type of a card.                           *)
LEMMA CardTyped == ASSUME card \in [Sectors -> Sector] PROVE card \in [Sectors -> Seq(Unit)]
<1>1. Sector \subseteq Seq(Unit)
  BY SectorWhole
<1> HIDE DEF Sector
<1> QED BY <1>1

-----------------------------------------------------------------------------
(* The host's own sectors are sectors of the front.                        *)
LEMMA OwnSectors == Own \subseteq Front /\ Own \subseteq Sectors /\ Own' = Own
<1>1. Own \subseteq Front /\ Own' = Own
  BY DEF Own, Front
<1>2. Front \subseteq Sectors
  BY StorageAssumption DEF Front, Sectors
<1> QED BY <1>1, <1>2

(* What initStorage and power losses leave as it is.                       *)
LEMMA OwnKept ==
  ASSUME SectorsHold, card' \in [Sectors -> Sector], Changed \cap Own = {},
         op' = Idle \/ (op' = op /\ \A s \in Sectors : op # Idle => card'[s] = card[s]),
         UNCHANGED <<told, unsure, writes>>
  PROVE  SectorsHold'
<1>1. \A s \in Own \ unsure : card'[s] = Content(told[s])
  <2> SUFFICES ASSUME NEW s \in Own \ unsure PROVE card'[s] = Content(told[s])
    OBVIOUS
  <2>1. s \in Sectors
    BY OwnSectors
  <2>2. card'[s] = card[s]
    BY <2>1 DEF Changed
  <2> QED BY <2>2 DEF SectorsHold
<1>2. /\ Own' = Own /\ Sectors' = Sectors /\ Idle' = Idle /\ Content(writes)' = Content(writes)
  BY OwnSectors DEF Sectors, Idle, Content
<1> HIDE DEF Sector, Content, Idle
<1> QED BY <1>1, <1>2 DEF SectorsHold

(* A fresh card, or one that was formatted before.                         *)
LEMMA StorageInit == Init => StorageInv
<1> SUFFICES ASSUME Init PROVE StorageInv
  OBVIOUS
<1>1. Placed
  BY PlacedInit
<1>2. Content(0) \in Sector /\ Superblock \in Sector
  BY StorageAssumption, ContentSector DEF Superblock
<1>3. card \in [Sectors -> Sector] /\ \A s \in Sectors : s # Total - LfsSize => card[s] = Content(0)
  <2> HIDE DEF Sector, Content, Superblock
  <2> QED BY <1>2 DEF Init
<1>4. card \in [Sectors -> Seq(Unit)]
  BY <1>3, CardTyped
<1>5. TypeOK
  <2>1. None \in Device /\ Idle \in [sector : Nat, left : 0 .. Total]
    BY StorageAssumption DEF None, Device, Idle
  <2>2. told \in [Sectors -> 0 .. MaxWrites] /\ unsure \subseteq Sectors
    BY StorageAssumption DEF Init
  <2>3. mscDevice \in Device /\ lfsDevice \in Device /\ op \in [sector : Nat, left : 0 .. Total]
    <3> HIDE DEF Device, None, Idle
    <3> QED BY <2>1 DEF Init
  <2>4. /\ boot = "reset" /\ filesystem = "nil" /\ media = FALSE
        /\ writes = 0 /\ losses = 0 /\ errors = 0
    BY DEF Init
  <2>5. writes \in 0 .. MaxWrites /\ losses \in 0 .. MaxLosses /\ errors \in 0 .. MaxErrors
    BY <2>4, StorageAssumption
  <2> QED BY <1>4, <2>2, <2>3, <2>4, <2>5 DEF TypeOK
<1>6. \A s \in Front : card[s] = Content(0)
  <2> SUFFICES ASSUME NEW s \in Front PROVE card[s] = Content(0)
    OBVIOUS
  <2>1. s \in Sectors /\ s # Total - LfsSize
    BY StorageAssumption DEF Front, Sectors
  <2> QED BY <1>3, <2>1
<1>7. SectorsHold
  <2>1. \A s \in Own \ unsure : card[s] = Content(told[s])
    <3> SUFFICES ASSUME NEW s \in Own PROVE card[s] = Content(told[s])
      OBVIOUS
    <3>1. s \in Sectors /\ s \in Front
      BY OwnSectors
    <3>2. told[s] = 0
      BY <3>1 DEF Init
    <3> QED BY <1>6, <3>1, <3>2
  <2> QED BY <1>3, <2>1, StorageAssumption DEF Init, SectorsHold
<1> QED BY <1>1, <1>5, <1>7 DEF StorageInv

(* initStorage changes no sector of the host's own.                        *)
LEMMA BootHolds == ASSUME StorageInv, initStorage PROVE TypeOK' /\ SectorsHold'
<1>1. /\ UNCHANGED <<media, hostVars>> /\ boot' # boot
      /\ writes' = writes /\ losses' = losses /\ errors' \in 0 .. MaxErrors
      /\ boot' \in {"reset", "parts", "mount", "erase", "mark", "remount", "ready", "failed"}
  <2>1. CASE ConfigureCard
    BY <2>1, StorageAssumption DEF ConfigureCard, Fail, CardFails, counts, driver, StorageInv, TypeOK
  <2>2. CASE Partition
    BY <2>2 DEF Partition, counts, driver, StorageInv, TypeOK
  <2>3. CASE mountFilesystem \/ MountAgain
    BY <2>3, StorageAssumption DEF mountFilesystem, MountAgain, Mount, CardFails, counts, driver, StorageInv, TypeOK
  <2>4. CASE FormatErase
    BY <2>4, StorageAssumption DEF FormatErase, CardFails, counts, driver, StorageInv, TypeOK
  <2>5. CASE FormatMark
    BY <2>5, StorageAssumption DEF FormatMark, Fail, CardFails, counts, driver, StorageInv, TypeOK
  <2> QED BY <2>1, <2>2, <2>3, <2>4, <2>5 DEF initStorage
<1>2. Changed \cap Own = {}
  BY <1>1, BootKeeps DEF StorageInv, Apart
<1>3. card' \in [Sectors -> Sector]
  <2>1. card \in [Sectors -> Sector]
    BY DEF StorageInv, SectorsHold
  <2>2. CASE card' = card
    BY <2>1, <2>2
  <2>3. CASE WriteAt(lfsDevice, Superblock, 0)
    <3>1. Superblock \in Sector
      BY StorageAssumption, ContentSector DEF Superblock
    <3> QED BY <2>1, <2>3, <3>1, WriteAtPuts
  <2>4. CASE EraseBlocks(lfsDevice, 0, lfsDevice.size \div EraseSize) \/ EraseSome
    BY <2>1, <2>4, EraseLeaves DEF EraseSome
  <2> QED BY <2>2, <2>3, <2>4 DEF initStorage, ConfigureCard, Partition, mountFilesystem, MountAgain,
             Mount, FormatErase, FormatMark, Fail
<1>4. op = Idle \/ \A s \in Sectors : card'[s] = card[s]
  <2>1. op = Idle \/ boot = "ready"
    BY DEF StorageInv, Placed
  <2>2. boot # "ready"
    BY DEF initStorage, ConfigureCard, Partition, mountFilesystem, MountAgain, FormatErase, FormatMark
  <2> QED BY <2>1, <2>2
<1>5. SectorsHold'
  BY <1>1, <1>2, <1>3, <1>4, OwnKept DEF hostVars, StorageInv
<1>6. mscDevice' \in Device /\ lfsDevice' \in Device /\ filesystem' \in {"nil", "unmounted", "mounted"}
  <2>1. CASE Partition
    BY <2>1, StorageAssumption DEF Partition, StorageInv, TypeOK, Device
  <2> QED BY <2>1 DEF initStorage, ConfigureCard, mountFilesystem, MountAgain, Mount, FormatErase,
             FormatMark, driver, StorageInv, TypeOK
<1>7. card' \in [Sectors -> Seq(Unit)]
  <2>1. Sector \subseteq Seq(Unit)
    BY SectorWhole
  <2> HIDE DEF Sector
  <2> QED BY <1>3, <2>1
<1>8. TypeOK'
  BY <1>1, <1>6, <1>7 DEF StorageInv, TypeOK, hostVars
<1> QED BY <1>5, <1>8

(* A write of the host begins.                                             *)
LEMMA HostWriteHolds ==
  ASSUME StorageInv, NEW off \in Sectors, NEW n \in 1 .. Total, HostWrite(off, n)
  PROVE  TypeOK' /\ SectorsHold'
<1> USE StorageAssumption
<1>1. /\ media /\ off + n <= mscDevice.size /\ writes < MaxWrites
      /\ op' = [sector |-> off, left |-> n] /\ writes' = writes + 1
      /\ told' = [s \in Sectors |-> IF s \in off .. off + n - 1 THEN writes + 1 ELSE told[s]]
      /\ unsure' = unsure \cup (off .. off + n - 1)
      /\ UNCHANGED <<card, boot, driver, losses, errors>>
  BY DEF HostWrite
<1>2. /\ off \in Nat /\ n \in Nat /\ writes \in Nat /\ MaxWrites \in Nat /\ Total \in Nat
      /\ off + n <= Total - LfsSize /\ Total > LfsSize /\ LfsSize \in Nat
  <2>1. mscDevice.size = Total - LfsSize /\ Total > LfsSize
    BY <1>1 DEF StorageInv, Placed, Parted
  <2> QED BY <1>1, <2>1 DEF Sectors, StorageInv, TypeOK
<1>3. off .. off + n - 1 \subseteq Sectors
  BY <1>2 DEF Sectors
<1>4. /\ told' \in [Sectors -> 0 .. MaxWrites] /\ writes' \in 0 .. MaxWrites
      /\ unsure' \subseteq Sectors /\ op' \in [sector : Nat, left : 0 .. Total]
  <2>1. \A s \in Sectors : (IF s \in off .. off + n - 1 THEN writes + 1 ELSE told[s]) \in 0 .. MaxWrites
    BY <1>1, <1>2 DEF StorageInv, TypeOK
  <2> QED BY <1>1, <1>2, <1>3, <2>1 DEF StorageInv, TypeOK
<1>5. TypeOK'
  BY <1>1, <1>4 DEF StorageInv, TypeOK, driver
<1>6. \A s \in Sectors : /\ told[s] \in Nat /\ told[s] <= writes
                         /\ told'[s] = IF s \in off .. off + n - 1 THEN writes + 1 ELSE told[s]
  BY <1>1 DEF StorageInv, SectorsHold
<1>7. \A s \in Own \ unsure' : card'[s] = Content(told'[s])
  <2> SUFFICES ASSUME NEW s \in Own \ unsure' PROVE card'[s] = Content(told'[s])
    OBVIOUS
  <2>1. s \in Sectors /\ s \in Own \ unsure /\ s \notin off .. off + n - 1
    BY <1>1, OwnSectors
  <2> QED BY <1>1, <1>6, <2>1 DEF StorageInv, SectorsHold
<1>8. /\ \A s \in Sectors : s >= op'.sector /\ s < op'.sector + op'.left =>
            s \in unsure' /\ told'[s] = writes'
      /\ \A s \in Sectors : told'[s] = writes' =>
            /\ s < op'.sector + op'.left
            /\ s < op'.sector => card'[s] = Content(writes')
  <2> SUFFICES ASSUME NEW s \in Sectors
               PROVE  /\ s >= off /\ s < off + n => s \in unsure' /\ told'[s] = writes'
                      /\ told'[s] = writes' => s >= off /\ s < off + n
    BY <1>1, <1>2 DEF Sectors
  <2>1. s \in Nat /\ (s \in off .. off + n - 1 <=> s >= off /\ s < off + n)
    BY <1>2 DEF Sectors
  <2> QED BY <1>1, <1>2, <1>6, <2>1
<1>9. \A s \in Sectors : told'[s] <= writes'
  BY <1>1, <1>2, <1>6
<1>10. card' \in [Sectors -> Sector]
  BY <1>1 DEF StorageInv, SectorsHold
<1> HIDE DEF Sector, Content
<1>11. SectorsHold'
  <2>1. Own' = Own /\ Sectors' = Sectors /\ Idle' = Idle /\ \A k : Content(k)' = Content(k)
    BY OwnSectors DEF Sectors, Idle, Content
  <2> QED BY <1>4, <1>7, <1>8, <1>9, <1>10, <2>1 DEF SectorsHold
<1> QED BY <1>5, <1>11

(* A sector of it goes to the card, the last one with the host's answer,   *)
(* or the card fails.                                                      *)
LEMMA WriteSectorHolds == ASSUME StorageInv, WriteSector PROVE TypeOK' /\ SectorsHold'
<1> USE StorageAssumption
<1>1. /\ op.left > 0 /\ UNCHANGED <<boot, driver, told>>
  BY DEF WriteSector
<1>2. /\ op # Idle /\ boot = "ready" /\ op.sector \in Nat /\ op.left \in Nat
      /\ op.sector + op.left <= Total - LfsSize /\ Total > LfsSize /\ mscDevice.start = 0
      /\ Total \in Nat /\ LfsSize \in Nat
  BY <1>1 DEF StorageInv, Placed, Parted, Idle
<1>3. /\ card \in [Sectors -> Sector] /\ told \in [Sectors -> 0 .. MaxWrites] /\ writes \in 0 .. MaxWrites
      /\ \A s \in Sectors : told[s] <= writes
      /\ \A s \in Own \ unsure : card[s] = Content(told[s])
      /\ \A s \in Sectors : s >= op.sector /\ s < op.sector + op.left => s \in unsure /\ told[s] = writes
      /\ \A s \in Sectors : told[s] = writes =>
            /\ s < op.sector + op.left
            /\ s < op.sector => card[s] = Content(writes)
  BY <1>2 DEF StorageInv, SectorsHold
<1>4. Idle \in [sector : Nat, left : 0 .. Total] /\ Own \subseteq Sectors
  BY OwnSectors DEF Idle
<1>5. op \in [sector : Nat, left : 0 .. Total]
  BY DEF StorageInv, TypeOK
<1>6. CASE /\ WriteAt(mscDevice, Content(writes), op.sector)
           /\ op' = IF op.left = 1 THEN Idle ELSE [sector |-> op.sector + 1, left |-> op.left - 1]
           /\ unsure' = IF op.left = 1 THEN unsure \ {s \in Sectors : told[s] = writes} ELSE unsure
           /\ UNCHANGED counts
  <2>1. Content(writes) \in Sector
    BY <1>3, ContentSector
  <2>2. /\ card' \in [Sectors -> Sector]
        /\ \A s \in Sectors : card'[s] = IF s = op.sector THEN Content(writes) ELSE card[s]
    BY <1>2, <1>3, <1>6, <2>1, WriteAtPuts
  <2>3. card' \in [Sectors -> Seq(Unit)]
    <3>1. Sector \subseteq Seq(Unit)
      BY SectorWhole
    <3> HIDE DEF Sector
    <3> QED BY <2>2, <3>1
  <2> HIDE DEF Sector, Content
  <2>4. op' \in [sector : Nat, left : 0 .. Total]
    <3>1. op.left = 1 \/ (op.left - 1 \in 0 .. Total /\ op.sector + 1 \in Nat)
      BY <1>1, <1>2, <1>5
    <3> QED BY <1>4, <1>6, <3>1
  <2>5. TypeOK'
    BY <1>1, <1>6, <2>3, <2>4 DEF StorageInv, TypeOK, driver, counts
  <2>6. op.sector \in Sectors /\ told[op.sector] = writes
    <3>1. op.sector \in Sectors
      BY <1>1, <1>2 DEF Sectors
    <3>2. op.sector < op.sector + op.left
      BY <1>1, <1>2
    <3> QED BY <1>2, <1>3, <3>1, <3>2
  <2>7. writes' = writes /\ Content(writes)' = Content(writes)
    BY <1>6 DEF counts, Content
  <2>8. \A s \in Own \ unsure' : card'[s] = Content(told[s])
    <3> SUFFICES ASSUME NEW s \in Own \ unsure' PROVE card'[s] = Content(told[s])
      OBVIOUS
    <3>1. s \in Sectors /\ s \in Nat
      BY <1>4 DEF Sectors
    <3>2. CASE s = op.sector
      BY <2>2, <2>6, <3>2
    <3>3. CASE s # op.sector /\ s \notin unsure
      BY <1>3, <2>2, <3>1, <3>3
    <3>4. CASE s # op.sector /\ s \in unsure
      <4>1. op.left = 1 /\ told[s] = writes
        BY <1>6, <3>1, <3>4
      <4>2. s < op.sector
        BY <1>2, <1>3, <3>1, <3>4, <4>1
      <4> QED BY <1>3, <2>2, <3>1, <3>4, <4>1, <4>2
    <3> QED BY <3>2, <3>3, <3>4
  <2>9. op' # Idle =>
          /\ \A s \in Sectors : s >= op'.sector /\ s < op'.sector + op'.left => s \in unsure' /\ told[s] = writes
          /\ \A s \in Sectors : told[s] = writes =>
               /\ s < op'.sector + op'.left
               /\ s < op'.sector => card'[s] = Content(writes)
    <3> SUFFICES ASSUME op' # Idle, NEW s \in Sectors
                 PROVE  /\ s >= op'.sector /\ s < op'.sector + op'.left => s \in unsure' /\ told[s] = writes
                        /\ told[s] = writes =>
                             /\ s < op'.sector + op'.left
                             /\ s < op'.sector => card'[s] = Content(writes)
      OBVIOUS
    <3>1. op'.sector = op.sector + 1 /\ op'.left = op.left - 1 /\ unsure' = unsure
      BY <1>6
    <3>2. s \in Nat /\ op'.sector + op'.left = op.sector + op.left
      BY <1>2, <3>1 DEF Sectors
    <3>3. s >= op'.sector => s >= op.sector
      BY <1>2, <3>1, <3>2
    <3>4. s < op'.sector => s = op.sector \/ (s # op.sector /\ s < op.sector)
      BY <1>2, <3>1, <3>2
    <3> QED BY <1>3, <2>2, <3>1, <3>2, <3>3, <3>4
  <2>10. SectorsHold'
    <3>1. Own' = Own /\ Sectors' = Sectors /\ Idle' = Idle /\ told' = told
      BY <1>1, OwnSectors DEF Sectors, Idle
    <3> QED BY <1>3, <2>2, <2>7, <2>8, <2>9, <3>1 DEF SectorsHold
  <2> QED BY <2>5, <2>10
<1>7. CASE op' = Idle /\ CardFails /\ UNCHANGED <<card, unsure>>
  <2>1. writes' = writes /\ losses' = losses /\ errors' \in 0 .. MaxErrors
    BY <1>7 DEF CardFails, StorageInv, TypeOK
  <2>2. TypeOK'
    BY <1>1, <1>4, <1>7, <2>1 DEF StorageInv, TypeOK, driver
  <2>3. SectorsHold'
    BY <1>1, <1>3, <1>7, <2>1 DEF SectorsHold, Idle
  <2> QED BY <2>2, <2>3
<1> QED BY <1>6, <1>7 DEF WriteSector

(* Every step keeps what the sectors hold.                                 *)
LEMMA StorageNext == StorageInv /\ [Next]_vars => StorageInv'
<1> SUFFICES ASSUME StorageInv, [Next]_vars PROVE StorageInv'
  OBVIOUS
<1>1. Placed'
  BY PlacedNext DEF StorageInv
<1>2. CASE startVirtualMedia
  <2>1. UNCHANGED <<card, boot, mscDevice, lfsDevice, filesystem, counts, hostVars>> /\ media' = TRUE
    BY <1>2 DEF startVirtualMedia
  <2> QED BY <1>1, <2>1 DEF StorageInv, TypeOK, SectorsHold, counts, hostVars
<1>3. CASE PowerLoss
  <2>1. /\ losses' \in 0 .. MaxLosses /\ boot' = "reset" /\ mscDevice' = None /\ lfsDevice' = None
        /\ filesystem' = "nil" /\ media' = FALSE /\ op' = Idle
        /\ UNCHANGED <<writes, errors, told, unsure>>
        /\ IF boot = "erase" THEN EraseSome ELSE card' = card
    BY <1>3, StorageAssumption DEF PowerLoss, StorageInv, TypeOK
  <2>2. None \in Device /\ Idle \in [sector : Nat, left : 0 .. Total]
    BY StorageAssumption DEF None, Device, Idle
  <2>3. card' \in [Sectors -> Sector] /\ Changed \cap Own = {}
    <3>1. card \in [Sectors -> Sector]
      BY DEF StorageInv, SectorsHold
    <3>2. CASE boot = "erase"
      BY <2>1, <3>1, <3>2, EraseLeaves, EraseSomeStays DEF EraseSome, StorageInv
    <3>3. CASE boot # "erase"
      BY <2>1, <3>1, <3>3 DEF Changed
    <3> QED BY <3>2, <3>3
  <2>4. card' \in [Sectors -> Seq(Unit)]
    <3>1. Sector \subseteq Seq(Unit)
      BY SectorWhole
    <3> HIDE DEF Sector
    <3> QED BY <2>3, <3>1
  <2>5. TypeOK'
    BY <2>1, <2>2, <2>4 DEF StorageInv, TypeOK
  <2>6. SectorsHold'
    BY <2>1, <2>3, OwnKept DEF StorageInv
  <2> QED BY <1>1, <2>5, <2>6 DEF StorageInv
<1>4. CASE UNCHANGED vars
  BY <1>1, <1>4 DEF StorageInv, TypeOK, SectorsHold, vars, driver, counts, hostVars
<1>5. CASE initStorage
  BY <1>1, <1>5, BootHolds DEF StorageInv
<1>6. CASE WriteSector
  BY <1>1, <1>6, WriteSectorHolds DEF StorageInv
<1>7. CASE \E off \in Sectors, n \in 1 .. Total : HostWrite(off, n)
  BY <1>1, <1>7, HostWriteHolds DEF StorageInv
<1> QED BY <1>2, <1>3, <1>4, <1>5, <1>6, <1>7 DEF Next

(* The types of card, partitions, start-up and the host's requests.        *)
THEOREM StorageTypeCorrect == Spec => []TypeOK
<1>1. StorageInv => TypeOK
  BY DEF StorageInv
<1> QED BY <1>1, StorageInit, StorageNext, PTL DEF Spec

(* On any card, with sectors and loads of any length, whatever was cut off *)
(* by errors and losses of power: what the host was told is written is     *)
(* what it reads, in every erase block that is the front's alone.          *)
THEOREM HostReadsItsWrites == Spec => []HostReadsWhatItWrote
<1>1. StorageInv => HostReadsWhatItWrote
  <2> SUFFICES ASSUME StorageInv, media, NEW s \in Own \ unsure
               PROVE  ReadAt(mscDevice, s) = Content(told[s])
    BY DEF HostReadsWhatItWrote
  <2>1. s \in Sectors /\ s \in Nat /\ mscDevice.start = 0
    BY OwnSectors DEF StorageInv, Placed, Parted, Sectors
  <2>2. card[s] \in Sector /\ card[s] = Content(told[s])
    BY <2>1 DEF StorageInv, SectorsHold
  <2>3. ReadAt(mscDevice, s) = Spi!TxReceived(card[s], SectorUnits)
    BY <2>1 DEF ReadAt
  <2> QED BY <2>2, <2>3, SectorWhole
<1> QED BY <1>1, StorageInit, StorageNext, PTL DEF Spec
=============================================================================
