------------------------------- MODULE Storage -------------------------------
(***************************************************************************)
(* The SD card (storage.go, storage_lfs.go, virtual_media.go): a front     *)
(* partition for the managed host's USB disk and a tail partition for the  *)
(* controller's file system, on one card behind the SPI master.            *)
(*                                                                         *)
(* initStorage runs step by step and may fail at each; the controller may  *)
(* lose power at any time, in the middle of a write or of formatting.  The *)
(* card, its driver, LittleFS and the USB disk's host are external: the    *)
(* host stays within the size it was told, the card takes a sector and     *)
(* erases a block whole or not at all.  Offsets are in sectors.            *)
(***************************************************************************)
EXTENDS Naturals, Sequences, FiniteSets

CONSTANTS Total,       \* sectors of the card
          LfsSize,     \* lfsPartitionSize
          EraseSize,   \* sectors in an erase block
          SectorUnits, \* length of a sector, in units
          Depth,       \* units in the SPI FIFO
          MaxWrites,   \* bound: writes of the host
          MaxLosses,   \* bound: power losses
          MaxErrors    \* bound: requests the card answers with an error

ASSUME StorageAssumption ==
  /\ Total \in Nat /\ LfsSize \in Nat \ {0} /\ EraseSize \in Nat \ {0}
  /\ SectorUnits \in Nat /\ Depth \in Nat \ {0}
  /\ MaxWrites \in Nat /\ MaxLosses \in Nat /\ MaxErrors \in Nat

(* A unit of data: which write it belongs to (0: erased; MaxWrites + 1: a  *)
(* file system) and its place in the sector.                               *)
Unit == [write : 0 .. MaxWrites + 1, place : 0 .. SectorUnits]
Spi == INSTANCE SpiMaster WITH Zero <- [write |-> 0, place |-> 0]

Sectors == 0 .. Total - 1
Content(k) == [i \in 1 .. SectorUnits |-> [write |-> k, place |-> IF k = 0 THEN 0 ELSE i]]
Superblock == Content(MaxWrites + 1)
Device == {p \in [start : 0 .. Total, size : 0 .. Total] : p.start + p.size <= Total}
None == [start |-> 0, size |-> 0]

VARIABLES card,      \* contents of the sectors
          boot,      \* how far initStorage has got
          mscDevice, lfsDevice,   \* the partitions
          filesystem,             \* nil, or whether it is mounted
          media,     \* the USB disk is registered
          op,        \* the write of the host being carried out
          writes,    \* writes begun so far
          losses, errors,
          told,      \* history: what the host last wrote to each sector
          unsure     \* history: sectors whose last write was not acknowledged

driver == <<mscDevice, lfsDevice, filesystem, media>>
counts == <<writes, losses, errors>>
hostVars == <<op, told, unsure>>
vars == <<card, boot, driver, counts, hostVars>>

Idle == [sector |-> 0, left |-> 0]

TypeOK ==
  /\ card \in [Sectors -> Seq(Unit)]
  /\ boot \in {"reset", "parts", "mount", "erase", "mark", "remount", "ready", "failed"}
  /\ mscDevice \in Device /\ lfsDevice \in Device
  /\ filesystem \in {"nil", "unmounted", "mounted"} /\ media \in BOOLEAN
  /\ op \in [sector : Nat, left : 0 .. Total]
  /\ writes \in 0 .. MaxWrites /\ losses \in 0 .. MaxLosses /\ errors \in 0 .. MaxErrors
  /\ told \in [Sectors -> 0 .. MaxWrites] /\ unsure \subseteq Sectors

(* A card fresh or used before, as far as its file system goes.            *)
Init ==
  /\ card \in {[s \in Sectors |-> Content(0)],
               [s \in Sectors |-> IF s = Total - LfsSize THEN Superblock ELSE Content(0)]}
  /\ boot = "reset" /\ mscDevice = None /\ lfsDevice = None
  /\ filesystem = "nil" /\ media = FALSE
  /\ op = Idle /\ writes = 0 /\ losses = 0 /\ errors = 0
  /\ told = [s \in Sectors |-> 0] /\ unsure = {}

-----------------------------------------------------------------------------
(* PartitionDevice.                                                        *)

ReadAt(p, off) == Spi!TxReceived(card[p.start + off], SectorUnits)

(* Mutant: the partition's start is forgotten.                             *)
WriteAt_NoStart(p, data, off) == card' = [card EXCEPT ![off] = Spi!Tx(data, 0)]

WriteAt(p, data, off) == card' = [card EXCEPT ![p.start + off] = Spi!Tx(data, 0)]

(* Blocks count from the erase block in which the partition begins; where  *)
(* in the block that is, nothing checks.                                   *)
EraseBlocks(p, start, count) ==
  LET absStart == p.start \div EraseSize + start
  IN card' = [s \in Sectors |-> IF s \div EraseSize \in absStart .. absStart + count - 1
                                THEN Content(0) ELSE card[s]]

-----------------------------------------------------------------------------
(* initStorage and mountFilesystem.                                        *)

CardFails == errors < MaxErrors /\ errors' = errors + 1 /\ UNCHANGED <<writes, losses>>
Fail == boot' = "failed" /\ CardFails /\ UNCHANGED card

(* SPI at 400 kHz, card initialisation, SPI at 20 MHz.                     *)
ConfigureCard ==
  /\ boot = "reset"
  /\ \/ boot' = "parts" /\ UNCHANGED <<card, counts>>
     \/ Fail
  /\ UNCHANGED <<driver, hostVars>>

(* Mutant: the tail has the size of the card.                              *)
Partition_WholeTail ==
  /\ boot = "parts"
  /\ IF Total <= LfsSize
       THEN boot' = "failed" /\ UNCHANGED <<mscDevice, lfsDevice>>
       ELSE /\ boot' = "mount"
            /\ mscDevice' = [start |-> 0, size |-> Total - LfsSize]
            /\ lfsDevice' = [start |-> Total - LfsSize, size |-> Total]
  /\ UNCHANGED <<card, filesystem, media, counts, hostVars>>

Partition ==
  /\ boot = "parts"
  /\ IF Total <= LfsSize
       THEN boot' = "failed" /\ UNCHANGED <<mscDevice, lfsDevice>>
       ELSE /\ boot' = "mount"
            /\ mscDevice' = [start |-> 0, size |-> Total - LfsSize]
            /\ lfsDevice' = [start |-> Total - LfsSize, size |-> LfsSize]
  /\ UNCHANGED <<card, filesystem, media, counts, hostVars>>

(* LittleFS mounts when it can read a superblock (external).               *)
Mount(then) ==
  /\ \/ /\ ReadAt(lfsDevice, 0) = Superblock
        /\ filesystem' = "mounted" /\ boot' = "ready" /\ UNCHANGED counts
     \/ /\ ReadAt(lfsDevice, 0) # Superblock
        /\ filesystem' = "unmounted" /\ boot' = then /\ UNCHANGED counts
     \/ filesystem' = "unmounted" /\ boot' = then /\ CardFails
  /\ UNCHANGED <<card, mscDevice, lfsDevice, media, hostVars>>

(* Any failure to mount, an error of the card included, leads to Format.   *)
mountFilesystem == boot = "mount" /\ Mount("erase")

(* Format (external): erase the partition, block by block, then write the  *)
(* superblock.                                                             *)
EraseSome == \E n \in 0 .. lfsDevice.size \div EraseSize : EraseBlocks(lfsDevice, 0, n)
FormatErase ==
  /\ boot = "erase"
  /\ \/ /\ EraseBlocks(lfsDevice, 0, lfsDevice.size \div EraseSize)
        /\ boot' = "mark" /\ UNCHANGED counts
     \/ EraseSome /\ boot' = "failed" /\ CardFails
  /\ UNCHANGED <<driver, hostVars>>
FormatMark ==
  /\ boot = "mark"
  /\ \/ WriteAt(lfsDevice, Superblock, 0) /\ boot' = "remount" /\ UNCHANGED counts
     \/ Fail
  /\ UNCHANGED <<driver, hostVars>>
MountAgain == boot = "remount" /\ Mount("failed")

(* main registers the USB disk only if initStorage returned nil.           *)
startVirtualMedia ==
  /\ boot = "ready" /\ ~media
  /\ media' = TRUE
  /\ UNCHANGED <<card, boot, mscDevice, lfsDevice, filesystem, counts, hostVars>>

-----------------------------------------------------------------------------
(* The host's USB disk (external) on mscDevice.                            *)

(* A write of n sectors, within the size the host was told.                *)
HostWrite(off, n) ==
  /\ media /\ op = Idle /\ writes < MaxWrites
  /\ n > 0 /\ off + n <= mscDevice.size
  /\ op' = [sector |-> off, left |-> n]
  /\ writes' = writes + 1
  /\ told' = [s \in Sectors |-> IF s \in off .. off + n - 1 THEN writes + 1 ELSE told[s]]
  /\ unsure' = unsure \cup (off .. off + n - 1)
  /\ UNCHANGED <<card, boot, driver, losses, errors>>

(* The next sector goes to the card; after the last one the host is told.  *)
WriteSector ==
  /\ op.left > 0
  /\ \/ /\ WriteAt(mscDevice, Content(writes), op.sector)
        /\ op' = IF op.left = 1 THEN Idle ELSE [sector |-> op.sector + 1, left |-> op.left - 1]
        /\ unsure' = IF op.left = 1 THEN unsure \ {s \in Sectors : told[s] = writes} ELSE unsure
        /\ UNCHANGED counts
     \/ op' = Idle /\ CardFails /\ UNCHANGED <<card, unsure>>
  /\ UNCHANGED <<boot, driver, told>>

(* The controller loses power; the card keeps what it has, of a partition  *)
(* being erased some blocks erased.                                        *)
PowerLoss ==
  /\ losses < MaxLosses
  /\ losses' = losses + 1
  /\ boot' = "reset" /\ mscDevice' = None /\ lfsDevice' = None
  /\ filesystem' = "nil" /\ media' = FALSE
  /\ op' = Idle
  /\ IF boot = "erase" THEN EraseSome ELSE UNCHANGED card
  /\ UNCHANGED <<writes, errors, told, unsure>>

-----------------------------------------------------------------------------
initStorage == ConfigureCard \/ Partition \/ mountFilesystem \/ FormatErase \/ FormatMark \/ MountAgain

Next == \/ initStorage \/ startVirtualMedia \/ WriteSector \/ PowerLoss
        \/ \E off \in Sectors, n \in 1 .. Total : HostWrite(off, n)

Spec == Init /\ [][Next]_vars

-----------------------------------------------------------------------------
(* Properties.                                                             *)

Front == 0 .. Total - LfsSize - 1
Back  == Sectors \ Front
Changed == {s \in Sectors : card'[s] # card[s]}

(* The sectors of the front that share no erase block with the tail: all   *)
(* of them if the tail begins on an erase block, which the comment on      *)
(* EraseBlocks (storage.go:55-56) believes of every card.                  *)
Own == {s \in Front : s \div EraseSize < (Total - LfsSize) \div EraseSize}

(* The tail "is completely invisible to the remote machine"                *)
(* (storage.go:27): no write of the host reaches a sector of the tail, and *)
(* neither mounting nor formatting, complete or cut short, one of the      *)
(* host's own.                                                             *)
PartitionsApart ==
  [][/\ op' # op => Changed \subseteq Front
     /\ boot' # boot => Changed \cap Own = {}]_vars

(* What the host was told is written is what it reads, also after power    *)
(* losses and through every cut of a sector into SPI loads; in an erase    *)
(* block that the tail begins in the middle of, only until the tail is     *)
(* formatted.                                                              *)
HostReadsWhatItWrote ==
  media => \A s \in Own \ unsure : ReadAt(mscDevice, s) = Content(told[s])
=============================================================================
