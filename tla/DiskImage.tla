----------------------------- MODULE DiskImage ------------------------------
(***************************************************************************)
(* The formats of the disk images a node is installed from: the partition  *)
(* table, the file system of the EFI system partition, and qcow2.          *)
(***************************************************************************)
EXTENDS Integers, FiniteSets, Sequences, SequencesExt

(***************************************************************************)
(* GUID partition tables (osbase/gpt): the search for free space, the      *)
(* placement of a partition, and the writing and reading of the two copies *)
(* of the table.  Sizes are in blocks.  A table is the sequence of its     *)
(* slots; on disk each copy is a header, valid for one table, and the      *)
(* entries it checksums.  A write may be aborted between or within the     *)
(* writes to the device, and the table is then read again.                 *)
(***************************************************************************)

CONSTANTS
  BlockCount,     \* blocks of the device
  EntryBlocks,    \* blocks of the partition entries
  Align,          \* alignment in blocks
  MaxSlots,       \* partition entries of a table (128)
  MaxGptOps       \* bound on operations

VARIABLES
  slots,          \* Table.Partitions
  gptDisk,           \* the two copies: [priHeader, priEntries, altHeader, altEntries]
  gptAt,          \* "idle" | where Write has got to
  before,         \* table of the primary copy when Write began, Blank if damaged
  gptOps

gptVars == <<slots, gptDisk, gptAt, before, gptOps>>

Unused == [first |-> 0, last |-> 0, used |-> "no"]
Part(f, l) == [first |-> f, last |-> l, used |-> "yes"]
Garbage == <<Part(-1, -1)>>

FirstUsableBlock == 2 + EntryBlocks
LastUsableBlock == BlockCount - (2 + EntryBlocks)

\* GetFreeSpaces: the boundaries of all occupied intervals, both copies of the
\* table included, starts and ends sorted separately.
UsedParts(t) == SelectSeq(t, LAMBDA p : p.used = "yes")
Ascending(s) == SortSeq(s, <)
StartBlocks(t) ==
  Ascending(<<0, LastUsableBlock + 1>> \o [i \in DOMAIN UsedParts(t) |-> UsedParts(t)[i].first])
EndBlocks(t) ==
  Ascending(<<FirstUsableBlock, BlockCount>>
              \o [i \in DOMAIN UsedParts(t) |-> UsedParts(t)[i].last + 1])

\* The sweep over the boundaries.  A free space begins where the number of
\* open intervals drops to zero and ends where it rises again; a start and an
\* end at the same block cancel out.
RECURSIVE Sweep(_, _, _, _, _)
Sweep(starts, ends, open, free, overlap) ==
  IF starts = <<>> /\ ends = <<>> THEN [free |-> free, overlap |-> overlap]
  ELSE IF starts # <<>> /\ ends # <<>> /\ Head(starts) = Head(ends)
    THEN Sweep(Tail(starts), Tail(ends), open, free, overlap)
  ELSE IF ends = <<>> \/ (starts # <<>> /\ Head(starts) < Head(ends))
    THEN Sweep(Tail(starts), ends, open + 1,
               IF open = 0 /\ free # <<>>
                 THEN [free EXCEPT ![Len(free)] = <<@[1], Head(starts)>>] ELSE free,
               overlap \/ open + 1 > 1)
    ELSE Sweep(starts, Tail(ends), open - 1,
               IF open = 1 /\ starts # <<>> THEN Append(free, <<Head(ends), 0>>) ELSE free,
               overlap)
SweepOfFault(t) == Sweep(StartBlocks(t), Ascending([i \in DOMAIN EndBlocks(t) |->
                           IF EndBlocks(t)[i] = BlockCount THEN BlockCount ELSE EndBlocks(t)[i] - 1]),
                         0, <<>>, FALSE)
SweepOf(t) == Sweep(StartBlocks(t), EndBlocks(t), 0, <<>>, FALSE)
GetFreeSpaces(t) == SweepOf(t).free
HasOverlap(t) == SweepOf(t).overlap
Valid(t) == \A i \in DOMAIN UsedParts(t) :
  LET p == UsedParts(t)[i] IN 0 <= p.first /\ p.first <= p.last /\ p.last < BlockCount

\* Go's remainder takes the sign of the dividend.
GoRem(a, b) == IF a >= 0 THEN a % b ELSE -((-a) % b)

\* AddPartition: where a free space puts a partition of so many blocks.
Padding(start) == GoRem(GoRem(Align - start, Align), Align)
Fits(space, blocks) == (space[2] - space[1]) - Padding(space[1]) >= blocks
Placed(space, blocks, preferEnd) ==
  LET start == space[1] + Padding(space[1])
      end == space[2]
      moveLeft == GoRem(end - blocks - 1, Align) IN
  IF preferEnd THEN Part(end - (blocks + 1 + moveLeft), end - (2 + moveLeft))
  ELSE Part(start, start + blocks - 1)
LargestSpace(fs) ==
  CHOOSE n \in 0..BlockCount :
    /\ \A i \in DOMAIN fs : fs[i][2] - fs[i][1] <= n
    /\ n = 0 \/ \E i \in DOMAIN fs : fs[i][2] - fs[i][1] = n

FirstUnused(t) == {i \in DOMAIN t : t[i].used = "no" /\ \A j \in 1..(i - 1) : t[j].used = "yes"}
InsertPart(t, p, keepEmpty) ==
  IF keepEmpty \/ FirstUnused(t) = {} THEN Append(t, p)
  ELSE [t EXCEPT ![CHOOSE i \in FirstUnused(t) : TRUE] = p]

Blank == <<>>
GptInit ==
  /\ slots = <<>>
  /\ gptDisk = [priHeader |-> Blank, priEntries |-> Blank, altHeader |-> Blank, altEntries |-> Blank]
  /\ gptAt = "idle" /\ before = Blank /\ gptOps = 0

\* size -1 asks for the largest free space; a partition that fits nowhere is refused.
AddPartition(size, preferEnd, keepEmpty) ==
  /\ gptAt = "idle" /\ gptOps < MaxGptOps /\ gptOps' = gptOps + 1
  /\ Valid(slots)
  /\ LET fs == IF preferEnd THEN Reverse(GetFreeSpaces(slots)) ELSE GetFreeSpaces(slots)
         blocks == IF size = -1 THEN LargestSpace(fs) ELSE size
         fitting == {i \in DOMAIN fs : Fits(fs[i], blocks)} IN
       slots' = IF fitting = {} THEN slots
                ELSE InsertPart(slots,
                       Placed(fs[CHOOSE i \in fitting : \A j \in fitting : i <= j], blocks, preferEnd),
                       keepEmpty)
  /\ UNCHANGED <<gptDisk, gptAt, before>>

\* The user of the table empties a slot.
RemovePartition(i) ==
  /\ gptAt = "idle" /\ gptOps < MaxGptOps /\ gptOps' = gptOps + 1
  /\ i \in DOMAIN slots /\ slots[i].used = "yes"
  /\ slots' = [slots EXCEPT ![i] = Unused]
  /\ UNCHANGED <<gptDisk, gptAt, before>>

\* The entries a table writes, padded with empty ones; reading them back drops
\* the empty slots behind the last used one, but keeps the first.
Entries(t) == [i \in 1..MaxSlots |-> IF i <= Len(t) THEN t[i] ELSE Unused]
LastUsed(e) == LET U == {i \in DOMAIN e : e[i].used = "yes"} IN
               IF U = {} THEN 1 ELSE CHOOSE i \in U : \A j \in U : j <= i
UsedSlots(e) == SubSeq(e, 1, LastUsed(e))

\* readSingleGPT of a copy, and Read: the alternate if the primary is damaged.
Whole(header, entries) == header # Blank /\ header = entries
Unreadable == Garbage
ReadTable(d) ==
  IF Whole(d.priHeader, d.priEntries) THEN d.priEntries
  ELSE IF Whole(d.altHeader, d.altEntries) THEN d.altEntries
  ELSE Unreadable

\* Write: the alternate entries and header first, then the primary copy.  A
\* step of an aborted write leaves the entries it was writing mixed.
WriteStepsFault == <<"priHeader", "priEntries", "altEntries", "altHeader">>
WriteSteps == <<"altEntries", "altHeader", "priHeader", "priEntries">>
WriteBegins ==
  /\ gptAt = "idle" /\ gptOps < MaxGptOps /\ gptOps' = gptOps + 1
  /\ Len(slots) <= MaxSlots
  /\ gptAt' = WriteSteps[1]
  /\ before' = IF Whole(gptDisk.priHeader, gptDisk.priEntries) THEN gptDisk.priEntries ELSE Blank
  /\ UNCHANGED <<slots, gptDisk>>

WriteStep ==
  /\ gptAt # "idle"
  /\ gptDisk' = [gptDisk EXCEPT ![gptAt] = Entries(slots)]
  /\ LET i == CHOOSE k \in 1..4 : WriteSteps[k] = gptAt IN
       gptAt' = IF i = 4 THEN "idle" ELSE WriteSteps[i + 1]
  /\ UNCHANGED <<slots, before, gptOps>>

\* The write is aborted, and the device read: Read fails on a device whose
\* first table was never completed.
WriteAborted ==
  /\ gptAt # "idle"
  /\ \E torn \in {"no", "yes"} :
       gptDisk' = IF torn = "yes" /\ gptAt \in {"priEntries", "altEntries"}
                 THEN [gptDisk EXCEPT ![gptAt] = Garbage] ELSE gptDisk
  /\ slots' = IF ReadTable(gptDisk') = Unreadable THEN <<>> ELSE UsedSlots(ReadTable(gptDisk'))
  /\ gptAt' = "idle"
  /\ UNCHANGED <<before, gptOps>>

GptNext ==
  \/ \E size \in {-1} \cup 1..3, preferEnd, keepEmpty \in BOOLEAN :
       AddPartition(size, preferEnd, keepEmpty)
  \/ \E i \in 1..(MaxSlots + 1) : RemovePartition(i)
  \/ WriteBegins \/ WriteStep \/ WriteAborted

GptTypeOK ==
  /\ \A i \in DOMAIN slots : slots[i].used \in {"yes", "no"}
  /\ gptAt \in {"idle"} \cup Range(WriteSteps)

\* Reference for the free spaces: the maximal runs of blocks that neither a
\* copy of the table nor a partition occupies, in ascending order.
Holders(t, b) ==
  {i \in DOMAIN t : t[i].used = "yes" /\ t[i].first <= b /\ b <= t[i].last}
    \cup (IF b < FirstUsableBlock THEN {-1} ELSE {}) \cup (IF b > LastUsableBlock THEN {-2} ELSE {})
Free(t, b) == b \in 0..(BlockCount - 1) /\ Holders(t, b) = {}
Runs(t) == {<<a, b>> \in (0..BlockCount) \X (0..BlockCount) :
              /\ a < b /\ \A k \in a..(b - 1) : Free(t, k)
              /\ ~Free(t, a - 1) /\ ~Free(t, b)}

\* For every table the operations build, overlapping ones included, the sweep
\* over separately sorted boundaries yields exactly the maximal free runs in
\* ascending order, and reports an overlap exactly when a block has two
\* holders; and while a device with an undamaged primary table is being
\* written, an abort at any point leaves one that reads as the old table or
\* the new one.
GptSound ==
  /\ Valid(slots) =>
       /\ Range(GetFreeSpaces(slots)) = Runs(slots)
       /\ \A i \in DOMAIN GetFreeSpaces(slots) :
            i > 1 => GetFreeSpaces(slots)[i - 1][2] < GetFreeSpaces(slots)[i][1]
       /\ HasOverlap(slots) <=> \E b \in 0..(BlockCount - 1) : Cardinality(Holders(slots, b)) > 1
  /\ gptAt # "idle" /\ before # Blank => ReadTable(gptDisk) \in {before, Entries(slots)}

\* AddPartition places a partition "into the first (or last using
\* WithPreferEnd) continuous free space which fits it": it takes blocks that
\* were free. It does not hold with WithPreferEnd: the end is moved left past
\* the start of the space.
GptPlacedFree ==
  [][ \A i \in DOMAIN slots' :
        (slots'[i].used = "yes" /\ (i \notin DOMAIN slots \/ slots[i].used = "no") /\ gptAt = "idle")
          => \A b \in slots'[i].first..slots'[i].last : Free(slots, b) ]_slots

-----------------------------------------------------------------------------
(***************************************************************************)
(* The FAT32 writer (osbase/fat32) that makes the EFI system partition:    *)
(* the tree of inodes PlaceFile builds, the unique DOS names of a          *)
(* directory, the placement of the inodes in the allocation table, the     *)
(* sizes in the boot sector, and the order in which WriteFS emits it all.  *)
(* An inode's content is its size in bytes; the table is the number of its *)
(* entries and the chain of each inode.                                    *)
(***************************************************************************)

CONSTANTS
  FileName,       \* names: [key, valid, base]; equal key: equal but for case
  FileSize,       \* content sizes in bytes
  BlockCounts,    \* values of Options.BlockCount, 0 for as large as needed
  MaxInodes       \* bound on inodes

VARIABLES
  inodes,         \* the tree, the root first: [name, parent, dir, size]
  fatAt,          \* "build" | "place" | "write" | "done" | "failed"
  option,         \* Options.BlockCount
  stack,          \* inodes placeRecursively has yet to visit
  ordered,        \* planningState.orderedInodes
  startCluster,   \* inode -> its first cluster
  fatLen,         \* entries of the table so far
  allocated,      \* entries of the table that are not free
  position,       \* inode -> cluster at which WriteFS wrote its data
  wrote           \* blocks WriteFS has written

fatVars == <<inodes, fatAt, option, stack, ordered, startCluster, fatLen, allocated, position,
             wrote>>

BlockSize == 512
CodepointsPerEntry == 13
EntriesPerBlock == BlockSize \div 4
ReservedBlocks == 8
NumFATs == 2
MinimumFat == 65525 + 2
RoundUp(a, b) == (a + b - 1) \div b
Inode(name, parent, dir, size) == [name |-> name, parent |-> parent, dir |-> dir, size |-> size]
NoName == [key |-> "", valid |-> "yes", base |-> "", length |-> 0]
FatRoot == 1
Children(t, i) == SelectSeq([k \in DOMAIN t |-> k], LAMBDA k : t[k].parent = i)

\* metaSize and dataSize, in bytes.
MetaSize(n) == (RoundUp(n.name.length + 1, CodepointsPerEntry) + 1) * 32
DataSize(t, i) ==
  IF t[i].dir = "no" THEN t[i].size
  ELSE FoldLeft(LAMBDA sum, c : sum + MetaSize(t[c]), IF i = FatRoot THEN 32 ELSE 64, Children(t, i))
\* allocBytes: the entries chained for so many bytes, none for an empty file;
\* and FinishBlock: the clusters that many bytes take once padded.
AllocBytesFault(b) == b \div BlockSize + 1
AllocBytes(b) == RoundUp(b, BlockSize)
Padded(b) == IF b % BlockSize = 0 THEN b \div BlockSize ELSE b \div BlockSize + 1
Clusters(t, i) == AllocBytes(DataSize(t, i))

FatInit ==
  /\ inodes = <<Inode(NoName, 0, "yes", 0)>>
  /\ fatAt = "build"
  /\ option \in BlockCounts
  /\ stack = <<>> /\ ordered = <<>>
  /\ startCluster = <<>> /\ position = <<>>
  /\ fatLen = 2 /\ allocated = 2 /\ wrote = 0

\* PlaceFile: the directories of the path are made as needed, a path that
\* exists already is an error.
Child(t, i, name) == {c \in Range(Children(t, i)) : t[c].name.key = name.key}
Enter(t, i, name) ==
  IF Child(t, i, name) # {} THEN [tree |-> t, at |-> CHOOSE c \in Child(t, i, name) : TRUE]
  ELSE [tree |-> Append(t, Inode(name, i, "yes", 0)), at |-> Len(t) + 1]
PlaceFile(path, size) ==
  /\ fatAt = "build" /\ Len(inodes) + Len(path) <= MaxInodes
  /\ LET dir == FoldLeft(LAMBDA e, name : Enter(e.tree, e.at, name),
                         [tree |-> inodes, at |-> FatRoot], Front(path)) IN
       inodes' = IF Child(dir.tree, dir.at, Last(path)) # {} THEN dir.tree
                 ELSE Append(dir.tree, Inode(Last(path), dir.at, "no", size))
  /\ UNCHANGED <<fatAt, option, stack, ordered, startCluster, fatLen, allocated, position, wrote>>

WriteFS ==
  /\ fatAt = "build" /\ fatAt' = "place" /\ stack' = <<FatRoot>>
  /\ startCluster' = [i \in DOMAIN inodes |-> 0] /\ position' = startCluster'
  /\ UNCHANGED <<inodes, option, ordered, fatLen, allocated, wrote>>

\* placeRecursively visits an inode before its children.
Visited(rest, i) == Children(inodes, i) \o rest
PlaceInode ==
  /\ fatAt = "place" /\ stack # <<>>
  /\ LET i == Head(stack) IN
       /\ startCluster' = [startCluster EXCEPT ![i] = IF Clusters(inodes, i) = 0 THEN 0 ELSE fatLen]
       /\ fatLen' = fatLen + Clusters(inodes, i)
       /\ ordered' = Append(ordered, i)
       /\ stack' = Visited(Tail(stack), i)
  /\ UNCHANGED <<inodes, fatAt, option, allocated, position, wrote>>

\* prepareFS: the table is filled up to its minimum, and to the data blocks of
\* a file system of fixed size.
Larger(a, b) == IF a > b THEN a ELSE b
MinimumLen == Larger(fatLen, MinimumFat)
FatBlocks(n) == RoundUp(4 * n, BlockSize)
Occupied == ReservedBlocks + (MinimumLen - 2) + FatBlocks(MinimumLen) * NumFATs
FixedFatBlocks(total) == RoundUp(total + 2, EntriesPerBlock + NumFATs)
DataBlocks(total) == total - ReservedBlocks - NumFATs * FixedFatBlocks(total)
TotalBlocks == IF option = 0 THEN Occupied ELSE option
BlocksPerFAT == IF option = 0 THEN FatBlocks(MinimumLen) ELSE FixedFatBlocks(option)
FilledLen == IF option = 0 THEN MinimumLen ELSE Larger(MinimumLen, DataBlocks(option) + 2)

PrepareDone ==
  /\ fatAt = "place" /\ stack = <<>>
  /\ allocated' = fatLen
  /\ IF option # 0 /\ option < Occupied
       THEN fatAt' = "failed" /\ UNCHANGED <<fatLen, wrote>>
       ELSE /\ fatAt' = "write"
            /\ fatLen' = FilledLen
            /\ wrote' = ReservedBlocks + NumFATs * FatBlocks(FilledLen)
  /\ UNCHANGED <<inodes, option, stack, ordered, startCluster, position>>

\* makeUniqueDOSNames: a name that is valid is passed through, which fails for
\* a second inode of that name; the others are numbered past the taken ones.
DosNames(t, i) ==
  LET valid == {c \in Range(Children(t, i)) : t[c].name.valid = "yes"}
      taken == {t[c].name.key : c \in valid}
      Number(acc, c) ==
        LET n == CHOOSE k \in acc.next..(acc.next + Cardinality(taken)) :
                   /\ <<t[c].name.base, k>> \notin taken
                   /\ \A j \in acc.next..(k - 1) : <<t[c].name.base, j>> \in taken IN
        [next |-> n + 1, names |-> Append(acc.names, <<t[c].name.base, n>>)]
      lossy == SelectSeq(Children(t, i), LAMBDA c : t[c].name.valid = "no") IN
  [passed |-> taken, unique |-> Cardinality(taken) = Cardinality(valid),
   numbered |-> FoldLeft(Number, [next |-> 0, names |-> <<>>], lossy).names]

\* The data of an inode, padded to a full cluster.
WriteInode ==
  /\ fatAt = "write" /\ ordered # <<>>
  /\ LET i == Head(ordered) IN
       IF inodes[i].dir = "yes" /\ ~DosNames(inodes, i).unique
         THEN fatAt' = "failed" /\ UNCHANGED <<position, wrote, ordered>>
         ELSE /\ position' = [position EXCEPT ![i] = wrote]
              /\ wrote' = wrote + Padded(DataSize(inodes, i))
              /\ ordered' = Tail(ordered)
              /\ UNCHANGED fatAt
  /\ UNCHANGED <<inodes, option, stack, startCluster, fatLen, allocated>>

WriteDone ==
  /\ fatAt = "write" /\ ordered = <<>>
  /\ fatAt' = "done"
  /\ wrote' = RoundUp(wrote, TotalBlocks) * TotalBlocks
  /\ UNCHANGED <<inodes, option, stack, ordered, startCluster, fatLen, allocated, position>>

Paths == {<<a>> : a \in FileName} \cup {<<a, b>> : a, b \in FileName}
FatNext ==
  \/ \E path \in Paths, size \in FileSize : PlaceFile(path, size)
  \/ WriteFS \/ PlaceInode \/ PrepareDone \/ WriteInode \/ WriteDone

FatTypeOK ==
  /\ fatAt \in {"build", "place", "write", "done", "failed"}
  /\ \A i \in DOMAIN inodes : inodes[i].parent \in 0..(i - 1) /\ inodes[i].size \in Nat
  /\ fatLen \in Nat /\ allocated \in Nat /\ wrote \in Nat

\* First block of the data area as written, which is where cluster 2 lies.
Written == ReservedBlocks + NumFATs * FatBlocks(fatLen)
Chain(i) == startCluster[i]..(startCluster[i] + Clusters(inodes, i) - 1)

\* However the tree was built, no two entries of a directory share a name or a
\* DOS name when the write succeeds; every inode with data has a chain of
\* its own beyond the two reserved entries, as long as its data; WriteFS emits
\* each inode at the cluster its directory entry names, although placing and
\* writing are separate passes and empty files take no cluster; and the table fits
\* the blocks the boot sector gives it, and the whole its total.
FatSound ==
  fatAt = "done" =>
    /\ \A i \in DOMAIN inodes : inodes[i].dir = "yes" =>
         LET d == DosNames(inodes, i)
             cs == Range(Children(inodes, i)) IN
           /\ Cardinality({inodes[c].name.key : c \in cs}) = Cardinality(cs)
           /\ Cardinality(Range(d.numbered)) = Len(d.numbered)
           /\ Range(d.numbered) \cap d.passed = {}
    /\ \A i, j \in DOMAIN inodes : i # j => Chain(i) \cap Chain(j) = {}
    /\ \A i \in DOMAIN inodes : Clusters(inodes, i) > 0 =>
         /\ Chain(i) \subseteq 2..(allocated - 1)
         /\ position[i] = Written + (startCluster[i] - 2)
    /\ fatLen <= BlocksPerFAT * EntriesPerBlock /\ allocated <= fatLen
    /\ wrote = TotalBlocks

\* prepareFS splits the blocks "so that exactly as much metadata (FAT) exists
\* for describing the amount of data blocks": the tables as written take the
\* blocks the boot sector says, so the data begins where a reader looks for it.
\* It does not hold for a fixed block count like 66559, which leaves the last
\* block of a table unused.
FatBlocksExact == fatAt = "done" => FatBlocks(fatLen) = BlocksPerFAT

-----------------------------------------------------------------------------
(***************************************************************************)
(* The qcow2 image builder (go/qcow2).  The refcount tables have to cover  *)
(* the metadata of the image, themselves included: the loop that sizes     *)
(* them is the state machine, one step per table cluster added.  Sizes are *)
(* counted in clusters of 2^clusterBits bytes, a part of one counting as   *)
(* one.                                                                    *)
(***************************************************************************)

CONSTANTS
  ImageSizes,  \* user sizes of images, in clusters
  EntriesL2    \* 16-bit refcount entries per cluster: 256 for 512-byte clusters

VARIABLES
  imageSize, \* builder.size
  qL1, qL2,  \* refcountL1Clusters, refcountL2Clusters
  qMeta,     \* sizeMetadata
  qChanged,  \* changed
  qLoop      \* "l2", "l1" or "done"

qcowVars == <<imageSize, qL1, qL2, qMeta, qChanged, qLoop>>

divRoundUp(a, b) == a \div b + (IF a % b = 0 THEN 0 ELSE 1)

\* Entries of 64 bits: a quarter as many.
EntriesL1 == EntriesL2 \div 4

\* calculateMappingEntries: an L2 mapping table is a cluster of 64-bit entries.
mappingL1Count(size) == divRoundUp(size, EntriesL1)
mappingL1Clusters(size) == divRoundUp(mappingL1Count(size), EntriesL1)

\* calculateRefcountProperties, in clusters.
L2Covers == EntriesL2
L1Covers == EntriesL1 * EntriesL2

QcowInit ==
  /\ imageSize \in ImageSizes
  /\ qL1 = 0 /\ qL2 = 0
  /\ qMeta = 1 + mappingL1Clusters(imageSize)
  /\ qChanged = "no" /\ qLoop = "l2"

AddL2 ==
  /\ qLoop = "l2"
  /\ IF qL2 * L2Covers < qMeta
     THEN /\ qL2' = qL2 + 1 /\ qMeta' = qMeta + 1 /\ qChanged' = "yes"
          /\ UNCHANGED qLoop
     ELSE qLoop' = "l1" /\ UNCHANGED <<qL2, qMeta, qChanged>>
  /\ UNCHANGED <<imageSize, qL1>>

\* Fault: the loop ends after its first pass.
AgainFault == "done"

Again == IF qChanged = "yes" THEN "l2" ELSE "done"

AddL1 ==
  /\ qLoop = "l1"
  /\ IF qL1 * L1Covers < qMeta
     THEN /\ qL1' = qL1 + 1 /\ qMeta' = qMeta + 1 /\ qChanged' = "yes"
          /\ UNCHANGED qLoop
     ELSE /\ qLoop' = Again /\ qChanged' = "no"
          /\ UNCHANGED <<qL1, qMeta>>
  /\ UNCHANGED <<imageSize, qL2>>

QcowNext == AddL2 \/ AddL1

QcowSpec == QcowInit /\ [][QcowNext]_qcowVars

-----------------------------------------------------------------------------
(* The file build writes: header, refcount L1, refcount L2, mapping L1.    *)
\* Cluster of the L2 table that entry slot of the refcount L1 table points to.
RefcountL1Entry(slot) == IF slot < qL2 THEN 1 + qL1 + slot ELSE 0

\* The refcount of a cluster, as entry slot of the L2 tables.
RefcountL2Entry(slot) == IF slot < 1 + qL1 + qL2 + mappingL1Clusters(imageSize) THEN 1 ELSE 0

L1TableOffset == 1 + qL1 + qL2

\* The reference count a reader finds for a cluster through both tables.
RefcountOf(c) ==
  LET table == c \div EntriesL2 IN
  IF table < qL1 * EntriesL1 /\ RefcountL1Entry(table) # 0
  THEN RefcountL2Entry((RefcountL1Entry(table) - 1 - qL1) * EntriesL2 + (c % EntriesL2))
  ELSE 0

QcowTypeOK ==
  /\ qL1 \in Nat /\ qL2 \in Nat /\ qMeta \in Nat
  /\ qChanged \in {"yes", "no"} /\ qLoop \in {"l2", "l1", "done"}

(* In the finished image a reader finds, through both refcount levels,     *)
(* count one for every cluster of the metadata and zero for the rest: the  *)
(* refcount tables cover themselves, and the mapping table starts behind   *)
(* them.  No table cluster is more than the coverage needs.                *)
QcowSound ==
  qLoop = "done" =>
    /\ \A c \in 0 .. qMeta - 1 : RefcountOf(c) = 1
    /\ \A c \in qMeta .. qMeta + EntriesL2 : RefcountOf(c) = 0
    /\ L1TableOffset + mappingL1Clusters(imageSize) = qMeta
    /\ (qL2 - 1) * L2Covers < qMeta /\ (qL1 - 1) * L1Covers < qMeta
=============================================================================
