------------------------------- MODULE Crypt --------------------------------
(***************************************************************************)
(* Protected block devices: encryption and integrity of the data           *)
(* partition, and the hash tree of the system partition.                   *)
(***************************************************************************)
EXTENDS Naturals, Sequences, FiniteSets, SequencesExt, FiniteSetsExt

(***************************************************************************)
(* localstorage/crypt: the device nodes made for the partitions of the     *)
(* boot disk (blockdev.go) and the dm-integrity and dm-crypt devices       *)
(* stacked on the data partition (crypt.go, crypt_integrity.go,            *)
(* crypt_encryption.go), created through osbase/devicemapper.              *)
(* The code is sequential: an operation is the set of its outcomes, one of *)
(* its system calls failing in some of them.                               *)
(***************************************************************************)

CONSTANTS
  DiskLayouts,     \* what /sys/class/block may list: sequences of block devices
  MaxCryptFaults,  \* bound on failing system calls
  MaxCryptOps      \* bound on Map, Unmap and Init calls

VARIABLES
  layout,       \* the block devices, in ReadDir's order
  loaderId,     \* LoaderDevicePartUUID, 0 when the variable is missing
  devNodes,     \* /dev nodes: partition type -> <<>> or <<block device>>
  providedESP,  \* <<>> or <<block device>>: ProvideESP's last partition
  dm,           \* the mapping: see Stack
  lastCrypt,    \* the last call and its result
  cryptOps

cryptVars == <<layout, loaderId, devNodes, providedESP, dm, lastCrypt, cryptOps>>

KnownTypes == {"esp", "data", "system-a", "system-b"}
Modes == {"encrypted+authenticated", "encrypted", "authenticated", "insecure"}

encrypted(m) == m \in {"encrypted+authenticated", "encrypted"}
authenticated(m) == m \in {"encrypted+authenticated", "authenticated"}

-----------------------------------------------------------------------------
(* blockdev.go. A block device is [name, kind, prefixes, disk, num, table, *)
(* node]: prefixes are the disks whose name its name starts with, table    *)
(* (for a disk) its GPT, a sequence of [type, id], <<>> for none.          *)

BlockState == [nodes |-> devNodes, esp |-> providedESP]

\* makeDeviceNode: mknod refuses a path that exists, whatever it points to.
MakeDeviceNode(s, type, dev, failing) ==
  IF s.nodes[type] # <<>> \/ dev \in failing
  THEN [s EXCEPT !.err = "yes"]
  ELSE [s EXCEPT !.nodes[type] = <<dev>>]

\* handlePartition
HandlePartition(s, disk, dev, failing) ==
  IF s.err = "yes" \/ disk.name \notin dev.prefixes \/ dev.name = disk.name THEN s
  ELSE IF dev \in failing THEN [s EXCEPT !.err = "yes"]
  ELSE IF dev.kind # "partition" THEN s
  ELSE LET type == disk.table[dev.num].type
           t == IF type = "esp" THEN [s EXCEPT !.esp = <<dev>>] ELSE s
       IN IF type \notin KnownTypes THEN t
          ELSE IF type \in t.seen THEN [t EXCEPT !.err = "yes"]
          ELSE MakeDeviceNode([t EXCEPT !.seen = @ \cup {type}], type, dev, failing)

\* Fault: the disks that do not hold the loader's partition are not skipped.
SkipDiskFault(disk) == FALSE

SkipDisk(disk) ==
  loaderId # 0 /\ \A k \in DOMAIN disk.table : disk.table[k].id # loaderId

\* handleBlockDevice: an error is logged, the next disk is tried.
HandleBlockDevice(s, disk, failing) ==
  IF disk \in failing \/ disk.kind # "disk" \/ disk.table = <<>> \/ SkipDisk(disk) THEN s
  ELSE LET step(t, dev) == HandlePartition(t, disk, dev, failing)
           out == FoldLeft(step, [nodes |-> s.nodes, esp |-> s.esp, seen |-> {}, err |-> "no"], layout)
       IN [nodes |-> out.nodes, esp |-> out.esp]

MakeBlockDevices ==
  /\ cryptOps = 0 /\ \A t \in KnownTypes : devNodes[t] = <<>>
  /\ \E failing \in {{}} \cup {{layout[k]} : k \in DOMAIN layout} :
       LET step(s, disk) == HandleBlockDevice(s, disk, failing)
           out == FoldLeft(step, BlockState, layout)
       IN devNodes' = out.nodes /\ providedESP' = out.esp
  /\ UNCHANGED <<layout, loaderId, dm, lastCrypt, cryptOps>>

-----------------------------------------------------------------------------
(* The mapping named "data": the integrity and crypt dm devices ("none" or *)
(* the journal mode / cipher), their /dev nodes, the superblock of the     *)
(* partition, whether it was zeroed through the stack, the failures so far *)
(* and the error of the call under way.                                    *)

Unstacked == [integrity |-> "none", crypt |-> "none", intNode |-> "no", cryNode |-> "no",
          super |-> "none", zeroed |-> "none", faults |-> 0, err |-> "no"]

Failed(s) == [s EXCEPT !.err = "yes"]

\* A step that may fail on its own.
Attempt(s, next) ==
  {next} \cup {Failed([s EXCEPT !.faults = @ + 1]) : x \in {y \in {s} : y.faults < MaxCryptFaults}}

\* Each later step runs on the outcomes without an error.
Then(outcomes, Step(_)) == UNION {IF s.err = "yes" THEN {s} ELSE Step(s) : s \in outcomes}

\* Best-effort cleanup: its own errors are swallowed, the error stays.
Cleaning(outcomes, Step(_)) ==
  UNION {IF s.err = "no" THEN {s}
         ELSE {Failed(t) : t \in Step([s EXCEPT !.err = "no"])} : s \in outcomes}

\* devicemapper.RemoveDevice: the kernel refuses a device that is not there
\* or is in use below another.
RemoveIntegrity(s) ==
  IF s.integrity = "none" \/ s.crypt # "none" THEN {Failed(s)}
  ELSE Attempt(s, [s EXCEPT !.integrity = "none"])

RemoveCrypt(s) ==
  IF s.crypt = "none" THEN {Failed(s)} ELSE Attempt(s, [s EXCEPT !.crypt = "none"])

\* devicemapper.CreateActiveDevice: create, load the table, resume; a device
\* that was created is removed again when a later step fails.
CreateIntegrity(s, journal) ==
  IF s.integrity # "none" THEN {Failed(s)}
  ELSE Cleaning(
         Then(Attempt(s, [s EXCEPT !.integrity = "empty"]),
              LAMBDA t : Attempt(t, [t EXCEPT !.integrity = journal, !.super = "formatted"])),
         LAMBDA t : RemoveIntegrity(t))

CreateCrypt(s, cipher) ==
  IF s.crypt # "none" THEN {Failed(s)}
  ELSE Cleaning(
         Then(Attempt(s, [s EXCEPT !.crypt = "empty"]),
              LAMBDA t : Attempt(t, [t EXCEPT !.crypt = cipher])),
         LAMBDA t : RemoveCrypt(t))

UnmapIntegrity(s) ==
  Then(IF s.intNode = "yes" THEN Attempt(s, [s EXCEPT !.intNode = "no"]) ELSE {s}, RemoveIntegrity)

UnmapEncryption(s) ==
  Then(IF s.cryNode = "yes" THEN Attempt(s, [s EXCEPT !.cryNode = "no"]) ELSE {s}, RemoveCrypt)

\* mknod, then unmap when it fails.
NodeIntegrity(s) ==
  Cleaning(IF s.intNode = "yes" THEN {Failed(s)} ELSE Attempt(s, [s EXCEPT !.intNode = "yes"]),
           UnmapIntegrity)

NodeEncryption(s) ==
  Cleaning(IF s.cryNode = "yes" THEN {Failed(s)} ELSE Attempt(s, [s EXCEPT !.cryNode = "yes"]),
           UnmapEncryption)

\* readIntegrityDataSectors refuses a partition without a superblock.
MapIntegrity(s, journal) ==
  IF s.super = "none" THEN {Failed(s)}
  ELSE Then(Then(Attempt(s, s), LAMBDA t : CreateIntegrity(t, journal)), NodeIntegrity)

MapEncryption(s, m) ==
  Then(Then(Attempt(s, s), LAMBDA t : CreateCrypt(t, IF authenticated(m) THEN "gcm" ELSE "xts")),
       NodeEncryption)

\* Fault: the integrity device stays when the crypt device cannot be mapped.
MapStackFault(s, m, journal) ==
  Then(IF authenticated(m) THEN MapIntegrity(s, journal) ELSE {s},
       LAMBDA t : IF encrypted(m) THEN MapEncryption(t, m) ELSE {t})

\* map_
MapStack(s, m, journal) ==
  Then(IF authenticated(m) THEN MapIntegrity(s, journal) ELSE {s},
       LAMBDA t : IF encrypted(m) THEN Cleaning(MapEncryption(t, m), UnmapIntegrity) ELSE {t})

UnmapStack(s, m) ==
  Then(IF encrypted(m) THEN UnmapEncryption(s) ELSE {s},
       LAMBDA t : IF authenticated(m) THEN UnmapIntegrity(t) ELSE {t})

\* initializeIntegrity: wipe the superblock, let the kernel format, unload.
InitializeIntegrity(s) ==
  Then(Then(Attempt(s, [s EXCEPT !.super = "none", !.zeroed = "none"]),
            LAMBDA t : CreateIntegrity(t, "format")),
       RemoveIntegrity)

\* Init: the device is zeroed without the journal, then mapped again with it.
InitStack(s, m) ==
  IF ~authenticated(m) THEN MapStack(s, m, "J")
  ELSE Then(Then(Then(Then(InitializeIntegrity(s), LAMBDA t : MapStack(t, m, "D")),
                      LAMBDA t : Attempt(t, [t EXCEPT !.zeroed = m])),
                 LAMBDA t : UnmapStack(t, m)),
            LAMBDA t : MapStack(t, m, "J"))

-----------------------------------------------------------------------------
\* The layout's ids and the loader's partition do not change while running.
CryptInit ==
  /\ layout \in DiskLayouts
  /\ loaderId \in {0, 1}
  /\ devNodes = [t \in KnownTypes |-> <<>>]
  /\ providedESP = <<>>
  /\ dm = Unstacked
  /\ lastCrypt = [op |-> "none", mode |-> "insecure", before |-> Unstacked]
  /\ cryptOps = 0

Called(op, m, outcomes) ==
  /\ devNodes["data"] # <<>>
  /\ cryptOps < MaxCryptOps
  /\ cryptOps' = cryptOps + 1
  /\ \E s \in outcomes : dm' = s
  /\ lastCrypt' = [op |-> op, mode |-> m, before |-> [dm EXCEPT !.err = "no"]]
  /\ UNCHANGED <<layout, loaderId, devNodes, providedESP>>

Clear(s) == [s EXCEPT !.err = "no"]

MapDevice(m) == Called("map", m, MapStack(Clear(dm), m, "J"))
\* "mode must match the ... mode used when mapping".
UnmapDevice == lastCrypt.op # "none" /\ Called("unmap", lastCrypt.mode, UnmapStack(Clear(dm), lastCrypt.mode))
InitDevice(m) == Called("init", m, InitStack(Clear(dm), m))

CryptNext == MakeBlockDevices \/ (\E m \in Modes : MapDevice(m) \/ InitDevice(m)) \/ UnmapDevice

CryptSpec == CryptInit /\ [][CryptNext]_cryptVars

-----------------------------------------------------------------------------
CryptTypeOK ==
  /\ layout \in DiskLayouts
  /\ \A t \in KnownTypes : Len(devNodes[t]) <= 1 /\ Range(devNodes[t]) \subseteq Range(layout)
  /\ dm \in [integrity : {"none", "empty", "J", "D", "format"}, crypt : {"none", "empty", "gcm", "xts"},
             intNode : {"yes", "no"}, cryNode : {"yes", "no"}, super : {"none", "formatted"},
             zeroed : {"none"} \cup Modes, faults : 0 .. MaxCryptFaults, err : {"yes", "no"}]
  /\ cryptOps \in 0 .. MaxCryptOps

Unmapped(s) == s.integrity = "none" /\ s.crypt = "none" /\ s.intNode = "no" /\ s.cryNode = "no"

Mapped(s, m) ==
  /\ s.integrity = (IF authenticated(m) THEN "J" ELSE "none")
  /\ s.intNode = (IF authenticated(m) THEN "yes" ELSE "no")
  /\ s.crypt = (IF ~encrypted(m) THEN "none" ELSE IF authenticated(m) THEN "gcm" ELSE "xts")
  /\ s.cryNode = (IF encrypted(m) THEN "yes" ELSE "no")

(* A call on a data partition that is not mapped either sets up the whole  *)
(* stack of its mode, journal on, or, unless its cleanup failed too, leaves *)
(* nothing of it behind; Init returns a device that was zeroed through the *)
(* stack it returns; unmapping takes down what was mapped; and when the    *)
(* loader's partition is known, every node is for a partition of its disk  *)
(* with the node's type, as is the ESP given to the update service.        *)
CryptSound ==
  /\ lastCrypt.op \in {"map", "init"} /\ dm.err = "no" /\ Unmapped(lastCrypt.before) =>
       /\ Mapped(dm, lastCrypt.mode)
       /\ lastCrypt.op = "init" /\ authenticated(lastCrypt.mode) => dm.zeroed = lastCrypt.mode
       /\ authenticated(lastCrypt.mode) => dm.super = "formatted"
  /\ lastCrypt.op = "map" /\ dm.err = "yes" /\ Unmapped(lastCrypt.before)
       /\ dm.faults <= lastCrypt.before.faults + 1 => Unmapped(dm)
  /\ lastCrypt.op = "unmap" /\ dm.err = "no" /\ Mapped(lastCrypt.before, lastCrypt.mode) => Unmapped(dm)
  /\ dm.crypt = "gcm" => dm.integrity # "none"
  /\ loaderId # 0 =>
       /\ \A t \in KnownTypes : devNodes[t] # <<>> =>
            \E k \in DOMAIN layout :
              /\ layout[k].kind = "disk" /\ layout[k].name = devNodes[t][1].disk
              /\ \E j \in DOMAIN layout[k].table : layout[k].table[j].id = loaderId
              /\ layout[k].table[devNodes[t][1].num].type = t
       /\ providedESP # <<>> /\ devNodes["esp"] # <<>> => providedESP = devNodes["esp"]

-----------------------------------------------------------------------------
(***************************************************************************)
(* osbase/verity/encoder.go: the dm-verity hash tree of a stream of data.  *)
(* A byte sequence is a sequence of units as long as a digest: a unit of   *)
(* data <<"d", i>>, the zero unit <<"z">>, or a digest <<"h", block>>, two *)
(* digests being equal only for equal blocks.                              *)
(***************************************************************************)

CONSTANTS
  VerityBlocks,    \* block sizes, in units, for the data and the hash device
  VerityWrites,    \* sizes of one Write, in units
  MaxVerityData    \* bound on the units written

VARIABLES
  blockUnits,   \* sb.dataBlockSize = sb.hashBlockSize
  writeSb,      \* encoder.writeSb
  dataBuffer,   \* encoder.dataBuffer
  bottom,       \* encoder.bottom, the lowest level's hash blocks
  dataBlocks,   \* sb.dataBlocks
  hashDevice,   \* what was written to encoder.out, hash block by hash block
  rootHash,     \* <<>> or <<digest>>
  supplied,     \* all data written to the encoder (history)
  encoder       \* "open", "closed"

verityVars == <<blockUnits, writeSb, dataBuffer, bottom, dataBlocks, hashDevice, rootHash,
                supplied, encoder>>

Zero == <<"z">>
Superblock == <<"sb">>

saltedDigest(block) == <<"h", block>>

\* make([]byte, n) with data copied over its start.
ZeroPadded(seq, n) == [i \in 1 .. n |-> IF i <= Len(seq) THEN seq[i] ELSE Zero]

Without(seq, n) == SubSeq(seq, n + 1, Len(seq))

(* computeHashBlock reads up to a hash block's worth of data blocks; the   *)
(* last one may be short. It returns the hash block (<<>> when there was   *)
(* no data), the data blocks read, the unread data and whether it met EOF. *)
dataBlocksPerHashBlock == blockUnits

\* Fault: the data block at the end of the data is hashed without padding.
ReadBlockFault(r) == SubSeq(r, 1, Min({blockUnits, Len(r)}))

ReadBlock(r) == ZeroPadded(SubSeq(r, 1, Min({blockUnits, Len(r)})), blockUnits)

RECURSIVE HashBlockFrom(_, _)
HashBlockFrom(r, digests) ==
  LET read == IF r = <<>> THEN digests ELSE Append(digests, saltedDigest(ReadBlock(r)))
      eof == Len(r) < blockUnits
  IN CASE eof -> [block |-> IF read = <<>> THEN <<>> ELSE ZeroPadded(read, blockUnits),
                  count |-> Len(read), rest |-> <<>>, eof |-> "yes"]
       [] ~eof /\ Len(read) = dataBlocksPerHashBlock ->
            [block |-> read, count |-> Len(read), rest |-> Without(r, blockUnits), eof |-> "no"]
       [] OTHER -> HashBlockFrom(Without(r, blockUnits), read)

computeHashBlock(r) == HashBlockFrom(r, <<>>)

RECURSIVE computeLevel(_)
computeLevel(r) ==
  LET h == computeHashBlock(r) IN
  IF h.eof = "yes" THEN h.block ELSE h.block \o computeLevel(h.rest)

\* computeHashTree: levels are pushed until the top is a single hash block.
RECURSIVE HashTreeAbove(_)
HashTreeAbove(levels) ==
  IF Len(Last(levels)) = blockUnits THEN levels
  ELSE HashTreeAbove(Append(levels, computeLevel(Last(levels))))

\* processDataBuffer: whole hash blocks of data, or all that is left.
RECURSIVE ProcessDataBuffer(_, _)
ProcessDataBuffer(s, incomplete) ==
  IF \/ Len(s.buffer) >= dataBlocksPerHashBlock * blockUnits
     \/ incomplete /\ s.buffer # <<>>
  THEN LET h == computeHashBlock(s.buffer) IN
       ProcessDataBuffer([buffer |-> h.rest, bottom |-> s.bottom \o h.block,
                          count |-> s.count + h.count], incomplete)
  ELSE s

Processed(buffer, incomplete) ==
  ProcessDataBuffer([buffer |-> buffer, bottom |-> bottom, count |-> dataBlocks], incomplete)

-----------------------------------------------------------------------------
\* NewEncoder
VerityInit ==
  /\ blockUnits \in VerityBlocks
  /\ writeSb \in {"yes", "no"}
  /\ dataBuffer = <<>> /\ bottom = <<>> /\ dataBlocks = 0
  /\ hashDevice = <<>> /\ rootHash = <<>>
  /\ supplied = <<>> /\ encoder = "open"

VerityWrite(n) ==
  LET data == [i \in 1 .. n |-> <<"d", Len(supplied) + i>>]
      p == Processed(dataBuffer \o data, FALSE)
  IN /\ encoder = "open"
     /\ Len(supplied) + n <= MaxVerityData
     /\ supplied' = supplied \o data
     /\ dataBuffer' = p.buffer /\ bottom' = p.bottom /\ dataBlocks' = p.count
     /\ UNCHANGED <<blockUnits, writeSb, hashDevice, rootHash, encoder>>

\* Fault: the levels are written in the order they were computed.
TreeWriteToFault(levels) == FlattenSeq(levels)

\* hashTree.WriteTo: from the top level down.
TreeWriteTo(levels) == FlattenSeq(Reverse(levels))

VerityClose ==
  LET p == Processed(dataBuffer, TRUE)
      levels == HashTreeAbove(<<p.bottom>>)
  IN /\ encoder = "open"
     /\ encoder' = "closed"
     /\ dataBuffer' = p.buffer /\ bottom' = p.bottom /\ dataBlocks' = p.count
     /\ IF p.bottom = <<>> THEN UNCHANGED <<hashDevice, rootHash>>
        ELSE /\ hashDevice' = (IF writeSb = "yes" THEN ZeroPadded(<<Superblock>>, blockUnits) ELSE <<>>)
                              \o TreeWriteTo(levels)
             /\ rootHash' = <<saltedDigest(Last(levels))>>
     /\ UNCHANGED <<blockUnits, writeSb, supplied>>

VerityNext == (\E n \in VerityWrites : VerityWrite(n)) \/ VerityClose

VeritySpec == VerityInit /\ [][VerityNext]_verityVars

\* MappingTable: <<>> (an error) before Close or without data.
MappingTable(hashStart) ==
  IF rootHash = <<>> THEN <<>>
  ELSE <<[dataBlocks |-> dataBlocks, root |-> rootHash[1],
          hashStart |-> hashStart + (IF writeSb = "yes" THEN 1 ELSE 0)]>>

-----------------------------------------------------------------------------
VerityTypeOK ==
  /\ blockUnits \in VerityBlocks /\ writeSb \in {"yes", "no"}
  /\ dataBlocks \in 0 .. MaxVerityData
  /\ Len(rootHash) <= 1 /\ encoder \in {"open", "closed"}
  /\ Len(supplied) <= MaxVerityData

(* How the kernel checks a block with the table and the hash device: from  *)
(* the root it reads the hash block of each level that covers the block    *)
(* and compares digests. Level 0 covers the data.                          *)
Levels(n) == CHOOSE l \in 1 .. n : blockUnits ^ l >= n /\ \A k \in 1 .. l - 1 : blockUnits ^ k < n

BlocksOfLevel(l, n) ==
  LET per == blockUnits ^ (l + 1) IN (n + per - 1) \div per

LevelStart(l, n, top) ==
  MapThenSumSet(LAMBDA k : BlocksOfLevel(k, n), l + 1 .. top)

HashBlockAt(k) == SubSeq(hashDevice, k * blockUnits + 1, (k + 1) * blockUnits)

Verifies(b, t) ==
  LET n == t.dataBlocks
      top == (IF n = 1 THEN 1 ELSE Levels(n)) - 1
      at(l) == HashBlockAt(t.hashStart + LevelStart(l, n, top) + b \div blockUnits ^ (l + 1))
      entry(l) == at(l)[((b \div blockUnits ^ l) % blockUnits) + 1]
  IN /\ saltedDigest(at(top)) = t.root
     /\ \A l \in 0 .. top - 1 : entry(l + 1) = saltedDigest(at(l))
     /\ entry(0) = saltedDigest(ZeroPadded(SubSeq(supplied, b * blockUnits + 1,
                                                  Min({Len(supplied), (b + 1) * blockUnits})), blockUnits))

(* However the data was cut into writes, the table that MappingTable gives *)
(* for the closed encoder covers all the data, and every data block        *)
(* verifies against the hash device through every level up to the root;    *)
(* before Close, and for no data at all, there is no table.                *)
VeritySound ==
  /\ MappingTable(0) # <<>> <=> encoder = "closed" /\ supplied # <<>>
  /\ MappingTable(0) # <<>> =>
       LET t == MappingTable(0)[1] IN
       /\ t.dataBlocks = (Len(supplied) + blockUnits - 1) \div blockUnits
       /\ \A b \in 0 .. t.dataBlocks - 1 : Verifies(b, t)
=============================================================================
