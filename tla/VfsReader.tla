------------------------------- MODULE VfsReader -------------------------------
(***************************************************************************)
(* VfsReader (src/src/vfs/mod.rs) over images of overlay-packer's pack_vfs.*)
(*                                                                         *)
(* Every storage read is an await, and the bus is shared: another owner    *)
(* may rewrite the partition between any two reads.  All methods borrow    *)
(* the reader exclusively, so one request is under way at a time.          *)
(*                                                                         *)
(* Flash is a function from addresses to what a read there decodes to: a   *)
(* superblock, an index entry, or one byte of an asset.                    *)
(***************************************************************************)
EXTENDS Naturals, Sequences

CONSTANTS
    Images,           \* what flash may hold at first
    Updates,          \* what another owner of the bus may program over it
    Bases,            \* partition_base values passed to mount
    Requests,         \* what callers ask
    Strays,           \* what 16 bytes that are no index entry may decode to
    AddressSpace,     \* 2^32: the width of addresses
    AssetCountSpace,  \* 2^16: the width of asset_count
    Faults,           \* "read": reads may fail; "drop": futures are dropped
    None, Unknown

SUPERBLOCK_SIZE == 32
ENTRY_SIZE == 16
VFS_VERSION == 1

Superblocks == [kind : {"superblock"}, asset_count : Nat, index_offset : Nat, data_offset : Nat,
                total_bytes : Nat, version : Nat, intact : BOOLEAN]
Entries == [kind : {"entry"}, asset_id : Nat, flash_offset : Nat, length : Nat]

Padded(n) == ((n + 3) \div 4) * 4
MinOf(m, n) == IF m < n THEN m ELSE n

Superblock(count, data_offset, total, version, intact) ==
    [kind |-> "superblock", asset_count |-> count, index_offset |-> SUPERBLOCK_SIZE,
     data_offset |-> data_offset, total_bytes |-> total, version |-> version, intact |-> intact]
Entry(id, o, n) == [kind |-> "entry", asset_id |-> id, flash_offset |-> o, length |-> n]
AssetByte(id, i) == [kind |-> "byte", asset |-> id, at |-> i]
Other == [kind |-> "other"]
Byte == [kind : {"byte"}, asset : Nat, at : Nat] \cup {Other}

-----------------------------------------------------------------------------
(* pack_vfs.  files lists the lengths of the files of the directory, in the *)
(* order in which the operating system lists them; that order makes the ids.*)

EntryAt(k) == SUPERBLOCK_SIZE + (k - 1) * ENTRY_SIZE
DataOffset(files) == EntryAt(Len(files) + 1)

FlashOffsetUnpadded(files) ==
    LET at[k \in 1 .. Len(files) + 1] == IF k = 1 THEN 0 ELSE at[k - 1] + files[k - 1] IN at
\* Where each file begins in the data, and, last, where the data ends.
FlashOffset(files) ==
    LET at[k \in 1 .. Len(files) + 1] == IF k = 1 THEN 0 ELSE Padded(at[k - 1] + files[k - 1])
    IN  at

TotalBytes(files) == DataOffset(files) + FlashOffset(files)[Len(files) + 1]

Header(files, version, intact) ==
    Superblock(Len(files) % AssetCountSpace, DataOffset(files), TotalBytes(files), version, intact)

ByteAddress(files, k, i) == DataOffset(files) + FlashOffset(files)[k] + i

PackVfs(files) ==
    LET ids == DOMAIN files
        bytes == UNION {{<<k, i>> : i \in 0 .. files[k] - 1} : k \in ids}
        asset[a \in {ByteAddress(files, b[1], b[2]) : b \in bytes}] ==
            LET b == CHOOSE b \in bytes : ByteAddress(files, b[1], b[2]) = a
            IN  AssetByte(b[1], b[2])
    IN  [a \in {0} \cup {EntryAt(k) : k \in ids} \cup DOMAIN asset |->
            IF a = 0 THEN Header(files, VFS_VERSION, TRUE)
            ELSE IF a \in DOMAIN asset THEN asset[a]
            ELSE LET k == CHOOSE k \in ids : EntryAt(k) = a
                 IN  Entry(k, FlashOffset(files)[k], files[k])]

\* A whole image at an address, in a chip that ends spare bytes behind it.
Place(files, base, spare) ==
    LET image == PackVfs(files)
    IN  [files |-> files, base |-> base, complete |-> TRUE,
         capacity |-> base + TotalBytes(files) + spare,
         cells |-> [a \in {base + r : r \in DOMAIN image} |-> image[a - base]]]

\* Some of its cells replaced: an update that was interrupted, or damage.
Patched(placed, cells) ==
    [placed EXCEPT !.complete = FALSE,
                   !.cells = [a \in DOMAIN @ \cup DOMAIN cells |->
                                 IF a \in DOMAIN cells THEN cells[a] ELSE @[a]]]

-----------------------------------------------------------------------------
VARIABLES
    flash,      \* the chip
    reader,     \* the last mount: its status, and the VfsReader if that is "Ok"
    request,    \* what the caller asked, or None
    call,       \* where the reader's future is suspended, and its locals
    ret,        \* what the last request returned; nothing while one is under way
    steady      \* history: flash has not been written since the mount

vars == <<flash, reader, request, call, ret, steady>>

Idle == [pc |-> "idle", op |-> "none", i |-> 0, offset |-> 0, dest |-> 0, addr |-> 0, to_read |-> 0]
NoSuperblock == Superblock(0, 0, 0, VFS_VERSION, FALSE)
Unmounted(status) == [status |-> status, base |-> 0, superblock |-> NoSuperblock]
Return(status, count, bytes) == [status |-> status, count |-> count, bytes |-> bytes]
NoAnswer == Return("none", 0, <<>>)

ASSUME ReaderAssumption ==
    /\ AddressSpace \in Nat \ {0} /\ AssetCountSpace \in Nat \ {0}
    /\ Bases \subseteq Nat
    /\ Faults \subseteq {"read", "drop"}
    /\ Requests \subseteq [op : {"asset_len", "stream_chunk", "read_asset"},
                           asset_id : Nat, offset : Nat, len : Nat]
    /\ None \notin Requests
    /\ Strays \subseteq Entries
    /\ \A chip \in Images \cup Updates : \A a \in DOMAIN chip.cells :
          chip.cells[a] \in Superblocks \cup Entries \cup Byte

\* A chip with a whole image holds what pack_vfs makes of a directory, and
\* addresses reach all of it.
ASSUME ChipsAssumption ==
    \A chip \in Images \cup Updates : chip.complete =>
        /\ chip.files \in Seq(Nat) /\ chip.base \in Nat /\ chip.capacity \in Nat
        /\ chip.cells = Place(chip.files, chip.base, 0).cells
        /\ chip.base + TotalBytes(chip.files) <= chip.capacity
        /\ chip.capacity <= AddressSpace

TypeOK ==
    /\ request \in Requests \cup {None}
    /\ call \in [pc : {"idle", "mount", "entry", "chunk"},
                 op : {"none", "asset_len", "stream_chunk", "read_asset"},
                 i : Nat, offset : Nat, dest : Nat, addr : Nat, to_read : Nat]
    /\ call.pc \in {"entry", "chunk"} <=> request # None
    /\ call.pc = "entry" => call.i < reader.superblock.asset_count
    /\ reader.status = "Ok" \/ request = None
    /\ ret.count \in Nat /\ Len(ret.bytes) <= ret.count
    /\ steady \in BOOLEAN

Init ==
    /\ flash \in Images
    /\ reader = Unmounted("none")
    /\ request = None
    /\ call = Idle
    /\ ret = NoAnswer
    /\ steady = FALSE

Cell(a) == IF a \in DOMAIN flash.cells THEN flash.cells[a] ELSE Other
ByteAt(a) == IF Cell(a).kind = "byte" THEN Cell(a) ELSE Other
Readable(a, size) == a + size <= flash.capacity
EntriesAt(a) == IF Cell(a).kind = "entry" THEN {Cell(a)} ELSE Strays

-----------------------------------------------------------------------------
(* mount.                                                                  *)

Mount(base) ==
    /\ call.pc = "idle"
    /\ call' = [Idle EXCEPT !.pc = "mount", !.addr = base]
    /\ UNCHANGED <<flash, reader, request, ret, steady>>

Mounted(result) ==
    /\ reader' = result
    /\ steady' = TRUE
    /\ call' = Idle
    /\ UNCHANGED <<flash, request, ret>>

\* VfsSuperblock::from_bytes, in its order of checks.
Verdict(cell) ==
    IF cell.kind # "superblock" THEN "InvalidMagic"
    ELSE IF cell.version # VFS_VERSION THEN "UnsupportedVersion"
    ELSE IF ~cell.intact THEN "SuperblockCrcMismatch"
    ELSE "Ok"

SuperblockRead ==
    /\ call.pc = "mount"
    /\ Readable(call.addr, SUPERBLOCK_SIZE)
    /\ LET cell == Cell(call.addr)
           verdict == Verdict(cell)
       IN  Mounted(IF verdict = "Ok"
                   THEN [status |-> "Ok", base |-> call.addr, superblock |-> cell]
                   ELSE Unmounted(verdict))

-----------------------------------------------------------------------------
(* Requests.                                                               *)

Address(offset) == (reader.base + offset) % AddressSpace
EntryAddress(i) == Address(reader.superblock.index_offset + i * ENTRY_SIZE)

\* What the request does next: it waits for a read of r, or returns.
Await(c, r) ==
    /\ call' = c
    /\ request' = r
    /\ ret' = NoAnswer
    /\ UNCHANGED <<flash, reader, steady>>
Finish(result) ==
    /\ call' = Idle
    /\ request' = None
    /\ ret' = result
    /\ UNCHANGED <<flash, reader, steady>>
Refuse(status) == Finish(Return(status, 0, <<>>))

\* find_entry from its i-th turn on, for the method op.
ReadEntry(r, op, offset, dest, i) ==
    Await([Idle EXCEPT !.pc = "entry", !.op = op, !.i = i, !.offset = offset,
                       !.dest = dest, !.addr = EntryAddress(i)], r)
FindEntryPastEnd(r, op, offset, dest, i) ==
    IF i <= reader.superblock.asset_count
    THEN ReadEntry(r, op, offset, dest, i) ELSE Refuse("AssetNotFound")
FindEntry(r, op, offset, dest, i) ==
    IF i < reader.superblock.asset_count
    THEN ReadEntry(r, op, offset, dest, i) ELSE Refuse("AssetNotFound")

Request(r) ==
    /\ call.pc = "idle"
    /\ reader.status = "Ok"
    /\ FindEntry(r, r.op, r.offset, r.len, 0)

ChunkAddressNoOffset(entry, offset) ==
    Address(reader.superblock.data_offset + entry.flash_offset)
ChunkAddress(entry, offset) ==
    Address(reader.superblock.data_offset + entry.flash_offset + offset)

ToReadWhole(entry, offset, dest) == entry.length - offset
ToRead(entry, offset, dest) == MinOf(entry.length - offset, dest)

\* What each method does with the entry it looked up.  read_asset only checks
\* the buffer and then calls stream_chunk, which looks the entry up again.
AssetLen(entry) == Finish(Return("Ok", entry.length, <<>>))
StreamChunk(entry) ==
    IF call.offset >= entry.length THEN Finish(Return("Ok", 0, <<>>))
    ELSE Await([call EXCEPT !.pc = "chunk",
                            !.addr = ChunkAddress(entry, call.offset),
                            !.to_read = ToRead(entry, call.offset, call.dest)], request)
ReadAsset(entry) ==
    IF call.dest < entry.length THEN Finish(Return("BufferTooSmall", entry.length, <<>>))
    ELSE FindEntry(request, "stream_chunk", 0, entry.length, 0)

\* The next turn of find_entry's loop, after an entry of another asset.
NextTurnSame == FindEntry(request, call.op, call.offset, call.dest, call.i)
NextTurn == FindEntry(request, call.op, call.offset, call.dest, call.i + 1)

EntryRead ==
    /\ call.pc = "entry"
    /\ Readable(call.addr, ENTRY_SIZE)
    /\ \E entry \in EntriesAt(call.addr) :
         IF entry.asset_id # request.asset_id THEN NextTurn
         ELSE \/ call.op = "asset_len" /\ AssetLen(entry)
              \/ call.op = "stream_chunk" /\ StreamChunk(entry)
              \/ call.op = "read_asset" /\ ReadAsset(entry)

ChunkRead ==
    /\ call.pc = "chunk"
    /\ Readable(call.addr, call.to_read)
    /\ Finish(Return("Ok", call.to_read,
                     [k \in 1 .. call.to_read |-> ByteAt(call.addr + k - 1)]))

\* How much the suspended read asks for.
Wanted == CASE call.pc = "mount" -> SUPERBLOCK_SIZE
            [] call.pc = "entry" -> ENTRY_SIZE
            [] OTHER -> call.to_read

StorageError == IF call.pc = "mount" THEN Mounted(Unmounted("Storage")) ELSE Refuse("Storage")

\* The driver refuses a read beyond its end; a read within it may fail as well.
ReadRefused == call.pc # "idle" /\ ~Readable(call.addr, Wanted) /\ StorageError
ReadFails ==
    /\ "read" \in Faults
    /\ call.pc # "idle" /\ Readable(call.addr, Wanted)
    /\ StorageError

\* The future is dropped.  A mount that is dropped takes its handle along.
DropFuture ==
    /\ "drop" \in Faults
    /\ call.pc # "idle"
    /\ call' = Idle
    /\ request' = None
    /\ reader' = IF call.pc = "mount" THEN Unmounted("none") ELSE reader
    /\ UNCHANGED <<flash, ret, steady>>

\* Another owner of the bus programs the partition.
Rewrite ==
    /\ flash' \in Updates \ {flash}
    /\ steady' = FALSE
    /\ UNCHANGED <<reader, request, call, ret>>

Progress == SuperblockRead \/ EntryRead \/ ChunkRead \/ ReadRefused

Next ==
    \/ \E base \in Bases : Mount(base)
    \/ \E r \in Requests : Request(r)
    \/ SuperblockRead \/ EntryRead \/ ChunkRead
    \/ ReadRefused \/ ReadFails \/ DropFuture \/ Rewrite

Spec == Init /\ [][Next]_vars

\* The executor polls the task that was woken, and the chip answers.
FairSpec == Spec /\ WF_vars(Progress)

-----------------------------------------------------------------------------
(* Properties.                                                             *)

\* The partition holds one whole image, the one that was mounted, and its
\* directory had fewer files than asset_count can count.
Known ==
    /\ reader.status = "Ok" /\ steady /\ flash.complete
    /\ Len(flash.files) < AssetCountSpace

\* A request for an asset of a packed directory ends with exactly the bytes of
\* the file, with AssetNotFound only if there is no such file, with
\* BufferTooSmall only if it does not fit, or with an error of the medium:
\* the reader and pack_vfs (index, padding, offsets) agree, for every offset
\* and buffer, although stream_chunk and read_asset look the entry up anew.
Store == INSTANCE AssetStore WITH
    assets <- IF Known THEN [k \in DOMAIN flash.files |->
                                [i \in 1 .. flash.files[k] |-> AssetByte(k, i - 1)]]
              ELSE Unknown,
    asked <- request,
    answer <- ret
ReaderImplementsStore == Store!StoreSpec

\* "Reads up to dest.len() bytes" (stream_chunk): whatever becomes of the
\* partition between the lookups and the transfer, no request moves more bytes
\* than its caller's buffer holds.
BufferRespected ==
    [][request # None /\ request' = None => Len(ret'.bytes) <= request.len]_vars

\* total_bytes is packed and never looked at; still no read of a known image
\* leaves the part of the chip that it occupies, whose neighbours are the other
\* partitions.
ReadsStayInImage ==
    Known /\ request # None =>
        /\ reader.base <= call.addr
        /\ call.addr + Wanted <= reader.base + reader.superblock.total_bytes

\* "Align next asset to 4 bytes for clean DMA transfers" (pack_vfs): the
\* transfer of an asset from its start begins on a word of the partition.
WholeReadsAligned ==
    Known /\ call.pc = "chunk" /\ call.offset = 0 => (call.addr - reader.base) % 4 = 0

\* Every mount and every request comes to an end: asset_count was read once, so
\* the lookup is bounded even while the index is rewritten under it.
RequestEnds == call.pc # "idle" ~> call.pc = "idle"

=============================================================================
