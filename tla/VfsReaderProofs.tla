---------------------------- MODULE VfsReaderProofs ----------------------------
(***************************************************************************)
(* Whatever is on the chip and becomes of it, the VFS reader stays within  *)
(* its types and within its callers' buffers; over an image that pack_vfs  *)
(* made it reads inside the image, on words, and answers every request     *)
(* with the bytes of the files that were packed.  For every directory,     *)
(* base address, set of updates, damaged entries and requests.             *)
(***************************************************************************)
EXTENDS VfsReader, Integers, SequenceTheorems, WellFoundedInduction, TLAPS

-----------------------------------------------------------------------------
(* The invariant.                                                          *)

Calls == [pc : {"idle", "mount", "entry", "chunk"},
          op : {"none", "asset_len", "stream_chunk", "read_asset"},
          i : Nat, offset : Nat, dest : Nat, addr : Nat, to_read : Nat]

\* The superblock in RAM is one that was decoded, and so are all records on
\* the chip.
Decoded ==
    /\ flash \in Images \cup Updates
    /\ reader.base \in Nat
    /\ reader.superblock \in Superblocks

\* The part of the caller's buffer that a request may still fill, first the
\* whole and after read_asset's check an entry's length, is in the buffer, and
\* so is the read that is under way.  Nothing has been returned before it ends.
WithinBuffer ==
    /\ request # None => call.dest <= request.len /\ ret.bytes = <<>>
    /\ call.pc = "chunk" => call.to_read <= call.dest

ReaderInv == TypeOK /\ Decoded /\ WithinBuffer

\* What a caller may ask.
LEMMA RequestType ==
    ASSUME NEW r \in Requests
    PROVE  /\ r # None
           /\ r.op \in {"asset_len", "stream_chunk", "read_asset"}
           /\ r.offset \in Nat /\ r.len \in Nat
BY ReaderAssumption

LEMMA EmptyLength == Len(<<>>) = 0
OBVIOUS

\* What a turn of the lookup finds is an entry, whatever the 16 bytes were.
LEMMA FoundEntry ==
    ASSUME Decoded, NEW a, NEW entry \in EntriesAt(a)
    PROVE  entry.length \in Nat /\ entry.flash_offset \in Nat
<1>1. entry \in Entries
  BY ReaderAssumption DEF Decoded, EntriesAt, Cell, Other, Superblocks, Byte
<1>2. QED
  BY <1>1 DEF Entries

\* Addresses stay in the address space.
LEMMA AddressType ==
    ASSUME Decoded, NEW offset \in Nat
    PROVE  Address(offset) \in Nat
BY ReaderAssumption DEF Decoded, Address

\* A request that returns leaves the reader idle.
LEMMA FinishKeeps ==
    ASSUME ReaderInv, NEW status, NEW n \in Nat, NEW bytes, Len(bytes) <= n,
           Finish(Return(status, n, bytes))
    PROVE  ReaderInv'
BY DEF Finish, Return, ReaderInv, TypeOK, Idle, Decoded, WithinBuffer

\* The loop's head keeps what it is given, for whatever it may still fill.
LEMMA FindEntryKeeps ==
    ASSUME ReaderInv, NEW r \in Requests, reader.status = "Ok",
           NEW op \in {"none", "asset_len", "stream_chunk", "read_asset"},
           NEW offset \in Nat, NEW dest \in Nat, dest <= r.len, NEW i \in Nat,
           FindEntry(r, op, offset, dest, i)
    PROVE  ReaderInv'
<1>1. CASE i < reader.superblock.asset_count
  <2> DEFINE c == [Idle EXCEPT !.pc = "entry", !.op = op, !.i = i, !.offset = offset,
                               !.dest = dest, !.addr = EntryAddress(i)]
  <2>1. EntryAddress(i) \in Nat
    <3>1. reader.superblock.index_offset \in Nat
      BY DEF ReaderInv, Decoded, Superblocks
    <3>2. reader.superblock.index_offset + i * ENTRY_SIZE \in Nat
      BY <3>1 DEF ENTRY_SIZE
    <3>3. QED
      BY <3>2, AddressType DEF ReaderInv, EntryAddress
  <2>2. /\ c \in Calls /\ c.pc = "entry" /\ c.i = i /\ c.dest = dest
    BY <2>1 DEF Idle, Calls
  <2>3. Await(c, r)
    BY <1>1 DEF FindEntry, ReadEntry
  <2> HIDE DEF c
  <2>4. r # None
    BY RequestType
  <2>5. /\ call' = c /\ request' = r /\ UNCHANGED <<flash, reader, steady>>
        /\ ret'.count = 0 /\ ret'.bytes = <<>>
    BY <2>3 DEF Await, NoAnswer, Return
  <2>6. TypeOK'
    <3>1. request' \in Requests \cup {None} /\ steady' \in BOOLEAN /\ reader'.status = "Ok"
      BY <2>5 DEF ReaderInv, TypeOK
    <3>2. ret'.count \in Nat /\ Len(ret'.bytes) <= ret'.count
      BY <2>5, EmptyLength
    <3>3. call'.pc = "entry" /\ call'.i < reader'.superblock.asset_count
      BY <1>1, <2>2, <2>5
    <3>4. QED
      BY <2>2, <2>4, <2>5, <3>1, <3>2, <3>3 DEF Calls, TypeOK
  <2>7. QED
    BY <2>2, <2>5, <2>6 DEF ReaderInv, Decoded, WithinBuffer
<1>2. CASE ~(i < reader.superblock.asset_count)
  BY <1>2, FinishKeeps, EmptyLength DEF FindEntry, Refuse
<1>3. QED
  BY <1>1, <1>2

\* The transfer of a chunk is waited for.
LEMMA AwaitChunkKeeps ==
    ASSUME ReaderInv, call.pc = "entry", NEW a \in Nat, NEW n \in Nat, n <= call.dest,
           Await([call EXCEPT !.pc = "chunk", !.addr = a, !.to_read = n], request)
    PROVE  ReaderInv'
<1> DEFINE c == [call EXCEPT !.pc = "chunk", !.addr = a, !.to_read = n]
<1>1. call \in Calls
  BY DEF ReaderInv, TypeOK, Calls
<1>2. c \in Calls /\ c.pc = "chunk" /\ c.dest = call.dest /\ c.to_read = n
  BY <1>1 DEF Calls
<1>3. /\ call' = c /\ request' = request /\ UNCHANGED <<flash, reader, steady>>
      /\ ret'.count = 0 /\ ret'.bytes = <<>>
  BY DEF Await, NoAnswer, Return
<1> HIDE DEF c
<1>4. request # None
  BY DEF ReaderInv, TypeOK
<1>5. TypeOK'
  <2>1. ret'.count \in Nat /\ Len(ret'.bytes) <= ret'.count
    BY <1>3, EmptyLength
  <2>2. QED
    BY <1>2, <1>3, <1>4, <2>1 DEF ReaderInv, TypeOK, Calls
<1>6. QED
  BY <1>2, <1>3, <1>5 DEF ReaderInv, Decoded, WithinBuffer

LEMMA EntryReadKeeps == ReaderInv /\ EntryRead => ReaderInv'
<1> SUFFICES ASSUME ReaderInv, EntryRead PROVE ReaderInv'
  OBVIOUS
<1>1. PICK entry \in EntriesAt(call.addr) :
         \/ NextTurn
         \/ AssetLen(entry)
         \/ StreamChunk(entry)
         \/ ReadAsset(entry)
  BY DEF EntryRead
<1>2. entry.length \in Nat /\ entry.flash_offset \in Nat
  BY FoundEntry DEF ReaderInv
<1>3. /\ call.pc = "entry" /\ request \in Requests /\ reader.status = "Ok"
      /\ call.op \in {"none", "asset_len", "stream_chunk", "read_asset"}
      /\ call.offset \in Nat /\ call.dest \in Nat /\ call.i \in Nat /\ call.dest <= request.len
      /\ request.len \in Nat
  BY RequestType DEF EntryRead, ReaderInv, TypeOK, WithinBuffer
<1>4. CASE NextTurn
  BY <1>3, <1>4, FindEntryKeeps DEF NextTurn
<1>5. CASE AssetLen(entry)
  BY <1>2, <1>5, FinishKeeps, EmptyLength DEF AssetLen
<1>6. CASE StreamChunk(entry)
  <2>1. CASE call.offset >= entry.length
    BY <1>6, <2>1, FinishKeeps, EmptyLength DEF StreamChunk
  <2>2. CASE ~(call.offset >= entry.length)
    <3>1. ChunkAddress(entry, call.offset) \in Nat
      <4>1. reader.superblock.data_offset \in Nat
        BY DEF ReaderInv, Decoded, Superblocks
      <4>2. reader.superblock.data_offset + entry.flash_offset + call.offset \in Nat
        BY <1>2, <1>3, <4>1
      <4>3. QED
        BY <4>2, AddressType DEF ReaderInv, ChunkAddress
    <3>2. /\ ToRead(entry, call.offset, call.dest) \in Nat
          /\ ToRead(entry, call.offset, call.dest) <= call.dest
      BY <1>2, <1>3, <2>2 DEF ToRead, MinOf
    <3>3. QED
      BY <1>3, <1>6, <2>2, <3>1, <3>2, AwaitChunkKeeps DEF StreamChunk
  <2>3. QED
    BY <2>1, <2>2
<1>7. CASE ReadAsset(entry)
  <2>1. CASE call.dest < entry.length
    BY <1>2, <1>7, <2>1, FinishKeeps, EmptyLength DEF ReadAsset
  <2>2. CASE ~(call.dest < entry.length)
    <3>1. entry.length <= request.len
      BY <1>2, <1>3, <2>2
    <3>2. FindEntry(request, "stream_chunk", 0, entry.length, 0)
      BY <1>7, <2>2 DEF ReadAsset
    <3>3. QED
      BY <1>2, <1>3, <3>1, <3>2, FindEntryKeeps
  <2>3. QED
    BY <2>1, <2>2
<1>8. QED
  BY <1>1, <1>4, <1>5, <1>6, <1>7

\* A chunk has as many bytes as the read asked for.
LEMMA ChunkLength ==
    ASSUME ReaderInv
    PROVE  Len([k \in 1 .. call.to_read |-> ByteAt(call.addr + k - 1)]) = call.to_read
BY DEF ReaderInv, TypeOK

LEMMA ChunkReadKeeps == ReaderInv /\ ChunkRead => ReaderInv'
<1> SUFFICES ASSUME ReaderInv, ChunkRead PROVE ReaderInv'
  OBVIOUS
<1>1. call.to_read \in Nat
  BY DEF ReaderInv, TypeOK
<1>2. QED
  BY <1>1, ChunkLength, FinishKeeps DEF ChunkRead

\* What mount leaves behind, with or without a reader.
LEMMA MountedKeeps ==
    ASSUME ReaderInv, call.pc = "mount", NEW result, Mounted(result),
           result.base \in Nat, result.superblock \in Superblocks
    PROVE  ReaderInv'
<1>1. request = None
  BY DEF ReaderInv, TypeOK
<1>2. QED
  BY <1>1 DEF Mounted, Idle, ReaderInv, TypeOK, Decoded, WithinBuffer

LEMMA UnmountedType ==
    ASSUME NEW status
    PROVE  Unmounted(status).base \in Nat /\ Unmounted(status).superblock \in Superblocks
BY DEF Unmounted, NoSuperblock, Superblock, Superblocks, SUPERBLOCK_SIZE, VFS_VERSION

LEMMA SuperblockReadKeeps == ReaderInv /\ SuperblockRead => ReaderInv'
<1> SUFFICES ASSUME ReaderInv, SuperblockRead PROVE ReaderInv'
  OBVIOUS
<1> DEFINE cell == Cell(call.addr)
<1>1. CASE Verdict(cell) = "Ok"
  <2>1. cell.kind = "superblock"
    BY <1>1 DEF Verdict
  <2>2. cell \in Superblocks
    BY <2>1, ReaderAssumption DEF ReaderInv, Decoded, Cell, Other, Entries, Byte
  <2>3. call.addr \in Nat
    BY DEF ReaderInv, TypeOK
  <2>4. Mounted([status |-> "Ok", base |-> call.addr, superblock |-> cell])
    BY <1>1 DEF SuperblockRead
  <2> HIDE DEF cell
  <2>5. QED
    BY <2>2, <2>3, <2>4, MountedKeeps DEF SuperblockRead
<1>2. CASE Verdict(cell) # "Ok"
  <2>1. Mounted(Unmounted(Verdict(cell)))
    BY <1>2 DEF SuperblockRead
  <2>2. QED
    BY <2>1, MountedKeeps, UnmountedType DEF SuperblockRead
<1>3. QED
  BY <1>1, <1>2

LEMMA StorageErrorKeeps == ReaderInv /\ StorageError => ReaderInv'
<1> SUFFICES ASSUME ReaderInv, StorageError PROVE ReaderInv'
  OBVIOUS
<1>1. CASE call.pc = "mount"
  BY <1>1, MountedKeeps, UnmountedType DEF StorageError
<1>2. CASE call.pc # "mount"
  BY <1>2, FinishKeeps, EmptyLength DEF StorageError, Refuse
<1>3. QED
  BY <1>1, <1>2

LEMMA NextReaderInv == ReaderInv /\ [Next]_vars => ReaderInv'
<1> SUFFICES ASSUME ReaderInv, [Next]_vars PROVE ReaderInv'
  OBVIOUS
<1>1. ASSUME NEW base \in Bases, Mount(base) PROVE ReaderInv'
  <2> DEFINE c == [Idle EXCEPT !.pc = "mount", !.addr = base]
  <2>1. c \in Calls /\ c.pc = "mount"
    <3>1. base \in Nat
      BY ReaderAssumption
    <3>2. QED
      BY <3>1 DEF Idle, Calls
  <2>2. call' = c /\ UNCHANGED <<flash, reader, request, ret, steady>> /\ request = None
    BY <1>1 DEF Mount, ReaderInv, TypeOK
  <2> HIDE DEF c
  <2>3. QED
    BY <2>1, <2>2 DEF ReaderInv, TypeOK, Calls, Decoded, WithinBuffer
<1>2. ASSUME NEW r \in Requests, Request(r) PROVE ReaderInv'
  <2>1. r.op \in {"none", "asset_len", "stream_chunk", "read_asset"} /\ r.offset \in Nat /\ r.len \in Nat
    BY RequestType
  <2>2. reader.status = "Ok" /\ FindEntry(r, r.op, r.offset, r.len, 0)
    BY <1>2 DEF Request
  <2>3. r.len <= r.len
    BY <2>1
  <2>4. QED
    BY <2>1, <2>2, <2>3, FindEntryKeeps
<1>3. CASE ReadRefused \/ ReadFails
  BY <1>3, StorageErrorKeeps DEF ReadRefused, ReadFails
<1>4. CASE DropFuture
  <2>1. call' = Idle /\ request' = None /\ UNCHANGED <<flash, ret, steady>>
    BY <1>4 DEF DropFuture
  <2>2. reader' = reader \/ reader' = Unmounted("none")
    BY <1>4 DEF DropFuture
  <2>3. reader'.base \in Nat /\ reader'.superblock \in Superblocks
    BY <2>2, UnmountedType DEF ReaderInv, Decoded
  <2>4. QED
    BY <2>1, <2>3 DEF Idle, ReaderInv, TypeOK, Decoded, WithinBuffer
<1>5. CASE Rewrite
  BY <1>5 DEF Rewrite, ReaderInv, TypeOK, Decoded, WithinBuffer
<1>6. CASE UNCHANGED vars
  BY <1>6 DEF vars, ReaderInv, TypeOK, Decoded, WithinBuffer
<1>7. QED
  BY <1>1, <1>2, <1>3, <1>4, <1>5, <1>6, SuperblockReadKeeps, EntryReadKeeps, ChunkReadKeeps
     DEF Next

LEMMA InitReaderInv == Init => ReaderInv
<1> SUFFICES ASSUME Init PROVE ReaderInv
  OBVIOUS
<1>1. reader.base \in Nat /\ reader.superblock \in Superblocks
  BY UnmountedType DEF Init
<1>2. request = None /\ call = Idle /\ ret = NoAnswer /\ steady \in BOOLEAN /\ flash \in Images
  BY DEF Init
<1>3. TypeOK
  BY <1>2, EmptyLength DEF Idle, NoAnswer, Return, TypeOK
<1>4. QED
  BY <1>1, <1>2, <1>3 DEF Idle, NoAnswer, Return, ReaderInv, TypeOK, Decoded, WithinBuffer

LEMMA ReaderInvHolds == Spec => []ReaderInv
BY InitReaderInv, NextReaderInv, PTL DEF Spec

-----------------------------------------------------------------------------
(* Theorems.                                                               *)

\* The reader's state keeps its types; above all, the turn of the lookup stays
\* below the count read at mount, whatever the index is rewritten to.
THEOREM ReaderTypeCorrect == Spec => []TypeOK
<1>1. ReaderInv => TypeOK
  BY DEF ReaderInv
<1>2. QED
  BY <1>1, ReaderInvHolds, PTL

\* How a request ends: with no bytes, or with those of the read under way.
LEMMA EndOfRequest ==
    ASSUME ReaderInv, Next, request # None, request' = None
    PROVE  ret'.bytes = <<>> \/ (call.pc = "chunk" /\ Len(ret'.bytes) = call.to_read)
<1>1. ASSUME NEW status, NEW n, Finish(Return(status, n, <<>>)) PROVE ret'.bytes = <<>>
  BY <1>1 DEF Finish, Return
<1>2. ASSUME NEW c, NEW r, Await(c, r) PROVE ret'.bytes = <<>>
  BY <1>2 DEF Await, NoAnswer, Return
<1>3. ASSUME NEW r, NEW op, NEW offset, NEW dest, NEW i, FindEntry(r, op, offset, dest, i)
      PROVE  ret'.bytes = <<>>
  BY <1>1, <1>2, <1>3 DEF FindEntry, ReadEntry, Refuse
<1>4. CASE EntryRead
  BY <1>1, <1>2, <1>3, <1>4 DEF EntryRead, NextTurn, AssetLen, StreamChunk, ReadAsset
<1>5. CASE ChunkRead
  <2>1. ret'.bytes = [k \in 1 .. call.to_read |-> ByteAt(call.addr + k - 1)]
    BY <1>5 DEF ChunkRead, Finish, Return
  <2>2. QED
    BY <1>5, <2>1, ChunkLength DEF ChunkRead
<1>6. CASE ReadRefused \/ ReadFails
  BY <1>1, <1>6 DEF ReadRefused, ReadFails, StorageError, Mounted, Refuse
<1>7. CASE DropFuture
  BY <1>7 DEF DropFuture, ReaderInv, WithinBuffer
<1>8. CASE \/ \E base \in Bases : Mount(base)
           \/ SuperblockRead
           \/ Rewrite
  BY <1>8 DEF Mount, SuperblockRead, Mounted, Rewrite
<1>9. QED
  BY <1>3, <1>4, <1>5, <1>6, <1>7, <1>8 DEF Next, Request

\* No request returns more bytes than its caller's buffer holds, although the
\* entry it checked and the entry it transfers may be different ones.
THEOREM BuffersRespected == Spec => BufferRespected
<1> DEFINE Ends == request # None /\ request' = None => Len(ret'.bytes) <= request.len
<1>1. ReaderInv /\ [Next]_vars => [Ends]_vars
  <2> SUFFICES ASSUME ReaderInv, Next, request # None, request' = None
               PROVE  Len(ret'.bytes) <= request.len
    OBVIOUS
  <2>1. request.len \in Nat /\ call.dest <= request.len /\ call.dest \in Nat /\ call.to_read \in Nat
    BY RequestType DEF ReaderInv, TypeOK, WithinBuffer
  <2>2. CASE ret'.bytes = <<>>
    BY <2>1, <2>2, EmptyLength
  <2>3. CASE call.pc = "chunk" /\ Len(ret'.bytes) = call.to_read
    BY <2>1, <2>3 DEF ReaderInv, WithinBuffer
  <2>4. QED
    BY <2>2, <2>3, EndOfRequest
<1>2. QED
  BY <1>1, ReaderInvHolds, PTL DEF Spec, BufferRespected

-----------------------------------------------------------------------------
(* Induction.  The library's induction theorems take the statement as an   *)
(* operator; here it is the set of the numbers it holds of.                *)

LEMMA Least ==
    ASSUME NEW T \in SUBSET Nat, T # {}
    PROVE  \E n \in T : \A m \in T : n <= m
<1> DEFINE R == OpToRel(<, Nat)
<1>1. IsWellFoundedOn(R, Nat)
  BY NatLessThanWellFounded
<1>2. \A x, y \in Nat : <<y, x>> \in R <=> y < x
  BY DEF OpToRel
<1> HIDE DEF R
<1>3. PICK n \in T : \A y \in T : ~ (<<y, n>> \in R)
  BY <1>1, WFMin
<1>4. ASSUME NEW y \in T PROVE n <= y
  <2>1. y \in Nat /\ n \in Nat
    OBVIOUS
  <2>2. ~(y < n)
    BY <1>2, <1>3, <2>1, Zenon
  <2>3. QED
    BY <2>1, <2>2
<1>5. QED
  BY <1>4

LEMMA Induction ==
    ASSUME NEW S, 0 \in S, \A n \in Nat : n \in S => n + 1 \in S
    PROVE  \A n \in Nat : n \in S
<1> SUFFICES ASSUME Nat \ S # {} PROVE FALSE
  OBVIOUS
<1>1. PICK n \in Nat \ S : \A m \in Nat \ S : n <= m
  <2>1. (Nat \ S) \in SUBSET Nat
    OBVIOUS
  <2>2. QED
    BY <2>1, Least
<1>2. n # 0 /\ n \in Nat
  BY <1>1
<1>3. n - 1 \in Nat /\ n - 1 \in S
  BY <1>1, <1>2
<1>4. n - 1 + 1 = n
  BY <1>2
<1>5. QED
  BY <1>1, <1>3, <1>4

-----------------------------------------------------------------------------
(* pack_vfs: where files, entries and bytes lie.                           *)

LEMMA PaddedUp ==
    ASSUME NEW n \in Nat
    PROVE  Padded(n) \in Nat /\ n <= Padded(n) /\ Padded(n) % 4 = 0
BY DEF Padded

\* The packing loop, one file after the other.
NextOffset(files, g, k) == IF k = 1 THEN 0 ELSE Padded(g[k - 1] + files[k - 1])

LEMMA OffsetsExist ==
    ASSUME NEW files, NEW n \in Nat
    PROVE  \E g : g = [k \in 1 .. n |-> NextOffset(files, g, k)]
<1> DEFINE S == {m \in Nat : \E g : g = [k \in 1 .. m |-> NextOffset(files, g, k)]}
<1>1. 0 \in S
  <2>1. <<>> = [k \in 1 .. 0 |-> NextOffset(files, <<>>, k)]
    OBVIOUS
  <2>2. \E g : g = [k \in 1 .. 0 |-> NextOffset(files, g, k)]
    BY <2>1
  <2>3. QED
    BY <2>2
<1>2. ASSUME NEW m \in Nat, m \in S PROVE m + 1 \in S
  <2>1. PICK g : g = [k \in 1 .. m |-> NextOffset(files, g, k)]
    BY <1>2
  <2> DEFINE h == [k \in 1 .. m + 1 |-> IF k <= m THEN g[k] ELSE NextOffset(files, g, m + 1)]
  <2>2. ASSUME NEW k \in 1 .. m + 1 PROVE h[k] = NextOffset(files, h, k)
    <3>1. \A j \in 1 .. m : h[j] = g[j]
      OBVIOUS
    <3>2. k # 1 => k - 1 \in 1 .. m /\ h[k - 1] = g[k - 1]
      BY <3>1
    <3>3. NextOffset(files, h, k) = NextOffset(files, g, k)
      BY <3>2 DEF NextOffset
    <3>4. CASE k <= m
      BY <2>1, <3>3, <3>4
    <3>5. CASE ~(k <= m)
      <4>1. k = m + 1
        BY <3>5
      <4>2. QED
        BY <3>3, <3>5, <4>1
    <3>6. QED
      BY <3>4, <3>5
  <2>3. h = [k \in 1 .. m + 1 |-> h[k]]
    OBVIOUS
  <2> HIDE DEF h
  <2>4. h = [k \in 1 .. m + 1 |-> NextOffset(files, h, k)]
    BY <2>2, <2>3
  <2>5. \E f : f = [k \in 1 .. m + 1 |-> NextOffset(files, f, k)]
    BY <2>4
  <2>6. QED
    BY <2>5
<1>3. \A m \in Nat : m \in S
  <2> HIDE DEF S
  <2>1. QED
    BY <1>1, <1>2, Induction
<1>4. QED
  BY <1>3

LEMMA OffsetsLoop ==
    ASSUME NEW files \in Seq(Nat)
    PROVE  \A k \in 1 .. Len(files) + 1 :
             FlashOffset(files)[k] = NextOffset(files, FlashOffset(files), k)
<1> DEFINE g == CHOOSE g : g = [k \in 1 .. Len(files) + 1 |-> NextOffset(files, g, k)]
<1>1. Len(files) + 1 \in Nat
  OBVIOUS
<1>2. g = [k \in 1 .. Len(files) + 1 |-> NextOffset(files, g, k)]
  <2>1. \E h : h = [k \in 1 .. Len(files) + 1 |-> NextOffset(files, h, k)]
    BY <1>1, OffsetsExist
  <2>2. QED
    BY <2>1
<1>3. FlashOffset(files) = g
  BY DEF FlashOffset, NextOffset
<1> HIDE DEF g
<1>4. QED
  BY <1>2, <1>3

\* The files lie one behind the other, each on a word.
LEMMA OffsetsOrder ==
    ASSUME NEW files \in Seq(Nat), NEW k \in 1 .. Len(files) + 1
    PROVE  LET at == FlashOffset(files)
           IN  /\ at[k] \in Nat /\ at[k] % 4 = 0
               /\ \A j \in 1 .. Len(files) : j < k => at[j] + files[j] <= at[k]
<1> DEFINE at == FlashOffset(files)
           N == Len(files)
           Below(i) == \A j \in 1 .. N : j < i => at[j] + files[j] <= at[i]
           Good(i) == at[i] \in Nat /\ at[i] % 4 = 0 /\ Below(i)
           S == {i \in Nat : \A j \in 1 .. N + 1 : j <= i => Good(j)}
<1>1. /\ N \in Nat
      /\ \A i \in 1 .. N : files[i] \in Nat
      /\ \A i \in 1 .. N + 1 : at[i] = NextOffset(files, at, i)
  <2>1. \A i \in 1 .. N : files[i] \in Nat
    OBVIOUS
  <2>2. \A i \in 1 .. N + 1 : at[i] = NextOffset(files, at, i)
    BY OffsetsLoop
  <2> HIDE DEF at
  <2>3. QED
    BY <2>1, <2>2
<1> HIDE DEF at
<1>2. 0 \in S
  BY <1>1
<1>3. ASSUME NEW i \in Nat, i \in S PROVE i + 1 \in S
  <2>1. SUFFICES ASSUME i + 1 <= N + 1 PROVE Good(i + 1)
    <3>1. \A j \in 1 .. N + 1 : j <= i + 1 => j <= i \/ (j = i + 1 /\ i + 1 <= N + 1)
      BY <1>1
    <3>2. \A j \in 1 .. N + 1 : j <= i => Good(j)
      BY <1>3
    <3> HIDE DEF Good
    <3>3. QED
      BY <2>1, <3>1, <3>2
  <2>2. i + 1 \in 1 .. N + 1
    BY <1>1, <2>1
  <2>3. CASE i = 0
    <3>1. at[1] = 0
      BY <1>1, <2>2, <2>3 DEF NextOffset
    <3>2. Below(1)
      BY <1>1
    <3>3. Good(1)
      BY <3>1, <3>2
    <3> HIDE DEF Good
    <3>4. QED
      BY <2>3, <3>3
  <2>4. CASE i # 0
    <3>1. i \in 1 .. N /\ i \in 1 .. N + 1 /\ i + 1 # 1 /\ i + 1 - 1 = i
      BY <1>1, <2>1, <2>4
    <3>2. Good(i)
      BY <1>3, <3>1
    <3>3. at[i + 1] = Padded(at[i] + files[i])
      <4>1. at[i + 1] = NextOffset(files, at, i + 1)
        BY <1>1, <2>2
      <4>2. NextOffset(files, at, i + 1) = Padded(at[i] + files[i])
        BY <3>1 DEF NextOffset
      <4>3. QED
        BY <4>1, <4>2
    <3>4. at[i] + files[i] \in Nat /\ files[i] \in Nat /\ at[i] \in Nat
      BY <1>1, <3>1, <3>2
    <3>5. at[i + 1] \in Nat /\ at[i + 1] % 4 = 0 /\ at[i] + files[i] <= at[i + 1]
      BY <3>3, <3>4, PaddedUp
    <3>6. ASSUME NEW j \in 1 .. N, j < i + 1 PROVE at[j] + files[j] <= at[i + 1]
      <4>1. CASE j = i
        BY <3>5, <4>1
      <4>2. CASE j # i
        <5>1. j < i /\ j <= i /\ j \in 1 .. N + 1
          BY <1>1, <3>6, <4>2
        <5>2. at[j] + files[j] <= at[i]
          BY <3>2, <5>1
        <5>3. at[j] \in Nat /\ files[j] \in Nat
          BY <1>1, <1>3, <5>1
        <5>4. \A a, b, c, x, y \in Nat : a + x <= b /\ b + y <= c => a + x <= c
          OBVIOUS
        <5> HIDE DEF Good, Below, S
        <5>5. QED
          BY <3>4, <3>5, <5>2, <5>3, <5>4
      <4>3. QED
        BY <4>1, <4>2
    <3>7. QED
      BY <3>5, <3>6
  <2>5. QED
    BY <2>3, <2>4
<1>4. \A i \in Nat : i \in S
  <2> HIDE DEF S
  <2>1. QED
    BY <1>2, <1>3, Induction
<1>5. Good(k)
  <2>1. k \in S /\ k <= k /\ k \in 1 .. N + 1
    <3>1. k \in Nat /\ k <= k /\ k \in 1 .. N + 1
      BY <1>1
    <3> HIDE DEF S
    <3>2. QED
      BY <1>4, <3>1
  <2> HIDE DEF Good
  <2>2. QED
    BY <2>1
<1>6. QED
  BY <1>5 DEF at

\* The index lies behind the superblock, the data behind the index, and no two
\* bytes share an address.
LEMMA IndexPlaces ==
    ASSUME NEW n \in Nat, NEW k \in 1 .. n
    PROVE  /\ EntryAt(k) \in Nat /\ EntryAt(k) # 0 /\ EntryAt(n + 1) \in Nat
           /\ EntryAt(k) + ENTRY_SIZE <= EntryAt(n + 1)
           /\ \A j \in 1 .. n : EntryAt(j) = EntryAt(k) => j = k
BY DEF EntryAt, SUPERBLOCK_SIZE, ENTRY_SIZE

LEMMA DataPlace ==
    ASSUME NEW n \in Nat
    PROVE  /\ EntryAt(n + 1) \in Nat /\ EntryAt(n + 1) % 4 = 0
           /\ EntryAt(n + 1) = SUPERBLOCK_SIZE + n * ENTRY_SIZE
           /\ SUPERBLOCK_SIZE <= EntryAt(n + 1)
BY DEF EntryAt, SUPERBLOCK_SIZE, ENTRY_SIZE

LEMMA BytePlaces ==
    ASSUME NEW files \in Seq(Nat), NEW k \in 1 .. Len(files), NEW i \in 0 .. files[k] - 1
    PROVE  /\ ByteAddress(files, k, i) \in Nat
           /\ DataOffset(files) <= ByteAddress(files, k, i)
           /\ \A j \in 1 .. Len(files) : \A l \in 0 .. files[j] - 1 :
                ByteAddress(files, j, l) = ByteAddress(files, k, i) => j = k /\ l = i
<1> DEFINE n == Len(files)
           at == FlashOffset(files)
           d == DataOffset(files)
<1>1. n \in Nat /\ \A j \in 1 .. n : files[j] \in Nat /\ j \in 1 .. n + 1
  OBVIOUS
<1>2. \A j \in 1 .. n : at[j] \in Nat /\ \A m \in 1 .. n : m < j => at[m] + files[m] <= at[j]
  BY <1>1, OffsetsOrder
<1>3. d \in Nat
  BY <1>1, DataPlace DEF DataOffset
<1>4. \A j, l : ByteAddress(files, j, l) = d + at[j] + l
  BY DEF ByteAddress
<1> HIDE DEF n, at, d
<1>5. ASSUME NEW j \in 1 .. n, NEW m \in 1 .. n, NEW l \in 0 .. files[j] - 1,
             NEW p \in 0 .. files[m] - 1, m < j
      PROVE  d + at[m] + p # d + at[j] + l
  <2>1. at[m] + files[m] <= at[j] /\ at[m] \in Nat /\ at[j] \in Nat
    BY <1>2, <1>5
  <2>2. p \in Nat /\ l \in Nat /\ files[m] \in Nat /\ p < files[m]
    BY <1>1
  <2>3. \A u, v, x, y, z, f \in Nat : u + f <= v /\ x < f => z + u + x # z + v + y
    OBVIOUS
  <2>4. QED
    BY <1>3, <2>1, <2>2, <2>3
<1>6. ASSUME NEW j \in 1 .. n, NEW l \in 0 .. files[j] - 1, d + at[j] + l = d + at[k] + i
      PROVE  j = k /\ l = i
  <2>1. k \in 1 .. n
    BY DEF n
  <2>2. ~(j < k) /\ ~(k < j)
    BY <1>5, <1>6, <2>1
  <2>3. j = k
    BY <1>1, <2>1, <2>2
  <2>4. l = i
    <3>1. l \in Nat /\ i \in Nat /\ at[k] \in Nat
      BY <1>1, <1>2, <2>1
    <3>2. QED
      BY <1>3, <1>6, <2>3, <3>1
  <2>5. QED
    BY <2>3, <2>4
<1>7. d + at[k] + i \in Nat /\ d <= d + at[k] + i
  <2>1. k \in 1 .. n
    BY DEF n
  <2>2. at[k] \in Nat /\ i \in Nat
    BY <1>1, <1>2, <2>1
  <2>3. QED
    BY <1>3, <2>2
<1>8. ASSUME NEW j \in 1 .. n, NEW l \in 0 .. files[j] - 1,
             ByteAddress(files, j, l) = ByteAddress(files, k, i)
      PROVE  j = k /\ l = i
  <2>1. ByteAddress(files, j, l) = d + at[j] + l /\ ByteAddress(files, k, i) = d + at[k] + i
    BY <1>4
  <2>2. d + at[j] + l = d + at[k] + i
    BY <1>8, <2>1
  <2>3. QED
    BY <1>6, <2>2
<1>9. ByteAddress(files, k, i) \in Nat /\ d <= ByteAddress(files, k, i)
  BY <1>4, <1>7
<1>10. QED
  BY <1>8, <1>9 DEF n, d

\* What pack_vfs writes where.
LEMMA PackedCells ==
    ASSUME NEW files \in Seq(Nat)
    PROVE  /\ DOMAIN PackVfs(files) \subseteq Nat
           /\ 0 \in DOMAIN PackVfs(files)
           /\ PackVfs(files)[0] = Header(files, VFS_VERSION, TRUE)
           /\ \A k \in 1 .. Len(files) :
                /\ EntryAt(k) \in DOMAIN PackVfs(files)
                /\ PackVfs(files)[EntryAt(k)] = Entry(k, FlashOffset(files)[k], files[k])
                /\ \A i \in 0 .. files[k] - 1 :
                     /\ ByteAddress(files, k, i) \in DOMAIN PackVfs(files)
                     /\ PackVfs(files)[ByteAddress(files, k, i)] = AssetByte(k, i)
           /\ \A a \in DOMAIN PackVfs(files) :
                PackVfs(files)[a].kind = "superblock" => a = 0
<1> DEFINE n == Len(files)
           at == FlashOffset(files)
           bytes == UNION {{<<k, i>> : i \in 0 .. files[k] - 1} : k \in DOMAIN files}
           place(b) == ByteAddress(files, b[1], b[2])
           byte(a) == CHOOSE b \in bytes : place(b) = a
           asset == [a \in {place(b) : b \in bytes} |-> AssetByte(byte(a)[1], byte(a)[2])]
           index == {EntryAt(k) : k \in DOMAIN files}
           image == PackVfs(files)
<1>1. n \in Nat /\ DOMAIN files = 1 .. n
  OBVIOUS
<1>2. image = [a \in {0} \cup index \cup DOMAIN asset |->
            IF a = 0 THEN Header(files, VFS_VERSION, TRUE)
            ELSE IF a \in DOMAIN asset THEN asset[a]
            ELSE LET k == CHOOSE k \in DOMAIN files : EntryAt(k) = a
                 IN  Entry(k, at[k], files[k])]
  BY DEF PackVfs
<1> HIDE DEF image
<1>3. \A k \in 1 .. n : \A i \in 0 .. files[k] - 1 : <<k, i>> \in bytes /\ place(<<k, i>>) = ByteAddress(files, k, i)
  BY <1>1
<1>4. ASSUME NEW b \in bytes
      PROVE  b[1] \in 1 .. n /\ b[2] \in 0 .. files[b[1]] - 1 /\ b = <<b[1], b[2]>>
  BY <1>1
<1>5. ASSUME NEW b \in bytes, NEW c \in bytes, place(b) = place(c) PROVE b = c
  <2>1. /\ b[1] \in 1 .. n /\ b[2] \in 0 .. files[b[1]] - 1 /\ b = <<b[1], b[2]>>
        /\ c[1] \in 1 .. n /\ c[2] \in 0 .. files[c[1]] - 1 /\ c = <<c[1], c[2]>>
    <3> HIDE DEF bytes, place, n
    <3>1. QED
      BY <1>4
  <2>2. ByteAddress(files, b[1], b[2]) = ByteAddress(files, c[1], c[2])
    BY <1>5
  <2> HIDE DEF bytes, place
  <2>3. b[1] = c[1] /\ b[2] = c[2]
    BY <2>1, <2>2, BytePlaces
  <2>4. QED
    BY <2>1, <2>3, Zenon
<1>6. ASSUME NEW b \in bytes
      PROVE  place(b) \in DOMAIN asset /\ asset[place(b)] = AssetByte(b[1], b[2])
  <2>1. byte(place(b)) \in bytes /\ place(byte(place(b))) = place(b)
    <3> HIDE DEF bytes, place
    <3>1. QED
      OBVIOUS
  <2>2. byte(place(b)) = b
    <3> HIDE DEF bytes, place, byte
    <3>1. QED
      BY <1>5, <2>1
  <2>3. place(b) \in {place(c) : c \in bytes}
    <3> HIDE DEF bytes, place
    <3>1. QED
      OBVIOUS
  <2>4. asset[place(b)] = AssetByte(byte(place(b))[1], byte(place(b))[2])
    <3> HIDE DEF bytes, place, byte
    <3>1. QED
      BY <2>3
  <2> HIDE DEF bytes, place, byte
  <2>5. QED
    BY <2>2, <2>3, <2>4
<1>7. ASSUME NEW a \in DOMAIN asset
      PROVE  /\ a \in Nat /\ DataOffset(files) <= a
             /\ \E b \in bytes : a = place(b) /\ asset[a] = AssetByte(b[1], b[2])
  <2>1. PICK b \in bytes : a = place(b)
    <3> HIDE DEF bytes, place, byte
    <3>1. QED
      OBVIOUS
  <2>2. b[1] \in 1 .. n /\ b[2] \in 0 .. files[b[1]] - 1
    BY <1>4
  <2>3. place(b) \in Nat /\ DataOffset(files) <= place(b)
    <3> HIDE DEF bytes, byte
    <3>1. QED
      BY <2>2, BytePlaces
  <2>4. asset[place(b)] = AssetByte(b[1], b[2])
    BY <1>6
  <2> HIDE DEF bytes, place, byte, asset
  <2>5. QED
    BY <2>1, <2>3, <2>4
<1>8. ASSUME NEW k \in 1 .. n
      PROVE  EntryAt(k) \in Nat /\ EntryAt(k) # 0 /\ EntryAt(k) \notin DOMAIN asset
  <2>1. /\ EntryAt(k) \in Nat /\ EntryAt(k) # 0
        /\ EntryAt(k) + ENTRY_SIZE <= DataOffset(files) /\ DataOffset(files) \in Nat
    BY <1>1, IndexPlaces DEF DataOffset
  <2> HIDE DEF asset
  <2>2. EntryAt(k) < DataOffset(files)
    BY <2>1 DEF ENTRY_SIZE
  <2>3. ~(DataOffset(files) <= EntryAt(k))
    BY <2>1, <2>2
  <2>4. QED
    BY <1>7, <2>1, <2>3
<1>9. 0 \notin DOMAIN asset
  <2>1. ~(DataOffset(files) <= 0)
    <3>1. DataOffset(files) \in Nat /\ SUPERBLOCK_SIZE <= DataOffset(files)
      BY <1>1, DataPlace DEF DataOffset
    <3>2. QED
      BY <3>1 DEF SUPERBLOCK_SIZE
  <2> HIDE DEF asset
  <2>2. QED
    BY <1>7, <2>1
<1> HIDE DEF asset
<1>10. DOMAIN image = {0} \cup index \cup DOMAIN asset /\ DOMAIN image \subseteq Nat
  BY <1>1, <1>2, <1>7, <1>8
<1>11. image[0] = Header(files, VFS_VERSION, TRUE)
  BY <1>2
<1>12. ASSUME NEW k \in 1 .. n
       PROVE  EntryAt(k) \in DOMAIN image /\ image[EntryAt(k)] = Entry(k, at[k], files[k])
  <2> DEFINE c == CHOOSE j \in DOMAIN files : EntryAt(j) = EntryAt(k)
  <2>1. c \in 1 .. n /\ EntryAt(c) = EntryAt(k)
    BY <1>1
  <2>2. c = k
    BY <1>1, <2>1, IndexPlaces
  <2>3. EntryAt(k) \in index
    BY <1>1
  <2>4. image[EntryAt(k)] = Entry(c, at[c], files[c])
    BY <1>2, <1>8, <2>3
  <2>5. QED
    BY <1>10, <2>2, <2>3, <2>4
<1>13. ASSUME NEW k \in 1 .. n, NEW i \in 0 .. files[k] - 1
       PROVE  /\ ByteAddress(files, k, i) \in DOMAIN image
              /\ image[ByteAddress(files, k, i)] = AssetByte(k, i)
  <2>1. /\ ByteAddress(files, k, i) \in DOMAIN asset
        /\ asset[ByteAddress(files, k, i)] = AssetByte(k, i)
    <3>1. <<k, i>> \in bytes /\ place(<<k, i>>) = ByteAddress(files, k, i)
      BY <1>3
    <3>2. place(<<k, i>>) \in DOMAIN asset /\ asset[place(<<k, i>>)] = AssetByte(<<k, i>>[1], <<k, i>>[2])
      <4> HIDE DEF bytes, place
      <4>1. QED
        BY <1>6, <3>1
    <3>3. <<k, i>>[1] = k /\ <<k, i>>[2] = i
      OBVIOUS
    <3> HIDE DEF bytes, place
    <3>4. QED
      BY <3>1, <3>2, <3>3
  <2>2. QED
    BY <1>2, <1>9, <1>10, <2>1
<1>14. ASSUME NEW a \in DOMAIN image, image[a].kind = "superblock" PROVE a = 0
  <2>1. CASE a \in DOMAIN asset
    <3>1. PICK b : asset[a] = AssetByte(b[1], b[2])
      BY <1>7, <2>1
    <3>2. image[a] = asset[a]
      BY <1>2, <1>9, <1>10, <2>1
    <3>3. QED
      BY <1>14, <3>1, <3>2 DEF AssetByte
  <2>2. CASE a \in index
    <3>1. PICK k \in 1 .. n : a = EntryAt(k)
      BY <1>1, <2>2
    <3>2. image[a] = Entry(k, at[k], files[k])
      BY <1>12, <3>1
    <3>3. QED
      BY <1>14, <3>2 DEF Entry
  <2>3. QED
    BY <1>10, <2>1, <2>2
<1>15. QED
  BY <1>10, <1>11, <1>12, <1>13, <1>14 DEF image

\* What lies at the addresses of a placed image.
LEMMA PlacedCells ==
    ASSUME NEW chip \in Images \cup Updates, chip.complete
    PROVE  /\ chip.files \in Seq(Nat) /\ chip.base \in Nat /\ chip.capacity \in Nat
           /\ chip.base + TotalBytes(chip.files) <= chip.capacity /\ chip.capacity <= AddressSpace
           /\ DOMAIN chip.cells = {chip.base + r : r \in DOMAIN PackVfs(chip.files)}
           /\ \A r \in DOMAIN PackVfs(chip.files) :
                chip.cells[chip.base + r] = PackVfs(chip.files)[r]
<1> DEFINE image == PackVfs(chip.files)
           b == chip.base
           placed == {b + r : r \in DOMAIN image}
<1>1. /\ chip.files \in Seq(Nat) /\ b \in Nat /\ chip.capacity \in Nat
      /\ b + TotalBytes(chip.files) <= chip.capacity /\ chip.capacity <= AddressSpace
      /\ chip.cells = Place(chip.files, b, 0).cells
  BY ChipsAssumption
<1>2. chip.cells = [a \in placed |-> image[a - b]]
  BY <1>1 DEF Place
<1>3. DOMAIN image \subseteq Nat
  BY <1>1, PackedCells
<1> HIDE DEF image, b
<1>4. ASSUME NEW r \in DOMAIN image PROVE chip.cells[b + r] = image[r]
  <2>1. PICK a \in placed : a = b + r
    OBVIOUS
  <2>2. r \in Nat /\ b \in Nat
    BY <1>1, <1>3
  <2>3. a - b = r
    BY <2>1, <2>2
  <2>4. chip.cells[a] = image[a - b]
    BY <1>2
  <2>5. QED
    BY <2>1, <2>3, <2>4
<1>5. DOMAIN chip.cells = placed
  BY <1>2
<1>6. QED
  BY <1>1, <1>4, <1>5 DEF image, b

-----------------------------------------------------------------------------
(* While a known image is mounted, the reader reads what pack_vfs wrote:   *)
(* the invariant.                                                          *)

\* The superblock in RAM is the one at the image's start.
MountedImage ==
    steady /\ reader.status = "Ok" /\ flash.complete =>
        /\ reader.base = flash.base
        /\ reader.superblock = Header(flash.files, VFS_VERSION, TRUE)

\* The lookup that is under way asks for what the caller asked, or it is the one
\* of read_asset's inner stream_chunk, for the whole of an asset that fits.
Asks ==
    \/ call.op = request.op /\ call.offset = request.offset /\ call.dest = request.len
    \/ /\ request.op = "read_asset" /\ call.op = "stream_chunk"
       /\ request.asset_id \in DOMAIN flash.files
       /\ call.offset = 0 /\ call.dest = flash.files[request.asset_id]

\* It has seen the entries before turn i, and none was the asset's; the transfer
\* is of the asset's bytes from offset on.
Looks ==
    /\ call.pc = "entry" =>
         /\ call.addr = flash.base + EntryAt(call.i + 1)
         /\ request.asset_id \notin 1 .. call.i
    /\ call.pc = "chunk" =>
         /\ request.asset_id \in DOMAIN flash.files /\ call.op = "stream_chunk"
         /\ call.offset < flash.files[request.asset_id]
         /\ call.addr = flash.base + ByteAddress(flash.files, request.asset_id, call.offset)
         /\ call.to_read = MinOf(flash.files[request.asset_id] - call.offset, call.dest)

PackInv ==
    /\ ReaderInv
    /\ MountedImage
    /\ request # None => ret = NoAnswer
    /\ Known /\ request # None => Asks /\ Looks

\* A number below the modulus is its own remainder.
LEMMA SmallRemainder ==
    ASSUME NEW m \in Nat \ {0}, NEW x \in Nat, x < m
    PROVE  x % m = x
OBVIOUS

\* What is known of the reader and the chip while Known holds.
LEMMA KnownReader ==
    ASSUME PackInv, Known
    PROVE  LET files == flash.files
               n == Len(files)
               b == flash.base
           IN  /\ files \in Seq(Nat) /\ n \in Nat /\ DOMAIN files = 1 .. n
               /\ \A k \in 1 .. n : files[k] \in Nat
               /\ b \in Nat /\ reader.base = b
               /\ reader.superblock.asset_count = n
               /\ reader.superblock.index_offset = SUPERBLOCK_SIZE
               /\ reader.superblock.data_offset = DataOffset(files)
               /\ reader.superblock.total_bytes = TotalBytes(files)
               /\ b + TotalBytes(files) <= flash.capacity
               /\ b + TotalBytes(files) <= AddressSpace
               /\ flash.capacity \in Nat /\ AddressSpace \in Nat \ {0}
<1>1. flash \in Images \cup Updates /\ flash.complete /\ Len(flash.files) < AssetCountSpace
  BY DEF PackInv, ReaderInv, Decoded, Known
<1>2. /\ flash.files \in Seq(Nat) /\ flash.base \in Nat /\ flash.capacity \in Nat
      /\ flash.base + TotalBytes(flash.files) <= flash.capacity /\ flash.capacity <= AddressSpace
  BY <1>1, PlacedCells
<1>3. /\ Len(flash.files) \in Nat /\ DOMAIN flash.files = 1 .. Len(flash.files)
      /\ \A k \in 1 .. Len(flash.files) : flash.files[k] \in Nat
  BY <1>2
<1>4. AddressSpace \in Nat \ {0} /\ AssetCountSpace \in Nat \ {0}
  BY ReaderAssumption
<1>5. Len(flash.files) % AssetCountSpace = Len(flash.files)
  BY <1>1, <1>3, <1>4, SmallRemainder
<1>6. reader.base = flash.base /\ reader.superblock = Header(flash.files, VFS_VERSION, TRUE)
  BY DEF PackInv, MountedImage, Known
<1>7. TotalBytes(flash.files) \in Nat
  <2>1. Len(flash.files) + 1 \in 1 .. Len(flash.files) + 1
    BY <1>3
  <2>2. FlashOffset(flash.files)[Len(flash.files) + 1] \in Nat
    BY <1>2, <2>1, OffsetsOrder
  <2>3. DataOffset(flash.files) \in Nat
    BY <1>3, DataPlace DEF DataOffset
  <2>4. QED
    BY <2>2, <2>3 DEF TotalBytes
<1>8. flash.base + TotalBytes(flash.files) <= AddressSpace
  BY <1>2, <1>4, <1>7
<1>9. /\ reader.superblock.asset_count = Len(flash.files)
      /\ reader.superblock.index_offset = SUPERBLOCK_SIZE
      /\ reader.superblock.data_offset = DataOffset(flash.files)
      /\ reader.superblock.total_bytes = TotalBytes(flash.files)
  <2>1. reader.superblock = Superblock(Len(flash.files), DataOffset(flash.files),
                                       TotalBytes(flash.files), VFS_VERSION, TRUE)
    BY <1>5, <1>6 DEF Header
  <2>2. QED
    BY <2>1 DEF Superblock
<1>10. QED
  BY <1>2, <1>3, <1>4, <1>6, <1>8, <1>9

\* Everything of the image lies before its end.
LEMMA WithinTotal ==
    ASSUME NEW files \in Seq(Nat), NEW k \in 1 .. Len(files)
    PROVE  /\ EntryAt(k) \in Nat /\ EntryAt(k) + ENTRY_SIZE <= TotalBytes(files)
           /\ TotalBytes(files) \in Nat
           /\ \A i \in 0 .. files[k] :
                /\ ByteAddress(files, k, i) \in Nat
                /\ ByteAddress(files, k, i) + (files[k] - i) <= TotalBytes(files)
<1> DEFINE n == Len(files)
           at == FlashOffset(files)
           d == DataOffset(files)
<1>1. n \in Nat /\ files[k] \in Nat /\ k \in 1 .. n + 1 /\ n + 1 \in 1 .. n + 1 /\ k < n + 1
  OBVIOUS
<1>2. at[k] \in Nat /\ at[n + 1] \in Nat /\ at[k] + files[k] <= at[n + 1]
  BY <1>1, OffsetsOrder
<1>3. /\ EntryAt(k) \in Nat /\ EntryAt(k) + ENTRY_SIZE <= d /\ d \in Nat
  BY <1>1, IndexPlaces DEF DataOffset
<1>4. TotalBytes(files) = d + at[n + 1]
  BY DEF TotalBytes
<1>5. \A i : ByteAddress(files, k, i) = d + at[k] + i
  BY DEF ByteAddress
<1> HIDE DEF at, d, n
<1>6. EntryAt(k) + ENTRY_SIZE <= TotalBytes(files) /\ TotalBytes(files) \in Nat
  BY <1>2, <1>3, <1>4 DEF ENTRY_SIZE
<1>7. ASSUME NEW i \in 0 .. files[k]
      PROVE  /\ ByteAddress(files, k, i) \in Nat
             /\ ByteAddress(files, k, i) + (files[k] - i) <= TotalBytes(files)
  <2>1. i \in Nat /\ i <= files[k]
    BY <1>1
  <2>2. \A x, y, z, f, j \in Nat : j <= f /\ x + f <= y => z + x + j + (f - j) <= z + y
    OBVIOUS
  <2>3. d + at[k] + i + (files[k] - i) <= d + at[n + 1]
    BY <1>1, <1>2, <1>3, <2>1, <2>2
  <2>4. d + at[k] + i \in Nat
    <3>1. d \in Nat /\ at[k] \in Nat /\ i \in Nat
      BY <1>2, <1>3, <2>1
    <3>2. \A x, y, z \in Nat : x + y + z \in Nat
      OBVIOUS
    <3>3. QED
      BY <3>1, <3>2
  <2>5. QED
    BY <1>4, <1>5, <2>3, <2>4
<1>8. QED
  BY <1>3, <1>6, <1>7

\* Where the reader looks for an entry, and where for a byte: where they are.
LEMMA KnownAddresses ==
    ASSUME PackInv, Known, NEW k \in 1 .. Len(flash.files)
    PROVE  /\ EntryAddress(k - 1) = flash.base + EntryAt(k)
           /\ \A i \in 0 .. flash.files[k] - 1 :
                Address(DataOffset(flash.files) + FlashOffset(flash.files)[k] + i)
                    = flash.base + ByteAddress(flash.files, k, i)
<1> DEFINE files == flash.files
           b == flash.base
           M == AddressSpace
           T == TotalBytes(files)
<1>1. /\ files \in Seq(Nat) /\ files[k] \in Nat /\ b \in Nat /\ reader.base = b
      /\ reader.superblock.index_offset = SUPERBLOCK_SIZE
      /\ b + T <= M /\ M \in Nat \ {0}
  BY KnownReader
<1>2. /\ EntryAt(k) \in Nat /\ EntryAt(k) + ENTRY_SIZE <= T /\ T \in Nat
      /\ \A i \in 0 .. files[k] :
           /\ ByteAddress(files, k, i) \in Nat
           /\ ByteAddress(files, k, i) + (files[k] - i) <= T
  BY <1>1, WithinTotal
<1> HIDE DEF files, b, M, T
<1>3. ASSUME NEW x \in Nat, NEW s \in Nat, s # 0, x + s <= T PROVE (b + x) % M = b + x
  <2>1. b + x \in Nat /\ b + x < M
    BY <1>1, <1>2, <1>3
  <2>2. QED
    BY <1>1, <2>1, SmallRemainder
<1>4. EntryAddress(k - 1) = b + EntryAt(k)
  <2>1. EntryAddress(k - 1) = (b + EntryAt(k)) % M
    BY <1>1 DEF EntryAddress, Address, EntryAt, M
  <2>2. ENTRY_SIZE \in Nat /\ ENTRY_SIZE # 0
    BY DEF ENTRY_SIZE
  <2>3. QED
    BY <1>2, <1>3, <2>1, <2>2
<1>5. ASSUME NEW i \in 0 .. files[k] - 1
      PROVE  Address(DataOffset(files) + FlashOffset(files)[k] + i) = b + ByteAddress(files, k, i)
  <2>1. i \in 0 .. files[k] /\ files[k] - i \in Nat /\ files[k] - i # 0
    BY <1>1
  <2>2. /\ ByteAddress(files, k, i) \in Nat
        /\ ByteAddress(files, k, i) + (files[k] - i) <= T
    BY <1>2, <2>1
  <2>3. (b + ByteAddress(files, k, i)) % M = b + ByteAddress(files, k, i)
    BY <1>3, <2>1, <2>2
  <2>4. QED
    BY <1>1, <2>3 DEF Address, ByteAddress, M
<1>6. QED
  BY <1>4, <1>5 DEF files, b

\* What the reader finds there.
LEMMA KnownCells ==
    ASSUME PackInv, Known, NEW k \in 1 .. Len(flash.files)
    PROVE  /\ EntriesAt(flash.base + EntryAt(k)) =
                {Entry(k, FlashOffset(flash.files)[k], flash.files[k])}
           /\ \A i \in 0 .. flash.files[k] - 1 :
                ByteAt(flash.base + ByteAddress(flash.files, k, i)) = AssetByte(k, i)
<1> DEFINE files == flash.files
           b == flash.base
<1>1. flash \in Images \cup Updates /\ flash.complete
  BY DEF PackInv, ReaderInv, Decoded, Known
<1>2. files \in Seq(Nat)
  BY KnownReader
<1>3. \A r \in DOMAIN PackVfs(files) :
        b + r \in DOMAIN flash.cells /\ flash.cells[b + r] = PackVfs(files)[r]
  BY <1>1, PlacedCells
<1>4. /\ EntryAt(k) \in DOMAIN PackVfs(files)
      /\ PackVfs(files)[EntryAt(k)] = Entry(k, FlashOffset(files)[k], files[k])
      /\ \A i \in 0 .. files[k] - 1 :
           /\ ByteAddress(files, k, i) \in DOMAIN PackVfs(files)
           /\ PackVfs(files)[ByteAddress(files, k, i)] = AssetByte(k, i)
  BY <1>2, PackedCells
<1> HIDE DEF files, b
<1>5. Cell(b + EntryAt(k)) = Entry(k, FlashOffset(files)[k], files[k])
  BY <1>3, <1>4 DEF Cell
<1>6. EntriesAt(b + EntryAt(k)) = {Entry(k, FlashOffset(files)[k], files[k])}
  BY <1>5 DEF EntriesAt, Entry
<1>7. ASSUME NEW i \in 0 .. files[k] - 1
      PROVE  ByteAt(b + ByteAddress(files, k, i)) = AssetByte(k, i)
  <2>1. Cell(b + ByteAddress(files, k, i)) = AssetByte(k, i)
    BY <1>3, <1>4 DEF Cell
  <2>2. QED
    BY <2>1 DEF ByteAt, AssetByte
<1>8. QED
  BY <1>6, <1>7 DEF files, b

-----------------------------------------------------------------------------
(* One step of every action.                                               *)

\* What a lookup for request r may look for.
May(r, op, offset, dest) ==
    \/ op = r.op /\ offset = r.offset /\ dest = r.len
    \/ /\ r.op = "read_asset" /\ op = "stream_chunk" /\ r.asset_id \in DOMAIN flash.files
       /\ offset = 0 /\ dest = flash.files[r.asset_id]

\* What a step leaves, beside the types.
Packed ==
    /\ MountedImage
    /\ request # None => ret = NoAnswer
    /\ Known /\ request # None => Asks /\ Looks

\* A request that ends, or a read that is waited for, leaves the chip and the reader.
LEMMA FinishPack ==
    ASSUME PackInv, NEW result, Finish(result)
    PROVE  Packed'
BY DEF Finish, Packed, PackInv, MountedImage

LEMMA AwaitPack ==
    ASSUME PackInv, NEW c, NEW r, Await(c, r),
           Known => May(r, c.op, c.offset, c.dest) /\ Looks'
    PROVE  Packed'
<1>1. /\ call' = c /\ request' = r /\ ret' = NoAnswer
      /\ flash' = flash /\ reader' = reader /\ steady' = steady
  BY DEF Await
<1>2. Known' <=> Known
  BY <1>1 DEF Known
<1>3. MountedImage'
  BY <1>1 DEF PackInv, MountedImage
<1>4. Known => Asks'
  BY <1>1 DEF May, Asks
<1>5. QED
  BY <1>1, <1>2, <1>3, <1>4 DEF Packed, NoAnswer

\* The loop's head: the next entry is read where it lies.
LEMMA FindEntryPack ==
    ASSUME PackInv, NEW r \in Requests, NEW op, NEW offset, NEW dest, NEW i \in Nat,
           FindEntry(r, op, offset, dest, i),
           Known => May(r, op, offset, dest) /\ r.asset_id \notin 1 .. i
    PROVE  Packed'
<1>1. CASE i < reader.superblock.asset_count
  <2> DEFINE c == [Idle EXCEPT !.pc = "entry", !.op = op, !.i = i, !.offset = offset,
                               !.dest = dest, !.addr = EntryAddress(i)]
  <2>1. Await(c, r)
    BY <1>1 DEF FindEntry, ReadEntry
  <2>2. /\ c.pc = "entry" /\ c.op = op /\ c.i = i /\ c.offset = offset /\ c.dest = dest
        /\ c.addr = EntryAddress(i)
    BY DEF Idle
  <2> HIDE DEF c
  <2>3. /\ call' = c /\ request' = r /\ flash' = flash
    BY <2>1 DEF Await
  <2>4. ASSUME Known PROVE Looks'
    <3>1. i + 1 \in 1 .. Len(flash.files) /\ i + 1 - 1 = i
      BY <1>1, <2>4, KnownReader
    <3>2. EntryAddress(i) = flash.base + EntryAt(i + 1)
      BY <2>4, <3>1, KnownAddresses
    <3>3. QED
      BY <2>2, <2>3, <2>4, <3>2 DEF Looks
  <2>5. QED
    BY <2>1, <2>2, <2>4, AwaitPack
<1>2. CASE ~(i < reader.superblock.asset_count)
  BY <1>2, FinishPack DEF FindEntry, Refuse
<1>3. QED
  BY <1>1, <1>2

\* The entry a turn of the lookup finds in a known image.
LEMMA KnownEntry ==
    ASSUME PackInv, Known, call.pc = "entry", NEW entry \in EntriesAt(call.addr)
    PROVE  /\ call.i \in Nat /\ call.i + 1 \in 1 .. Len(flash.files)
           /\ call.addr = flash.base + EntryAt(call.i + 1)
           /\ entry.asset_id = call.i + 1
           /\ entry.flash_offset = FlashOffset(flash.files)[call.i + 1]
           /\ entry.length = flash.files[call.i + 1]
           /\ Asks /\ request.asset_id \notin 1 .. call.i /\ request \in Requests
<1>1. /\ request # None /\ request \in Requests /\ call.i \in Nat
      /\ call.i < reader.superblock.asset_count
  BY DEF PackInv, ReaderInv, TypeOK
<1>2. Asks /\ Looks
  BY <1>1 DEF PackInv
<1>3. call.i + 1 \in 1 .. Len(flash.files)
  BY <1>1, KnownReader
<1>4. call.addr = flash.base + EntryAt(call.i + 1) /\ request.asset_id \notin 1 .. call.i
  BY <1>2 DEF Looks
<1>5. entry = Entry(call.i + 1, FlashOffset(flash.files)[call.i + 1], flash.files[call.i + 1])
  BY <1>3, <1>4, KnownCells
<1>6. QED
  BY <1>1, <1>2, <1>3, <1>4, <1>5 DEF Entry

LEMMA EntryReadPack == ASSUME PackInv, EntryRead PROVE Packed'
<1>1. PICK entry \in EntriesAt(call.addr) :
        IF entry.asset_id # request.asset_id THEN NextTurn
        ELSE \/ call.op = "asset_len" /\ AssetLen(entry)
             \/ call.op = "stream_chunk" /\ StreamChunk(entry)
             \/ call.op = "read_asset" /\ ReadAsset(entry)
  BY DEF EntryRead
<1>2. /\ call.pc = "entry" /\ request \in Requests /\ call.i \in Nat
  BY DEF EntryRead, PackInv, ReaderInv, TypeOK
<1>3. CASE entry.asset_id # request.asset_id
  <2>1. ASSUME Known
        PROVE  May(request, call.op, call.offset, call.dest) /\ request.asset_id \notin 1 .. call.i + 1
    <3>1. Asks /\ request.asset_id \notin 1 .. call.i /\ request.asset_id # call.i + 1
      BY <1>2, <1>3, <2>1, KnownEntry
    <3>2. \A j \in 1 .. call.i + 1 : j \in 1 .. call.i \/ j = call.i + 1
      BY <1>2
    <3>3. QED
      BY <3>1, <3>2 DEF Asks, May
  <2>2. FindEntry(request, call.op, call.offset, call.dest, call.i + 1)
    BY <1>1, <1>3 DEF NextTurn
  <2>3. QED
    BY <1>2, <2>1, <2>2, FindEntryPack
<1>4. CASE AssetLen(entry)
  BY <1>4, FinishPack DEF AssetLen
<1>5. CASE entry.asset_id = request.asset_id /\ call.op = "stream_chunk" /\ StreamChunk(entry)
  <2>1. CASE call.offset >= entry.length
    BY <1>5, <2>1, FinishPack DEF StreamChunk
  <2>2. CASE ~(call.offset >= entry.length)
    <3> DEFINE a == ChunkAddress(entry, call.offset)
               m == ToRead(entry, call.offset, call.dest)
               c == [call EXCEPT !.pc = "chunk", !.addr = a, !.to_read = m]
    <3>1. Await(c, request)
      BY <1>5, <2>2 DEF StreamChunk
    <3>2. call \in Calls
      BY DEF PackInv, ReaderInv, TypeOK, Calls
    <3>3. /\ c.pc = "chunk" /\ c.op = call.op /\ c.offset = call.offset /\ c.dest = call.dest
          /\ c.addr = a /\ c.to_read = m
      BY <3>2 DEF Calls
    <3> HIDE DEF c, a, m
    <3>4. call' = c /\ request' = request /\ flash' = flash
      BY <3>1 DEF Await
    <3>5. ASSUME Known PROVE May(request, c.op, c.offset, c.dest) /\ Looks'
      <4> DEFINE k == call.i + 1
      <4>1. /\ k \in 1 .. Len(flash.files) /\ entry.asset_id = k
            /\ entry.flash_offset = FlashOffset(flash.files)[k] /\ entry.length = flash.files[k]
            /\ Asks
        BY <1>2, <3>5, KnownEntry
      <4>2. /\ DOMAIN flash.files = 1 .. Len(flash.files) /\ flash.files[k] \in Nat
            /\ reader.superblock.data_offset = DataOffset(flash.files)
        BY <3>5, <4>1, KnownReader
      <4> HIDE DEF k
      <4>3. call.offset \in Nat /\ call.offset < flash.files[k] /\ call.offset \in 0 .. flash.files[k] - 1
        BY <2>2, <3>2, <4>1, <4>2 DEF Calls
      <4>4. a = flash.base + ByteAddress(flash.files, k, call.offset)
        BY <3>5, <4>1, <4>2, <4>3, KnownAddresses DEF a, ChunkAddress
      <4>5. m = MinOf(flash.files[k] - call.offset, call.dest)
        BY <4>1 DEF m, ToRead
      <4>6. request.asset_id = k
        BY <1>5, <4>1
      <4>7. Looks'
        BY <1>5, <3>3, <3>4, <4>1, <4>2, <4>3, <4>4, <4>5, <4>6 DEF Looks
      <4>8. QED
        BY <3>3, <4>1, <4>7 DEF Asks, May
    <3>6. QED
      BY <3>1, <3>5, AwaitPack
  <2>3. QED
    BY <2>1, <2>2
<1>6. CASE entry.asset_id = request.asset_id /\ call.op = "read_asset" /\ ReadAsset(entry)
  <2>1. CASE call.dest < entry.length
    BY <1>6, <2>1, FinishPack DEF ReadAsset
  <2>2. CASE ~(call.dest < entry.length)
    <3>1. FindEntry(request, "stream_chunk", 0, entry.length, 0)
      BY <1>6, <2>2 DEF ReadAsset
    <3>2. ASSUME Known
          PROVE  May(request, "stream_chunk", 0, entry.length) /\ request.asset_id \notin 1 .. 0
      <4>1. /\ request.asset_id \in 1 .. Len(flash.files)
            /\ entry.length = flash.files[request.asset_id] /\ Asks
        BY <1>2, <1>6, <3>2, KnownEntry
      <4>2. request.op = "read_asset" /\ request.asset_id \in DOMAIN flash.files
        BY <1>6, <3>2, <4>1, KnownReader DEF Asks
      <4>3. QED
        BY <4>1, <4>2 DEF May
    <3>3. QED
      BY <1>2, <3>1, <3>2, FindEntryPack
  <2>3. QED
    BY <2>1, <2>2
<1>7. QED
  BY <1>1, <1>3, <1>4, <1>5, <1>6

\* The only superblock of a whole image is at its start.
LEMMA KnownSuperblock ==
    ASSUME flash \in Images \cup Updates, flash.complete, NEW a, Cell(a).kind = "superblock"
    PROVE  a = flash.base /\ Cell(a) = Header(flash.files, VFS_VERSION, TRUE)
<1> DEFINE image == PackVfs(flash.files)
<1>1. /\ flash.files \in Seq(Nat) /\ flash.base \in Nat
      /\ DOMAIN flash.cells = {flash.base + r : r \in DOMAIN image}
      /\ \A r \in DOMAIN image : flash.cells[flash.base + r] = image[r]
  BY PlacedCells
<1>2. /\ image[0] = Header(flash.files, VFS_VERSION, TRUE)
      /\ \A r \in DOMAIN image : image[r].kind = "superblock" => r = 0
  BY <1>1, PackedCells
<1> HIDE DEF image
<1>3. a \in DOMAIN flash.cells /\ Cell(a) = flash.cells[a]
  BY DEF Cell, Other
<1>4. PICK r \in DOMAIN image : a = flash.base + r
  BY <1>1, <1>3
<1>5. Cell(a) = image[r]
  BY <1>1, <1>3, <1>4
<1>6. r = 0
  BY <1>2, <1>5
<1>7. a = flash.base
  <2>1. /\ flash.base \in Nat /\ a = flash.base + r
    BY <1>1, <1>4
  <2>2. QED
    BY <1>6, <2>1
<1>8. Cell(a) = image[0]
  BY <1>5, <1>6
<1>9. QED
  BY <1>2, <1>7, <1>8

LEMMA SuperblockReadPack == ASSUME PackInv, SuperblockRead PROVE Packed'
<1>1. /\ flash' = flash /\ request' = request /\ call.pc = "mount"
  BY DEF SuperblockRead, Mounted
<1>2. request = None
  BY <1>1 DEF PackInv, ReaderInv, TypeOK
<1>3. CASE Verdict(Cell(call.addr)) = "Ok"
  <2>1. reader' = [status |-> "Ok", base |-> call.addr, superblock |-> Cell(call.addr)]
    BY <1>3 DEF SuperblockRead, Mounted
  <2>2. Cell(call.addr).kind = "superblock"
    BY <1>3 DEF Verdict
  <2>3. flash.complete => /\ call.addr = flash.base
                          /\ Cell(call.addr) = Header(flash.files, VFS_VERSION, TRUE)
    BY <2>2, KnownSuperblock DEF PackInv, ReaderInv, Decoded
  <2>4. MountedImage'
    BY <1>1, <2>1, <2>3 DEF MountedImage
  <2>5. QED
    BY <1>1, <1>2, <2>4 DEF Packed
<1>4. CASE Verdict(Cell(call.addr)) # "Ok"
  <2>1. reader' = Unmounted(Verdict(Cell(call.addr)))
    BY <1>4 DEF SuperblockRead, Mounted
  <2>2. reader'.status # "Ok"
    BY <1>4, <2>1 DEF Unmounted
  <2>3. QED
    BY <1>1, <1>2, <2>2 DEF Packed, MountedImage
<1>5. QED
  BY <1>3, <1>4

LEMMA StorageErrorPack == ASSUME PackInv, StorageError PROVE Packed'
<1>1. CASE call.pc = "mount"
  <2>1. reader' = Unmounted("Storage") /\ request' = request
    BY <1>1 DEF StorageError, Mounted
  <2>2. request = None
    BY <1>1 DEF PackInv, ReaderInv, TypeOK
  <2>3. reader'.status # "Ok"
    BY <2>1 DEF Unmounted
  <2>4. QED
    BY <2>1, <2>2, <2>3 DEF Packed, MountedImage
<1>2. CASE call.pc # "mount"
  BY <1>2, FinishPack DEF StorageError, Refuse
<1>3. QED
  BY <1>1, <1>2

LEMMA NextPackInv == PackInv /\ [Next]_vars => PackInv'
<1> SUFFICES ASSUME PackInv, [Next]_vars PROVE Packed'
  BY NextReaderInv DEF PackInv, Packed
<1>1. ASSUME NEW base \in Bases, Mount(base) PROVE Packed'
  <2>1. /\ flash' = flash /\ reader' = reader /\ request' = request /\ steady' = steady
        /\ request = None
    BY <1>1 DEF Mount, PackInv, ReaderInv, TypeOK
  <2>2. QED
    BY <2>1 DEF Packed, PackInv, MountedImage
<1>2. ASSUME NEW r \in Requests, Request(r) PROVE Packed'
  <2>1. FindEntry(r, r.op, r.offset, r.len, 0)
    BY <1>2 DEF Request
  <2>2. May(r, r.op, r.offset, r.len) /\ r.asset_id \notin 1 .. 0
    BY DEF May
  <2>3. QED
    BY <2>1, <2>2, FindEntryPack
<1>3. CASE ChunkRead
  BY <1>3, FinishPack DEF ChunkRead
<1>4. CASE ReadRefused \/ ReadFails
  BY <1>4, StorageErrorPack DEF ReadRefused, ReadFails
<1>5. CASE DropFuture
  <2>1. request' = None /\ flash' = flash /\ steady' = steady
    BY <1>5 DEF DropFuture
  <2>2. reader' = reader \/ reader'.status # "Ok"
    BY <1>5 DEF DropFuture, Unmounted
  <2>3. QED
    BY <2>1, <2>2 DEF Packed, PackInv, MountedImage
<1>6. CASE Rewrite
  <2>1. ~steady' /\ request' = request /\ ret' = ret
    BY <1>6 DEF Rewrite
  <2>2. QED
    BY <2>1 DEF Packed, PackInv, MountedImage, Known, NoAnswer
<1>7. CASE UNCHANGED vars
  BY <1>7 DEF vars, Packed, PackInv, MountedImage, Known, Asks, Looks, NoAnswer
<1>8. QED
  BY <1>1, <1>2, <1>3, <1>4, <1>5, <1>6, <1>7, SuperblockReadPack, EntryReadPack DEF Next

LEMMA InitPackInv == Init => PackInv
BY InitReaderInv DEF Init, Unmounted, PackInv, MountedImage, Known

LEMMA PackInvHolds == Spec => []PackInv
BY InitPackInv, NextPackInv, PTL DEF Spec

-----------------------------------------------------------------------------
(* What follows for the reads of a known image.                            *)

\* Every read of a known image, of the index or of an asset's bytes, for every
\* offset and buffer, is a read of the image and never of what lies behind it.
THEOREM ReadsWithinImage == Spec => []ReadsStayInImage
<1>1. ASSUME PackInv, Known, request # None
      PROVE  /\ reader.base <= call.addr
             /\ call.addr + Wanted <= reader.base + reader.superblock.total_bytes
  <2> DEFINE files == flash.files
             b == flash.base
             k == request.asset_id
  <2>1. /\ files \in Seq(Nat) /\ DOMAIN files = 1 .. Len(files) /\ Len(files) \in Nat
        /\ b \in Nat /\ reader.base = b
        /\ reader.superblock.total_bytes = TotalBytes(files)
        /\ reader.superblock.asset_count = Len(files)
    BY <1>1, KnownReader
  <2>2. /\ Looks /\ call \in Calls /\ call.pc \in {"entry", "chunk"}
        /\ call.pc = "entry" => call.i < reader.superblock.asset_count
    BY <1>1 DEF PackInv, ReaderInv, TypeOK, Calls
  <2>3. CASE call.pc = "entry"
    <3>1. call.i \in Nat /\ call.i + 1 \in 1 .. Len(files)
      BY <2>1, <2>2, <2>3 DEF Calls
    <3>2. call.addr = b + EntryAt(call.i + 1)
      BY <2>2, <2>3 DEF Looks
    <3>3. /\ EntryAt(call.i + 1) \in Nat /\ TotalBytes(files) \in Nat
          /\ EntryAt(call.i + 1) + ENTRY_SIZE <= TotalBytes(files)
      BY <2>1, <3>1, WithinTotal
    <3>4. Wanted = ENTRY_SIZE /\ ENTRY_SIZE \in Nat
      BY <2>3 DEF Wanted, ENTRY_SIZE
    <3> HIDE DEF b, files
    <3>5. QED
      BY <2>1, <3>2, <3>3, <3>4
  <2>4. CASE call.pc = "chunk"
    <3>1. /\ k \in 1 .. Len(files) /\ call.offset < files[k] /\ call.offset \in Nat
          /\ call.addr = b + ByteAddress(files, k, call.offset)
          /\ call.to_read = MinOf(files[k] - call.offset, call.dest)
          /\ call.dest \in Nat /\ call.to_read \in Nat
      BY <2>1, <2>2, <2>4 DEF Looks, Calls
    <3>2. files[k] \in Nat /\ call.offset \in 0 .. files[k]
      BY <2>1, <3>1
    <3>3. /\ ByteAddress(files, k, call.offset) \in Nat
          /\ ByteAddress(files, k, call.offset) + (files[k] - call.offset) <= TotalBytes(files)
          /\ TotalBytes(files) \in Nat
      BY <2>1, <3>1, <3>2, WithinTotal
    <3>4. Wanted = call.to_read /\ call.to_read <= files[k] - call.offset
      BY <2>4, <3>1, <3>2 DEF Wanted, MinOf
    <3>5. \A x, y, z, t, u \in Nat : x + y <= t /\ u <= y => z + x + u <= z + t
      OBVIOUS
    <3>6. files[k] - call.offset \in Nat
      BY <3>1, <3>2
    <3> DEFINE x == ByteAddress(files, k, call.offset)
               y == files[k] - call.offset
               t == TotalBytes(files)
               u == call.to_read
    <3>7. /\ x \in Nat /\ y \in Nat /\ t \in Nat /\ u \in Nat
          /\ x + y <= t /\ u <= y
      BY <3>1, <3>3, <3>4, <3>6
    <3>8. /\ Wanted = u /\ call.addr = b + x
          /\ reader.base = b /\ reader.superblock.total_bytes = t
      BY <2>1, <3>1, <3>4
    <3> HIDE DEF b, x, y, t, u, Wanted
    <3>9. b \in Nat
      BY <2>1
    <3>10. b <= b + x /\ (b + x) + u <= b + t
      BY <3>7, <3>9
    <3>11. QED
      BY <3>8, <3>10
  <2>5. QED
    BY <2>2, <2>3, <2>4
<1>2. PackInv => ReadsStayInImage
  BY <1>1 DEF ReadsStayInImage
<1>3. QED
  BY <1>2, PackInvHolds, PTL

\* pack_vfs pads so that the transfer of an asset from its start begins on a word
\* of the partition.
THEOREM WholeReadsOnWords == Spec => []WholeReadsAligned
<1>1. ASSUME PackInv, Known, call.pc = "chunk", call.offset = 0
      PROVE  (call.addr - reader.base) % 4 = 0
  <2> DEFINE files == flash.files
             b == flash.base
             k == request.asset_id
  <2>1. /\ files \in Seq(Nat) /\ DOMAIN files = 1 .. Len(files) /\ Len(files) \in Nat
        /\ b \in Nat /\ reader.base = b
    BY <1>1, KnownReader
  <2>2. request # None
    BY <1>1 DEF PackInv, ReaderInv, TypeOK
  <2>3. k \in 1 .. Len(files) /\ call.addr = b + ByteAddress(files, k, 0)
    BY <1>1, <2>1, <2>2 DEF PackInv, Looks
  <2>4. FlashOffset(files)[k] \in Nat /\ FlashOffset(files)[k] % 4 = 0
    <3>1. k \in 1 .. Len(files) + 1
      BY <2>1, <2>3
    <3>2. QED
      BY <2>1, <3>1, OffsetsOrder
  <2>5. DataOffset(files) \in Nat /\ DataOffset(files) % 4 = 0
    BY <2>1, DataPlace DEF DataOffset
  <2>6. \A x, y, z \in Nat : x % 4 = 0 /\ y % 4 = 0 => (z + (x + y + 0) - z) % 4 = 0
    OBVIOUS
  <2>7. call.addr = b + (DataOffset(files) + FlashOffset(files)[k] + 0)
    BY <2>3 DEF ByteAddress
  <2> DEFINE x == DataOffset(files)
             y == FlashOffset(files)[k]
  <2>8. /\ x \in Nat /\ y \in Nat /\ x % 4 = 0 /\ y % 4 = 0 /\ b \in Nat
        /\ call.addr = b + (x + y + 0) /\ reader.base = b
    BY <2>1, <2>4, <2>5, <2>7
  <2> HIDE DEF b, x, y
  <2>9. (b + (x + y + 0) - b) % 4 = 0
    BY <2>6, <2>8
  <2>10. QED
    BY <2>8, <2>9
<1>2. PackInv => WholeReadsAligned
  BY <1>1 DEF WholeReadsAligned
<1>3. QED
  BY <1>2, PackInvHolds, PTL

-----------------------------------------------------------------------------
(* The reader implements the store.                                        *)

\* The files of a directory as the byte strings they hold.
Assets(files) == [k \in DOMAIN files |-> [i \in 1 .. files[k] |-> AssetByte(k, i - 1)]]
Contents == IF Known THEN Assets(flash.files) ELSE Unknown

LEMMA SequenceOf ==
    ASSUME NEW T, NEW n \in Nat, NEW s \in [1 .. n -> T]
    PROVE  s \in Seq(T) /\ Len(s) = n
OBVIOUS

\* A directory is a list of byte strings.
LEMMA AssetsType ==
    ASSUME NEW files \in Seq(Nat)
    PROVE  /\ Assets(files) \in Seq(Seq(Byte))
           /\ DOMAIN Assets(files) = 1 .. Len(files)
           /\ \A k \in 1 .. Len(files) :
                /\ Assets(files)[k] = [i \in 1 .. files[k] |-> AssetByte(k, i - 1)]
                /\ Assets(files)[k] \in Seq(Byte) /\ Len(Assets(files)[k]) = files[k]
<1>1. DOMAIN files = 1 .. Len(files) /\ Len(files) \in Nat
  OBVIOUS
<1>2. ASSUME NEW k \in 1 .. Len(files)
      PROVE  LET asset == [i \in 1 .. files[k] |-> AssetByte(k, i - 1)]
             IN  asset \in Seq(Byte) /\ Len(asset) = files[k]
  <2> DEFINE asset == [i \in 1 .. files[k] |-> AssetByte(k, i - 1)]
  <2>1. files[k] \in Nat /\ k \in Nat
    OBVIOUS
  <2>2. \A i \in 1 .. files[k] : AssetByte(k, i - 1) \in Byte
    BY <2>1 DEF AssetByte, Byte
  <2>3. asset \in [1 .. files[k] -> Byte]
    BY <2>2
  <2> HIDE DEF asset
  <2>4. asset \in Seq(Byte) /\ Len(asset) = files[k]
    BY <2>1, <2>3, SequenceOf
  <2>5. QED
    BY <2>4 DEF asset
<1>3. \A k \in 1 .. Len(files) :
        Assets(files)[k] = [i \in 1 .. files[k] |-> AssetByte(k, i - 1)]
  BY <1>1 DEF Assets
<1>4. Assets(files) \in [1 .. Len(files) -> Seq(Byte)]
  BY <1>1, <1>2 DEF Assets
<1>5. QED
  BY <1>1, <1>2, <1>3, <1>4

\* What a chunk of an asset is.
LEMMA ChunkBytes ==
    ASSUME NEW asset \in Seq(Byte), NEW offset \in Nat, NEW len \in Nat
    PROVE  LET size == Len(asset)
               m == MinOf(size - offset, len)
               chunk == Store!Chunk(asset, offset, len)
           IN  /\ offset >= size => chunk = <<>>
               /\ offset < size => /\ m \in Nat /\ chunk \in Seq(Byte) /\ Len(chunk) = m
                                   /\ \A i \in 1 .. m : chunk[i] = asset[offset + i]
<1> DEFINE size == Len(asset)
           m == MinOf(size - offset, len)
           stop == IF offset + len < size THEN offset + len ELSE size
           chunk == SubSeq(asset, offset + 1, stop)
<1>1. Store!Chunk(asset, offset, len) = chunk
  BY DEF Store!Chunk, Store!ChunkEnd
<1>2. size \in Nat /\ \A i \in 1 .. size : asset[i] \in Byte
  OBVIOUS
<1>3. ASSUME offset >= size PROVE chunk = <<>>
  <2>1. stop \in Int /\ offset + 1 \in Int /\ stop < offset + 1
    <3> HIDE DEF size
    <3>1. QED
      BY <1>2, <1>3
  <2> HIDE DEF stop
  <2>2. QED
    BY <2>1, SubSeqEmpty
<1>4. ASSUME offset < size
      PROVE  /\ m \in Nat /\ chunk \in Seq(Byte) /\ Len(chunk) = m
             /\ \A i \in 1 .. m : chunk[i] = asset[offset + i]
  <2>1. /\ m \in Nat /\ stop = offset + m /\ stop \in Nat /\ stop <= size
        /\ \A i \in offset + 1 .. stop : i \in 1 .. size
    <3> HIDE DEF size
    <3>1. m \in Nat /\ stop = offset + m /\ stop \in Nat /\ stop <= size
      BY <1>2, <1>4 DEF MinOf
    <3> HIDE DEF stop, m
    <3>2. QED
      BY <1>2, <3>1
  <2> HIDE DEF size, stop, m
  <2>2. \A i \in offset + 1 .. stop : asset[i] \in Byte
    BY <1>2, <2>1
  <2>3. /\ chunk \in Seq(Byte)
        /\ Len(chunk) = IF offset + 1 <= stop THEN stop - (offset + 1) + 1 ELSE 0
        /\ \A i \in 1 .. stop - (offset + 1) + 1 : chunk[i] = asset[offset + 1 + i - 1]
    <3>1. offset + 1 \in Int /\ stop \in Int
      BY <2>1
    <3>2. QED
      BY <2>2, <3>1, SubSeqProperties
  <2> HIDE DEF chunk
  <2>4. stop - (offset + 1) + 1 = m /\ (offset + 1 <= stop \/ m = 0)
    BY <2>1
  <2>5. \A i \in 1 .. m : offset + 1 + i - 1 = offset + i
    OBVIOUS
  <2>6. QED
    BY <2>1, <2>3, <2>4, <2>5
<1>5. QED
  BY <1>1, <1>3, <1>4

\* What the store promises, case by case.
LEMMA Promises ==
    ASSUME PackInv, Known, NEW r \in Requests
    PROVE  LET k == r.asset_id
               size == flash.files[k]
               here == k \in 1 .. Len(flash.files)
               m == MinOf(size - r.offset, r.len)
           IN  /\ ~here => Store!Promised(r) = Return("AssetNotFound", 0, <<>>)
               /\ here /\ r.op = "asset_len" => Store!Promised(r) = Return("Ok", size, <<>>)
               /\ here /\ r.op = "stream_chunk" /\ r.offset >= size =>
                    Store!Promised(r) = Return("Ok", 0, <<>>)
               /\ here /\ r.op = "stream_chunk" /\ r.offset < size =>
                    Store!Promised(r) =
                        Return("Ok", m, [i \in 1 .. m |-> AssetByte(k, r.offset + i - 1)])
               /\ here /\ r.op = "read_asset" /\ r.len < size =>
                    Store!Promised(r) = Return("BufferTooSmall", size, <<>>)
               /\ here /\ r.op = "read_asset" /\ r.len >= size =>
                    Store!Promised(r) =
                        Return("Ok", size, [i \in 1 .. size |-> AssetByte(k, i - 1)])
<1> DEFINE files == flash.files
           k == r.asset_id
           size == files[k]
           here == k \in 1 .. Len(files)
           asset == Assets(files)[k]
           part == Store!Chunk(asset, r.offset, r.len)
           m == MinOf(size - r.offset, r.len)
<1>1. /\ files \in Seq(Nat) /\ \A j \in 1 .. Len(files) : files[j] \in Nat
      /\ DOMAIN Assets(files) = 1 .. Len(files) /\ r.offset \in Nat /\ r.len \in Nat
  BY KnownReader, AssetsType, RequestType
<1>2. here => /\ asset = [i \in 1 .. size |-> AssetByte(k, i - 1)]
              /\ asset \in Seq(Byte) /\ Len(asset) = size /\ size \in Nat
  BY <1>1, AssetsType
<1>3. k \notin DOMAIN Assets(files) => Store!Promised(r) = Return("AssetNotFound", 0, <<>>)
  BY DEF Store!Promised, Store!Refusal, Store!Answer, Return, Assets
<1>4. k \in DOMAIN Assets(files) /\ r.op = "asset_len" =>
        Store!Promised(r) = Return("Ok", Len(asset), <<>>)
  BY DEF Store!Promised, Store!Refusal, Store!Answer, Return, Assets
<1>5. k \in DOMAIN Assets(files) /\ r.op = "stream_chunk" =>
        Store!Promised(r) = Return("Ok", Len(part), part)
  BY DEF Store!Promised, Store!Refusal, Store!Answer, Return, Assets
<1>6. k \in DOMAIN Assets(files) /\ r.op = "read_asset" =>
        Store!Promised(r) = IF r.len < Len(asset) THEN Return("BufferTooSmall", Len(asset), <<>>)
                            ELSE Return("Ok", Len(asset), asset)
  BY DEF Store!Promised, Store!Refusal, Store!Answer, Return, Assets
<1>7. here /\ r.offset >= size => part = <<>> /\ Len(part) = 0
  BY <1>1, <1>2, ChunkBytes, EmptyLength
<1>8. ASSUME here, r.offset < size
      PROVE  part = [i \in 1 .. m |-> AssetByte(k, r.offset + i - 1)] /\ Len(part) = m
  <2>1. /\ asset = [i \in 1 .. size |-> AssetByte(k, i - 1)]
        /\ asset \in Seq(Byte) /\ Len(asset) = size /\ size \in Nat
        /\ r.offset \in Nat /\ r.len \in Nat
    BY <1>1, <1>2, <1>8
  <2>2. r.offset < size
    BY <1>8
  <2> HIDE DEF asset, size, here
  <2>3. /\ m \in Nat /\ part \in Seq(Byte) /\ Len(part) = m
        /\ \A i \in 1 .. m : part[i] = asset[r.offset + i]
    <3> DEFINE l == MinOf(Len(asset) - r.offset, r.len)
    <3>1. r.offset < Len(asset) => /\ l \in Nat /\ part \in Seq(Byte) /\ Len(part) = l
                                   /\ \A i \in 1 .. l : part[i] = asset[r.offset + i]
      BY <2>1, ChunkBytes
    <3>2. l = m
      BY <2>1
    <3> HIDE DEF l, m, part
    <3>3. QED
      BY <2>1, <2>2, <3>1, <3>2
  <2>4. \A i \in 1 .. m : r.offset + i \in 1 .. size /\ r.offset + i - 1 \in Nat
    <3>1. m <= size - r.offset
      BY <2>1, <2>2 DEF MinOf
    <3>2. \A o, s, l, i \in Nat : l <= s - o /\ 1 <= i /\ i <= l =>
            o + i \in 1 .. s /\ o + i - 1 \in Nat
      OBVIOUS
    <3> HIDE DEF m
    <3>3. QED
      BY <2>1, <2>3, <3>1, <3>2
  <2> HIDE DEF part, m
  <2>5. \A i \in 1 .. m : asset[r.offset + i] = AssetByte(k, r.offset + i - 1)
    BY <2>1, <2>4
  <2>6. \A i \in 1 .. m : part[i] = AssetByte(k, r.offset + i - 1)
    BY <2>3, <2>5
  <2>7. QED
    BY <2>3, <2>6
<1> HIDE DEF part, asset, m
<1>9. here <=> k \in DOMAIN Assets(files)
  BY <1>1
<1>10. r.offset \in Nat /\ r.len \in Nat /\ (here => size \in Nat)
  BY <1>1, <1>2
<1> HIDE DEF files, here, k, size
<1>11. ~here => Store!Promised(r) = Return("AssetNotFound", 0, <<>>)
  BY <1>3, <1>9
<1>12. here /\ r.op = "asset_len" => Store!Promised(r) = Return("Ok", size, <<>>)
  BY <1>2, <1>4, <1>9
<1>13. here /\ r.op = "stream_chunk" /\ r.offset >= size =>
         Store!Promised(r) = Return("Ok", 0, <<>>)
  BY <1>5, <1>7, <1>9
<1>14. here /\ r.op = "stream_chunk" /\ r.offset < size =>
         Store!Promised(r) = Return("Ok", m, [i \in 1 .. m |-> AssetByte(k, r.offset + i - 1)])
  BY <1>5, <1>8, <1>9
<1>15. here /\ r.op = "read_asset" /\ r.len < size =>
         Store!Promised(r) = Return("BufferTooSmall", size, <<>>)
  BY <1>2, <1>6, <1>9
<1>16. here /\ r.op = "read_asset" /\ r.len >= size =>
         Store!Promised(r) = Return("Ok", size, [i \in 1 .. size |-> AssetByte(k, i - 1)])
  <2>1. here /\ r.len >= size => ~(r.len < size)
    BY <1>10
  <2>2. QED
    BY <1>2, <1>6, <1>9, <2>1
<1>17. QED
  BY <1>11, <1>12, <1>13, <1>14, <1>15, <1>16 DEF m, here, k, size, files

\* A step that leaves the chip, the reader and the history leaves what is stored.
LEMMA SameContents ==
    ASSUME flash' = flash, reader' = reader, steady' = steady
    PROVE  (Known' <=> Known) /\ Contents' = Contents
<1>1. Known' <=> Known
  BY DEF Known
<1>2. QED
  BY <1>1 DEF Contents

\* The store's side of a request that ends, ...
LEMMA Replies ==
    ASSUME NEW r \in Requests, request \in {None, r}, NEW result, Finish(result),
           result \in Store!Answers,
           Known => result \in {Store!Promised(r), Return("Storage", 0, <<>>)}
    PROVE  Store!Reply(r)
<1>1. /\ request' = None /\ ret' = result
      /\ flash' = flash /\ reader' = reader /\ steady' = steady
  BY DEF Finish
<1>2. (Known' <=> Known) /\ Contents' = Contents
  BY <1>1, SameContents
<1>3. CASE Contents = Unknown
  BY <1>1, <1>2, <1>3 DEF Store!Reply, Contents, Assets
<1>4. CASE Contents # Unknown
  <2>1. Known
    BY <1>4 DEF Contents
  <2>2. ret' \in {Store!Promised(r), Store!Refusal("Storage", 0)}
    BY <1>1, <2>1 DEF Store!Refusal, Store!Answer, Return
  <2>3. QED
    BY <1>1, <1>2, <1>4, <2>2 DEF Store!Reply, Contents, Assets
<1>5. QED
  BY <1>3, <1>4

\* ... of one that is asked or goes on, ...
LEMMA Asking ==
    ASSUME NEW r \in Requests, request \in {None, r}, request = r => ret = NoAnswer,
           NEW c, Await(c, r)
    PROVE  Store!Ask(r) \/ UNCHANGED Store!storeVars
<1>1. /\ request' = r /\ ret' = NoAnswer
      /\ flash' = flash /\ reader' = reader /\ steady' = steady
  BY DEF Await
<1>2. (Known' <=> Known) /\ Contents' = Contents
  BY <1>1, SameContents
<1>3. CASE request = r
  BY <1>1, <1>2, <1>3 DEF Store!storeVars, Contents, Assets
<1>4. CASE request = None
  BY <1>1, <1>2, <1>4
     DEF Store!Ask, Store!Refusal, Store!Answer, NoAnswer, Return, Contents, Assets
<1>5. QED
  BY <1>3, <1>4

\* ... and of a step of the reader that is nothing to it.
LEMMA Stutters ==
    ASSUME flash' = flash, reader' = reader, steady' = steady, request' = request, ret' = ret
    PROVE  UNCHANGED Store!storeVars
<1>1. (Known' <=> Known) /\ Contents' = Contents
  BY SameContents
<1>2. QED
  BY <1>1 DEF Store!storeVars, Contents, Assets

\* What a step may be to the store.
StoreStep == Store!StoreNext \/ UNCHANGED Store!storeVars

\* The loop's head: the request goes on, or no entry was the asset's.
LEMMA FindEntryReplies ==
    ASSUME PackInv, NEW r \in Requests, request \in {None, r},
           NEW op, NEW offset, NEW dest, NEW i \in Nat, FindEntry(r, op, offset, dest, i),
           Known => r.asset_id \notin 1 .. i
    PROVE  StoreStep
<1>1. CASE i < reader.superblock.asset_count
  <2>1. request = r => ret = NoAnswer
    BY RequestType DEF PackInv
  <2>2. QED
    BY <1>1, <2>1, Asking DEF FindEntry, ReadEntry, StoreStep, Store!StoreNext
<1>2. CASE ~(i < reader.superblock.asset_count)
  <2> DEFINE result == Return("AssetNotFound", 0, <<>>)
  <2>1. Finish(result)
    BY <1>2 DEF FindEntry, Refuse
  <2>2. result \in Store!Answers
    BY DEF Return, Store!Answers, Store!Statuses
  <2>3. ASSUME Known PROVE result = Store!Promised(r)
    <3>1. r.asset_id \notin 1 .. Len(flash.files)
      BY <1>2, <2>3, KnownReader
    <3>2. QED
      BY <2>3, <3>1, Promises
  <2> HIDE DEF result
  <2>4. QED
    BY <2>1, <2>2, <2>3, Replies DEF StoreStep, Store!StoreNext
<1>3. QED
  BY <1>1, <1>2

\* The medium's error may end any request.
LEMMA StorageReplies ==
    ASSUME PackInv, request # None, Refuse("Storage")
    PROVE  StoreStep
<1>1. request \in Requests
  BY DEF PackInv, ReaderInv, TypeOK
<1>2. Return("Storage", 0, <<>>) \in Store!Answers
  BY DEF Return, Store!Answers, Store!Statuses
<1>3. Store!Reply(request)
  BY <1>1, <1>2, Replies DEF Refuse
<1>4. QED
  BY <1>1, <1>3 DEF StoreStep, Store!StoreNext

\* A byte that is read is a byte.
LEMMA ByteType ==
    ASSUME PackInv, NEW a
    PROVE  ByteAt(a) \in Byte
BY ReaderAssumption DEF PackInv, ReaderInv, Decoded, ByteAt, Cell, Other, Superblocks, Entries, Byte

\* An entry was read: the lookup goes on, or the request ends as promised.
LEMMA EntryReadReplies == ASSUME PackInv, EntryRead PROVE StoreStep
<1> DEFINE k == request.asset_id
<1>1. PICK entry \in EntriesAt(call.addr) :
        IF entry.asset_id # k THEN NextTurn
        ELSE \/ call.op = "asset_len" /\ AssetLen(entry)
             \/ call.op = "stream_chunk" /\ StreamChunk(entry)
             \/ call.op = "read_asset" /\ ReadAsset(entry)
  BY DEF EntryRead
<1>2. /\ call.pc = "entry" /\ request \in Requests /\ call.i \in Nat /\ call \in Calls
      /\ call.dest \in Nat /\ call.offset \in Nat /\ call.dest <= request.len
      /\ ret = NoAnswer
  BY RequestType DEF EntryRead, PackInv, ReaderInv, TypeOK, WithinBuffer, Calls
<1>3. entry.length \in Nat
  BY FoundEntry DEF PackInv, ReaderInv
<1>4. ASSUME Known, entry.asset_id = k
      PROVE  /\ k \in 1 .. Len(flash.files) /\ entry.length = flash.files[k] /\ Asks
             /\ request.offset \in Nat /\ request.len \in Nat
  BY <1>2, <1>4, KnownEntry, RequestType
<1>5. CASE entry.asset_id # k
  <2>1. FindEntry(request, call.op, call.offset, call.dest, call.i + 1)
    BY <1>1, <1>5 DEF NextTurn
  <2>2. ASSUME Known PROVE k \notin 1 .. call.i + 1
    <3>1. k \notin 1 .. call.i /\ k # call.i + 1
      BY <1>2, <1>5, <2>2, KnownEntry
    <3>2. \A j \in 1 .. call.i + 1 : j \in 1 .. call.i \/ j = call.i + 1
      BY <1>2
    <3>3. QED
      BY <3>1, <3>2
  <2>3. QED
    BY <1>2, <2>1, <2>2, FindEntryReplies
<1>6. CASE entry.asset_id = k /\ call.op = "asset_len" /\ AssetLen(entry)
  <2> DEFINE result == Return("Ok", entry.length, <<>>)
  <2>1. Finish(result)
    BY <1>6 DEF AssetLen
  <2>2. result \in Store!Answers
    BY <1>3 DEF Return, Store!Answers, Store!Statuses
  <2>3. ASSUME Known PROVE result = Store!Promised(request)
    <3>1. request.op = "asset_len"
      BY <1>4, <1>6, <2>3 DEF Asks
    <3>2. QED
      BY <1>2, <1>4, <1>6, <2>3, <3>1, Promises
  <2> HIDE DEF result
  <2>4. QED
    BY <1>2, <2>1, <2>2, <2>3, Replies DEF StoreStep, Store!StoreNext
<1>7. CASE entry.asset_id = k /\ call.op = "stream_chunk" /\ StreamChunk(entry)
  <2>1. CASE call.offset >= entry.length
    <3> DEFINE result == Return("Ok", 0, <<>>)
    <3>1. Finish(result)
      BY <1>7, <2>1 DEF StreamChunk
    <3>2. result \in Store!Answers
      BY DEF Return, Store!Answers, Store!Statuses
    <3>3. ASSUME Known PROVE result = Store!Promised(request)
      <4>1. /\ k \in 1 .. Len(flash.files) /\ entry.length = flash.files[k] /\ Asks
            /\ request.offset \in Nat /\ request.len \in Nat
        BY <1>4, <1>7, <3>3
      <4>2. CASE request.op = "stream_chunk"
        <5>1. request.offset >= flash.files[k]
          BY <2>1, <4>1, <4>2 DEF Asks
        <5>2. QED
          BY <1>2, <3>3, <4>1, <4>2, <5>1, Promises
      <4>3. CASE request.op # "stream_chunk"
        <5>1. /\ request.op = "read_asset" /\ call.offset = 0 /\ call.dest = flash.files[k]
          BY <1>7, <4>1, <4>3 DEF Asks
        <5>2. flash.files[k] = 0 /\ request.len >= flash.files[k]
          BY <1>2, <1>3, <2>1, <4>1, <5>1
        <5>3. [i \in 1 .. 0 |-> AssetByte(k, i - 1)] = <<>>
          OBVIOUS
        <5>4. Store!Promised(request) = Return("Ok", 0, [i \in 1 .. 0 |-> AssetByte(k, i - 1)])
          BY <1>2, <3>3, <4>1, <5>1, <5>2, Promises
        <5>5. QED
          BY <5>3, <5>4
      <4>4. QED
        BY <4>2, <4>3
    <3> HIDE DEF result
    <3>4. QED
      BY <1>2, <3>1, <3>2, <3>3, Replies DEF StoreStep, Store!StoreNext
  <2>2. CASE ~(call.offset >= entry.length)
    <3>1. \E c : Await(c, request)
      BY <1>7, <2>2 DEF StreamChunk
    <3>2. QED
      BY <1>2, <3>1, Asking DEF StoreStep, Store!StoreNext
  <2>3. QED
    BY <2>1, <2>2
<1>8. CASE entry.asset_id = k /\ call.op = "read_asset" /\ ReadAsset(entry)
  <2>1. CASE call.dest < entry.length
    <3> DEFINE result == Return("BufferTooSmall", entry.length, <<>>)
    <3>1. Finish(result)
      BY <1>8, <2>1 DEF ReadAsset
    <3>2. result \in Store!Answers
      BY <1>3 DEF Return, Store!Answers, Store!Statuses
    <3>3. ASSUME Known PROVE result = Store!Promised(request)
      <4>1. /\ k \in 1 .. Len(flash.files) /\ entry.length = flash.files[k] /\ Asks
        BY <1>4, <1>8, <3>3
      <4>2. request.op = "read_asset" /\ request.len < flash.files[k]
        BY <1>8, <2>1, <4>1 DEF Asks
      <4>3. QED
        BY <1>2, <3>3, <4>1, <4>2, Promises
    <3> HIDE DEF result
    <3>4. QED
      BY <1>2, <3>1, <3>2, <3>3, Replies DEF StoreStep, Store!StoreNext
  <2>2. CASE ~(call.dest < entry.length)
    <3>1. FindEntry(request, "stream_chunk", 0, entry.length, 0)
      BY <1>8, <2>2 DEF ReadAsset
    <3>2. k \notin 1 .. 0
      OBVIOUS
    <3>3. QED
      BY <1>2, <3>1, <3>2, FindEntryReplies
  <2>3. QED
    BY <2>1, <2>2
<1>9. QED
  BY <1>1, <1>5, <1>6, <1>7, <1>8

\* The transfer: the bytes that were promised, whichever method asked.
LEMMA ChunkReadReplies == ASSUME PackInv, ChunkRead PROVE StoreStep
<1> DEFINE k == request.asset_id
           m == call.to_read
           o == call.offset
           files == flash.files
           bytes == [i \in 1 .. m |-> ByteAt(call.addr + i - 1)]
           result == Return("Ok", m, bytes)
<1>1. /\ call.pc = "chunk" /\ request \in Requests /\ call \in Calls /\ m \in Nat /\ o \in Nat
      /\ call.dest \in Nat /\ call.dest <= request.len /\ request # None
  BY RequestType DEF ChunkRead, PackInv, ReaderInv, TypeOK, WithinBuffer, Calls
<1>2. Finish(result)
  BY DEF ChunkRead
<1>3. result \in Store!Answers
  <2>1. \A i \in 1 .. m : ByteAt(call.addr + i - 1) \in Byte
    BY ByteType
  <2>2. bytes \in [1 .. m -> Byte]
    BY <2>1
  <2> HIDE DEF bytes
  <2>3. bytes \in Seq(Byte)
    BY <1>1, <2>2, SequenceOf
  <2>4. QED
    BY <1>1, <2>3 DEF Return, Store!Answers, Store!Statuses
<1>4. ASSUME Known PROVE result = Store!Promised(request)
  <2>1. /\ Asks /\ Looks
        /\ files \in Seq(Nat) /\ DOMAIN files = 1 .. Len(files)
        /\ \A j \in 1 .. Len(files) : files[j] \in Nat
        /\ request.offset \in Nat /\ request.len \in Nat
    BY <1>1, <1>4, KnownReader, RequestType DEF PackInv
  <2>2. /\ k \in 1 .. Len(files) /\ o < files[k] /\ files[k] \in Nat
        /\ call.addr = flash.base + ByteAddress(files, k, o)
        /\ m = MinOf(files[k] - o, call.dest) /\ call.op = "stream_chunk"
    BY <1>1, <2>1 DEF Looks
  <2>3. bytes = [i \in 1 .. m |-> AssetByte(k, o + i - 1)]
    <3>1. ASSUME NEW i \in 1 .. m PROVE ByteAt(call.addr + i - 1) = AssetByte(k, o + i - 1)
      <4>1. o + i - 1 \in 0 .. files[k] - 1
        <5> DEFINE size == files[k]
        <5>1. size \in Nat /\ o \in Nat /\ o < size /\ i \in Nat /\ 1 <= i /\ i <= m /\ m \in Nat
          BY <1>1, <2>2
        <5>2. m <= size - o
          BY <1>1, <2>2 DEF MinOf
        <5> HIDE DEF size, m, o
        <5>3. o + i - 1 \in 0 .. size - 1
          BY <5>1, <5>2
        <5>4. QED
          BY <5>3 DEF size
      <4>2. ByteAt(flash.base + ByteAddress(files, k, o + i - 1)) = AssetByte(k, o + i - 1)
        BY <1>4, <2>2, <4>1, KnownCells
      <4>3. call.addr + i - 1 = flash.base + ByteAddress(files, k, o + i - 1)
        <5> DEFINE d == DataOffset(files)
                   at == FlashOffset(files)[k]
        <5>1. d \in Nat /\ at \in Nat /\ flash.base \in Nat
          <6>1. k \in 1 .. Len(files) + 1
            BY <2>1, <2>2
          <6>2. QED
            BY <1>4, <2>1, <6>1, KnownReader, OffsetsOrder, DataPlace DEF DataOffset
        <5>2. /\ call.addr = flash.base + (d + at + o)
              /\ ByteAddress(files, k, o + i - 1) = d + at + (o + i - 1)
          BY <2>2 DEF ByteAddress
        <5> HIDE DEF d, at
        <5>3. QED
          BY <1>1, <5>1, <5>2
      <4>4. QED
        BY <4>2, <4>3
    <3>2. QED
      BY <3>1
  <2> HIDE DEF bytes
  <2>4. result = Return("Ok", m, [i \in 1 .. m |-> AssetByte(k, o + i - 1)])
    BY <2>3
  <2>5. CASE request.op = "stream_chunk"
    <3>1. o = request.offset /\ call.dest = request.len
      BY <2>1, <2>5 DEF Asks
    <3>2. QED
      BY <1>1, <1>4, <2>2, <2>4, <2>5, <3>1, Promises
  <2>6. CASE request.op # "stream_chunk"
    <3>1. request.op = "read_asset" /\ o = 0 /\ call.dest = files[k]
      BY <2>1, <2>2, <2>6 DEF Asks
    <3>2. m = files[k] /\ request.len >= files[k]
      BY <1>1, <2>1, <2>2, <3>1 DEF MinOf
    <3>3. Store!Promised(request) = Return("Ok", m, [i \in 1 .. m |-> AssetByte(k, i - 1)])
      BY <1>1, <1>4, <2>2, <3>1, <3>2, Promises
    <3>4. [i \in 1 .. m |-> AssetByte(k, o + i - 1)] = [i \in 1 .. m |-> AssetByte(k, i - 1)]
      BY <3>1
    <3>5. QED
      BY <2>4, <3>3, <3>4
  <2>7. QED
    BY <2>5, <2>6
<1> HIDE DEF result
<1>5. QED
  BY <1>1, <1>2, <1>3, <1>4, Replies DEF StoreStep, Store!StoreNext

\* A mount that ends may have found a whole image: the store has learnt it.
LEMMA MountedLearns ==
    ASSUME PackInv, call.pc = "mount", NEW result, Mounted(result)
    PROVE  StoreStep
<1>1. /\ reader' = result /\ flash' = flash /\ request' = request /\ ret' = ret
      /\ request = None
  BY DEF Mounted, PackInv, ReaderInv, TypeOK
<1>2. Contents' \in Store!Stores
  <2>1. CASE Known'
    <3>1. flash.complete /\ flash \in Images \cup Updates
      BY <1>1, <2>1 DEF Known, PackInv, ReaderInv, Decoded
    <3>2. flash.files \in Seq(Nat)
      BY <3>1, PlacedCells
    <3>3. Contents' = Assets(flash.files)
      BY <1>1, <2>1 DEF Contents
    <3>4. QED
      BY <3>2, <3>3, AssetsType DEF Store!Stores
  <2>2. CASE ~Known'
    BY <2>2 DEF Contents, Store!Stores
  <2>3. QED
    BY <2>1, <2>2
<1>3. Store!Learn
  BY <1>1, <1>2 DEF Store!Learn, Contents, Assets
<1>4. QED
  BY <1>3 DEF StoreStep, Store!StoreNext

LEMMA NextStoreStep == PackInv /\ [Next]_vars => StoreStep
<1> SUFFICES ASSUME PackInv, [Next]_vars PROVE StoreStep
  OBVIOUS
<1>1. ASSUME NEW base \in Bases, Mount(base) PROVE StoreStep
  BY <1>1, Stutters DEF Mount, StoreStep
<1>2. ASSUME NEW r \in Requests, Request(r) PROVE StoreStep
  <2>1. FindEntry(r, r.op, r.offset, r.len, 0) /\ request = None
    BY <1>2 DEF Request, PackInv, ReaderInv, TypeOK
  <2>2. r.asset_id \notin 1 .. 0
    OBVIOUS
  <2>3. QED
    BY <2>1, <2>2, FindEntryReplies
<1>3. CASE SuperblockRead
  BY <1>3, MountedLearns DEF SuperblockRead
<1>4. CASE ReadRefused \/ ReadFails
  <2>1. StorageError /\ call.pc # "idle"
    BY <1>4 DEF ReadRefused, ReadFails
  <2>2. CASE call.pc = "mount"
    BY <2>1, <2>2, MountedLearns DEF StorageError
  <2>3. CASE call.pc # "mount"
    <3>1. request # None
      BY <2>1, <2>3 DEF PackInv, ReaderInv, TypeOK
    <3>2. QED
      BY <2>1, <2>3, <3>1, StorageReplies DEF StorageError
  <2>4. QED
    BY <2>2, <2>3
<1>5. CASE DropFuture
  <2>1. flash' = flash /\ ret' = ret /\ steady' = steady /\ request' = None
    BY <1>5 DEF DropFuture
  <2>2. CASE call.pc = "mount"
    <3>1. reader'.status # "Ok" /\ request = None
      BY <1>5, <2>2 DEF DropFuture, Unmounted, PackInv, ReaderInv, TypeOK
    <3>2. ~Known'
      BY <3>1 DEF Known
    <3>3. Store!Forget
      BY <2>1, <3>1, <3>2 DEF Store!Forget
    <3>4. QED
      BY <3>3 DEF StoreStep, Store!StoreNext
  <2>3. CASE call.pc # "mount"
    <3>1. reader' = reader
      BY <1>5, <2>3 DEF DropFuture
    <3>2. (Known' <=> Known) /\ Contents' = Contents
      BY <2>1, <3>1, SameContents
    <3>3. Store!Cancel
      BY <2>1, <3>2 DEF Store!Cancel, Contents, Assets
    <3>4. QED
      BY <3>3 DEF StoreStep, Store!StoreNext
  <2>4. QED
    BY <2>2, <2>3
<1>6. CASE Rewrite
  <2>1. ~Known' /\ request' = request /\ ret' = ret
    BY <1>6 DEF Rewrite, Known
  <2>2. Store!Forget
    BY <2>1 DEF Store!Forget
  <2>3. QED
    BY <2>2 DEF StoreStep, Store!StoreNext
<1>7. CASE UNCHANGED vars
  BY <1>7, Stutters DEF vars, StoreStep
<1>8. QED
  BY <1>1, <1>2, <1>3, <1>4, <1>5, <1>6, <1>7, EntryReadReplies, ChunkReadReplies DEF Next

LEMMA InitStore == Init => Store!StoreInit
<1> SUFFICES ASSUME Init PROVE Store!StoreInit
  OBVIOUS
<1>1. ~Known /\ request = None /\ ret = NoAnswer
  BY DEF Init, Known
<1>2. QED
  BY <1>1 DEF Store!StoreInit, Store!Refusal, Store!Answer, NoAnswer, Return

\* Every request is answered as the packed directory promises, or by an error of
\* the medium, however the partition is rewritten around it.
THEOREM ReaderIsStore == Spec => ReaderImplementsStore
<1>1. PackInv /\ [Next]_vars => [Store!StoreNext]_(Store!storeVars)
  BY NextStoreStep DEF StoreStep
<1>2. QED
  BY <1>1, InitStore, PackInvHolds, PTL DEF Spec, ReaderImplementsStore, Store!StoreSpec

=============================================================================
