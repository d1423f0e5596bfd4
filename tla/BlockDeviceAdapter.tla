-------------------------- MODULE BlockDeviceAdapter --------------------------
(***************************************************************************)
(* src/src/block.rs: byte-addressed reads and writes over a device that    *)
(* moves whole blocks, with one cached block as bounce buffer.             *)
(*                                                                         *)
(* read and write loop over their range.  Each turn awaits the device and  *)
(* then finishes what it can without an await; one turn, or the half of a  *)
(* read-modify-write up to its second await, is one action here.  A device *)
(* error and a future dropped at the await leave the adapter alike, and    *)
(* are one action.                                                         *)
(***************************************************************************)
EXTENDS Naturals

CONSTANTS
    BLOCK_SIZE,
    NUM_BLOCKS,      \* AsyncBlockDevice::num_blocks
    AddressSpace,    \* 2^32 in the code: offsets are u32
    MaxLen,          \* bound: length of a request
    Values,          \* byte values
    Garbled,         \* a byte of a transfer that broke off
    Faults,          \* which device operations may break off
    None

ASSUME GeometryAssumption ==
    /\ BLOCK_SIZE \in Nat \ {0} /\ NUM_BLOCKS \in Nat
    /\ AddressSpace \in Nat \ {0} /\ MaxLen \in Nat
    /\ Garbled \notin Values /\ Faults \subseteq {"read", "write"}
    /\ None \notin Values \cup {Garbled} \cup Nat

DeviceSize == NUM_BLOCKS * BLOCK_SIZE
Addresses == 0 .. DeviceSize - 1
Blocks == 0 .. NUM_BLOCKS - 1
InBlock == 0 .. BLOCK_SIZE - 1

VARIABLES
    device,         \* the card: address -> byte
    cached_block,
    cache,          \* the bounce buffer: position in block -> byte
    dest,           \* what the current or last read has delivered: address -> byte
    op,             \* the request in progress, or the last one
    status,         \* its outcome: running, Ok, Device, OutOfBounds
    doubtful        \* history: addresses that a transfer that broke off has put in
                    \* doubt and no write has settled since

vars == <<device, cached_block, cache, dest, op, status, doubtful>>

\* kind, the range [from, end), the next offset, the byte a write stores
\* (requests write one byte value throughout), and whether a read-modify-write
\* has modified the buffer and not yet written it back.
NoRequest == [kind |-> "none", from |-> 0, end |-> 0, offset |-> 0, value |-> None, dirty |-> FALSE]

TypeOK ==
    /\ device \in [Addresses -> Values \cup {Garbled}]
    /\ cached_block \in Blocks \cup {None}
    /\ cache \in [InBlock -> Values \cup {Garbled}]
    /\ dest \in [Addresses -> Values \cup {Garbled, None}]
    /\ op \in [kind : {"none", "read", "write"}, from : Nat, end : Nat, offset : Nat,
               value : Values \cup {None}, dirty : BOOLEAN]
    /\ status \in {"running", "Ok", "Device", "OutOfBounds"}
    /\ doubtful \subseteq Addresses
    /\ status = "running" =>
          op.from <= op.offset /\ op.offset < op.end /\ op.end <= DeviceSize

\* erase checks its range and changes nothing, so it is no action.

\* BlockDeviceAdapter::new over a card holding one byte value throughout.
Init ==
    /\ \E v \in Values : device = [a \in Addresses |-> v] /\ cache = [p \in InBlock |-> v]
    /\ cached_block = None
    /\ dest = [a \in Addresses |-> None]
    /\ op = NoRequest
    /\ status = "Ok"
    /\ doubtful = {}

-----------------------------------------------------------------------------
\* let total_capacity = (num_blocks * BLOCK_SIZE) as u32
TotalCapacity == DeviceSize % AddressSpace

\* checked_add of a u32, then the comparison with the capacity.
InBoundsInclusive(from, len) == from + len < AddressSpace /\ from + len <= TotalCapacity + 1
InBoundsStrict(from, len) == from + len < AddressSpace /\ from + len < TotalCapacity
InBounds(from, len) == from + len < AddressSpace /\ from + len <= TotalCapacity

Range(from, end) == {a \in Addresses : from <= a /\ a < end}
BlockOf(offset) == offset \div BLOCK_SIZE
BlockRange(b) == {a \in Addresses : BlockOf(a) = b}
Contents(b) == [p \in InBlock |-> device[b * BLOCK_SIZE + p]]

Left == op.end - op.offset

\* A turn moves whole blocks when the offset is aligned and a block is left,
\* otherwise what is left of the current block.
Whole == op.offset % BLOCK_SIZE = 0 /\ Left >= BLOCK_SIZE
WholeBlocks == Left \div BLOCK_SIZE
ChunkEnd ==
    LET block_end == (BlockOf(op.offset) + 1) * BLOCK_SIZE
    IN  IF op.end < block_end THEN op.end ELSE block_end
TurnEnd == IF Whole THEN op.offset + WholeBlocks * BLOCK_SIZE ELSE ChunkEnd
TurnRange == Range(op.offset, TurnEnd)

Advance ==
    /\ op' = [op EXCEPT !.offset = TurnEnd, !.dirty = FALSE]
    /\ status' = IF TurnEnd = op.end THEN "Ok" ELSE "running"

Running(kind) == status = "running" /\ op.kind = kind
Idle == status # "running"

\* The bounce buffer after the turn's fill: a hit keeps it.
BufferAlwaysHit == cache
Buffer == IF cached_block = BlockOf(op.offset) THEN cache ELSE Contents(BlockOf(op.offset))

-----------------------------------------------------------------------------
Request(kind, from, len, value) ==
    /\ Idle
    /\ op' = [NoRequest EXCEPT !.kind = kind, !.from = from, !.end = from + len,
                               !.offset = from, !.value = value]
    /\ dest' = [a \in Addresses |-> None]
    /\ status' = IF ~InBounds(from, len) THEN "OutOfBounds"
                 ELSE IF len = 0 THEN "Ok" ELSE "running"
    /\ UNCHANGED <<device, cached_block, cache, doubtful>>

\* Whole blocks go straight from the device to the caller's buffer.
ReadWhole ==
    /\ Running("read") /\ Whole
    /\ dest' = [a \in Addresses |-> IF a \in TurnRange THEN device[a] ELSE dest[a]]
    /\ Advance
    /\ UNCHANGED <<device, cached_block, cache, doubtful>>

\* Part of a block comes through the bounce buffer.
ReadPart ==
    /\ Running("read") /\ ~Whole
    /\ cache' = Buffer
    /\ cached_block' = BlockOf(op.offset)
    /\ dest' = [a \in Addresses |->
                  IF a \in TurnRange THEN Buffer[a % BLOCK_SIZE] ELSE dest[a]]
    /\ Advance
    /\ UNCHANGED <<device, doubtful>>

\* Whole blocks go straight to the device; the buffer forgets an overwritten one.
Overwritten(b) == BlockOf(op.offset) <= b /\ b < BlockOf(op.offset) + WholeBlocks
ForgetNothing == cached_block
ForgetOverwritten ==
    IF cached_block # None /\ Overwritten(cached_block) THEN None ELSE cached_block

WriteWhole ==
    /\ Running("write") /\ Whole
    /\ device' = [a \in Addresses |-> IF a \in TurnRange THEN op.value ELSE device[a]]
    /\ cached_block' = ForgetOverwritten
    /\ doubtful' = doubtful \ TurnRange
    /\ Advance
    /\ UNCHANGED <<cache, dest>>

\* Read-modify-write: up to the second await the change is in the buffer only.
ModifyBuffer ==
    /\ Running("write") /\ ~Whole /\ ~op.dirty
    /\ cache' = [p \in InBlock |->
                   IF BlockOf(op.offset) * BLOCK_SIZE + p \in TurnRange
                   THEN op.value ELSE Buffer[p]]
    /\ cached_block' = BlockOf(op.offset)
    /\ op' = [op EXCEPT !.dirty = TRUE]
    /\ UNCHANGED <<device, dest, status, doubtful>>

WriteBackNothing(content) == UNCHANGED device
WriteBack(content) ==
    device' = [a \in Addresses |->
                 IF BlockOf(a) = BlockOf(op.offset) THEN content[a % BLOCK_SIZE] ELSE device[a]]

WritePart ==
    /\ Running("write") /\ ~Whole /\ op.dirty
    /\ WriteBack(cache)
    /\ doubtful' = doubtful \ TurnRange
    /\ Advance
    /\ UNCHANGED <<cached_block, cache, dest>>

-----------------------------------------------------------------------------
(* Transfers that break off.                                               *)

\* The request ends and puts some addresses in doubt.
Abort(addresses) ==
    /\ status' = "Device"
    /\ op' = [op EXCEPT !.dirty = FALSE]
    /\ doubtful' = doubtful \cup addresses

ReadWholeFails ==
    /\ "read" \in Faults
    /\ Running("read") /\ Whole
    /\ Abort({})
    /\ UNCHANGED <<device, cached_block, cache, dest>>

\* Filling the buffer breaks off: cached_block still names the block the
\* buffer held before, which is in doubt.
Refilled == {cache, [p \in InBlock |-> Garbled], Contents(BlockOf(op.offset))}

\* The bug ReadReturnsStored excludes: the block is named before its fill.
FillFailsRenamed ==
    /\ "read" \in Faults
    /\ status = "running" /\ ~Whole /\ ~op.dirty
    /\ cached_block # BlockOf(op.offset)
    /\ cache' \in Refilled
    /\ cached_block' = BlockOf(op.offset)
    /\ Abort(BlockRange(cached_block))
    /\ UNCHANGED <<device, dest>>

FillFails ==
    /\ "read" \in Faults
    /\ status = "running" /\ ~Whole /\ ~op.dirty
    /\ cached_block # BlockOf(op.offset)
    /\ cache' \in Refilled
    /\ Abort(BlockRange(cached_block))
    /\ UNCHANGED <<device, cached_block, dest>>

\* Some leading blocks were written; the buffer was not told.
WriteWholeFails ==
    /\ "write" \in Faults
    /\ Running("write") /\ Whole
    /\ \E written \in 0 .. WholeBlocks :
          device' = [a \in Addresses |->
                       IF a \in Range(op.offset, op.offset + written * BLOCK_SIZE)
                       THEN op.value ELSE device[a]]
    /\ Abort(TurnRange)
    /\ UNCHANGED <<cached_block, cache, dest>>

\* The block was written or not; the buffer holds the new bytes either way.
WritePartFails ==
    /\ "write" \in Faults
    /\ Running("write") /\ ~Whole /\ op.dirty
    /\ WriteBack(cache) \/ UNCHANGED device
    /\ Abort(TurnRange)
    /\ UNCHANGED <<cached_block, cache, dest>>

Next ==
    \/ \E from \in 0 .. AddressSpace - 1, len \in 0 .. MaxLen :
          \/ Request("read", from, len, None)
          \/ \E v \in Values : Request("write", from, len, v)
    \/ ReadWhole \/ ReadPart
    \/ WriteWhole \/ ModifyBuffer \/ WritePart
    \/ ReadWholeFails \/ FillFails \/ WriteWholeFails \/ WritePartFails

Spec == Init /\ [][Next]_vars

-----------------------------------------------------------------------------
(* Properties.                                                             *)

\* The buffer's byte for an address is the card's, unless it is in doubt.
Agrees(a) == a \in doubtful \/ cache[a % BLOCK_SIZE] = device[a]

\* Between two device accesses the bounce buffer is a true copy of the block it
\* claims to hold, except while a read-modify-write is about to write it back.
\* A transfer that breaks off costs this only of the bytes it was to move (a
\* write), or of the block that was in the buffer (a fill), and only until they
\* are written again.
CacheCoherent == ~op.dirty => \A a \in Addresses : BlockOf(a) = cached_block => Agrees(a)

\* A read that succeeds delivers what the card holds in its range, whichever
\* mixture of direct and buffered turns served it and whatever broke off before
\* it, but for bytes still in doubt (block.rs "Seamlessly handles arbitrary byte
\* offsets and sub-block reads").
ReadReturnsStored ==
    op.kind = "read" /\ status = "Ok" =>
        \A a \in Addresses :
            IF a \in Range(op.from, op.end) THEN a \in doubtful \/ dest[a] = device[a]
                                            ELSE dest[a] = None

\* A write that succeeds is on the card throughout its range, whatever failed
\* before it.
WriteLands ==
    op.kind = "write" /\ status = "Ok" => \A a \in Range(op.from, op.end) : device[a] = op.value

\* A write, finished or broken off, changes no byte outside its range: the
\* read-modify-write puts the rest of the block back as it was (block.rs
\* "Seamlessly handles arbitrary byte offsets", "Read-Modify-Write").
NeighboursKept == [][\A a \in Addresses \ Range(op.from, op.end) : device'[a] = device[a]]_vars

\* What the code does guarantee of a write's neighbours after a failure: however
\* long the buffer lives on and whatever requests follow, no byte changes outside
\* the range of the request but those in doubt.
DoubtContained ==
    [][\A a \in Addresses \ (Range(op.from, op.end) \cup doubtful) : device'[a] = device[a]]_vars

\* No request that fits the card is refused, on cards whose size the address
\* space can hold ("wraps any 512-byte AsyncBlockDevice (such as a microSD
\* card)"); total_capacity is that size modulo 2^32.
FittingRequestAccepted ==
    DeviceSize < AddressSpace /\ status = "OutOfBounds" => op.end > DeviceSize

=============================================================================
