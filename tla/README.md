# Verification of embedded-overlay

TLA+ models of `embedded-overlay`, a `no_std` Rust library that streams position-fixed
machine code ("overlays") from external SPI flash or an SD card into a few RAM slots of a
microcontroller and runs it there. Paths below are relative to the repository's parent, so
`src/src/overlay/mod.rs` is the crate's `src/overlay/mod.rs`.

TLC checks the models on small instances; the TLA+ proof system proves their safety
properties and the three refinements for all instances.

## The system

| Part | State | Operations | Talks to |
|---|---|---|---|
| **Overlay manager** `overlay/{mod,slot,sync}.rs` | slot table (module, entry, generation, pin), `lru_counter`, slot RAM, the core's instruction cache | `ensure_resident` (2 awaits), `execute`, `call_typed`, `call_raw`, `evict`, `pin_slot`, `unpin_slot` | reads storage; CRC; instruction cache hook |
| **Embassy engine, pipeline** `embassy/{engine,pipeline}.rs` | the manager behind an async mutex, the registry | `call`, `prefetch`, `call_and_prefetch`, `evict`, `inner`, `find_offset` | tasks call it; holds its mutex across the manager's awaits |
| **Mount and registry** `embassy/engine.rs:77-202` | array of registrations | `mount` (directory or walk), `register_module` | reads what `overlay-packer` wrote |
| **Block device adapter** `block.rs` | one-block bounce buffer, its block number | `read`, `write`, `erase` at byte granularity | block device |
| **LRU sector cache** `vfs/cache.rs` | entries with sector id, generation, data | `get`, `get_or_load` (1 await), `clear` | storage |
| **Shared bus, partitions** `embassy/shared_storage.rs`, `partition.rs`, `mock.rs` | bus mutex; per view base and size | `read`, `write`, `erase` | the chip |
| **VFS reader** `vfs/mod.rs` | superblock read at mount | `mount`, `find_entry`, `asset_len`, `stream_chunk`, `read_asset` (one await per index entry, one for the data) | storage, image written by `pack_vfs` |
| **Headers, checksums** `header.rs`, `crc.rs` | none | encode, decode, CRC-32, FNV-1a | everybody |
| **Firmware bundle, flasher** `bundle.rs`, `overlay-packer`, `tools/flash_dual.py` | none (a file) | write (two tools), parse (one) | device loader (not in the repository) |
| **Bootloader** `bootloader/src/main.rs` | none | `is_app_valid`, jump | vector table |
| **Static slots, macros, build, demo** | none | expansion, text generation, set-up | |

What is hard in each, and what makes it correct:

* *Manager.* A load spans two awaits. Between them storage may be rewritten, and at each
  of them the load may fail or its future be dropped, with the slot half overwritten.
  Correct means: a module sits in at most one slot, a call runs a verified build of the module
  it names (through stale slot indices and stale cache lines as well), pins hold, and the
  table behaves as an LRU cache.
* *Engine.* Tasks interleave at every await. Correct means: the mutex covers each load
  exactly, every return path frees it, the manager sees only sequences its own contract
  allows, and everyone who asks is answered.
* *Mount.* The packers and `mount` must agree about layout, padding and offsets; images
  hold too many overlays, duplicates and damage. Correct means: after `Ok` every overlay that
  `mount` comes to is found where it lies, and nothing cuts a walk short but the row itself or a
  read error; a failure does not leave half a registry.
* *Block adapter, sector cache.* A cached copy, direct transfers around it, and
  transfers that fail in the middle. Correct means: reads return what is stored, writes
  touch nothing else, and what a broken transfer leaves in doubt stays within its block and ends
  when it is written or loaded again.
* *Bus.* Many tasks, one chip. Correct means: an operation is atomic on the bus, a
  partition is a fence, a dropped operation gives the bus back.
* *VFS reader.* A request looks its asset up entry by entry and then reads the data
  (`read_asset` even looks it up twice), and between any two reads another owner of the bus may
  replace the partition. Correct means: over the image it mounted, each request returns
  the bytes of the file that was packed, whatever the offset and the buffer; over anything
  else it still never moves more than the buffer holds and comes to an end.
* *Firmware bundle.* Two writers and one reader in two languages must take a checksum over
  the same bytes.

`PROJECT.json` lists the hazards one by one at their lines.

## The modules

    OverlayCache  <-- refines --  OverlayManager  <-- extends --  EmbassyEngine
                                       |                               |
                              OverlayManagerProofs                     |
                                       |                               |
                              OverlayCacheProofs  <-- extends --  EmbassyEngineProofs
    AssetStore  <-- refines --  VfsReader           LruSectorCache             StorageBus
                                    |                      |                       |
                             VfsReaderProofs     LruSectorCacheProofs      StorageBusProofs
    BlockDeviceAdapter              OverlayMount           FirmwareBundle
            |                            |
    BlockDeviceAdapterProofs     OverlayMountProofs

`OverlayManager` and `EmbassyEngine` are one composed model: the engine's actions
are the manager's actions under a lock. `OverlayMount` produces the registry that is the
constant `Registry` of `EmbassyEngine`. The manager's storage is the constant-size
function `flash`, and its `Reprogram` is what `StorageBus` allows other owners of
the bus to do between two reads. The other modules stand alone, as the types do in the code.

**OverlayManager.** One variable per field of `OverlaySlot`, plus `ram`, `icache` and
`lru_counter`. `op[c]` is where the future of caller `c` is suspended, with its locals
(`header`, `slot`); `ret[c]` is what its last call returned and which image it ran.
`ensure_resident` is `EnsureHit` (no await) or `EnsureMiss`, then `HeaderRead` (every check
between the awaits, slot selection included), then `StreamLoaded` or `StreamCorrupt`.
`HeaderReadFails`, `StreamFails` and `DropFuture` are its other ends. `execute` is the same
with `then_call`: the branch happens under the same borrow. A payload is a model value
and its CRC is itself, so two different images never collide. `Torn` is RAM that
nobody has verified: zeroed at boot, or whatever an interrupted stream left, from a mixture of old and
new bytes to the whole new image with its CRC unchecked. The instruction cache of a slot is the
set of images a fetch may still be served from: `Branch` adds to it, `code_loaded` empties it.

**OverlayCache.** The promise: a map from modules to contents with a partial order of
use. A replacement takes the least recently used module that is not pinned, and only when
no unpinned slot is empty. The refinement mapping derives contents from the slots and the
order from the generations.

**EmbassyEngine.** `task[c]` is the request a task waits for or works on. `Acquire` is the
poll that gets the lock, `Progress` a poll of the holder after a storage read, `Answer` the
end of a request or the step from the call to the prefetch of `call_and_prefetch`,
`Locked` every operation that runs within one poll (`evict`, and `inner()` for pins and
`call_typed`). The registry is a constant because only `&mut self` writes it.

**OverlayMount.** An image is a function from addresses to records (directory, index entry,
header), laid out by `AutoPack` (`auto_pack`, which pads each container to four bytes) or
`Sequential` (files of `pack_overlay` in a row, which are not padded), and put at a base address by
`Place`. Who programs a row chooses where each file goes: one directly behind the other
(`Concatenated`), padded (`Starts`), or anywhere else (`InRow`). Every read of `mount` is an
await: `FirstRead`, `EntryRead`, `NextRead`, each with its failure (`ReadFails`, which `mount` passes
on, and `WalkReadFails`, which ends the walk as if the row ended there). `ret.walk` is not part of what
`mount` returns: it records that a read error inside the chip ended the walk.

**BlockDeviceAdapter.** One turn of the loops in `read` and `write` per action: whole
blocks past the buffer, or a part of a block through it. A write turn through the buffer is
two actions, since the fill and the write-back are two device accesses. Offsets and
capacity are modulo `AddressSpace`, 2^32 in the code. `doubtful` is a history variable: the bytes a
broken transfer was to write, or those of the block that was in the buffer when its fill broke
off, until a write stores them anew.

**LruSectorCache.** `get_or_load` is `Hit`, or `Miss` (choose the entry) followed by
`Loaded` or `LoadFails`, which may have delivered nothing, a part of the sector or all of it. `doubtful` is
the history of sectors whose entry a broken read was to replace, until they are loaded again.

**StorageBus.** A driver moves one byte per `Transfer`, so that an operation without the
bus could be seen half done; flash writes only clear bits, erases set them. A request may name any
`u32` offset: `FitsView` is `checked_add` and the comparison with the view's size, `Physical` the
sum with the base, in `u32`.

**VfsReader.** Flash maps an address to what a read there decodes to (a superblock, an index
entry, a byte of an asset, or nothing of these), so layout, padding and offsets are numbers as in
the code. `PackVfs` is `pack_vfs`; its files come in the order `read_dir` lists them, which is
what numbers the assets. `call` is where the reader's future is suspended, with its locals:
the method (`op`), the turn of `find_entry`'s loop (`i`), the address and the length of the read.
`FindEntry` is the loop's head, `EntryRead` one of its turns with what the method does
with the entry it finds, `ChunkRead` the transfer. `ReadAsset` goes on as `stream_chunk`, which
starts the lookup again, as in the code. `Rewrite` replaces the partition (`Updates`) between any two
reads. Sums of addresses are modulo `AddressSpace` (2^32 in a release build; a debug build
panics instead, which only a damaged entry can cause) and `asset_count` is modulo
`AssetCountSpace` (2^16). 16 bytes of flash that are no index entry decode to one of `Strays`.

**AssetStore.** The promise: a list of byte strings, asked for by number, one request at a time,
each answered with exactly the bytes asked for or with an error of the medium. The store is
`Unknown` and may answer anything while nobody vouches for the partition: it was written since
the mount, never held a whole image, or has more files than `asset_count` counts. The
refinement mapping takes the assets from the files that were packed, never from the image, so
packer and reader are checked against each other.

**FirmwareBundle.** A bundle is its length and what its header checksum is: over how many
bytes, and what the checksum's own field held if it is among them.

Some definitions stand next to a wrong version of themselves (`SelectNewest`,
`ReleaseOnSuccess`, ...): the plausible bug that the property named in `PROJECT.json` catches.
No specification uses them.

## The runs

| Run | Module, configuration | Shows | Outcome |
|---|---|---|---|
| `manager_safety` | `MCOverlayManager`, `MCManagerSafety` | types, the inductive invariant, unique residency, ordered generations, verified residents, calls run their own code, the slot used last is spared, pins | holds |
| `manager_cache` | `MCManagerCache` | the manager refines `OverlayCache` | holds |
| `manager_torn` | `MCManagerTorn` | a broken payload stream leaves its victim resident | **violated** |
| `engine_tasks` | `MCEmbassyEngine`, `MCEngineTasks` | lock covers loads, engine refines manager, every request is answered | holds |
| `mount_safety` | `MCOverlayMount`, `MCMountSafety` | what `mount` comes to is what is registered, in either layout, padded or not, with failing reads; the registry is sane | holds |
| `mount_partition` | `MCMountPartition` | a directory at a base other than 0 | **violated** |
| `block_safety` | `BlockDeviceAdapter`, `MCBlockSafety` | reads, writes and neighbours, before and after failures, but for the bytes in doubt | holds |
| `block_stale_write` | `MCBlockStaleWrite` | a failed fill, then a write | **violated** |
| `sector_safety` | `LruSectorCache`, `MCSectorSafety` | one copy, right bytes but for a sector in doubt, LRU | holds |
| `bus` | `MCStorageBus`, `MCBus` | snapshots, fences (at offsets that wrap as well), no leaked bus | holds |
| `vfs` | `MCVfsReader`, `MCVfs` | the reader over packed images refines `AssetStore`; reads stay in the image and are aligned; the buffer is respected and requests end over any image | holds |
| `bundle_rejected` | `FirmwareBundle`, `MCBundleRejected` | no bundle is ever accepted | **violated** |

### Bounds, and why they are enough

* *manager_safety*: three modules for two slots make eviction necessary; slots of 64 and 128
  bytes make the choice of slot matter. One offset whose container is rewritten freely
  covers several offsets, because a load reads one, and any header meets any payload.
  `MaxGen = 3` uses fill both slots and replace one; a fourth repeats.
  One caller is enough: the exclusive borrow allows one load at a time, and two
  callers are the engine's subject.
* *manager_cache*: seven fixed containers (three good, one corrupt, too large, odd entry,
  blank) and `MaxGen = 4`, so a hit can reorder before a replacement. `NoCalls` leaves out
  branches, which change only `icache` and `ret`, and the abstract cache sees neither.
* *engine_tasks*: two tasks, one slot, so that each load evicts the other's module, one
  request each (a `call_and_prefetch` is two acquisitions), `MaxGen = 4` = all the
  uses those requests can make, so the bound never blocks a request.
* *mount*: lists of up to two overlays of sizes 4, 5 and 7 (exactly aligned, one over, one
  under) and three of sizes 4 and 5, a registry for two, at base 0 and 4096, on a chip that ends with
  the image or a header later; rows both padded and concatenated, so that the walk ends at the
  first, the second or no gap. A damaged record is any record of a pair.
* *block*: two blocks of two bytes, an address space of the card and two bytes, requests up to the
  card's size: head, whole, tail and wrapping requests all occur, and the buffer holds
  either block when a transfer of the other breaks off.
* *sector*: three sectors for two entries and six uses.
* *bus*: a bare handle and a partition inside the chip, two requests each, one-bit bytes. With an
  address space of 7 and every offset in it, the sum of offset and length and the sum with the base
  both reach past it.
* *vfs*: directories of up to three files of 0 to 5 bytes (empty, exactly aligned, one over, one
  under) at base 0 and 64, and of four and five files against an `AssetCountSpace` of 4, so that the
  counter just overflows and wraps to 0 and 1; every id up to one past the last, offsets within, at and
  behind the end, buffers smaller and larger. Partitions that are replaced hold another whole
  image, the index of one over the data of another, an entry whose address wraps
  (`AddressSpace` is 256), a count that is too large, a wrong version, a wrong checksum, nothing.

### Fairness

Liveness assumes weak fairness of the steps of tasks that were asked to run: the executor
polls a woken task, the chip answers, and releasing a mutex wakes its waiter. Nothing is
assumed of requests, drops or administration. embassy's mutex does not order waiters, so no
strong fairness is assumed; in the engine and on the bus each task makes finitely many requests, which
is what makes the lock free for good in the end. With an unbounded stream of other requests a waiter may starve, in the
model as in the code. `RequestEnds` of the reader assumes
weak fairness of its reads alone and holds under any number of rewrites, because the number of
turns was fixed at mount. The reader's `Progress`, like the manager's and the engine's, is a
whole read: it includes waiting for the bus when the storage is a `SharedStorageHandle`, so its fairness assumes
that a pending read gets the bus in the end. `EveryOperationEnds` is what the bus itself contributes to
that, for finitely many requests. Deadlock checking is off for `bus` because its clients run out of
requests; elsewhere some operation is always possible.

## What is proved

`OverlayManagerProofs` proves, for every number of slots, set of modules, containers,
images, callers and kind of fault, and every value of the bound `MaxGen`:

* `IInvHolds`: `Spec => []IInv`, and from it `TypeCorrect`, `ResidencyUnique`,
  `ResidencyVerified`, `CallsRunOwnCode`, `GenerationsOrdered`;
* `LastUsedIsSpared`: `Spec => []LastUsedSpared`, from `IInv`: the slot of a suspended load is
  still the one `select_eviction_slot` would choose, so an occupied one has the lowest generation
  of all unpinned ones, and generations are distinct (`ChosenNotLast`);
* `PinsHold`: `Spec => PinnedModulesStay`, an action property.

The safety properties are not inductive alone. A load that finishes marks its slot with a
module, and it would duplicate that module unless the module stayed absent through both
awaits; it would write a pinned or wrong slot unless the choice made before the second
await still stands; it would install unverified code unless the header kept in the future
is the requested module's. So `IInv` adds what a suspended future relies on:

* `OneBorrower`: one future at a time is inside `ensure_resident`;
* `AwaitedAbsent`: the module it loads is in no slot;
* `StreamPrepared`: its header is a sound one of that module, and its slot is still what
  `select_eviction_slot` would choose.

There is one lemma per action; `NextIInv` puts them together.

`OverlayCacheProofs` proves `ManagerImplementsCache`: `Spec => CacheSpec`, the manager is a
least-recently-used cache with pins. `Mapping` states what the refinement mapping makes of the
slots (which module has which content, which is pinned, which is older); `ChosenOldest` says that
the slot of `select_eviction_slot` is free or holds the oldest unpinned module; `Replacement` and
`Removal` turn a change of one slot into a step of the cache. `IInv` is what makes the mapping a
function: one slot per module, one generation per slot.

`EmbassyEngineProofs` proves, for any number of tasks and requests:

* `EngineTypeCorrect` and `LockHeldDuringLoad`: `EngineSpec => []EngineTypeOK` and
  `EngineSpec => []LockCoversLoad`;
* `EngineImplementsManager`: `EngineSpec => ManagerSpec`. Each engine step is a manager
  step or a stutter, because a free lock means that no future is inside
  `ensure_resident` (`FreeLockIsBorrowable`), which is the manager's borrow;
* `EngineSafe` and `EngineImplementsCache`: the manager's invariants therefore hold of the
  engine, and all its tasks together see one least-recently-used cache;
* `SoloPrefetchSparesCurrent`: on *one* task, `EngineSpec => []PrefetchSparesCurrent`: with two
  unpinned slots the prefetch of `call_and_prefetch` never streams over the module just called,
  whatever is evicted, pinned, rewritten or dropped in between. Its invariant is
  `CalledLast`: the module called has the generation `lru_counter` wherever it still is.
  With it `ChosenNotLast` gives the contradiction.

Assumptions of the two: there is a slot; capacities and addresses are naturals; `None` and `Torn` are no
modules, offsets or payloads; and a container whose header decodes names, by its CRC, a
build of its own module (the packers compute the CRC over the code they file under that
id). The last is where collisions of CRC-32 are excluded.

`StorageBusProofs` proves, for any clients, views, chip and requests, and futures dropped at any
byte: `BusTypeCorrect`, `BusExcludes`, `ReadsAreSnapshots` and `PartitionsIsolate`. A read is a
snapshot because whoever transfers holds the bus, which is one client; a partition isolates
because what its checks established of the range (`Prepared`: inside the view, untouched) is
still true when the client gets the bus, and the driver's own check keeps the transfer
between the two ends (`Transferring`). That no sum wraps for a range that passed the checks is
`PhysicalOffset` and `FittingRange`.

`OverlayMountProofs` proves, for any images, faults, offsets and size of the registry:

* `MountInvariant`: `Spec => []MountInv`, and from it `MountTypeOK` and `MountRegisteredOnce`;
* `MountFailureKeeps`: `Spec => FailedMountKeepsRegistry`;
* `MountFindsReached`: `Spec => ReachedModulesFound`, without hypotheses. After `Ok` the registered
  overlays are exactly those `mount` comes to (`Reached`): the entries of a directory, or the
  containers of a row up to the first that is damaged or does not lie where the step from the one before
  it leads; fewer only when a read error cut the walk. Each is found where its container lies, unless it
  comes from a directory at another address than 0, which is the run `mount_partition`.

`MountInv` says what a suspended `mount` knows: at an index entry, that it is the next one of
the directory that begins at the base, and that the list so far is what the entries before it say
(`IndexRead`); at a container, that it is one step behind the containers listed so far
(`WalkedSoFar`). Under it are facts about the packers: where containers begin, in order and on words
(`StartsOrder`), which record lies at which address of a placed image (`ContainerRecords`,
`PlacedRecords`, `SequentialRecords`, `DirectoryRecords`), and what the registration loop leaves
(`RegisterAllResult`: no module twice, each listed module where its last registration says, or
full).

The assumption on images, `ImagesAssumption`, is that storage holds a directory image of `auto_pack`,
or containers of `pack_overlay` in a row with gaps of any length, somewhere on a chip that
holds all of it, with at most one record damaged, or is blank. Nothing is assumed of padding.
What a read behind an unaligned container decodes to is `Blank`: the walk tries addresses at most
three bytes behind a container's end, which lie in a gap (erased) or in the next header, and no header
has `OVL1` at its second to fourth byte.

`VfsReaderProofs` proves, for any chips, updates, damaged entries and requests:

* `ReaderTypeCorrect` and `BuffersRespected`. The invariant (`WithinBuffer`) bounds the read by
  `dest`, and `dest` by the caller's buffer: `read_asset` replaces the buffer by the length of the
  entry it checked, which fits, so the second lookup may find any other entry without harm;
* `ReadsWithinImage` and `WholeReadsOnWords`: `Spec => []ReadsStayInImage` and
  `Spec => []WholeReadsAligned`;
* `ReaderIsStore`: `Spec => ReaderImplementsStore`. Over a packed directory of any files at any base,
  each request returns the bytes of the file, for every offset and buffer, or an error of the medium.

The last three are not inductive. `PackInv` adds that the superblock in RAM is the one `pack_vfs`
wrote (`MountedImage`), that the lookup under way asks for what the caller asked or is the one of
`read_asset`'s inner `stream_chunk` (`Asks`), and that it has passed the entries before turn `i`
without finding the asset, or transfers the asset's own bytes (`Looks`), each as long as the
partition is the one that was mounted (`Known`). What `pack_vfs` writes is in `OffsetsOrder` (offsets
are on words, and a file ends before the next begins), `BytePlaces` (two bytes never
share an address) and `PackedCells` (what lies where). For the store, `Promises` states
what it owes case by case, and there is one lemma per way a request can end (`FindEntryReplies`,
`EntryReadReplies`, `ChunkReadReplies`, `StorageReplies`).

Assumptions: superblocks and index entries decode to naturals, and a chip that is called complete
holds what `pack_vfs` makes of its files, within the chip and the address space
(`ChipsAssumption`). The last is what makes the modulo of an address harmless: the code's addresses are
`u32`, and so is the driver's range. A directory of `AssetCountSpace` files or more is not excluded;
`Known` is false of it.

Offsets of files, starts of containers and the registration loop are recursive functions. Facts about
them are proved by `Induction` over the set of the numbers they hold of, which follows from the
least element of a set of naturals (`Least`, from the well-foundedness of `<`): the library's own
induction theorem has an operator for a parameter, a set needs none.

`LruSectorCacheProofs` proves, for any number of entries and sectors: `CacheTypeCorrect`,
`CachedOnce`, `LastUsedKept`, and `LookupsReturnSector` for callers that use one base, after broken
reads too, but for a sector in doubt. The
invariant adds that the sector a lookup waits for is still missing and its entry still the
one a miss would choose (`LoadPrepared`), that used entries have distinct generations, and
that the sector looked up last has the highest (`LastUse`).

`BlockDeviceAdapterProofs` proves, for any block size, card, address space, request and
transfers that break off anywhere: `AdapterTypeCorrect`, `BufferCoherent`, `ReadsReturnStored`,
`WritesLand`, `DoubtStaysContained` and `FittingRequestsAccepted`. None of them stops at the first
failure: they hold of every byte that is not in doubt. The first lemmas
are the arithmetic of blocks (an address has one block and one position; `Between`, what lies
between two block starts); then what a turn is (`WholeTurn`, `PartTurn`: from block start to
block start, or inside one block). The invariant says that what the turns so far were to do is
done (`DeliveredSoFar`, `WrittenSoFar`), that a buffer in the middle of a read-modify-write is a
true copy outside the turn's range (`Modified`), and that every turn but the first starts on a
block (`AtBoundary`). Without the last, a buffer that an earlier failure garbled could be
written back over what an earlier turn of the same write has stored (`EarlierBlocks`).

Only model-checked: the three liveness properties (`EveryRequestAnswered`, `EveryOperationEnds`,
`RequestEnds`), since liveness under fairness and `ENABLED` are out of the prover's reach; and the four
runs that end in a violation, which need a counterexample and no proof. Not provable either is that an
instance is one the code can be in: that the packers compute the CRC over the code they file
under its id, or that nobody writes a half-finished image, are assumptions.

## Where the code and its documents differ

Each is a run that TLC finds violated:

* `manager_torn`: the CRC failure path of `ensure_resident` evicts the slot
  (`overlay/mod.rs:212`), the read failure path (line 207) does not. The replaced module
  stays resident over a mixture of bytes, and a later hit branches into it. Hence the
  `Torn` in `ResidentVerified` and `CallRunsOwnCode`.
* `mount_partition`: index entries are relative to the image and registered as they are.
* `block_stale_write`: the bounce buffer is filled in place and renamed afterwards, so a
  fill that fails leaves it under its old name.
* `bundle_rejected`: `BundleHeader` has 52 bytes, not the 64 its comments say. `new` slices 60 of
  them for the checksum and panics, so `overlay-packer bundle` never writes a file;
  `from_bytes` slices 60 as well and compares a checksum that covers its own field, so it rejects
  what `flash_dual.py` writes (a checksum over 48 bytes), or panics when the images are shorter than 8
  bytes.

Seven more follow from the models and are described rather than run:

* `BlockDeviceAdapter::read` after such a fill returns the overwritten buffer with `Ok`, and
  after a write that broke off the buffer may differ from the card in the bytes of that write;
  hence `doubtful` in `CacheCoherent`, `ReadReturnsStored` and `DoubtContained`.
* On a card whose size is a multiple of 4 GiB the truncated capacity is 0
  (`TotalCapacity`) and every request is refused; hence the condition in
  `FittingRequestAccepted`.
* `LruSectorCache::get_or_load` has the same order as the bounce buffer: load in place, rename
  afterwards. A lookup of the sector whose entry a broken read overwrote returns the overwritten bytes
  with `Ok`; hence `doubtful` in `LookupReturnsSector`.
* `mount` promises to discover "all overlays" (`embassy/engine.rs:69`). In a row of files as
  `pack_overlay` writes them it loses, with `Ok`, everything behind the first whose size is not a
  multiple of four (line 131 steps to the next multiple, the packer writes no padding), and in any
  row everything behind a read error (line 139). `mount_safety` contains both;
  `ReachedModulesFound` says exactly what is found, and `MountedModulesFound`, which is that promise, is
  violated there too.
* `prefetch` holds the engine's mutex for the whole DMA (`embassy/engine.rs:233`), and `call` takes
  the same mutex: a call of a module that is resident in one slot waits for another task's prefetch
  into the other, so the overlap of execution and prefetch that `lib.rs:18-20` describes does not
  occur between tasks (`Acquire` needs `LockFree` for a hit too).
* `flash_dual.py:343` reads four bytes and compares them with the five of `READY`: the upload over
  the serial line always ends there.
* The bootloader's comment (`bootloader/src/main.rs:85`) lets it listen for a bundle in DFU mode; the
  code under it waits for interrupts for ever.

And some things the code makes no promise about: with a *second* task, the lock is free
between the call and the prefetch of `call_and_prefetch`, the other task's load ages
the module just called, and the prefetch evicts it; and a module that does not fit the least
recently used slot is refused with `SlotTooSmall` although another slot would hold it. A VFS
partition that is replaced under a request may be answered with `Ok` and bytes of another asset
or of two; one whose update was interrupted behind the superblock mounts, because nothing
looks at `total_bytes` or the entries' `crc16`; a directory of 65536 files packs without
complaint and is empty to the reader; and the ids of assets are whatever order `read_dir` has.

## Not modelled

* *Bootloader*: a predicate over two words of flash, then register writes and a jump. There is no
  state, and what programs the application is not in the repository.
* *Serial upload of `flash_dual.py`*: the device's side is not in the repository, and the host's
  ends at its handshake.
* *Byte positions in headers, CRC and FNV arithmetic*: encoders and decoders are straight-line code
  over the same constants. Values are equal or not; collisions are excluded by assumption.
* *Static slots and macros, linker script, demo*: compile-time expansion and board set-up. The
  constructors' state is `Init` of `OverlayManager`; `memory_overlay!` expands to `call`.
* `device_mut` (block adapter), `storage_mut` (VFS reader): hand out the device; what is done with
  it cannot be seen.
* The `u64` generation counter does not wrap in any run; it would take 2^64 loads.

## Plan

Done, in this order: manager with its abstract cache, engine, proofs of both, mount, block adapter,
sector cache, bus, VFS reader with its abstract store, firmware bundle, proofs of the others, and
last of mount and of the refinement of `AssetStore`.

Next, modelling: `OverlayMount` with the manager, for registrations that change while a module is
resident. `register_module` needs `&mut` of the engine, so no load is under way then, and a hit
keeps running the old build by design; the question is only what a second `mount` means.

Next, proving: every safety property of a passing run and the three refinements are proved. For
`block_stale_write` `DoubtStaysContained` says how far the damage goes; for `manager_torn` the
like is missing, a condition under which a torn slot is never branched into.

## Running it

    tlc -workers 2 -config MCManagerSafety.cfg MCOverlayManager.tla
    tlapm OverlayManagerProofs.tla
    tlapm OverlayCacheProofs.tla
    tlapm EmbassyEngineProofs.tla
    tlapm StorageBusProofs.tla
    tlapm OverlayMountProofs.tla
    tlapm VfsReaderProofs.tla
    tlapm LruSectorCacheProofs.tla
    tlapm BlockDeviceAdapterProofs.tla

The longest passing runs take about three minutes with two workers.
