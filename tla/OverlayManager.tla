---------------------------- MODULE OverlayManager ----------------------------
(***************************************************************************)
(* src/src/overlay/mod.rs, slot.rs and sync.rs: the manager that streams   *)
(* overlay containers from external storage into RAM slots, verifies them, *)
(* and branches into them.                                                 *)
(*                                                                         *)
(* ensure_resident is an async fn with two awaits, the header read and the *)
(* payload stream.  Its locals (header, slot index) belong to the caller's *)
(* future and are op[c]; everything else belongs to the manager.  The      *)
(* actions take the caller c and say nothing about who may run when: Next  *)
(* below lets one caller at a time borrow the manager (&mut self), and     *)
(* EmbassyEngine replaces that borrow by the engine's async mutex.         *)
(***************************************************************************)
EXTENDS Naturals, FiniteSets

CONSTANTS
    Callers,      \* the futures that call into the manager
    Modules,      \* 32-bit module ids
    Offsets,      \* flash offsets at which containers are stored
    Payloads,     \* machine code images; a payload's CRC32 is the payload itself
    CodeOf,       \* CodeOf[m]: the images that are builds of module m
    Containers,   \* the .ovl containers storage may hold
    Images,       \* what storage may hold at boot
    SLOTS,        \* const generic SLOTS
    Capacity,     \* OverlaySlot::capacity, fixed at construction
    ExecAddr,     \* OverlaySlot::exec_addr, fixed before the manager owns the slots
    Faults,       \* what the environment may do: fail a read, drop a future, reprogram
    MaxGen,       \* bound: ensure_resident is not started once lru_counter is here
    None,         \* Option::None
    Torn          \* RAM nobody has verified: zeroed at boot, or whatever an
                  \* unfinished load left there, the whole new image included

SlotIdx == 0 .. SLOTS - 1

HeaderErrors == {"InvalidMagic", "UnsupportedVersion", "HeaderChecksumMismatch"}

\* What OverlayHeader::from_bytes makes of 32 bytes: an error, or the fields.
Header == [status : HeaderErrors \cup {"Ok"}, module_id : Modules, code_size : Nat,
           entry_offset : Nat, payload_crc32 : Payloads]

ASSUME SlotsAssumption ==
    /\ SLOTS \in Nat \ {0}
    /\ Capacity \in [SlotIdx -> Nat]
    /\ ExecAddr \in [SlotIdx -> Nat]

\* The packers compute the CRC of a container over the very code they wrap and
\* file it under that function's id, so a header that checks out names a build
\* of its own module; the payload next to it may be anything.
ASSUME ContainersAssumption ==
    /\ Containers \subseteq [header : Header, payload : Payloads]
    /\ Images \subseteq [Offsets -> Containers]
    /\ CodeOf \in [Modules -> SUBSET Payloads]
    /\ \A k \in Containers :
          k.header.status = "Ok" => k.header.payload_crc32 \in CodeOf[k.header.module_id]

ASSUME ValuesAssumption ==
    /\ None \notin Modules \cup Offsets \cup Header \cup SlotIdx \cup Payloads
    /\ Torn \notin Payloads \cup {None}
    /\ MaxGen \in Nat
    /\ Faults \subseteq {"fail", "drop", "write"}

VARIABLES
    flash,            \* storage: offset -> container
    resident_module,  \* OverlaySlot::resident_module, per slot
    entry_offset,     \* OverlaySlot::entry_offset
    generation,       \* OverlaySlot::generation
    is_pinned,        \* OverlaySlot::is_pinned
    ram,              \* the bytes at OverlaySlot::ram_addr
    icache,           \* images an instruction fetch at exec_addr may still be served from
    lru_counter,
    op,               \* per caller: where ensure_resident is suspended, and its locals
    ret               \* per caller: what its last call returned

slotVars == <<resident_module, entry_offset, generation, is_pinned>>
memVars == <<ram, icache>>
vars == <<flash, slotVars, memVars, lru_counter, op, ret>>

NoOp == [pc |-> "idle", module_id |-> None, flash_offset |-> None,
         header |-> None, slot |-> None, then_call |-> FALSE]
NoRet == [status |-> "none", module_id |-> None, slot |-> None, ran |-> None]

Errors == HeaderErrors \cup {"Storage", "ModuleNotFound", "InvalidSlotIndex",
                             "SlotTooSmall", "InvalidAlignment", "PayloadCrcMismatch"}

Ok(m, i, code) == [status |-> "Ok", module_id |-> m, slot |-> i, ran |-> code]
Err(e, m) == [status |-> e, module_id |-> m, slot |-> None, ran |-> None]

\* Where a future can be suspended, and what it can return.
Suspension == [pc : {"idle", "header", "stream"},
               module_id : Modules \cup {None}, flash_offset : Offsets \cup {None},
               header : Header \cup {None}, slot : SlotIdx \cup {None},
               then_call : BOOLEAN]
Result == [status : Errors \cup {"none", "Ok"}, module_id : Modules \cup {None},
           slot : SlotIdx \cup {None}, ran : Payloads \cup {Torn, None}]

TypeOK ==
    /\ flash \in [Offsets -> Containers]
    /\ resident_module \in [SlotIdx -> Modules \cup {None}]
    /\ entry_offset \in [SlotIdx -> Nat]
    /\ generation \in [SlotIdx -> Nat]
    /\ is_pinned \in [SlotIdx -> BOOLEAN]
    /\ ram \in [SlotIdx -> Payloads \cup {Torn}]
    /\ icache \in [SlotIdx -> SUBSET (Payloads \cup {Torn})]
    /\ lru_counter \in Nat
    /\ op \in [Callers -> Suspension]
    /\ ret \in [Callers -> Result]

\* OverlaySlot::from_static_slice and OverlayManager::with_sync.
Init ==
    /\ flash \in Images
    /\ resident_module = [i \in SlotIdx |-> None]
    /\ entry_offset = [i \in SlotIdx |-> 0]
    /\ generation = [i \in SlotIdx |-> 0]
    /\ is_pinned = [i \in SlotIdx |-> FALSE]
    /\ ram = [i \in SlotIdx |-> Torn]
    /\ icache = [i \in SlotIdx |-> {}]
    /\ lru_counter = 0
    /\ op = [c \in Callers |-> NoOp]
    /\ ret = [c \in Callers |-> NoRet]

-----------------------------------------------------------------------------
(* The slot table.                                                         *)

\* The bug UniqueResidency excludes: the scan misses the first slot.
FindResidentSlotFromOne(m) == {i \in SlotIdx \ {0} : resident_module[i] = m}

\* find_resident_slot: the first slot that holds m, if any.
FindResidentSlot(m) ==
    {i \in SlotIdx : /\ resident_module[i] = m
                     /\ \A j \in SlotIdx : resident_module[j] = m => i <= j}

IsResident(m) == FindResidentSlot(m) # {}

UnpinnedSlots == {i \in SlotIdx : ~is_pinned[i]}
EmptySlots == {i \in UnpinnedSlots : resident_module[i] = None}

\* The bugs PinnedModulesStay and the refinement exclude: a fallback that
\* forgets the pins, and one that takes the newest slot.
SelectIgnoringPins(i) ==
    \A j \in SlotIdx : generation[i] < generation[j] \/ (generation[i] = generation[j] /\ i <= j)
SelectNewest(i) ==
    i \in UnpinnedSlots /\ \A j \in UnpinnedSlots : generation[i] > generation[j] \/ i = j

\* select_eviction_slot: the first empty unpinned slot, otherwise the first of
\* the unpinned slots with the lowest generation.
SelectEvictionSlot(i) ==
    \/ /\ i \in EmptySlots
       /\ \A j \in EmptySlots : i <= j
    \/ /\ EmptySlots = {}
       /\ i \in UnpinnedSlots
       /\ \A j \in UnpinnedSlots :
             \/ generation[i] < generation[j]
             \/ generation[i] = generation[j] /\ i <= j

\* next_generation; the u64 never wraps within MaxGen uses.
NextGenerationDown == lru_counter - 1
NextGeneration == lru_counter + 1

ValidateThumbAlignment(addr, entry) == addr % 4 = 0 /\ entry % 2 = 0

\* The payload check of ensure_resident: crc32(ram_slice) against the header.
PayloadVerified(header, payload) == payload = header.payload_crc32

\* What a branch to exec_addr runs: a stale line, or what RAM holds.
Fetches(i) == icache[i] \cup {ram[i]}

\* InstructionCacheSync::code_loaded of a hook that fits the core: the whole
\* instruction cache forgets what it held.
CodeLoadedNothing == icache
CodeLoaded == [i \in SlotIdx |-> {}]

\* OverlaySlot::evict forgets the module; generation and pin stay.
EvictSlotOffsetOnly(i) ==
    /\ entry_offset' = [entry_offset EXCEPT ![i] = 0]
    /\ UNCHANGED resident_module
EvictSlot(i) ==
    /\ resident_module' = [resident_module EXCEPT ![i] = None]
    /\ entry_offset' = [entry_offset EXCEPT ![i] = 0]

-----------------------------------------------------------------------------
(* ensure_resident and execute, which is ensure_resident followed by       *)
(* call_typed on the returned slot under the same borrow.                  *)

Return(c, r) ==
    /\ op' = [op EXCEPT ![c] = NoOp]
    /\ ret' = [ret EXCEPT ![c] = r]

\* The jump at the end of call_typed runs x and may leave RAM's bytes cached.
Branch(c, m, i, x) ==
    /\ x \in Fetches(i)
    /\ icache' = [icache EXCEPT ![i] = @ \cup {ram[i]}]
    /\ ret' = [ret EXCEPT ![c] = Ok(m, i, x)]

TouchNothing(i) == UNCHANGED <<generation, lru_counter>>
Touch(i) ==
    /\ lru_counter' = NextGeneration
    /\ generation' = [generation EXCEPT ![i] = NextGeneration]

\* Already resident: no await; execute branches at once.
EnsureHit(c, m, then_call) ==
    /\ op[c].pc = "idle"
    /\ lru_counter < MaxGen
    /\ \E i \in FindResidentSlot(m) :
          /\ Touch(i)
          /\ \/ /\ then_call
                /\ \E x \in Fetches(i) : Branch(c, m, i, x)
             \/ /\ ~then_call
                /\ ret' = [ret EXCEPT ![c] = Ok(m, i, None)]
                /\ UNCHANGED icache
    /\ UNCHANGED <<flash, resident_module, entry_offset, is_pinned, ram, op>>

\* Not resident: suspend on the 32-byte header read.
EnsureMiss(c, m, offset, then_call) ==
    /\ op[c].pc = "idle"
    /\ lru_counter < MaxGen
    /\ ~IsResident(m)
    /\ op' = [op EXCEPT ![c] = [NoOp EXCEPT !.pc = "header", !.module_id = m,
                                            !.flash_offset = offset, !.then_call = then_call]]
    /\ ret' = [ret EXCEPT ![c] = NoRet]
    /\ UNCHANGED <<flash, slotVars, memVars, lru_counter>>

HeaderReadFails(c) ==
    /\ "fail" \in Faults
    /\ op[c].pc = "header"
    /\ Return(c, Err("Storage", op[c].module_id))
    /\ UNCHANGED <<flash, slotVars, memVars, lru_counter>>

\* The header arrives and every check before the second await runs.
HeaderRejected(c, header) ==
    \/ /\ header.status # "Ok"
       /\ Return(c, Err(header.status, op[c].module_id))
    \/ /\ header.status = "Ok"
       /\ header.module_id # op[c].module_id
       /\ Return(c, Err("ModuleNotFound", op[c].module_id))
    \/ /\ header.status = "Ok"
       /\ header.module_id = op[c].module_id
       /\ UnpinnedSlots = {}
       /\ Return(c, Err("InvalidSlotIndex", op[c].module_id))

SlotChosen(c, header, i) ==
    \/ /\ header.code_size > Capacity[i]
       /\ Return(c, Err("SlotTooSmall", op[c].module_id))
    \/ /\ header.code_size <= Capacity[i]
       /\ ~ValidateThumbAlignment(ExecAddr[i], header.entry_offset)
       /\ Return(c, Err("InvalidAlignment", op[c].module_id))
    \/ /\ header.code_size <= Capacity[i]
       /\ ValidateThumbAlignment(ExecAddr[i], header.entry_offset)
       /\ op' = [op EXCEPT ![c] = [@ EXCEPT !.pc = "stream", !.header = header, !.slot = i]]
       /\ UNCHANGED ret

HeaderRead(c) ==
    /\ op[c].pc = "header"
    /\ LET header == flash[op[c].flash_offset].header
       IN  \/ HeaderRejected(c, header)
           \/ /\ header.status = "Ok"
              /\ header.module_id = op[c].module_id
              /\ \E i \in SlotIdx : SelectEvictionSlot(i) /\ SlotChosen(c, header, i)
    /\ UNCHANGED <<flash, slotVars, memVars, lru_counter>>

\* A stream that ends in a driver error or with its future dropped, after none,
\* some or all of the bytes: the slot holds the old bytes or Torn, which stands
\* for every mixture of old and new and for the new image that was never
\* checked, and the slot still says what it said before.
RamInterrupted(i) == ram' = ram \/ ram' = [ram EXCEPT ![i] = Torn]

StreamFails(c) ==
    /\ "fail" \in Faults
    /\ op[c].pc = "stream"
    /\ RamInterrupted(op[c].slot)
    /\ Return(c, Err("Storage", op[c].module_id))
    /\ UNCHANGED <<flash, slotVars, icache, lru_counter>>

DropFuture(c) ==
    /\ "drop" \in Faults
    /\ \/ op[c].pc = "header" /\ UNCHANGED ram
       \/ op[c].pc = "stream" /\ RamInterrupted(op[c].slot)
    /\ Return(c, NoRet)
    /\ UNCHANGED <<flash, slotVars, icache, lru_counter>>

\* The payload is in RAM and its CRC differs from the header's.
StreamCorrupt(c) ==
    /\ op[c].pc = "stream"
    /\ LET payload == flash[op[c].flash_offset].payload
       IN  /\ ~PayloadVerified(op[c].header, payload)
           /\ ram' = [ram EXCEPT ![op[c].slot] = payload]
    /\ EvictSlot(op[c].slot)
    /\ Return(c, Err("PayloadCrcMismatch", op[c].module_id))
    /\ UNCHANGED <<flash, generation, is_pinned, icache, lru_counter>>

\* The payload is in RAM and verified: the hook, the slot's new identity, and
\* for execute the branch into it.
StreamLoaded(c) ==
    /\ op[c].pc = "stream"
    /\ LET payload == flash[op[c].flash_offset].payload
           i == op[c].slot
           m == op[c].module_id
       IN  /\ PayloadVerified(op[c].header, payload)
           /\ ram' = [ram EXCEPT ![i] = payload]
           /\ resident_module' = [resident_module EXCEPT ![i] = m]
           /\ entry_offset' = [entry_offset EXCEPT ![i] = op[c].header.entry_offset]
           /\ Touch(i)
           /\ \/ /\ op[c].then_call
                 /\ \E x \in CodeLoaded[i] \cup {payload} : Return(c, Ok(m, i, x))
                 /\ icache' = [CodeLoaded EXCEPT ![i] = @ \cup {payload}]
              \/ /\ ~op[c].then_call
                 /\ Return(c, Ok(m, i, None))
                 /\ icache' = CodeLoaded
    /\ UNCHANGED <<flash, is_pinned>>

-----------------------------------------------------------------------------
(* The operations without an await.                                        *)

\* evict returns whether it found the module; a pin does not protect from it.
Evict(m) ==
    /\ \E i \in FindResidentSlot(m) : EvictSlot(i)
    /\ UNCHANGED <<flash, generation, is_pinned, memVars, lru_counter, op, ret>>

\* An index past the last slot is InvalidSlotIndex and changes nothing.
PinSlot(i) ==
    /\ is_pinned' = [is_pinned EXCEPT ![i] = TRUE]
    /\ UNCHANGED <<flash, resident_module, entry_offset, generation, memVars, lru_counter, op, ret>>

UnpinSlot(i) ==
    /\ is_pinned' = [is_pinned EXCEPT ![i] = FALSE]
    /\ UNCHANGED <<flash, resident_module, entry_offset, generation, memVars, lru_counter, op, ret>>

\* call_typed checks the slot against the type's module before it branches.
HoldsModuleUnchecked(m, i) == resident_module[i] # None
HoldsModule(m, i) == resident_module[i] = m

CallTyped(c, m, i) ==
    /\ op[c].pc = "idle"
    /\ \/ /\ HoldsModule(m, i)
          /\ \E x \in Fetches(i) : Branch(c, m, i, x)
       \/ /\ ~HoldsModule(m, i)
          /\ ret' = [ret EXCEPT ![c] = Err("ModuleNotFound", m)]
          /\ UNCHANGED icache
    /\ UNCHANGED <<flash, slotVars, ram, lru_counter, op>>

\* call_raw only asks that the slot be occupied.
CallRaw(c, i) ==
    /\ op[c].pc = "idle"
    /\ \/ /\ resident_module[i] # None
          /\ \E x \in Fetches(i) : Branch(c, resident_module[i], i, x)
       \/ /\ resident_module[i] = None
          /\ ret' = [ret EXCEPT ![c] = Err("InvalidSlotIndex", None)]
          /\ UNCHANGED icache
    /\ UNCHANGED <<flash, slotVars, ram, lru_counter, op>>

\* Another owner of the storage replaces a container: SharedStorage locks the
\* bus for one operation at a time, so this falls between the two reads.
Reprogram(offset, container) ==
    /\ "write" \in Faults
    /\ flash' = [flash EXCEPT ![offset] = container]
    /\ UNCHANGED <<slotVars, memVars, lru_counter, op, ret>>

-----------------------------------------------------------------------------
\* The manager's methods take &mut self (call_raw and call_typed &self): while
\* one future holds the borrow, nobody else gets in.
Borrowable == \A c \in Callers : op[c].pc = "idle"

\* The steps of the future that holds the borrow.
Resume(c) ==
    \/ HeaderReadFails(c)
    \/ HeaderRead(c)
    \/ StreamFails(c)
    \/ StreamCorrupt(c)
    \/ StreamLoaded(c)
    \/ DropFuture(c)

Begin(c) ==
    \/ \E m \in Modules, then_call \in BOOLEAN :
          \/ EnsureHit(c, m, then_call)
          \/ \E offset \in Offsets : EnsureMiss(c, m, offset, then_call)
    \/ \E i \in SlotIdx : CallRaw(c, i) \/ \E m \in Modules : CallTyped(c, m, i)

Administer ==
    \/ \E m \in Modules : Evict(m)
    \/ \E i \in SlotIdx : PinSlot(i) \/ UnpinSlot(i)

Storage == \E offset \in Offsets, container \in Containers : Reprogram(offset, container)

Next ==
    \/ \E c \in Callers : Resume(c) \/ (Borrowable /\ Begin(c))
    \/ Borrowable /\ Administer
    \/ Storage

Spec == Init /\ [][Next]_vars

-----------------------------------------------------------------------------
(* Properties.                                                             *)

\* A module is resident in at most one slot, so find_resident_slot, evict and
\* call_typed all speak of the same copy of it.
UniqueResidency ==
    \A i, j \in SlotIdx :
        resident_module[i] # None /\ resident_module[i] = resident_module[j] => i = j

\* Whatever a fetch from a resident slot can be served, RAM or a stale cache
\* line, is a verified build of the module the slot names, but for RAM that an
\* interrupted load left Torn, which is ResidentIntact's subject
\* (ensure_resident: CRC check, then code_loaded, then the slot is marked).
ResidentVerified ==
    \A i \in SlotIdx : \A m \in Modules :
        resident_module[i] = m => Fetches(i) \subseteq CodeOf[m] \cup {Torn}

\* No call runs another module's verified code, nor a stale line, not even
\* through a slot index that has gone stale since ensure_resident returned it;
\* Torn RAM is ResidentIntact's subject.
CallRunsOwnCode ==
    \A c \in Callers :
        ret[c].ran # None => ret[c].ran \in CodeOf[ret[c].module_id] \cup {Torn}

\* Occupied slots have pairwise distinct generations, none ahead of the
\* counter: the LRU scan of select_eviction_slot has one answer.
GenerationOrder ==
    /\ \A i, j \in SlotIdx :
          /\ resident_module[i] # None /\ resident_module[j] # None
          /\ i # j
          => generation[i] # generation[j]
    /\ \A i \in SlotIdx : generation[i] <= lru_counter

\* The module used last is the last to go: a load replaces it only if its slot
\* is the only one that is not pinned.  This is what lets a prefetch go on
\* beside the module that was just called ("Slot A" and "Slot B", pipeline.rs).
LastUsedSpared ==
    \A c \in Callers :
        /\ op[c].pc = "stream"
        /\ resident_module[op[c].slot] # None
        /\ UnpinnedSlots # {op[c].slot}
        => generation[op[c].slot] < lru_counter

\* No load, finished, failed or abandoned, writes into a pinned slot, and only
\* an explicit evict takes a module out of one.
PinnedSlotsKept ==
    \A i \in SlotIdx : is_pinned[i] =>
        /\ ram'[i] = ram[i]
        /\ resident_module'[i] # resident_module[i] =>
              resident_module'[i] = None /\ Evict(resident_module[i])
PinnedModulesStay == [][PinnedSlotsKept]_vars

\* test_overlay_crc_corruption_detection (tests/overlay_tests.rs) asks
\* that a slot is not marked resident over code that is not its module's.  It
\* is stated here of every failed load, and holds only of those that run to
\* the CRC check.
ResidentIntact ==
    \A i \in SlotIdx : \A m \in Modules : resident_module[i] = m => ram[i] \in CodeOf[m]

-----------------------------------------------------------------------------
(* What a suspended ensure_resident may rely on when it is polled again.   *)

\* One future at a time is inside ensure_resident.
OneBorrower == \A c, d \in Callers : op[c].pc # "idle" /\ op[d].pc # "idle" => c = d

\* The module that was absent before the first await is still absent.
AwaitedAbsent ==
    \A c \in Callers : op[c].pc # "idle" =>
        /\ op[c].module_id \in Modules
        /\ op[c].flash_offset \in Offsets
        /\ \A i \in SlotIdx : resident_module[i] # op[c].module_id

\* The header read before the second await is the requested module's, and the
\* slot chosen from it is still the one select_eviction_slot would choose.
StreamPrepared ==
    \A c \in Callers : op[c].pc = "stream" =>
        /\ op[c].header \in Header
        /\ op[c].header.status = "Ok"
        /\ op[c].header.module_id = op[c].module_id
        /\ op[c].header.payload_crc32 \in CodeOf[op[c].module_id]
        /\ op[c].slot \in SlotIdx
        /\ SelectEvictionSlot(op[c].slot)

\* The inductive invariant: TypeOK and the safety properties lean on what the
\* suspended future relies on, and it on them.
IInv ==
    /\ TypeOK
    /\ OneBorrower
    /\ AwaitedAbsent
    /\ StreamPrepared
    /\ UniqueResidency
    /\ ResidentVerified
    /\ CallRunsOwnCode
    /\ GenerationOrder

-----------------------------------------------------------------------------
(* The cache the manager implements.                                       *)

ContentOf(m) == IF IsResident(m) THEN ram[CHOOSE i \in FindResidentSlot(m) : TRUE] ELSE None

\* Pairs of modules of which the first was used before the second.
UsedBefore == {<<resident_module[s[1]], resident_module[s[2]]>> :
    s \in {t \in SlotIdx \X SlotIdx : /\ resident_module[t[1]] # None
                                     /\ resident_module[t[2]] # None
                                     /\ generation[t[1]] < generation[t[2]]}}

Cache == INSTANCE OverlayCache WITH
    Absent <- None,
    content <- [m \in Modules |-> ContentOf(m)],
    pinned <- {resident_module[i] : i \in SlotIdx \ UnpinnedSlots} \ {None},
    older <- UsedBefore,
    room <- EmptySlots # {}

\* The slot table with its generations behaves as the abstract cache: every
\* replacement takes the least recently used unpinned module and only when no
\* unpinned slot is empty, a hit counts as a use, a failed verification costs
\* exactly the replaced module, and nothing unverified is installed.
CacheSpec == Cache!Spec

=============================================================================
