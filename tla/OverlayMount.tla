----------------------------- MODULE OverlayMount -----------------------------
(***************************************************************************)
(* How the engine's registry is filled: mount and register_module of       *)
(* src/src/embassy/engine.rs over the images of overlay-packer.            *)
(*                                                                         *)
(* An image is the records in it: the address of a record, and what a read *)
(* there decodes to.  Code bytes are left out, their sizes and alignment   *)
(* are kept.  mount has &mut self, so one future at a time is inside it;   *)
(* every storage read is an await.                                         *)
(***************************************************************************)
EXTENDS Naturals, Sequences

CONSTANTS
    Modules,        \* module ids
    MAX_MODULES,
    Images,         \* what storage may hold
    Offsets,        \* what callers of register_module pass
    Faults,         \* "read": a read of a directory fails, "walk": one of a walk over
                    \* containers; "drop": the mount future is dropped
    None

HEADER_SIZE == 32
DIR_ENTRY_SIZE == 16

\* (n + 3) & !3
AlignUp(n) == ((n + 3) \div 4) * 4

\* A record that is not intact has a wrong checksum or version.
DirRecord(n, intact) == [kind |-> "dir", entry_count |-> n, intact |-> intact]
EntryRecord(m, o) == [kind |-> "entry", module_id |-> m, flash_offset |-> o]
HeaderRecord(m, n, intact) ==
    [kind |-> "header", module_id |-> m, code_size |-> n, intact |-> intact]
Blank == [kind |-> "blank"]

-----------------------------------------------------------------------------
(* The packers.  packed lists the overlays: [module_id, code_size].        *)

\* Where auto_pack lays the containers: it pads each up to four bytes.
Starts(packed, start) ==
    LET at[k \in DOMAIN packed] ==
            IF k = 1 THEN AlignUp(start)
            ELSE AlignUp(at[k - 1] + HEADER_SIZE + packed[k - 1].code_size)
    IN  at

End(packed, at) ==
    LET n == Len(packed) IN at[n] + HEADER_SIZE + packed[n].code_size

Containers(packed, at, damaged) ==
    [a \in {at[k] : k \in DOMAIN packed} |->
        LET k == CHOOSE k \in DOMAIN packed : at[k] = a
        IN  HeaderRecord(packed[k].module_id, packed[k].code_size, a # damaged)]

EntryAt(k) == HEADER_SIZE + (k - 1) * DIR_ENTRY_SIZE

\* auto_pack: directory header, index, containers, at offsets from the image's start.
AutoPack(packed, damaged) ==
    LET n == Len(packed)
        at == Starts(packed, EntryAt(n + 1))
        containers == Containers(packed, at, damaged)
        index == {EntryAt(k) : k \in 1 .. n}
    IN  [packed |-> packed, at |-> at, end |-> End(packed, at),
         records |-> [a \in {0} \cup index \cup DOMAIN containers |->
            IF a = 0 THEN DirRecord(n, damaged # 0)
            ELSE IF a \in index
                 THEN LET k == CHOOSE k \in 1 .. n : EntryAt(k) = a
                      IN  EntryRecord(packed[k].module_id, at[k])
            ELSE containers[a]]]

\* pack_overlay's containers in a row, each programmed where the integrator
\* wants it.  The packer writes no padding behind the code.
Sequential(packed, at, damaged) ==
    [packed |-> packed, at |-> at, end |-> End(packed, at),
     records |-> Containers(packed, at, damaged)]

\* Its files one behind the other, as they are.
Concatenated(packed) ==
    LET at[k \in DOMAIN packed] ==
            IF k = 1 THEN 0 ELSE at[k - 1] + HEADER_SIZE + packed[k - 1].code_size
    IN  at

\* A row starts with its image, and no container overlaps another.
InRow(packed, at) ==
    /\ at \in [DOMAIN packed -> Nat] /\ at[1] = 0
    /\ \A j, k \in DOMAIN packed : j < k => at[j] + HEADER_SIZE + packed[j].code_size <= at[k]

\* The image programmed at an address, in a chip that ends spare bytes after it.
Place(image, base, spare) ==
    [packed |-> image.packed, at |-> image.at, base |-> base, capacity |-> base + image.end + spare,
     records |-> [a \in {base + r : r \in DOMAIN image.records} |-> image.records[a - base]]]

-----------------------------------------------------------------------------
VARIABLES
    flash,      \* the placed image
    registry,   \* the occupied prefix of the array of registrations
    mount,      \* where mount is suspended, and its locals
    ret         \* what the last mount returned, and, which it does not return,
                \* whether a read error cut its walk short

vars == <<flash, registry, mount, ret>>

Registrations == [module_id : Modules, flash_offset : Nat]
NoResult == [status |-> "none", count |-> 0, walk |-> "whole"]
NotMounting == [pc |-> "idle", entry_count |-> 0, offset |-> 0, discovered |-> <<>>]

ASSUME MountAssumption ==
    /\ MAX_MODULES \in Nat /\ Offsets \subseteq Nat
    /\ Faults \subseteq {"read", "walk", "drop"} /\ None \notin Modules \cup Nat

\* Storage holds a directory image or a row of containers, intact or with one
\* record of it damaged, or nothing.
Holds(image, layout) ==
    /\ image.packed # <<>> /\ image.at = layout.at
    /\ image.records = Place(layout, image.base, 0).records
    /\ image.base + layout.end <= image.capacity

ASSUME ImagesAssumption ==
    \A image \in Images :
        /\ image.base \in Nat /\ image.capacity \in Nat
        /\ image.packed \in Seq([module_id : Modules, code_size : Nat])
        /\ \/ image.packed = <<>> /\ DOMAIN image.records = {}
           \/ \E damaged \in {None} \cup {a - image.base : a \in DOMAIN image.records} :
                \/ Holds(image, AutoPack(image.packed, damaged))
                \/ /\ InRow(image.packed, image.at)
                   /\ Holds(image, Sequential(image.packed, image.at, damaged))

TypeOK ==
    /\ registry \in Seq(Registrations) /\ Len(registry) <= MAX_MODULES
    /\ mount \in [pc : {"idle", "first", "entry", "next"}, entry_count : Nat, offset : Nat,
                  discovered : Seq(Registrations)]
    /\ Len(mount.discovered) <= MAX_MODULES
    /\ ret \in [status : {"none", "Ok", "Storage", "InvalidMagic", "HeaderChecksumMismatch",
                          "UnsupportedVersion"},
                count : 0 .. MAX_MODULES, walk : {"whole", "cut"}]

Init ==
    /\ flash \in Images
    /\ registry = <<>>
    /\ mount = NotMounting
    /\ ret = NoResult

\* A record is read where it starts.  No other address decodes to one: those
\* the walk tries lie at most three bytes behind a container's end, in the next
\* header or before it.
Read(a) == IF a \in DOMAIN flash.records THEN flash.records[a] ELSE Blank
Readable(a, size) == a + size <= flash.capacity

-----------------------------------------------------------------------------
(* The registry.                                                           *)

\* register_module: the entry of that module, else the first free one.
RegisterAppends(reg, r) ==
    IF Len(reg.entries) < MAX_MODULES THEN [reg EXCEPT !.entries = Append(@, r)]
    ELSE [reg EXCEPT !.full = TRUE]
RegisterUnbounded(reg, r) ==
    IF \E k \in DOMAIN reg.entries : reg.entries[k].module_id = r.module_id THEN reg
    ELSE [reg EXCEPT !.entries = Append(@, r)]
Register(reg, r) ==
    IF \E k \in DOMAIN reg.entries : reg.entries[k].module_id = r.module_id
    THEN [reg EXCEPT !.entries =
            [k \in DOMAIN @ |-> IF @[k].module_id = r.module_id THEN r ELSE @[k]]]
    ELSE IF Len(reg.entries) < MAX_MODULES THEN [reg EXCEPT !.entries = Append(@, r)]
    ELSE [reg EXCEPT !.full = TRUE]

\* One after the other, up to the first that finds the registry full.
RegisterAll(list) ==
    LET after[k \in 0 .. Len(list)] ==
            IF k = 0 THEN [entries |-> registry, full |-> FALSE]
            ELSE IF after[k - 1].full THEN after[k - 1]
            ELSE Register(after[k - 1], list[k])
    IN  after[Len(list)]

FindOffset(reg, m) ==
    LET found == {k \in DOMAIN reg : reg[k].module_id = m}
    IN  IF found = {} THEN None
        ELSE reg[CHOOSE k \in found : \A j \in found : k <= j].flash_offset

-----------------------------------------------------------------------------
(* mount.                                                                  *)

Suspend(pc, offset, count, discovered) ==
    /\ mount' = [pc |-> pc, entry_count |-> count, offset |-> offset, discovered |-> discovered]
    /\ UNCHANGED <<flash, registry, ret>>

FailKeepsDiscovered(status) ==
    /\ registry' = RegisterAll(mount.discovered).entries
    /\ mount' = NotMounting
    /\ ret' = [NoResult EXCEPT !.status = status]
    /\ UNCHANGED flash

Fail(status) ==
    /\ mount' = NotMounting
    /\ ret' = [NoResult EXCEPT !.status = status]
    /\ UNCHANGED <<flash, registry>>

\* The registration loop after discovery, and the return.
Conclude(discovered, walk) ==
    LET reg == RegisterAll(discovered)
    IN  /\ registry' = reg.entries
        /\ ret' = IF reg.full THEN [status |-> "Storage", count |-> 0, walk |-> walk]
                  ELSE [status |-> "Ok", count |-> Len(discovered), walk |-> walk]
        /\ mount' = NotMounting
        /\ UNCHANGED flash

Mount == mount.pc = "idle" /\ Suspend("first", flash.base, 0, <<>>)

\* A read that fails where mount passes the error on.
ReadFails ==
    /\ \/ mount.pc = "first" /\ ~Readable(mount.offset, HEADER_SIZE)
       \/ mount.pc = "entry" /\ ~Readable(mount.offset, DIR_ENTRY_SIZE)
       \/ mount.pc \in {"first", "entry"} /\ "read" \in Faults
    /\ Fail("Storage")

\* One that fails while it walks containers ends the walk, beyond the end of
\* the chip or before it.
WalkReadFails ==
    /\ mount.pc = "next"
    /\ \/ ~Readable(mount.offset, HEADER_SIZE) /\ Conclude(mount.discovered, "whole")
       \/ /\ "walk" \in Faults /\ Readable(mount.offset, HEADER_SIZE)
          /\ Conclude(mount.discovered, "cut")

\* The container at a joins the list, and the walk reads on behind it.
NextStepUnaligned(header) == HEADER_SIZE + header.code_size
NextStep(header) == AlignUp(HEADER_SIZE + header.code_size)
Discover(a, header) ==
    Suspend("next", a + NextStep(header), 0,
            Append(mount.discovered, [module_id |-> header.module_id, flash_offset |-> a]))

FirstRead ==
    /\ mount.pc = "first"
    /\ Readable(mount.offset, HEADER_SIZE)
    /\ LET record == Read(mount.offset)
       IN  \/ /\ record.kind = "dir" /\ ~record.intact
              /\ Fail("HeaderChecksumMismatch") \/ Fail("UnsupportedVersion")
           \/ /\ record.kind = "dir" /\ record.intact
              /\ IF record.entry_count = 0 \/ MAX_MODULES = 0 THEN Conclude(<<>>, "whole")
                 ELSE Suspend("entry", mount.offset + HEADER_SIZE, record.entry_count, <<>>)
           \/ /\ record.kind = "header"
              /\ IF ~record.intact \/ MAX_MODULES = 0 THEN Conclude(<<>>, "whole")
                 ELSE Discover(mount.offset, record)
           \/ record.kind \notin {"dir", "header"} /\ Fail("InvalidMagic")

\* An index entry carries no check of its own.
EntryRead ==
    /\ mount.pc = "entry"
    /\ Readable(mount.offset, DIR_ENTRY_SIZE)
    /\ LET entry == Read(mount.offset)
           discovered == Append(mount.discovered,
               [module_id |-> entry.module_id, flash_offset |-> entry.flash_offset])
       IN  IF Len(discovered) = mount.entry_count \/ Len(discovered) = MAX_MODULES
           THEN Conclude(discovered, "whole")
           ELSE Suspend("entry", mount.offset + DIR_ENTRY_SIZE, mount.entry_count, discovered)

\* The header behind a container is read even when the list is full already.
NextRead ==
    /\ mount.pc = "next"
    /\ Readable(mount.offset, HEADER_SIZE)
    /\ LET record == Read(mount.offset)
       IN  IF record.kind = "header" /\ Len(mount.discovered) < MAX_MODULES
               /\ record.intact
           THEN Discover(mount.offset, record)
           ELSE Conclude(mount.discovered, "whole")

DropMount ==
    /\ "drop" \in Faults
    /\ mount.pc # "idle"
    /\ mount' = NotMounting
    /\ ret' = NoResult
    /\ UNCHANGED <<flash, registry>>

\* register_module from outside; a full registry refuses a new module.
RegisterModule(m, offset) ==
    /\ mount.pc = "idle"
    /\ registry' = RegisterAll(<<[module_id |-> m, flash_offset |-> offset]>>).entries
    /\ UNCHANGED <<flash, mount, ret>>

Next ==
    \/ Mount
    \/ FirstRead \/ EntryRead \/ NextRead
    \/ ReadFails \/ WalkReadFails \/ DropMount
    \/ \E m \in Modules, offset \in Offsets : RegisterModule(m, offset)

Spec == Init /\ [][Next]_vars

-----------------------------------------------------------------------------
(* Properties.                                                             *)

Ends == mount.pc # "idle" /\ mount'.pc = "idle"

\* Whether the registry sends m to a container of m.
Located(reg, m) ==
    LET o == FindOffset(reg, m)
    IN  o # None /\ Read(o).kind = "header" /\ Read(o).module_id = m

Undamaged == \A a \in DOMAIN flash.records :
    flash.records[a].kind # "entry" => flash.records[a].intact

\* The overlays mount comes to: the entries of a directory; in a row, containers
\* with intact headers, each where the step from the one before it leads.
WalkReaches(k) ==
    \A j \in 1 .. k :
        /\ Read(flash.base + flash.at[j]).intact
        /\ j < k => flash.at[j + 1] =
                       flash.at[j] + AlignUp(HEADER_SIZE + flash.packed[j].code_size)
Reached(k) == k <= MAX_MODULES /\ (Read(flash.base).kind = "dir" \/ WalkReaches(k))

\* The offsets of a directory count from its start, registrations from the
\* start of storage.
OffsetsResolve == Read(flash.base).kind = "dir" => flash.base = 0

\* What an Ok of mount means: the registry finds the first count overlays where
\* their containers lie, and these are all that mount comes to, or fewer only
\* because a read error cut the walk short.  In a row of pack_overlay's files
\* everything behind the first container of unaligned size is lost with Ok,
\* unless the integrator pads it; so is what lies behind a read error.
ReachedModulesFound ==
    [][Ends /\ ret'.status = "Ok" =>
          /\ ret'.count <= Len(flash.packed)
          /\ \A k \in DOMAIN flash.packed :
                /\ k <= ret'.count =>
                      /\ Reached(k)
                      /\ OffsetsResolve => Located(registry', flash.packed[k].module_id)
                /\ Reached(k) => k <= ret'.count \/ ret'.walk = "cut"]_vars

\* "Automatically mounts and discovers all overlays starting at base_offset in
\* storage" (mount): after an Ok, every overlay of an undamaged image that fits
\* the registry is found where its container lies.
MountedModulesFound ==
    [][Ends /\ ret'.status = "Ok" /\ Undamaged =>
          \A k \in DOMAIN flash.packed :
              k <= MAX_MODULES => Located(registry', flash.packed[k].module_id)]_vars

\* A mount that is dropped or fails leaves the registry as it was, unless what
\* failed is the registry itself, full after all reads succeeded.
FailedMountKeepsRegistry ==
    [][Ends /\ ret'.status # "Ok" => registry' = registry \/ Len(registry') = MAX_MODULES]_vars

\* A module is registered once, so that find_offset, the duplicates in a
\* directory and a later register_module all mean the same entry.
RegisteredOnce ==
    \A j, k \in DOMAIN registry : registry[j].module_id = registry[k].module_id => j = k

=============================================================================
