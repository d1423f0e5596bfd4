---------------------------- MODULE LruSectorCache ----------------------------
(***************************************************************************)
(* src/src/vfs/cache.rs: whole sectors of storage kept in SRAM.            *)
(*                                                                         *)
(* get_or_load has one await, the sector read; its locals are load.  The   *)
(* read that breaks off, by an error or a dropped future, is one action.   *)
(***************************************************************************)
EXTENDS Naturals

CONSTANTS
    SECTORS,      \* const generic SECTORS: entries in the cache
    SectorIds,    \* sector ids callers ask for
    Bases,        \* flash_base_addr values callers pass, in sectors
    Values,       \* contents of a sector
    Garbled,      \* the content of a sector buffer after a broken-off read
    Faults,       \* {"read"} when reads may break off
    MaxUses,      \* bound: no lookup starts once lru_counter is here
    None

Entries == 0 .. SECTORS - 1

ASSUME CacheAssumption ==
    /\ SECTORS \in Nat \ {0}
    /\ SectorIds \subseteq Nat /\ Bases \subseteq Nat
    /\ Garbled \notin Values /\ None # Garbled
    /\ None \notin Values /\ None \notin SectorIds /\ None \notin Bases
    /\ MaxUses \in Nat /\ Faults \subseteq {"read"}

\* Storage addresses in units of SECTOR_SIZE.
Sectors == {b + s : b \in Bases, s \in SectorIds}

VARIABLES
    storage,       \* what the flash holds; nobody writes it while it is cached
    sector_id,     \* CacheEntry::sector_id, per entry
    generation,    \* CacheEntry::generation
    data,          \* CacheEntry::data
    lru_counter,
    load,          \* the lookup suspended on its read, or None
    got,           \* what the last lookup returned
    doubtful       \* history: sectors whose entry a read that broke off was to
                   \* replace, until they are loaded again

vars == <<storage, sector_id, generation, data, lru_counter, load, got, doubtful>>

Lookup == [sector : SectorIds, base : Bases, entry : Entries]
Nothing == [sector |-> None, base |-> None, value |-> None]

TypeOK ==
    /\ storage \in [Sectors -> Values]
    /\ sector_id \in [Entries -> SectorIds \cup {None}]
    /\ generation \in [Entries -> Nat]
    /\ data \in [Entries -> Values \cup {Garbled}]
    /\ lru_counter \in Nat
    /\ \A e \in Entries : generation[e] <= lru_counter
    /\ load \in Lookup \cup {None}
    /\ doubtful \subseteq SectorIds
    /\ got \in [sector : SectorIds \cup {None}, base : Bases \cup {None},
                value : Values \cup {Garbled, None}]

\* LruSectorCache::new; its buffers are zeroed, which no entry shows.
Init ==
    /\ storage \in [Sectors -> Values]
    /\ sector_id = [e \in Entries |-> None]
    /\ generation = [e \in Entries |-> 0]
    /\ data = [e \in Entries |-> Garbled]
    /\ lru_counter = 0
    /\ load = None
    /\ got = Nothing
    /\ doubtful = {}

HoldsFromOne(s) == {e \in Entries \ {0} : sector_id[e] = s}
Holds(s) == {e \in Entries : sector_id[e] = s}
First(E) == {e \in E : \A f \in E : e <= f}

\* The entry a miss loads into: the first empty one, else the first of the
\* lowest generation.
TargetNewest == {e \in Entries : \A f \in Entries : generation[f] <= generation[e]}
Target ==
    IF Holds(None) # {} THEN First(Holds(None))
    ELSE First({e \in Entries : \A f \in Entries : generation[e] <= generation[f]})

UseUncounted(e) ==
    /\ UNCHANGED lru_counter
    /\ generation' = [generation EXCEPT ![e] = lru_counter + 1]
Use(e) ==
    /\ lru_counter' = lru_counter + 1
    /\ generation' = [generation EXCEPT ![e] = lru_counter + 1]

\* get, and get_or_load of a cached sector.  The base plays no part in it.
Hit(s, base) ==
    /\ load = None
    /\ lru_counter < MaxUses
    /\ \E e \in First(Holds(s)) :
          /\ Use(e)
          /\ got' = [sector |-> s, base |-> base, value |-> data[e]]
    /\ UNCHANGED <<storage, sector_id, data, load, doubtful>>

\* get_or_load of any other sector, up to its await.
Miss(s, base) ==
    /\ load = None
    /\ lru_counter < MaxUses
    /\ Holds(s) = {}
    /\ \E e \in Target : load' = [sector |-> s, base |-> base, entry |-> e]
    /\ UNCHANGED <<storage, sector_id, generation, data, lru_counter, got, doubtful>>

Name(e, s) == sector_id' = [sector_id EXCEPT ![e] = s]

Loaded ==
    /\ load # None
    /\ LET value == storage[load.base + load.sector]
       IN  /\ data' = [data EXCEPT ![load.entry] = value]
           /\ got' = [sector |-> load.sector, base |-> load.base, value |-> value]
    /\ Name(load.entry, load.sector)
    /\ Use(load.entry)
    /\ load' = None
    /\ doubtful' = doubtful \ {load.sector}
    /\ UNCHANGED storage

\* A read that broke off has delivered nothing, a part of the sector or all of it.
Overwritten ==
    \E bytes \in {data[load.entry], Garbled, storage[load.base + load.sector]} :
        data' = [data EXCEPT ![load.entry] = bytes]

\* The bug LookupReturnsSector excludes: the entry is named before its read.
LoadFailsNamed ==
    /\ "read" \in Faults
    /\ load # None
    /\ Overwritten
    /\ Name(load.entry, load.sector)
    /\ load' = None
    /\ doubtful' = doubtful \cup ({sector_id[load.entry]} \ {None})
    /\ UNCHANGED <<storage, generation, lru_counter, got>>

\* The buffer may be overwritten; the entry still names its old sector.
LoadFails ==
    /\ "read" \in Faults
    /\ load # None
    /\ Overwritten
    /\ load' = None
    /\ doubtful' = doubtful \cup ({sector_id[load.entry]} \ {None})
    /\ UNCHANGED <<storage, sector_id, generation, lru_counter, got>>

Clear ==
    /\ load = None
    /\ sector_id' = [e \in Entries |-> None]
    /\ generation' = [e \in Entries |-> 0]
    /\ UNCHANGED <<storage, data, lru_counter, load, got, doubtful>>

Next ==
    \/ \E s \in SectorIds, base \in Bases : Hit(s, base) \/ Miss(s, base)
    \/ Loaded
    \/ LoadFails
    \/ Clear

Spec == Init /\ [][Next]_vars

-----------------------------------------------------------------------------
(* Properties.                                                             *)

\* A sector is cached once, so a hit and the next miss agree on its copy.
SectorOnce ==
    \A e, f \in Entries : sector_id[e] # None /\ sector_id[e] = sector_id[f] => e = f

\* If every lookup uses one base, a lookup returns the asked-for sector's bytes
\* ("Fetches a sector, reading it into the cache from storage on cache miss"),
\* across hits, replacements, clears and reads that break off.  One that broke
\* off costs this only of the sector whose entry it was to replace, and only
\* until that sector is loaded again.
LookupReturnsSector ==
    got.value # None /\ got.sector \notin doubtful =>
        got.value = storage[got.base + got.sector]

\* LRU, across hits, misses, failed reads and clears: with two entries or more,
\* the sector looked up last is still cached when the next read ends.
LastUsedSurvives ==
    [][SECTORS >= 2 /\ load # None /\ load' = None =>
          \A e \in Entries : sector_id[e] # None /\ sector_id[e] = got.sector =>
              sector_id'[e] = sector_id[e] /\ data'[e] = data[e]]_vars

=============================================================================
