------------------------- MODULE LruSectorCacheProofs -------------------------
(***************************************************************************)
(* The sector cache caches a sector once, replaces the sector looked up    *)
(* last only if it must, and, used with one base, returns what the storage *)
(* holds: for any number of entries, sectors, lookups and broken-off reads.*)
(***************************************************************************)
EXTENDS LruSectorCache, TLAPS

-----------------------------------------------------------------------------
(* The invariant.                                                          *)

\* The sector a lookup waits for is still missing, and the entry it will be
\* read into is still the one a miss would choose.
LoadPrepared == load # None => Holds(load.sector) = {} /\ load.entry \in Target

\* Entries in use are ordered by their last use.
UsesDistinct ==
    \A e, f \in Entries :
        sector_id[e] # None /\ sector_id[f] # None /\ generation[e] = generation[f] => e = f

\* The sector looked up last, where it is still cached, was used last.
LastUse ==
    \A e \in Entries :
        sector_id[e] # None /\ sector_id[e] = got.sector => generation[e] = lru_counter

CacheInv == TypeOK /\ SectorOnce /\ LoadPrepared /\ UsesDistinct /\ LastUse

LEMMA EntryType ==
    ASSUME TypeOK, NEW e \in Entries
    PROVE  /\ generation[e] \in Nat /\ lru_counter \in Nat /\ generation[e] <= lru_counter
           /\ sector_id[e] \in SectorIds \cup {None}
           /\ data[e] \in Values \cup {Garbled}
BY DEF TypeOK

\* One use gives an entry the highest generation.
LEMMA UseStep ==
    ASSUME TypeOK, NEW e \in Entries, Use(e)
    PROVE  /\ lru_counter' \in Nat /\ lru_counter' = lru_counter + 1
           /\ generation' \in [Entries -> Nat]
           /\ generation'[e] = lru_counter'
           /\ \A f \in Entries \ {e} : generation'[f] = generation[f] /\ generation'[f] < lru_counter'
           /\ \A f \in Entries : generation'[f] <= lru_counter'
<1>1. lru_counter \in Nat /\ generation \in [Entries -> Nat]
      /\ \A f \in Entries : generation[f] \in Nat /\ generation[f] <= lru_counter
  BY DEF TypeOK
<1>2. lru_counter' = lru_counter + 1 /\ generation' = [generation EXCEPT ![e] = lru_counter + 1]
  BY DEF Use
<1>3. \A f \in Entries \ {e} : generation'[f] = generation[f] /\ generation'[f] < lru_counter'
  BY <1>1, <1>2
<1>4. generation'[e] = lru_counter' /\ generation' \in [Entries -> Nat] /\ lru_counter' \in Nat
  BY <1>1, <1>2
<1>5. \A f \in Entries : generation'[f] <= lru_counter'
  BY <1>3, <1>4
<1>6. QED
  BY <1>2, <1>3, <1>4, <1>5

-----------------------------------------------------------------------------
(* The actions.                                                            *)

LEMMA HitKeeps ==
    ASSUME CacheInv, NEW s \in SectorIds, NEW base \in Bases, Hit(s, base)
    PROVE  CacheInv'
<1>1. PICK e \in First(Holds(s)) :
         /\ Use(e)
         /\ got' = [sector |-> s, base |-> base, value |-> data[e]]
  BY DEF Hit
<1>2. e \in Entries /\ sector_id[e] = s /\ s # None
  BY CacheAssumption DEF First, Holds
<1>3. load = None /\ UNCHANGED <<storage, sector_id, data, load, doubtful>>
  BY DEF Hit
<1>4. /\ lru_counter' \in Nat /\ lru_counter' = lru_counter + 1
      /\ generation' \in [Entries -> Nat]
      /\ generation'[e] = lru_counter'
      /\ \A f \in Entries \ {e} : generation'[f] = generation[f] /\ generation'[f] < lru_counter'
      /\ \A f \in Entries : generation'[f] <= lru_counter'
  BY <1>1, <1>2, UseStep DEF CacheInv
<1>5. \A f \in Entries \ {e} : sector_id[f] # s
  BY <1>2 DEF CacheInv, SectorOnce
<1>6. TypeOK'
  <2>1. got' \in [sector : SectorIds \cup {None}, base : Bases \cup {None},
                  value : Values \cup {Garbled, None}]
    BY <1>1, <1>2, EntryType DEF CacheInv
  <2>2. QED
    BY <1>3, <1>4, <2>1 DEF CacheInv, TypeOK
<1>7. UsesDistinct'
  <2> SUFFICES ASSUME NEW f \in Entries, NEW g \in Entries,
                      sector_id[f] # None, sector_id[g] # None, generation'[f] = generation'[g]
               PROVE  f = g
    BY <1>3 DEF UsesDistinct
  <2>1. CASE f = e \/ g = e
    BY <1>4, <2>1
  <2>2. CASE f # e /\ g # e
    BY <1>4, <2>2 DEF CacheInv, UsesDistinct
  <2>3. QED
    BY <2>1, <2>2
<1>8. LastUse'
  BY <1>1, <1>3, <1>4, <1>5 DEF LastUse
<1>9. SectorOnce' /\ LoadPrepared'
  BY <1>3 DEF CacheInv, SectorOnce, LoadPrepared
<1>10. QED
  BY <1>6, <1>7, <1>8, <1>9 DEF CacheInv

\* While a lookup waits nothing else happens, so its choice stands.
LEMMA MissKeeps ==
    ASSUME CacheInv, NEW s \in SectorIds, NEW base \in Bases, Miss(s, base)
    PROVE  CacheInv'
<1>1. PICK e \in Target : load' = [sector |-> s, base |-> base, entry |-> e]
  BY DEF Miss
<1>2. e \in Entries
  BY DEF Target, First, Holds
<1>3. Holds(s) = {} /\ UNCHANGED <<storage, sector_id, generation, data, lru_counter, got, doubtful>>
  BY DEF Miss
<1>4. TypeOK'
  BY <1>1, <1>2, <1>3 DEF CacheInv, TypeOK, Lookup
<1>5. LoadPrepared'
  BY <1>1, <1>3 DEF LoadPrepared, Holds, Target, First
<1>6. SectorOnce' /\ UsesDistinct' /\ LastUse'
  BY <1>3 DEF CacheInv, SectorOnce, UsesDistinct, LastUse
<1>7. QED
  BY <1>4, <1>5, <1>6 DEF CacheInv

LEMMA LoadType ==
    ASSUME TypeOK, load # None
    PROVE  /\ load.sector \in SectorIds /\ load.base \in Bases /\ load.entry \in Entries
           /\ load.sector # None
           /\ storage[load.base + load.sector] \in Values
<1>1. load \in Lookup
  BY DEF TypeOK
<1>2. load.sector \in SectorIds /\ load.base \in Bases /\ load.entry \in Entries
  BY <1>1 DEF Lookup
<1>3. load.base + load.sector \in Sectors
  BY <1>2 DEF Sectors
<1>4. QED
  BY <1>2, <1>3, CacheAssumption DEF TypeOK

LEMMA LoadedKeeps ==
    ASSUME CacheInv, Loaded
    PROVE  CacheInv'
<1> DEFINE s == load.sector
           e == load.entry
           value == storage[load.base + load.sector]
<1>1. load # None
  BY DEF Loaded
<1>2. s \in SectorIds /\ load.base \in Bases /\ e \in Entries /\ s # None /\ value \in Values
  BY <1>1, LoadType DEF CacheInv
<1>3. /\ data' = [data EXCEPT ![e] = value]
      /\ got' = [sector |-> s, base |-> load.base, value |-> value]
      /\ sector_id' = [sector_id EXCEPT ![e] = s]
      /\ Use(e) /\ load' = None /\ UNCHANGED storage /\ doubtful' = doubtful \ {s}
  BY DEF Loaded, Name
<1>4. \A f \in Entries : sector_id[f] # s
  BY <1>1 DEF CacheInv, LoadPrepared, Holds
<1> HIDE DEF s, e, value
<1>5. /\ lru_counter' \in Nat /\ lru_counter' = lru_counter + 1
      /\ generation' \in [Entries -> Nat]
      /\ generation'[e] = lru_counter'
      /\ \A f \in Entries \ {e} : generation'[f] = generation[f] /\ generation'[f] < lru_counter'
      /\ \A f \in Entries : generation'[f] <= lru_counter'
  BY <1>2, <1>3, UseStep DEF CacheInv
<1>6. /\ sector_id' \in [Entries -> SectorIds \cup {None}]
      /\ sector_id'[e] = s
      /\ \A f \in Entries \ {e} : sector_id'[f] = sector_id[f]
  BY <1>2, <1>3 DEF CacheInv, TypeOK
<1>7. TypeOK'
  <2>1. data' \in [Entries -> Values \cup {Garbled}]
    BY <1>2, <1>3 DEF CacheInv, TypeOK
  <2>2. got' \in [sector : SectorIds \cup {None}, base : Bases \cup {None},
                  value : Values \cup {Garbled, None}]
    BY <1>2, <1>3
  <2>3. QED
    BY <1>3, <1>5, <1>6, <2>1, <2>2 DEF CacheInv, TypeOK
<1>8. SectorOnce'
  BY <1>4, <1>6 DEF CacheInv, SectorOnce
<1>9. UsesDistinct'
  <2> SUFFICES ASSUME NEW f \in Entries, NEW g \in Entries,
                      sector_id'[f] # None, sector_id'[g] # None, generation'[f] = generation'[g]
               PROVE  f = g
    BY DEF UsesDistinct
  <2>1. CASE f = e \/ g = e
    BY <1>5, <2>1
  <2>2. CASE f # e /\ g # e
    BY <1>5, <1>6, <2>2 DEF CacheInv, UsesDistinct
  <2>3. QED
    BY <2>1, <2>2
<1>10. LastUse'
  BY <1>3, <1>4, <1>5, <1>6 DEF LastUse
<1>11. LoadPrepared'
  BY <1>3 DEF LoadPrepared
<1>12. QED
  BY <1>7, <1>8, <1>9, <1>10, <1>11 DEF CacheInv

LEMMA LoadFailsKeeps ==
    ASSUME CacheInv, LoadFails
    PROVE  CacheInv'
<1>1. /\ load # None /\ load' = None
      /\ doubtful' = doubtful \cup ({sector_id[load.entry]} \ {None})
      /\ UNCHANGED <<storage, sector_id, generation, lru_counter, got>>
  BY DEF LoadFails
<1>2. TypeOK'
  <2>1. load.entry \in Entries /\ storage[load.base + load.sector] \in Values
    BY <1>1, LoadType DEF CacheInv
  <2>2. data' \in [Entries -> Values \cup {Garbled}]
    BY <2>1 DEF LoadFails, Overwritten, CacheInv, TypeOK
  <2>3. doubtful' \subseteq SectorIds
    BY <1>1, <2>1 DEF CacheInv, TypeOK
  <2>4. QED
    BY <1>1, <2>2, <2>3 DEF CacheInv, TypeOK
<1>3. QED
  BY <1>1, <1>2 DEF CacheInv, SectorOnce, LoadPrepared, UsesDistinct, LastUse

LEMMA ClearKeeps ==
    ASSUME CacheInv, Clear
    PROVE  CacheInv'
<1>1. /\ \A e \in Entries : sector_id'[e] = None /\ generation'[e] = 0
      /\ load' = None /\ UNCHANGED <<storage, data, lru_counter, load, got, doubtful>>
  BY DEF Clear
<1>2. TypeOK'
  <2>1. sector_id' \in [Entries -> SectorIds \cup {None}] /\ generation' \in [Entries -> Nat]
    BY DEF Clear
  <2>2. \A e \in Entries : generation'[e] <= lru_counter'
    BY <1>1 DEF CacheInv, TypeOK
  <2>3. QED
    BY <1>1, <2>1, <2>2 DEF CacheInv, TypeOK
<1>3. QED
  BY <1>1, <1>2 DEF CacheInv, SectorOnce, LoadPrepared, UsesDistinct, LastUse

LEMMA InitCacheInv == Init => CacheInv
<1> SUFFICES ASSUME Init PROVE CacheInv
  OBVIOUS
<1>1. TypeOK
  <2>1. /\ sector_id \in [Entries -> SectorIds \cup {None}] /\ generation \in [Entries -> Nat]
        /\ data \in [Entries -> Values \cup {Garbled}]
        /\ lru_counter \in Nat /\ \A e \in Entries : generation[e] <= lru_counter
    BY DEF Init
  <2>2. got \in [sector : SectorIds \cup {None}, base : Bases \cup {None},
                value : Values \cup {Garbled, None}]
    BY DEF Init, Nothing
  <2>3. QED
    BY <2>1, <2>2 DEF Init, TypeOK
<1>2. QED
  BY <1>1 DEF Init, CacheInv, SectorOnce, LoadPrepared, UsesDistinct, LastUse

LEMMA NextCacheInv == CacheInv /\ [Next]_vars => CacheInv'
<1>1. CacheInv /\ UNCHANGED vars => CacheInv'
  BY DEF vars, CacheInv, TypeOK, SectorOnce, LoadPrepared, Holds, Target, First, UsesDistinct, LastUse
<1>2. QED
  BY <1>1, HitKeeps, MissKeeps, LoadedKeeps, LoadFailsKeeps, ClearKeeps DEF Next

LEMMA CacheInvHolds == Spec => []CacheInv
BY InitCacheInv, NextCacheInv, PTL DEF Spec

-----------------------------------------------------------------------------
(* Theorems.                                                               *)

\* The cache has its types, and no entry was used after the counter.
THEOREM CacheTypeCorrect == Spec => []TypeOK
<1>1. CacheInv => TypeOK
  BY DEF CacheInv
<1>2. QED
  BY <1>1, CacheInvHolds, PTL

\* No sector is cached twice, although get_or_load names its entry only after an
\* await: nothing can cache the sector in between.
THEOREM CachedOnce == Spec => []SectorOnce
<1>1. CacheInv => SectorOnce
  BY DEF CacheInv
<1>2. QED
  BY <1>1, CacheInvHolds, PTL

\* With two entries, a miss never chooses the sector looked up last: either an
\* entry is empty or another one has a lower generation.
LEMMA TargetNotLast ==
    ASSUME CacheInv, SECTORS >= 2, NEW e \in Target, sector_id[e] # None
    PROVE  sector_id[e] # got.sector
<1>1. e \in Entries
  BY DEF Target, First, Holds
<1>2. Holds(None) = {}
  BY <1>1 DEF Target, First, Holds
<1>3. \A f \in Entries : sector_id[f] # None /\ generation[e] <= generation[f]
  BY <1>2 DEF Target, First, Holds
<1>4. PICK f \in Entries : f # e
  BY CacheAssumption DEF Entries
<1>5. generation[f] # generation[e]
  BY <1>1, <1>3, <1>4 DEF CacheInv, UsesDistinct
<1>6. generation[e] # lru_counter
  <2>1. /\ generation[e] \in Nat /\ generation[f] \in Nat /\ lru_counter \in Nat
        /\ generation[f] <= lru_counter /\ generation[e] <= generation[f]
    BY <1>1, <1>3, <1>4, EntryType DEF CacheInv
  <2>2. QED
    BY <1>5, <2>1
<1>7. QED
  BY <1>1, <1>6 DEF CacheInv, LastUse

\* The sector looked up last is still cached, and untouched, when the next read
\* ends, whether it succeeds or breaks off.
THEOREM LastUsedKept == Spec => LastUsedSurvives
<1> DEFINE Kept == SECTORS >= 2 /\ load # None /\ load' = None =>
              \A e \in Entries : sector_id[e] # None /\ sector_id[e] = got.sector =>
                  sector_id'[e] = sector_id[e] /\ data'[e] = data[e]
<1>1. CacheInv /\ [Next]_vars => [Kept]_vars
  <2> SUFFICES ASSUME CacheInv, Next, SECTORS >= 2, load # None, load' = None,
                      NEW e \in Entries, sector_id[e] # None, sector_id[e] = got.sector
               PROVE  sector_id'[e] = sector_id[e] /\ data'[e] = data[e]
    OBVIOUS
  <2>1. load.entry \in Target
    BY DEF CacheInv, LoadPrepared
  <2>2. e # load.entry
    BY <2>1, TargetNotLast
  <2>3. sector_id \in [Entries -> SectorIds \cup {None}] /\ data \in [Entries -> Values \cup {Garbled}]
    BY DEF CacheInv, TypeOK
  <2>4. Loaded \/ LoadFails
    BY DEF Next, Hit, Miss, Clear
  <2>5. CASE Loaded
    BY <2>2, <2>3, <2>5 DEF Loaded, Name
  <2>6. CASE LoadFails
    BY <2>2, <2>3, <2>6 DEF LoadFails, Overwritten
  <2>7. QED
    BY <2>4, <2>5, <2>6
<1>2. QED
  BY <1>1, CacheInvHolds, PTL DEF Spec, LastUsedSurvives

\* An entry holds what the storage holds, unless its sector is in doubt.
CacheFaithful ==
    \A e \in Entries, base \in Bases :
        sector_id[e] \notin doubtful \cup {None} => data[e] = storage[base + sector_id[e]]

LEMMA NextFaithful ==
    ASSUME \A a, b \in Bases : a = b,
           CacheInv, CacheFaithful, LookupReturnsSector, [Next]_vars
    PROVE  CacheFaithful' /\ LookupReturnsSector'
<1>1. ASSUME NEW s \in SectorIds, NEW base \in Bases, Hit(s, base)
      PROVE  CacheFaithful' /\ LookupReturnsSector'
  <2>1. PICK e \in Entries : /\ sector_id[e] = s
                             /\ got' = [sector |-> s, base |-> base, value |-> data[e]]
    BY <1>1 DEF Hit, First, Holds
  <2>2. UNCHANGED <<storage, sector_id, data, doubtful>>
    BY <1>1 DEF Hit
  <2>3. s # None
    BY CacheAssumption
  <2>4. QED
    BY <2>1, <2>2, <2>3 DEF CacheFaithful, LookupReturnsSector
<1>2. CASE Loaded
  <2> DEFINE value == storage[load.base + load.sector]
  <2>1. /\ load.base \in Bases /\ load.entry \in Entries
        /\ sector_id \in [Entries -> SectorIds \cup {None}] /\ data \in [Entries -> Values \cup {Garbled}]
    BY <1>2, LoadType DEF Loaded, CacheInv, TypeOK
  <2>2. /\ data' = [data EXCEPT ![load.entry] = value]
        /\ got' = [sector |-> load.sector, base |-> load.base, value |-> value]
        /\ sector_id' = [sector_id EXCEPT ![load.entry] = load.sector]
        /\ UNCHANGED storage /\ doubtful' = doubtful \ {load.sector}
    BY <1>2 DEF Loaded, Name
  <2>3. LookupReturnsSector'
    BY <2>2 DEF LookupReturnsSector
  <2>4. CacheFaithful'
    <3> SUFFICES ASSUME NEW e \in Entries, NEW base \in Bases,
                        sector_id'[e] \notin doubtful' \cup {None}
                 PROVE  data'[e] = storage[base + sector_id'[e]]
      BY <2>2 DEF CacheFaithful
    <3>1. CASE e = load.entry
      BY <2>1, <2>2, <3>1
    <3>2. CASE e # load.entry
      <4>1. sector_id'[e] = sector_id[e] /\ data'[e] = data[e]
        BY <2>1, <2>2, <3>2
      <4>2. sector_id[e] # load.sector
        BY <1>2 DEF Loaded, CacheInv, LoadPrepared, Holds
      <4>3. QED
        BY <2>2, <4>1, <4>2 DEF CacheFaithful
    <3>3. QED
      BY <3>1, <3>2
  <2>5. QED
    BY <2>3, <2>4
<1>3. CASE LoadFails
  <2>1. /\ doubtful' = doubtful \cup ({sector_id[load.entry]} \ {None})
        /\ UNCHANGED <<storage, sector_id, got>>
    BY <1>3 DEF LoadFails
  <2>2. LookupReturnsSector'
    BY <2>1 DEF LookupReturnsSector
  <2>3. ASSUME NEW e \in Entries, NEW base \in Bases, sector_id[e] \notin doubtful' \cup {None}
        PROVE  data'[e] = storage[base + sector_id[e]]
    <3>1. e # load.entry /\ sector_id[e] \notin doubtful \cup {None}
      BY <2>1, <2>3
    <3>2. data'[e] = data[e]
      BY <1>3, <3>1 DEF LoadFails, Overwritten, CacheInv, TypeOK
    <3>3. QED
      BY <3>1, <3>2 DEF CacheFaithful
  <2>4. QED
    BY <2>1, <2>2, <2>3 DEF CacheFaithful
<1>4. CASE Clear
  BY <1>4 DEF Clear, CacheFaithful, LookupReturnsSector
<1>5. CASE UNCHANGED vars \/ \E s \in SectorIds, base \in Bases : Miss(s, base)
  BY <1>5 DEF vars, Miss, CacheFaithful, LookupReturnsSector
<1>6. QED
  BY <1>1, <1>2, <1>3, <1>4, <1>5 DEF Next

\* Used with one base, the cache returns the bytes of the sector that was asked
\* for, however many reads have broken off, unless that sector is in doubt.
THEOREM LookupsReturnSector ==
    ASSUME \A a, b \in Bases : a = b
    PROVE  Spec => []LookupReturnsSector
<1>1. Init => CacheFaithful /\ LookupReturnsSector
  BY DEF Init, Nothing, CacheFaithful, LookupReturnsSector
<1>2. CacheInv /\ CacheFaithful /\ LookupReturnsSector /\ [Next]_vars
         => CacheFaithful' /\ LookupReturnsSector'
  BY NextFaithful
<1>3. QED
  BY <1>1, <1>2, CacheInvHolds, PTL DEF Spec

=============================================================================
