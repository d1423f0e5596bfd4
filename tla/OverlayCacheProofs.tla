-------------------------- MODULE OverlayCacheProofs --------------------------
(***************************************************************************)
(* The slot table with its generations implements the abstract cache of    *)
(* OverlayCache: for any number of slots, modules, containers and callers, *)
(* and for every fault.                                                    *)
(***************************************************************************)
EXTENDS OverlayManagerProofs

-----------------------------------------------------------------------------
(* The mapping, one variable of the cache after the other.                 *)

Content == [m \in Modules |-> ContentOf(m)]
PinnedModules == {resident_module[i] : i \in SlotIdx \ UnpinnedSlots} \ {None}
Room == EmptySlots # {}

Holding(m) == \E i \in SlotIdx : resident_module[i] = m
Before(a, b) ==
    \E i, j \in SlotIdx :
        resident_module[i] = a /\ resident_module[j] = b /\ generation[i] < generation[j]

LEMMA SlotType ==
    ASSUME TypeOK, NEW i \in SlotIdx
    PROVE  /\ resident_module[i] \in Modules \cup {None}
           /\ generation[i] \in Nat /\ lru_counter \in Nat /\ is_pinned[i] \in BOOLEAN
           /\ ram[i] # None
BY ValuesAssumption DEF TypeOK

LEMMA ModuleIsSome == \A m \in Modules : m # None
BY ValuesAssumption

LEMMA ContentAt ==
    ASSUME UniqueResidency, NEW m \in Modules, NEW i \in SlotIdx, resident_module[i] = m
    PROVE  Content[m] = ram[i]
<1>1. FindResidentSlot(m) = {i}
  <2>1. \A j \in SlotIdx : resident_module[j] = m => j = i
    BY ModuleIsSome DEF UniqueResidency
  <2>2. i <= i
    BY DEF SlotIdx
  <2>3. QED
    BY <2>1, <2>2 DEF FindResidentSlot
<1>2. (CHOOSE j \in {i} : TRUE) = i
  OBVIOUS
<1>3. QED
  BY <1>1, <1>2 DEF Content, ContentOf, IsResident

LEMMA ContentAbsent ==
    ASSUME NEW m \in Modules, ~Holding(m)
    PROVE  Content[m] = None
BY DEF Content, ContentOf, IsResident, FindResidentSlot, Holding

LEMMA CachedMeans ==
    ASSUME TypeOK, UniqueResidency, NEW m \in Modules
    PROVE  m \in Cache!Cached <=> Holding(m)
<1>1. m \in Cache!Cached <=> Content[m] # None
  BY DEF Cache!Cached, Content
<1>2. QED
  BY <1>1, ContentAt, ContentAbsent, SlotType DEF Holding

LEMMA PinnedMeans ==
    ASSUME NEW m \in Modules
    PROVE  m \in PinnedModules <=> \E i \in SlotIdx : is_pinned[i] /\ resident_module[i] = m
BY ModuleIsSome DEF PinnedModules, UnpinnedSlots

LEMMA OlderMeans ==
    ASSUME TypeOK
    PROVE  /\ UsedBefore \subseteq Modules \X Modules
           /\ \A a, b \in Modules : <<a, b>> \in UsedBefore <=> Before(a, b)
<1>1. \A i \in SlotIdx : resident_module[i] \in Modules \cup {None}
  BY SlotType
<1>2. UsedBefore \subseteq Modules \X Modules
  BY <1>1 DEF UsedBefore
<1>3. ASSUME NEW a \in Modules, NEW b \in Modules, <<a, b>> \in UsedBefore PROVE Before(a, b)
  <2>1. PICK s \in SlotIdx \X SlotIdx :
           /\ generation[s[1]] < generation[s[2]]
           /\ <<a, b>> = <<resident_module[s[1]], resident_module[s[2]]>>
    BY <1>3 DEF UsedBefore
  <2>2. QED
    BY <2>1 DEF Before
<1>4. ASSUME NEW a \in Modules, NEW b \in Modules, Before(a, b) PROVE <<a, b>> \in UsedBefore
  <2>1. PICK i \in SlotIdx, j \in SlotIdx :
           resident_module[i] = a /\ resident_module[j] = b /\ generation[i] < generation[j]
    BY <1>4 DEF Before
  <2>2. <<i, j>> \in {t \in SlotIdx \X SlotIdx : /\ resident_module[t[1]] # None
                                               /\ resident_module[t[2]] # None
                                               /\ generation[t[1]] < generation[t[2]]}
    BY <2>1, ModuleIsSome
  <2>3. QED
    BY <2>1, <2>2 DEF UsedBefore
<1>5. QED
  BY <1>2, <1>3, <1>4

\* Sets of pairs of modules are equal when they have the same pairs.
LEMMA PairSetsEqual ==
    ASSUME NEW S, NEW R, S \subseteq Modules \X Modules, R \subseteq Modules \X Modules,
           \A a, b \in Modules : <<a, b>> \in S <=> <<a, b>> \in R
    PROVE  S = R
OBVIOUS

LEMMA UsedAfterMeans ==
    ASSUME NEW m, NEW order, NEW rest, NEW a, NEW b
    PROVE  <<a, b>> \in Cache!UsedAfter(m, order, rest) <=>
              <<a, b>> \in order \/ (b = m /\ a # m /\ a \in rest)
BY DEF Cache!UsedAfter

\* What the cache's variables are, said of the slots.
Mapping ==
    /\ \A m \in Modules, i \in SlotIdx : resident_module[i] = m => Content[m] = ram[i]
    /\ \A m \in Modules : ~Holding(m) => Content[m] = None
    /\ \A m \in Modules :
          m \in PinnedModules <=> \E i \in SlotIdx : is_pinned[i] /\ resident_module[i] = m
    /\ PinnedModules \subseteq Modules
    /\ UsedBefore \subseteq Modules \X Modules
    /\ \A a, b \in Modules : <<a, b>> \in UsedBefore <=> Before(a, b)

LEMMA MappingHolds == IInv => Mapping
<1> SUFFICES ASSUME IInv PROVE Mapping
  OBVIOUS
<1>1. PinnedModules \subseteq Modules
  BY SlotType DEF IInv, PinnedModules, UnpinnedSlots
<1>2. TypeOK /\ UniqueResidency
  BY DEF IInv
<1>3. QED
  BY <1>1, <1>2, ContentAt, ContentAbsent, PinnedMeans, OlderMeans DEF Mapping

LEMMA MappingHoldsNext == IInv' => Mapping'
BY MappingHolds, PTL

\* The code cached of a module changes only with its slot.
LEMMA ContentStep ==
    ASSUME IInv, IInv', NEW m \in Modules,
           \A i \in SlotIdx : resident_module'[i] = m <=> resident_module[i] = m,
           \A i \in SlotIdx : resident_module[i] = m => ram'[i] = ram[i]
    PROVE  Content'[m] = Content[m]
<1>1. CASE Holding(m)
  BY <1>1, MappingHolds, MappingHoldsNext DEF Holding, Mapping
<1>2. CASE ~Holding(m)
  BY <1>2, MappingHolds, MappingHoldsNext DEF Holding, Mapping
<1>3. QED
  BY <1>1, <1>2

LEMMA ContentKept ==
    ASSUME IInv, IInv', UNCHANGED resident_module,
           \A i \in SlotIdx : resident_module[i] # None => ram'[i] = ram[i]
    PROVE  Content' = Content
<1>1. \A m \in Modules : Content'[m] = Content[m]
  BY ContentStep, ModuleIsSome
<1>2. QED
  BY <1>1 DEF Content

LEMMA PinnedKept ==
    ASSUME UNCHANGED <<resident_module, is_pinned>>
    PROVE  PinnedModules' = PinnedModules /\ Room' = Room
BY DEF PinnedModules, Room, EmptySlots, UnpinnedSlots

\* Where the cache keeps its order the slots keep theirs.
LEMMA OlderKept ==
    ASSUME UNCHANGED <<resident_module, generation>>
    PROVE  UsedBefore' = UsedBefore
BY DEF UsedBefore

\* Nothing the cache shows has changed.
LEMMA Stutters ==
    ASSUME IInv, IInv', UNCHANGED <<resident_module, generation, is_pinned>>,
           \A i \in SlotIdx : resident_module[i] # None => ram'[i] = ram[i]
    PROVE  UNCHANGED Cache!cacheVars
BY ContentKept, PinnedKept, OlderKept DEF Cache!cacheVars, Content, PinnedModules, Room

-----------------------------------------------------------------------------
(* Uses.                                                                   *)

\* A use puts a module behind all others.
LEMMA TouchLast ==
    ASSUME IInv, NEW i \in SlotIdx, Touch(i)
    PROVE  /\ \A j \in SlotIdx \ {i} : generation'[j] = generation[j] /\ generation[j] < generation'[i]
           /\ \A j \in SlotIdx : ~(generation'[i] < generation'[j])
<1>1. \A j \in SlotIdx : generation[j] \in Nat /\ lru_counter \in Nat /\ generation[j] <= lru_counter
  BY SlotType DEF IInv, GenerationOrder
<1>2. \A j \in SlotIdx : generation'[j] = IF j = i THEN lru_counter + 1 ELSE generation[j]
  BY DEF Touch, NextGeneration, IInv, TypeOK
<1>3. QED
  BY <1>1, <1>2

LEMMA HitMaps ==
    ASSUME IInv, IInv', NEW m \in Modules, NEW i \in SlotIdx, resident_module[i] = m, Touch(i),
           UNCHANGED <<resident_module, is_pinned, ram>>
    PROVE  Cache!Hit(m)
<1> DEFINE used == Cache!UsedAfter(m, Cache!Without(m), Cache!Cached)
<1>1. m \in Cache!Cached /\ Cache!Cached \subseteq Modules
  BY CachedMeans DEF IInv, Holding, Cache!Cached
<1>2. Content' = Content /\ PinnedModules' = PinnedModules /\ Room' = Room
  BY ContentKept, PinnedKept
<1>3. used \subseteq Modules \X Modules
  BY <1>1, MappingHolds DEF Mapping, Cache!UsedAfter, Cache!Without
<1>4. UsedBefore' \subseteq Modules \X Modules
  BY MappingHoldsNext DEF Mapping
<1>5. ASSUME NEW a \in Modules, NEW b \in Modules
      PROVE  <<a, b>> \in UsedBefore' <=> <<a, b>> \in used
  <2>1. <<a, b>> \in used <=> \/ Before(a, b) /\ a # m /\ b # m
                              \/ b = m /\ a # m /\ Holding(a)
    BY MappingHolds, CachedMeans DEF IInv, Mapping, Cache!UsedAfter, Cache!Without
  <2>2. <<a, b>> \in UsedBefore' <=> Before(a, b)'
    BY MappingHoldsNext DEF Mapping
  <2>3. \A j \in SlotIdx : resident_module[j] = m <=> j = i
    BY ModuleIsSome DEF IInv, UniqueResidency
  <2>4. Before(a, b)' <=> \/ Before(a, b) /\ a # m /\ b # m
                          \/ b = m /\ a # m /\ Holding(a)
    BY <2>3, TouchLast DEF Before, Holding
  <2>5. QED
    BY <2>1, <2>2, <2>4
<1> HIDE DEF used
<1>6. UsedBefore' = used
  BY <1>3, <1>4, <1>5, PairSetsEqual
<1>7. QED
  BY <1>1, <1>2, <1>6 DEF used, Cache!Hit, Content, PinnedModules, Room

-----------------------------------------------------------------------------
(* Replacements.                                                           *)

\* The slot select_eviction_slot chooses: an empty one, or the oldest module's.
LEMMA ChosenOldest ==
    ASSUME IInv, NEW i \in SlotIdx, SelectEvictionSlot(i), NEW v \in Modules, resident_module[i] = v
    PROVE  ~Room /\ Cache!Oldest(v)
<1>1. EmptySlots = {} /\ i \in UnpinnedSlots
  BY ModuleIsSome DEF SelectEvictionSlot, EmptySlots
<1>2. v \in Cache!Cached
  BY CachedMeans DEF IInv, Holding
<1>3. v \notin PinnedModules
  BY <1>1, MappingHolds, ModuleIsSome DEF Mapping, UnpinnedSlots, IInv, UniqueResidency
<1>4. ASSUME NEW w \in Cache!Cached \ PinnedModules, w # v PROVE <<v, w>> \in UsedBefore
  <2>1. w \in Modules
    BY DEF Cache!Cached
  <2>2. PICK j \in SlotIdx : resident_module[j] = w
    BY <1>4, <2>1, CachedMeans DEF IInv, Holding
  <2>3. j \in UnpinnedSlots
    BY <1>4, <2>1, <2>2, MappingHolds DEF Mapping, UnpinnedSlots
  <2>4. generation[i] # generation[j]
    BY <1>4, <2>1, <2>2, ModuleIsSome DEF IInv, GenerationOrder
  <2>5. generation[i] < generation[j]
    BY <1>1, <2>3, <2>4, ModuleIsSome DEF SelectEvictionSlot
  <2>6. QED
    BY <2>1, <2>2, <2>5, MappingHolds DEF Mapping, Before
<1>5. QED
  BY <1>1, <1>2, <1>3, <1>4 DEF Room, Cache!Oldest, PinnedModules

\* A module leaves its slot.
LEMMA Removal ==
    ASSUME IInv, IInv', NEW i \in SlotIdx, NEW v \in Modules, resident_module[i] = v,
           resident_module' = [resident_module EXCEPT ![i] = None],
           \A j \in SlotIdx \ {i} : ram'[j] = ram[j],
           UNCHANGED generation
    PROVE  /\ Content' = [Content EXCEPT ![v] = None]
           /\ UsedBefore' = Cache!Without(v)
<1>1. \A j \in SlotIdx : resident_module'[j] = IF j = i THEN None ELSE resident_module[j]
  BY DEF IInv, TypeOK
<1>2. \A j \in SlotIdx : resident_module[j] = v => j = i
  BY ModuleIsSome DEF IInv, UniqueResidency
<1>3. Content'[v] = None
  BY <1>1, <1>2, MappingHoldsNext, ModuleIsSome DEF Mapping, Holding
<1>4. ASSUME NEW n \in Modules, n # v PROVE Content'[n] = Content[n]
  BY <1>1, <1>4, ContentStep, ModuleIsSome
<1>5. Content' = [Content EXCEPT ![v] = None]
  BY <1>3, <1>4 DEF Content
<1> DEFINE rest == Cache!Without(v)
<1>6. rest \subseteq Modules \X Modules /\ UsedBefore' \subseteq Modules \X Modules
  BY MappingHolds, MappingHoldsNext DEF Mapping, Cache!Without
<1>7. ASSUME NEW a \in Modules, NEW b \in Modules
      PROVE  <<a, b>> \in UsedBefore' <=> <<a, b>> \in rest
  <2>1. <<a, b>> \in rest <=> Before(a, b) /\ a # v /\ b # v
    BY MappingHolds DEF Mapping, Cache!Without
  <2>2. <<a, b>> \in UsedBefore' <=> Before(a, b)'
    BY MappingHoldsNext DEF Mapping
  <2>3. Before(a, b)' <=> Before(a, b) /\ a # v /\ b # v
    BY <1>1, <1>2, ModuleIsSome DEF Before
  <2>4. QED
    BY <2>1, <2>2, <2>3
<1> HIDE DEF rest
<1>8. UsedBefore' = rest
  BY <1>6, <1>7, PairSetsEqual
<1>9. QED
  BY <1>5, <1>8 DEF rest

\* A module enters the slot chosen for it, whatever was there.
Replaces(i, m, code) ==
    /\ i \in SlotIdx /\ SelectEvictionSlot(i)
    /\ m \in Modules /\ ~Holding(m) /\ code \in CodeOf[m]
    /\ resident_module' = [resident_module EXCEPT ![i] = m]
    /\ ram' = [ram EXCEPT ![i] = code]
    /\ Touch(i)
    /\ UNCHANGED is_pinned

LEMMA Replacement ==
    ASSUME IInv, IInv', NEW i, NEW m, NEW code, Replaces(i, m, code)
    PROVE  /\ PinnedModules' = PinnedModules
           /\ Content'[m] = code
           /\ \A n \in Modules \ {m} :
                 Content'[n] = IF n = resident_module[i] THEN None ELSE Content[n]
           /\ \A a, b \in Modules :
                 <<a, b>> \in UsedBefore' <=>
                    \/ Before(a, b) /\ a # resident_module[i] /\ b # resident_module[i]
                    \/ b = m /\ a # m /\ a # resident_module[i] /\ Holding(a)
<1> DEFINE v == resident_module[i]
<1>1. i \in SlotIdx /\ m \in Modules /\ m # None /\ ~Holding(m) /\ Touch(i) /\ i \in UnpinnedSlots
  BY ModuleIsSome DEF Replaces, SelectEvictionSlot, EmptySlots
<1>2. /\ \A j \in SlotIdx : resident_module'[j] = IF j = i THEN m ELSE resident_module[j]
      /\ \A j \in SlotIdx : ram'[j] = IF j = i THEN code ELSE ram[j]
      /\ UNCHANGED is_pinned
  BY DEF Replaces, IInv, TypeOK
<1>3. \A j \in SlotIdx : resident_module[j] # m
  BY <1>1 DEF Holding
<1>4. \A j \in SlotIdx : resident_module[j] = v /\ v \in Modules => j = i
  BY <1>1, ModuleIsSome DEF IInv, UniqueResidency
<1> HIDE DEF v
<1>5. PinnedModules' = PinnedModules
  <2>1. ~is_pinned[i]
    BY <1>1 DEF UnpinnedSlots
  <2>2. \A n \in Modules : n \in PinnedModules' <=> n \in PinnedModules
    BY <1>2, <2>1, MappingHolds, MappingHoldsNext DEF Mapping
  <2>3. QED
    BY <2>2, MappingHolds, MappingHoldsNext DEF Mapping
<1>6. Content'[m] = code
  BY <1>1, <1>2, MappingHoldsNext DEF Mapping
<1>7. ASSUME NEW n \in Modules \ {m} PROVE Content'[n] = IF n = v THEN None ELSE Content[n]
  <2>1. CASE n = v
    BY <1>2, <1>4, <2>1, MappingHoldsNext DEF Mapping, Holding
  <2>2. CASE n # v
    BY <1>2, <2>2, ContentStep DEF v
  <2>3. QED
    BY <2>1, <2>2
<1>8. ASSUME NEW a \in Modules, NEW b \in Modules
      PROVE  <<a, b>> \in UsedBefore' <=> \/ Before(a, b) /\ a # v /\ b # v
                                          \/ b = m /\ a # m /\ a # v /\ Holding(a)
  <2>1. <<a, b>> \in UsedBefore' <=> Before(a, b)'
    BY MappingHoldsNext DEF Mapping
  <2>2. /\ \A j \in SlotIdx \ {i} : generation'[j] = generation[j] /\ generation[j] < generation'[i]
        /\ \A j \in SlotIdx : ~(generation'[i] < generation'[j])
    BY <1>1, TouchLast
  <2>3. Before(a, b)' => \/ Before(a, b) /\ a # v /\ b # v
                         \/ b = m /\ a # m /\ a # v /\ Holding(a)
    BY <1>1, <1>2, <1>3, <1>4, <2>2 DEF Before, Holding
  <2>4. Before(a, b) /\ a # v /\ b # v => Before(a, b)'
    BY <1>1, <1>2, <2>2 DEF Before, v
  <2>5. b = m /\ a # m /\ a # v /\ Holding(a) => Before(a, b)'
    BY <1>1, <1>2, <2>2 DEF Before, Holding, v
  <2>6. QED
    BY <2>1, <2>3, <2>4, <2>5
<1>9. QED
  BY <1>5, <1>6, <1>7, <1>8 DEF v

LEMMA ReplacementMaps ==
    ASSUME IInv, IInv', NEW i, NEW m, NEW code, Replaces(i, m, code)
    PROVE  Cache!LoadIntoRoom(m) \/ \E v \in Modules : Cache!LoadOver(m, v)
<1>1. /\ i \in SlotIdx /\ m \in Modules /\ m # None /\ ~Holding(m) /\ code \in CodeOf[m]
      /\ SelectEvictionSlot(i)
  BY ModuleIsSome DEF Replaces
<1>2. /\ PinnedModules' = PinnedModules
      /\ Content'[m] = code
      /\ \A n \in Modules \ {m} :
            Content'[n] = IF n = resident_module[i] THEN None ELSE Content[n]
      /\ \A a, b \in Modules :
            <<a, b>> \in UsedBefore' <=>
               \/ Before(a, b) /\ a # resident_module[i] /\ b # resident_module[i]
               \/ b = m /\ a # m /\ a # resident_module[i] /\ Holding(a)
  BY Replacement
<1>3. m \notin Cache!Cached /\ Cache!Cached \subseteq Modules
  BY <1>1, CachedMeans DEF IInv, Cache!Cached
<1>4. \A a \in Modules : a \in Cache!Cached <=> Holding(a)
  BY CachedMeans DEF IInv
<1>5. UsedBefore \subseteq Modules \X Modules /\ UsedBefore' \subseteq Modules \X Modules
  BY MappingHolds, MappingHoldsNext DEF Mapping
<1>6. \A a, b \in Modules : <<a, b>> \in UsedBefore <=> Before(a, b)
  BY MappingHolds DEF Mapping
<1>7. CASE resident_module[i] = None
  <2> DEFINE order == Cache!UsedAfter(m, UsedBefore, Cache!Cached)
  <2>1. Room
    BY <1>1, <1>7 DEF Room, SelectEvictionSlot, EmptySlots
  <2>2. Content' = [Content EXCEPT ![m] = code]
    <3>1. \A n \in Modules : Content'[n] = IF n = m THEN code ELSE Content[n]
      BY <1>2, <1>7, ModuleIsSome
    <3>2. QED
      BY <3>1 DEF Content
  <2>3. order \subseteq Modules \X Modules
    BY <1>1, <1>3, <1>5 DEF Cache!UsedAfter
  <2>4. \A a, b \in Modules : <<a, b>> \in order <=> <<a, b>> \in UsedBefore'
    BY <1>2, <1>4, <1>6, <1>7, ModuleIsSome DEF Cache!UsedAfter
  <2> HIDE DEF order
  <2>5. UsedBefore' = order
    BY <1>5, <2>3, <2>4, PairSetsEqual
  <2>6. Room' \in BOOLEAN
    BY DEF Room
  <2>7. Cache!LoadIntoRoom(m)
    BY <1>1, <1>2, <1>3, <2>1, <2>2, <2>5, <2>6
       DEF order, Cache!LoadIntoRoom, Content, PinnedModules, Room
  <2>8. QED
    BY <2>7
<1>8. CASE resident_module[i] # None
  <2>1. PICK v \in Modules : resident_module[i] = v /\ v # m
    BY <1>1, <1>8, SlotType DEF IInv, Holding
  <2> DEFINE order == Cache!UsedAfter(m, Cache!Without(v), Cache!Cached \ {v})
  <2>2. ~Room /\ Cache!Oldest(v)
    BY <1>1, <2>1, ChosenOldest
  <2>3. Content' = [Content EXCEPT ![m] = code, ![v] = None]
    <3>1. \A n \in Modules : Content'[n] = IF n = v THEN None ELSE IF n = m THEN code ELSE Content[n]
      BY <1>2, <2>1
    <3>2. QED
      BY <2>1, <3>1 DEF Content
  <2>4. order \subseteq Modules \X Modules
    BY <1>1, <1>3, <1>5 DEF Cache!UsedAfter, Cache!Without
  <2>5. ASSUME NEW a \in Modules, NEW b \in Modules
        PROVE  <<a, b>> \in order <=> <<a, b>> \in UsedBefore'
    <3>1. <<a, b>> \in Cache!Without(v) <=> Before(a, b) /\ a # v /\ b # v
      BY <1>6 DEF Cache!Without
    <3>2. <<a, b>> \in order <=> \/ <<a, b>> \in Cache!Without(v)
                                 \/ b = m /\ a # m /\ a \in Cache!Cached \ {v}
      BY UsedAfterMeans
    <3>3. a \in Cache!Cached \ {v} <=> Holding(a) /\ a # v
      BY <1>4
    <3>4. QED
      BY <1>2, <2>1, <3>1, <3>2, <3>3
  <2>6. Room' = Room
    <3>1. \A j \in SlotIdx : resident_module'[j] = None <=> resident_module[j] = None
      BY <1>1, <1>8 DEF Replaces, IInv, TypeOK
    <3>2. UNCHANGED is_pinned
      BY DEF Replaces
    <3>3. QED
      BY <3>1, <3>2 DEF Room, EmptySlots, UnpinnedSlots
  <2> HIDE DEF order
  <2>7. UsedBefore' = order
    BY <1>5, <2>4, <2>5, PairSetsEqual
  <2>8. Cache!LoadOver(m, v)
    BY <1>1, <1>2, <1>3, <2>2, <2>3, <2>6, <2>7
       DEF order, Cache!LoadOver, Content, PinnedModules, Room
  <2>9. QED
    BY <2>1, <2>8
<1>9. QED
  BY <1>7, <1>8

-----------------------------------------------------------------------------
(* Loads that break off.                                                   *)

\* A torn slot that held a module spoils the oldest one; an empty one shows
\* nothing.
LEMMA InterruptionMaps ==
    ASSUME IInv, IInv', NEW i \in SlotIdx, SelectEvictionSlot(i), RamInterrupted(i), UNCHANGED slotVars
    PROVE  (\E v \in Modules : Cache!Spoil(v)) \/ UNCHANGED Cache!cacheVars
<1>1. UNCHANGED <<resident_module, generation, is_pinned>>
  BY DEF slotVars
<1>2. CASE ram' = ram \/ resident_module[i] = None
  <2>1. \A j \in SlotIdx : resident_module[j] # None => ram'[j] = ram[j]
    BY <1>2 DEF RamInterrupted, IInv, TypeOK
  <2>2. QED
    BY <1>1, <2>1, Stutters
<1>3. CASE ram' = [ram EXCEPT ![i] = Torn] /\ resident_module[i] # None
  <2> DEFINE v == resident_module[i]
  <2>1. v \in Modules
    BY <1>3, SlotType DEF IInv
  <2>2. ~Room /\ Cache!Oldest(v)
    BY <2>1, ChosenOldest
  <2>3. \A j \in SlotIdx : ram'[j] = IF j = i THEN Torn ELSE ram[j]
    BY <1>3 DEF IInv, TypeOK
  <2>4. Content'[v] = Torn
    BY <1>1, <2>1, <2>3, MappingHoldsNext DEF Mapping
  <2>5. ASSUME NEW n \in Modules, n # v PROVE Content'[n] = Content[n]
    BY <1>1, <2>3, <2>5, ContentStep
  <2>6. Content' = [Content EXCEPT ![v] = Torn]
    BY <2>4, <2>5 DEF Content
  <2>7. PinnedModules' = PinnedModules /\ Room' = Room /\ UsedBefore' = UsedBefore
    BY <1>1, PinnedKept, OlderKept
  <2> HIDE DEF v
  <2>8. Cache!Spoil(v)
    BY <2>2, <2>6, <2>7 DEF Cache!Spoil, Content, PinnedModules, Room
  <2>9. QED
    BY <2>1, <2>8
<1>4. QED
  BY <1>2, <1>3 DEF RamInterrupted

\* A payload that fails verification costs the oldest module, or nothing.
LEMMA CorruptionMaps ==
    ASSUME IInv, IInv', NEW i \in SlotIdx, SelectEvictionSlot(i), EvictSlot(i),
           \A j \in SlotIdx \ {i} : ram'[j] = ram[j], UNCHANGED <<generation, is_pinned>>
    PROVE  (\E v \in Modules : Cache!Discard(v)) \/ UNCHANGED Cache!cacheVars
<1>1. resident_module' = [resident_module EXCEPT ![i] = None] /\ i \in UnpinnedSlots
  BY DEF EvictSlot, SelectEvictionSlot, EmptySlots
<1>2. CASE resident_module[i] = None
  <2>1. UNCHANGED resident_module
    BY <1>1, <1>2 DEF IInv, TypeOK
  <2>2. \A j \in SlotIdx : resident_module[j] # None => ram'[j] = ram[j]
    BY <1>2
  <2>3. QED
    BY <2>1, <2>2, Stutters
<1>3. CASE resident_module[i] # None
  <2> DEFINE v == resident_module[i]
  <2>1. v \in Modules
    BY <1>3, SlotType DEF IInv
  <2>2. ~Room /\ Cache!Oldest(v)
    BY <2>1, ChosenOldest
  <2>3. Content' = [Content EXCEPT ![v] = None] /\ UsedBefore' = Cache!Without(v)
    BY <1>1, <2>1, Removal
  <2>4. \A j \in SlotIdx : resident_module'[j] = IF j = i THEN None ELSE resident_module[j]
    BY <1>1 DEF IInv, TypeOK
  <2>5. Room' = TRUE
    BY <1>1, <2>4 DEF Room, EmptySlots, UnpinnedSlots
  <2>6. PinnedModules' = PinnedModules
    <3>1. ~is_pinned[i]
      BY <1>1 DEF UnpinnedSlots
    <3>2. \A n \in Modules : n \in PinnedModules' <=> n \in PinnedModules
      BY <2>4, <3>1, MappingHolds, MappingHoldsNext, ModuleIsSome DEF Mapping
    <3>3. QED
      BY <3>2, MappingHolds, MappingHoldsNext DEF Mapping
  <2> HIDE DEF v
  <2>7. Cache!Discard(v)
    BY <2>2, <2>3, <2>5, <2>6 DEF Cache!Discard, Content, PinnedModules, Room
  <2>8. QED
    BY <2>1, <2>7
<1>4. QED
  BY <1>2, <1>3

-----------------------------------------------------------------------------
(* Administration.                                                         *)

\* An explicit evict also empties a pinned slot, which is no room then.
LEMMA EvictMaps ==
    ASSUME IInv, IInv', NEW m \in Modules, Evict(m)
    PROVE  Cache!EvictModule(m)
<1>1. PICK i \in SlotIdx :
         resident_module[i] = m /\ resident_module' = [resident_module EXCEPT ![i] = None]
  BY FoundSlot DEF Evict, EvictSlot
<1>2. UNCHANGED <<generation, is_pinned, ram>>
  BY DEF Evict, memVars
<1>3. \A j \in SlotIdx : resident_module'[j] = IF j = i THEN None ELSE resident_module[j]
  BY <1>1 DEF IInv, TypeOK
<1>4. m \in Cache!Cached
  BY <1>1, CachedMeans DEF IInv, Holding
<1>5. Content' = [Content EXCEPT ![m] = None] /\ UsedBefore' = Cache!Without(m)
  BY <1>1, <1>2, Removal
<1>6. \A j \in SlotIdx : resident_module[j] = m => j = i
  BY <1>1, ModuleIsSome DEF IInv, UniqueResidency
<1>7. PinnedModules' = PinnedModules \ {m}
  <2>1. \A n \in Modules : n \in PinnedModules' <=> n \in PinnedModules /\ n # m
    BY <1>1, <1>2, <1>3, <1>6, MappingHolds, MappingHoldsNext, ModuleIsSome DEF Mapping
  <2>2. QED
    BY <2>1, MappingHolds, MappingHoldsNext DEF Mapping
<1>8. Room' = (Room \/ m \notin PinnedModules)
  <2>1. m \in PinnedModules <=> is_pinned[i]
    BY <1>1, <1>6, MappingHolds DEF Mapping
  <2>2. is_pinned[i] => EmptySlots' = EmptySlots
    BY <1>1, <1>2, <1>3, ModuleIsSome DEF EmptySlots, UnpinnedSlots
  <2>3. ~is_pinned[i] => i \in EmptySlots'
    BY <1>2, <1>3 DEF EmptySlots, UnpinnedSlots
  <2>4. QED
    BY <2>1, <2>2, <2>3 DEF Room
<1>9. QED
  BY <1>4, <1>5, <1>7, <1>8 DEF Cache!EvictModule, Content, PinnedModules, Room

\* A pin holds the slot's module; on an empty slot it only takes room.
LEMMA PinMaps ==
    ASSUME IInv, IInv', NEW i \in SlotIdx, PinSlot(i)
    PROVE  (\E m \in Modules : Cache!Pin(m)) \/ Cache!PinRoom \/ UNCHANGED Cache!cacheVars
<1>1. /\ \A j \in SlotIdx : (is_pinned'[j] <=> j = i \/ is_pinned[j])
      /\ UNCHANGED <<resident_module, generation, ram>>
  BY DEF PinSlot, memVars, IInv, TypeOK
<1>2. Content' = Content /\ UsedBefore' = UsedBefore
  BY <1>1, ContentKept, OlderKept
<1>3. CASE resident_module[i] = None
  <2>1. PinnedModules' = PinnedModules
    <3>1. \A n \in Modules : n \in PinnedModules' <=> n \in PinnedModules
      BY <1>1, <1>3, MappingHolds, MappingHoldsNext, ModuleIsSome DEF Mapping
    <3>2. QED
      BY <3>1, MappingHolds, MappingHoldsNext DEF Mapping
  <2>2. EmptySlots' \subseteq EmptySlots
    BY <1>1 DEF EmptySlots, UnpinnedSlots
  <2>3. Room' = Room \/ (Room /\ Room' = FALSE)
    BY <2>2 DEF Room
  <2>4. QED
    BY <1>2, <2>1, <2>3 DEF Cache!PinRoom, Cache!cacheVars, Content, PinnedModules, Room
<1>4. CASE resident_module[i] # None
  <2>1. PICK v \in Modules : resident_module[i] = v
    BY <1>4, SlotType DEF IInv
  <2>2. PinnedModules' = PinnedModules \cup {v}
    <3>1. \A n \in Modules : n \in PinnedModules' <=> n \in PinnedModules \/ n = v
      BY <1>1, <2>1, MappingHolds, MappingHoldsNext DEF Mapping
    <3>2. QED
      BY <2>1, <3>1, MappingHolds, MappingHoldsNext DEF Mapping
  <2>3. Room' = Room
    BY <1>1, <1>4 DEF Room, EmptySlots, UnpinnedSlots
  <2>4. v \in Cache!Cached
    BY <2>1, CachedMeans DEF IInv, Holding
  <2>5. Cache!Pin(v)
    BY <1>2, <2>2, <2>3, <2>4 DEF Cache!Pin, Content, PinnedModules, Room
  <2>6. QED
    BY <2>1, <2>5
<1>5. QED
  BY <1>3, <1>4

LEMMA UnpinMaps ==
    ASSUME IInv, IInv', NEW i \in SlotIdx, UnpinSlot(i)
    PROVE  (\E m \in Modules : Cache!Unpin(m)) \/ Cache!UnpinRoom \/ UNCHANGED Cache!cacheVars
<1>1. /\ \A j \in SlotIdx : (is_pinned'[j] <=> j # i /\ is_pinned[j])
      /\ UNCHANGED <<resident_module, generation, ram>>
  BY DEF UnpinSlot, memVars, IInv, TypeOK
<1>2. Content' = Content /\ UsedBefore' = UsedBefore
  BY <1>1, ContentKept, OlderKept
<1>3. CASE resident_module[i] = None
  <2>1. PinnedModules' = PinnedModules
    <3>1. \A n \in Modules : n \in PinnedModules' <=> n \in PinnedModules
      BY <1>1, <1>3, MappingHolds, MappingHoldsNext, ModuleIsSome DEF Mapping
    <3>2. QED
      BY <3>1, MappingHolds, MappingHoldsNext DEF Mapping
  <2>2. Room' = TRUE
    BY <1>1, <1>3 DEF Room, EmptySlots, UnpinnedSlots
  <2>3. Room \in BOOLEAN
    BY DEF Room
  <2>4. QED
    BY <1>2, <2>1, <2>2, <2>3 DEF Cache!UnpinRoom, Cache!cacheVars, Content, PinnedModules, Room
<1>4. CASE resident_module[i] # None
  <2>1. PICK v \in Modules : resident_module[i] = v
    BY <1>4, SlotType DEF IInv
  <2>2. PinnedModules' = PinnedModules \ {v}
    <3>1. \A j \in SlotIdx : resident_module[j] = v => j = i
      BY <1>4, <2>1 DEF IInv, UniqueResidency
    <3>2. \A n \in Modules : n \in PinnedModules' <=> n \in PinnedModules /\ n # v
      BY <1>1, <2>1, <3>1, MappingHolds, MappingHoldsNext DEF Mapping
    <3>3. QED
      BY <3>2, MappingHolds, MappingHoldsNext DEF Mapping
  <2>3. Room' = Room
    BY <1>1, <1>4 DEF Room, EmptySlots, UnpinnedSlots
  <2>4. CASE v \in PinnedModules
    <3>1. Cache!Unpin(v)
      BY <1>2, <2>2, <2>3, <2>4 DEF Cache!Unpin, Content, PinnedModules, Room
    <3>2. QED
      BY <2>1, <3>1
  <2>5. CASE v \notin PinnedModules
    <3>1. PinnedModules' = PinnedModules
      BY <2>2, <2>5
    <3>2. QED
      BY <1>2, <2>3, <3>1 DEF Cache!cacheVars, Content, PinnedModules, Room
  <2>6. QED
    BY <2>4, <2>5
<1>5. QED
  BY <1>3, <1>4

-----------------------------------------------------------------------------
(* Every step.                                                             *)

LEMMA StreamLoadedMaps ==
    ASSUME IInv, IInv', NEW c \in Callers, StreamLoaded(c)
    PROVE  Cache!Next
<1> DEFINE payload == flash[op[c].flash_offset].payload
<1>1. /\ op[c].pc = "stream" /\ op[c].slot \in SlotIdx /\ SelectEvictionSlot(op[c].slot)
      /\ op[c].module_id \in Modules /\ ~Holding(op[c].module_id)
      /\ op[c].header.payload_crc32 \in CodeOf[op[c].module_id]
  BY DEF IInv, StreamPrepared, AwaitedAbsent, StreamLoaded, Holding
<1>2. /\ payload = op[c].header.payload_crc32
      /\ ram' = [ram EXCEPT ![op[c].slot] = payload]
      /\ resident_module' = [resident_module EXCEPT ![op[c].slot] = op[c].module_id]
      /\ Touch(op[c].slot) /\ UNCHANGED is_pinned
  BY DEF StreamLoaded, PayloadVerified
<1>3. PICK i \in SlotIdx, m \in Modules, code \in CodeOf[op[c].module_id] :
         i = op[c].slot /\ m = op[c].module_id /\ code = payload
  BY <1>1, <1>2
<1>4. Replaces(i, m, code)
  BY <1>1, <1>2, <1>3 DEF Replaces
<1>5. QED
  BY <1>3, <1>4, ReplacementMaps DEF Cache!Next

LEMMA StreamEndsMaps ==
    ASSUME IInv, IInv', NEW c \in Callers, StreamFails(c) \/ DropFuture(c) \/ StreamCorrupt(c)
    PROVE  Cache!Next \/ UNCHANGED Cache!cacheVars
<1>1. CASE op[c].pc # "stream"
  BY <1>1, Stutters DEF StreamFails, DropFuture, StreamCorrupt, slotVars
<1>2. CASE op[c].pc = "stream"
  <2>1. PICK i \in SlotIdx : i = op[c].slot /\ SelectEvictionSlot(i)
    BY <1>2 DEF IInv, StreamPrepared
  <2>2. CASE StreamFails(c) \/ DropFuture(c)
    <3>1. RamInterrupted(i) /\ UNCHANGED slotVars
      BY <1>2, <2>1, <2>2 DEF StreamFails, DropFuture
    <3>2. QED
      BY <2>1, <3>1, InterruptionMaps DEF Cache!Next
  <2>3. CASE StreamCorrupt(c)
    <3>1. EvictSlot(i) /\ UNCHANGED <<generation, is_pinned>>
      BY <2>1, <2>3 DEF StreamCorrupt
    <3>2. \A j \in SlotIdx \ {i} : ram'[j] = ram[j]
      BY <2>1, <2>3 DEF StreamCorrupt, IInv, TypeOK
    <3>3. QED
      BY <2>1, <3>1, <3>2, CorruptionMaps DEF Cache!Next
  <2>4. QED
    BY <2>2, <2>3
<1>3. QED
  BY <1>1, <1>2

LEMMA BeginMaps ==
    ASSUME IInv, IInv', NEW c \in Callers, Begin(c)
    PROVE  Cache!Next \/ UNCHANGED Cache!cacheVars
<1>1. ASSUME NEW m \in Modules, NEW then_call \in BOOLEAN, EnsureHit(c, m, then_call)
      PROVE  Cache!Next
  <2>1. PICK i \in FindResidentSlot(m) : Touch(i)
    BY <1>1 DEF EnsureHit
  <2>2. i \in SlotIdx /\ resident_module[i] = m
    BY FoundSlot
  <2>3. UNCHANGED <<resident_module, is_pinned, ram>>
    BY <1>1 DEF EnsureHit
  <2>4. Cache!Hit(m)
    BY <2>1, <2>2, <2>3, HitMaps
  <2>5. QED
    BY <2>4 DEF Cache!Next
<1>2. ASSUME NEW m \in Modules, NEW then_call \in BOOLEAN, NEW offset \in Offsets,
             EnsureMiss(c, m, offset, then_call)
      PROVE  UNCHANGED Cache!cacheVars
  BY <1>2, Stutters DEF EnsureMiss, slotVars, memVars
<1>3. ASSUME NEW i \in SlotIdx, CallRaw(c, i) \/ \E m \in Modules : CallTyped(c, m, i)
      PROVE  UNCHANGED Cache!cacheVars
  BY <1>3, Stutters DEF CallRaw, CallTyped, slotVars
<1>4. QED
  BY <1>1, <1>2, <1>3 DEF Begin

LEMMA StepMaps == IInv /\ IInv' /\ [Next]_vars => [Cache!Next]_Cache!cacheVars
<1> SUFFICES ASSUME IInv, IInv', [Next]_vars
             PROVE  Cache!Next \/ UNCHANGED Cache!cacheVars
  OBVIOUS
<1>1. ASSUME NEW c \in Callers, Resume(c) PROVE Cache!Next \/ UNCHANGED Cache!cacheVars
  <2>1. CASE HeaderReadFails(c) \/ HeaderRead(c)
    BY <2>1, Stutters DEF HeaderReadFails, HeaderRead, slotVars, memVars
  <2>2. QED
    BY <1>1, <2>1, StreamLoadedMaps, StreamEndsMaps DEF Resume
<1>2. ASSUME NEW c \in Callers, Begin(c) PROVE Cache!Next \/ UNCHANGED Cache!cacheVars
  BY <1>2, BeginMaps
<1>3. ASSUME Administer PROVE Cache!Next \/ UNCHANGED Cache!cacheVars
  <2>1. ASSUME NEW m \in Modules, Evict(m) PROVE Cache!Next
    BY <2>1, EvictMaps DEF Cache!Next
  <2>2. ASSUME NEW i \in SlotIdx, PinSlot(i) \/ UnpinSlot(i)
        PROVE  Cache!Next \/ UNCHANGED Cache!cacheVars
    BY <2>2, PinMaps, UnpinMaps DEF Cache!Next
  <2>3. QED
    BY <1>3, <2>1, <2>2 DEF Administer
<1>4. ASSUME Storage \/ UNCHANGED vars PROVE UNCHANGED Cache!cacheVars
  BY <1>4, Stutters DEF Storage, Reprogram, vars, slotVars, memVars
<1>5. QED
  BY <1>1, <1>2, <1>3, <1>4 DEF Next

LEMMA InitMaps == Init => Cache!Init
<1> SUFFICES ASSUME Init PROVE Cache!Init
  OBVIOUS
<1>1. \A i \in SlotIdx : resident_module[i] = None /\ ~is_pinned[i]
  BY DEF Init
<1>2. \A m \in Modules : Content[m] = None
  BY <1>1, ContentAbsent, ModuleIsSome DEF Holding
<1>3. Content = [m \in Modules |-> None]
  BY <1>2 DEF Content
<1>4. PinnedModules = {} /\ UsedBefore = {}
  BY <1>1 DEF PinnedModules, UsedBefore
<1>5. Room = TRUE
  <2>1. 0 \in SlotIdx
    BY SlotsAssumption DEF SlotIdx
  <2>2. QED
    BY <1>1, <2>1 DEF Room, EmptySlots, UnpinnedSlots
<1>6. QED
  BY <1>3, <1>4, <1>5 DEF Cache!Init, Content, PinnedModules, Room

-----------------------------------------------------------------------------
\* The manager implements the cache: every replacement takes the least recently
\* used unpinned module and only when there is no room, a hit counts as a use, a
\* failed verification costs exactly the replaced module, and nothing unverified
\* is installed.
THEOREM ManagerImplementsCache == Spec => CacheSpec
<1>1. Init => Cache!Init
  BY InitMaps
<1>2. IInv /\ IInv' /\ [Next]_vars => [Cache!Next]_Cache!cacheVars
  BY StepMaps
<1>3. QED
  BY <1>1, <1>2, IInvHolds, PTL DEF Spec, CacheSpec, Cache!Spec

=============================================================================
