------------------------- MODULE OverlayManagerProofs -------------------------
(***************************************************************************)
(* The safety of OverlayManager for every number of slots, every set of    *)
(* modules and containers and every fault the model knows.  IInv is        *)
(* inductive; the theorems are read off it.                                *)
(***************************************************************************)
EXTENDS OverlayManager, TLAPS

USE SlotsAssumption, ContainersAssumption, ValuesAssumption

-----------------------------------------------------------------------------
(* Facts about the values.                                                 *)

\* A container's header is a Header, and a sound one names a build of its module.
LEMMA StoredContainer ==
    ASSUME TypeOK, NEW offset \in Offsets
    PROVE  /\ flash[offset].header \in Header
           /\ flash[offset].header.status \in HeaderErrors \cup {"Ok"}
           /\ flash[offset].header.module_id \in Modules
           /\ flash[offset].header.code_size \in Nat
           /\ flash[offset].header.entry_offset \in Nat
           /\ flash[offset].payload \in Payloads
           /\ flash[offset].header.status = "Ok" =>
                 flash[offset].header.payload_crc32 \in CodeOf[flash[offset].header.module_id]
<1>1. flash[offset] \in Containers
  BY DEF TypeOK
<1>2. flash[offset].header \in Header /\ flash[offset].payload \in Payloads
  BY <1>1
<1>3. QED
  BY <1>1, <1>2 DEF Header

\* An error is a result that ran nothing.
LEMMA ErrResult ==
    ASSUME NEW e \in Errors, NEW m \in Modules \cup {None}
    PROVE  Err(e, m) \in Result /\ Err(e, m).ran = None
BY DEF Err, Result

\* What find_resident_slot returns.
LEMMA FoundSlot ==
    ASSUME NEW m \in Modules, NEW i \in FindResidentSlot(m)
    PROVE  i \in SlotIdx /\ resident_module[i] = m
BY DEF FindResidentSlot

LEMMA InitIInv == Init => IInv
<1> SUFFICES ASSUME Init PROVE IInv
  OBVIOUS
<1>1. TypeOK
  BY DEF Init, TypeOK, NoOp, NoRet, Suspension, Result, SlotIdx
<1>2. QED
  BY <1>1 DEF Init, IInv, OneBorrower, AwaitedAbsent, StreamPrepared, UniqueResidency,
     ResidentVerified, CallRunsOwnCode, GenerationOrder, NoOp, NoRet

-----------------------------------------------------------------------------
(* One lemma per action.                                                   *)

LEMMA ReturnType ==
    ASSUME TypeOK, NEW c \in Callers,
           NEW r \in Result, Return(c, r)
    PROVE  /\ op' \in [Callers -> Suspension]
           /\ ret' \in [Callers -> Result]
           /\ op'[c].pc = "idle"
           /\ ret'[c] = r
           /\ \A d \in Callers : d # c => op'[d] = op[d] /\ ret'[d] = ret[d]
<1>1. NoOp \in Suspension /\ NoOp.pc = "idle"
  BY DEF NoOp, Suspension
<1>2. QED
  BY <1>1 DEF TypeOK, Return

\* A future that ends without touching a slot or RAM.
LEMMA ReturnOnly ==
    ASSUME IInv, NEW c \in Callers,
           NEW r \in Result, r.ran = None, Return(c, r),
           UNCHANGED <<flash, slotVars, memVars, lru_counter>>
    PROVE  IInv'
<1>0. /\ op'[c].pc = "idle" /\ ret'[c] = r
      /\ \A d \in Callers : d # c => op'[d] = op[d] /\ ret'[d] = ret[d]
  BY ReturnType DEF IInv
<1>1. TypeOK'
  BY ReturnType DEF IInv, TypeOK, slotVars, memVars
<1>2. OneBorrower' /\ AwaitedAbsent'
  BY <1>0 DEF IInv, OneBorrower, AwaitedAbsent, slotVars
<1>3. StreamPrepared'
  BY <1>0 DEF IInv, StreamPrepared, slotVars, SelectEvictionSlot, EmptySlots, UnpinnedSlots
<1>4. UniqueResidency' /\ ResidentVerified' /\ GenerationOrder'
  BY DEF IInv, UniqueResidency, ResidentVerified, GenerationOrder, Fetches, slotVars, memVars
<1>5. CallRunsOwnCode'
  BY <1>0 DEF IInv, CallRunsOwnCode
<1>6. QED
  BY <1>1, <1>2, <1>3, <1>4, <1>5 DEF IInv

LEMMA HeaderReadFailsStep ==
    ASSUME IInv, NEW c \in Callers, HeaderReadFails(c)
    PROVE  IInv'
<1>1. op[c].module_id \in Modules
  BY DEF IInv, AwaitedAbsent, HeaderReadFails
<1>2. QED
  BY <1>1, ErrResult, ReturnOnly DEF HeaderReadFails, Errors

\* A future that goes on to the second await with a checked header and slot.
LEMMA StreamStarted ==
    ASSUME IInv, NEW c \in Callers, op[c].pc = "header",
           NEW header \in Header, header.status = "Ok",
           header.module_id = op[c].module_id,
           header.payload_crc32 \in CodeOf[op[c].module_id],
           NEW i \in SlotIdx, SelectEvictionSlot(i),
           op' = [op EXCEPT ![c] = [@ EXCEPT !.pc = "stream", !.header = header, !.slot = i]],
           UNCHANGED <<flash, slotVars, memVars, lru_counter, ret>>
    PROVE  IInv'
<1> DEFINE new == [op[c] EXCEPT !.pc = "stream", !.header = header, !.slot = i]
<1>0. op[c] \in Suspension
  BY DEF IInv, TypeOK
<1>1. /\ new \in Suspension
      /\ new.pc = "stream" /\ new.header = header /\ new.slot = i
      /\ new.module_id = op[c].module_id /\ new.flash_offset = op[c].flash_offset
  BY <1>0 DEF Suspension
<1>2. op' = [op EXCEPT ![c] = new]
  OBVIOUS
<1> HIDE DEF new
<1>3. op'[c] = new /\ \A d \in Callers : d # c => op'[d] = op[d]
  BY <1>2 DEF IInv, TypeOK
<1>4. TypeOK'
  BY <1>1, <1>2 DEF IInv, TypeOK, slotVars, memVars
<1>5. OneBorrower' /\ AwaitedAbsent'
  BY <1>1, <1>3 DEF IInv, OneBorrower, AwaitedAbsent, slotVars
<1>6. StreamPrepared'
  BY <1>1, <1>3 DEF IInv, StreamPrepared, SelectEvictionSlot, EmptySlots, UnpinnedSlots, slotVars
<1>7. UniqueResidency' /\ ResidentVerified' /\ GenerationOrder' /\ CallRunsOwnCode'
  BY DEF IInv, UniqueResidency, ResidentVerified, GenerationOrder, CallRunsOwnCode, Fetches,
         slotVars, memVars
<1>8. QED
  BY <1>4, <1>5, <1>6, <1>7 DEF IInv

LEMMA HeaderReadStep ==
    ASSUME IInv, NEW c \in Callers, HeaderRead(c)
    PROVE  IInv'
<1> DEFINE m == op[c].module_id
           header == flash[op[c].flash_offset].header
<1>0. /\ UNCHANGED <<flash, resident_module, entry_offset, generation, is_pinned, ram, icache>>
      /\ UNCHANGED lru_counter
      /\ op[c].pc = "header"
  BY DEF HeaderRead, slotVars, memVars
<1>1. m \in Modules /\ op[c].flash_offset \in Offsets
  BY DEF IInv, AwaitedAbsent, HeaderRead
<1>2. /\ header \in Header
      /\ header.status \in HeaderErrors \cup {"Ok"}
      /\ header.status = "Ok" => header.payload_crc32 \in CodeOf[header.module_id]
  BY <1>1, StoredContainer DEF IInv
<1>3. ASSUME NEW e \in Errors, Return(c, Err(e, m))
      PROVE  IInv'
  BY <1>0, <1>1, <1>3, ErrResult, ReturnOnly DEF slotVars, memVars
<1>4. CASE HeaderRejected(c, header)
  <2>1. \E e \in Errors : Return(c, Err(e, m))
    BY <1>2, <1>4 DEF HeaderRejected, Errors
  <2>2. QED
    BY <1>3, <2>1
<1>5. ASSUME header.status = "Ok", header.module_id = m,
             NEW i \in SlotIdx, SelectEvictionSlot(i), SlotChosen(c, header, i)
      PROVE  IInv'
  <2>1. CASE \E e \in Errors : Return(c, Err(e, m))
    BY <1>3, <2>1
  <2>2. CASE /\ op' = [op EXCEPT ![c] = [@ EXCEPT !.pc = "stream", !.header = header, !.slot = i]]
             /\ UNCHANGED ret
    BY <1>0, <1>1, <1>2, <1>5, <2>2, StreamStarted DEF slotVars, memVars
  <2>3. QED
    BY <1>5, <2>1, <2>2 DEF SlotChosen, Errors
<1>6. QED
  BY <1>4, <1>5 DEF HeaderRead

\* The first poll of a miss: the borrow was free, so every other future is idle.
LEMMA EnsureMissStep ==
    ASSUME IInv, Borrowable, NEW c \in Callers, NEW m \in Modules, NEW offset \in Offsets,
           NEW then_call \in BOOLEAN, EnsureMiss(c, m, offset, then_call)
    PROVE  IInv'
<1> DEFINE new == [NoOp EXCEPT !.pc = "header", !.module_id = m,
                               !.flash_offset = offset, !.then_call = then_call]
<1>1. /\ new \in Suspension /\ new.pc = "header"
      /\ new.module_id = m /\ new.flash_offset = offset
  BY DEF NoOp, Suspension
<1>2. NoRet \in Result /\ NoRet.ran = None
  BY DEF NoRet, Result
<1>3. /\ op' = [op EXCEPT ![c] = new]
      /\ ret' = [ret EXCEPT ![c] = NoRet]
      /\ UNCHANGED <<flash, slotVars, memVars, lru_counter>>
  BY DEF EnsureMiss
<1> HIDE DEF new
<1>4. op'[c] = new /\ \A d \in Callers : d # c => op'[d] = op[d] /\ op'[d].pc = "idle"
  BY <1>3 DEF IInv, TypeOK, Borrowable
<1>5. \A i \in SlotIdx : resident_module[i] # m
  <2> SUFFICES ASSUME NEW i \in SlotIdx, resident_module[i] = m PROVE FALSE
    OBVIOUS
  <2>1. FindResidentSlot(m) = {}
    BY DEF EnsureMiss, IsResident
  <2>2. \A j \in SlotIdx : resident_module[j] = m => j = i
    BY DEF IInv, UniqueResidency, TypeOK
  <2>3. i \in FindResidentSlot(m)
    BY <2>2 DEF FindResidentSlot, SlotIdx
  <2>4. QED
    BY <2>1, <2>3
<1>6. TypeOK'
  BY <1>1, <1>2, <1>3 DEF IInv, TypeOK, slotVars, memVars
<1>7. OneBorrower' /\ AwaitedAbsent' /\ StreamPrepared'
  BY <1>1, <1>3, <1>4, <1>5 DEF OneBorrower, AwaitedAbsent, StreamPrepared, slotVars
<1>8. UniqueResidency' /\ ResidentVerified' /\ GenerationOrder'
  BY <1>3 DEF IInv, UniqueResidency, ResidentVerified, GenerationOrder, Fetches, slotVars, memVars
<1>9. CallRunsOwnCode'
  BY <1>2, <1>3 DEF IInv, TypeOK, CallRunsOwnCode
<1>10. QED
  BY <1>6, <1>7, <1>8, <1>9 DEF IInv

-----------------------------------------------------------------------------
(* The ways a stream ends.                                                 *)

\* A future that ends leaving RAM as it was or torn in its slot.
LEMMA InterruptedStep ==
    ASSUME IInv, NEW c \in Callers, NEW i \in SlotIdx, RamInterrupted(i),
           NEW r \in Result, r.ran = None, Return(c, r),
           UNCHANGED <<flash, slotVars, icache, lru_counter>>
    PROVE  IInv'
<1>1. /\ op'[c].pc = "idle" /\ ret'[c] = r
      /\ \A d \in Callers : d # c => op'[d] = op[d] /\ ret'[d] = ret[d]
  BY ReturnType DEF IInv
<1>2. ram' \in [SlotIdx -> Payloads \cup {Torn}]
  BY DEF RamInterrupted, IInv, TypeOK
<1>3. \A j \in SlotIdx : ram'[j] \in {ram[j], Torn}
  BY DEF RamInterrupted, IInv, TypeOK
<1>4. TypeOK'
  BY <1>2, ReturnType DEF IInv, TypeOK, slotVars
<1>5. OneBorrower' /\ AwaitedAbsent'
  BY <1>1 DEF IInv, OneBorrower, AwaitedAbsent, slotVars
<1>6. StreamPrepared'
  BY <1>1 DEF IInv, StreamPrepared, slotVars, SelectEvictionSlot, EmptySlots, UnpinnedSlots
<1>7. UniqueResidency' /\ GenerationOrder'
  BY DEF IInv, UniqueResidency, GenerationOrder, slotVars
<1>8. ResidentVerified'
  BY <1>3 DEF IInv, ResidentVerified, Fetches, slotVars
<1>9. CallRunsOwnCode'
  BY <1>1 DEF IInv, CallRunsOwnCode
<1>10. QED
  BY <1>4, <1>5, <1>6, <1>7, <1>8, <1>9 DEF IInv

LEMMA StreamFailsStep ==
    ASSUME IInv, NEW c \in Callers, StreamFails(c)
    PROVE  IInv'
<1>1. op[c].module_id \in Modules /\ op[c].slot \in SlotIdx
  BY DEF IInv, AwaitedAbsent, StreamPrepared, StreamFails
<1>2. "Storage" \in Errors
  BY DEF Errors
<1>3. QED
  BY <1>1, <1>2, ErrResult, InterruptedStep DEF StreamFails

LEMMA DropFutureStep ==
    ASSUME IInv, NEW c \in Callers, DropFuture(c)
    PROVE  IInv'
<1>1. NoRet \in Result /\ NoRet.ran = None
  BY DEF NoRet, Result
<1>2. CASE op[c].pc = "header" /\ UNCHANGED ram
  BY <1>1, <1>2, ReturnOnly DEF DropFuture, memVars
<1>3. CASE op[c].pc = "stream" /\ RamInterrupted(op[c].slot)
  <2>1. op[c].slot \in SlotIdx
    BY <1>3 DEF IInv, StreamPrepared
  <2>2. QED
    BY <1>1, <1>3, <2>1, InterruptedStep DEF DropFuture
<1>4. QED
  BY <1>2, <1>3 DEF DropFuture

\* When the borrower's future ends nobody is left inside ensure_resident.
LEMMA AllIdleAfterReturn ==
    ASSUME IInv, NEW c \in Callers, op[c].pc # "idle", NEW r \in Result, Return(c, r)
    PROVE  /\ \A d \in Callers : op'[d].pc = "idle"
           /\ OneBorrower' /\ AwaitedAbsent' /\ StreamPrepared'
<1>1. \A d \in Callers : op'[d].pc = "idle"
  BY ReturnType DEF IInv, OneBorrower
<1>2. QED
  BY <1>1 DEF OneBorrower, AwaitedAbsent, StreamPrepared

LEMMA StreamCorruptStep ==
    ASSUME IInv, NEW c \in Callers, StreamCorrupt(c)
    PROVE  IInv'
<1> DEFINE i == op[c].slot
           r == Err("PayloadCrcMismatch", op[c].module_id)
           payload == flash[op[c].flash_offset].payload
<1>1. /\ op[c].pc = "stream" /\ i \in SlotIdx
      /\ op[c].module_id \in Modules /\ op[c].flash_offset \in Offsets
  BY DEF IInv, StreamPrepared, AwaitedAbsent, StreamCorrupt
<1>2. r \in Result /\ r.ran = None
  BY <1>1, ErrResult DEF Errors
<1>3. payload \in Payloads
  BY <1>1, StoredContainer DEF IInv
<1>4. /\ Return(c, r)
      /\ ram' = [ram EXCEPT ![i] = payload]
      /\ resident_module' = [resident_module EXCEPT ![i] = None]
      /\ entry_offset' = [entry_offset EXCEPT ![i] = 0]
      /\ UNCHANGED <<flash, generation, is_pinned, icache, lru_counter>>
  BY DEF StreamCorrupt, EvictSlot
<1> HIDE DEF i, r, payload
<1>5. /\ ret'[c] = r
      /\ \A d \in Callers : d # c => ret'[d] = ret[d]
  BY <1>2, <1>4, ReturnType DEF IInv
<1>6. \A j \in SlotIdx : resident_module'[j] # None =>
          j # i /\ resident_module'[j] = resident_module[j] /\ ram'[j] = ram[j]
  BY <1>1, <1>4 DEF IInv, TypeOK
<1>7. TypeOK'
  <2>1. op' \in [Callers -> Suspension] /\ ret' \in [Callers -> Result]
    BY <1>2, <1>4, ReturnType DEF IInv
  <2>2. QED
    BY <1>1, <1>3, <1>4, <2>1 DEF IInv, TypeOK
<1>8. OneBorrower' /\ AwaitedAbsent' /\ StreamPrepared'
  BY <1>1, <1>2, <1>4, AllIdleAfterReturn
<1>9. UniqueResidency' /\ GenerationOrder'
  BY <1>4, <1>6 DEF IInv, UniqueResidency, GenerationOrder
<1>10. ResidentVerified'
  BY <1>4, <1>6 DEF IInv, ResidentVerified, Fetches
<1>11. CallRunsOwnCode'
  BY <1>2, <1>5 DEF IInv, CallRunsOwnCode
<1>12. QED
  BY <1>7, <1>8, <1>9, <1>10, <1>11 DEF IInv

\* Giving a slot the next generation keeps the order.
LEMMA TouchOrders ==
    ASSUME IInv, NEW i \in SlotIdx, Touch(i),
           \A j \in SlotIdx : j # i => resident_module'[j] = resident_module[j]
    PROVE  /\ lru_counter' \in Nat
           /\ generation' \in [SlotIdx -> Nat]
           /\ GenerationOrder'
<1>1. lru_counter \in Nat /\ generation \in [SlotIdx -> Nat]
  BY DEF IInv, TypeOK
<1>2. lru_counter' = lru_counter + 1
  BY DEF Touch, NextGeneration
<1>3. \A j \in SlotIdx : generation'[j] = IF j = i THEN lru_counter + 1 ELSE generation[j]
  BY <1>1 DEF Touch, NextGeneration
<1>4. \A j \in SlotIdx : generation[j] <= lru_counter
  BY DEF IInv, GenerationOrder
<1>5. GenerationOrder'
  BY <1>1, <1>2, <1>3, <1>4 DEF IInv, GenerationOrder
<1>6. QED
  BY <1>1, <1>2, <1>5 DEF Touch, NextGeneration

LEMMA StreamLoadedStep ==
    ASSUME IInv, NEW c \in Callers, StreamLoaded(c)
    PROVE  IInv'
<1> DEFINE i == op[c].slot
           m == op[c].module_id
           payload == flash[op[c].flash_offset].payload
<1>1. /\ op[c].pc = "stream" /\ i \in SlotIdx
      /\ m \in Modules /\ op[c].flash_offset \in Offsets
      /\ \A j \in SlotIdx : resident_module[j] # m
      /\ op[c].header.entry_offset \in Nat
      /\ op[c].header.payload_crc32 \in CodeOf[m]
  BY DEF IInv, StreamPrepared, AwaitedAbsent, StreamLoaded, Header
<1>2. payload \in Payloads /\ payload \in CodeOf[m]
  BY <1>1, StoredContainer DEF IInv, StreamLoaded, PayloadVerified
<1>3. PICK r \in {Ok(m, i, None), Ok(m, i, payload)} :
         /\ Return(c, r)
         /\ icache' \in [SlotIdx -> {{}, {payload}}]
         /\ \A j \in SlotIdx : j # i => icache'[j] = {}
  BY <1>1 DEF StreamLoaded, CodeLoaded
<1>4. /\ ram' = [ram EXCEPT ![i] = payload]
      /\ resident_module' = [resident_module EXCEPT ![i] = m]
      /\ entry_offset' = [entry_offset EXCEPT ![i] = op[c].header.entry_offset]
      /\ Touch(i)
      /\ UNCHANGED <<flash, is_pinned>>
  BY DEF StreamLoaded
<1>5. /\ r \in Result /\ r.ran \in {None, payload} /\ r.module_id = m
  BY <1>1, <1>2, <1>3 DEF Ok, Result
<1> HIDE DEF i, m, payload
<1>6. /\ ret'[c] = r
      /\ \A d \in Callers : d # c => ret'[d] = ret[d]
  BY <1>3, <1>5, ReturnType DEF IInv
<1>7. /\ resident_module'[i] = m /\ ram'[i] = payload
      /\ \A j \in SlotIdx : j # i =>
            resident_module'[j] = resident_module[j] /\ ram'[j] = ram[j]
  BY <1>1, <1>4 DEF IInv, TypeOK
<1>8. lru_counter' \in Nat /\ generation' \in [SlotIdx -> Nat] /\ GenerationOrder'
  BY <1>1, <1>4, <1>7, TouchOrders
<1>9. TypeOK'
  <2>1. op' \in [Callers -> Suspension] /\ ret' \in [Callers -> Result]
    BY <1>3, <1>5, ReturnType DEF IInv
  <2>2. icache' \in [SlotIdx -> SUBSET (Payloads \cup {Torn})]
    BY <1>2, <1>3
  <2>3. QED
    BY <1>1, <1>2, <1>4, <1>8, <2>1, <2>2 DEF IInv, TypeOK
<1>10. OneBorrower' /\ AwaitedAbsent' /\ StreamPrepared'
  BY <1>1, <1>3, <1>5, AllIdleAfterReturn
<1>11. UniqueResidency'
  BY <1>1, <1>7 DEF IInv, UniqueResidency
<1>12. ResidentVerified'
  <2> SUFFICES ASSUME NEW j \in SlotIdx, NEW n \in Modules, resident_module'[j] = n
               PROVE  icache'[j] \cup {ram'[j]} \subseteq CodeOf[n] \cup {Torn}
    BY DEF ResidentVerified, Fetches
  <2>1. CASE j = i
    BY <1>2, <1>3, <1>7, <2>1
  <2>2. CASE j # i
    BY <1>3, <1>7, <2>2 DEF IInv, ResidentVerified, Fetches
  <2>3. QED
    BY <2>1, <2>2
<1>13. CallRunsOwnCode'
  BY <1>2, <1>5, <1>6 DEF IInv, CallRunsOwnCode
<1>14. QED
  BY <1>8, <1>9, <1>10, <1>11, <1>12, <1>13 DEF IInv

-----------------------------------------------------------------------------
(* Calls and administration; the borrow is free throughout.                *)

\* With the borrow free and op unchanged, nothing is suspended.
LEMMA NothingSuspended ==
    ASSUME Borrowable, UNCHANGED op
    PROVE  OneBorrower' /\ AwaitedAbsent' /\ StreamPrepared'
BY DEF Borrowable, OneBorrower, AwaitedAbsent, StreamPrepared

\* The branch at the end of a call runs what the slot's module owns.
LEMMA BranchRunsOwn ==
    ASSUME IInv, NEW c \in Callers, NEW m \in Modules, NEW i \in SlotIdx,
           resident_module[i] = m, NEW x \in Fetches(i), Branch(c, m, i, x),
           UNCHANGED ram
    PROVE  /\ ret' \in [Callers -> Result]
           /\ icache' \in [SlotIdx -> SUBSET (Payloads \cup {Torn})]
           /\ CallRunsOwnCode'
           /\ \A j \in SlotIdx : Fetches(j)' = Fetches(j)
<1>1. /\ icache \in [SlotIdx -> SUBSET (Payloads \cup {Torn})]
      /\ ram \in [SlotIdx -> Payloads \cup {Torn}]
      /\ ret \in [Callers -> Result]
  BY DEF IInv, TypeOK
<1>2. x \in Payloads \cup {Torn} /\ x \in CodeOf[m] \cup {Torn}
  BY <1>1 DEF IInv, ResidentVerified, Fetches
<1>3. Ok(m, i, x) \in Result /\ Ok(m, i, x).ran = x /\ Ok(m, i, x).module_id = m
  BY <1>2 DEF Ok, Result
<1>4. /\ icache' = [icache EXCEPT ![i] = @ \cup {ram[i]}]
      /\ ret' = [ret EXCEPT ![c] = Ok(m, i, x)]
  BY DEF Branch
<1>5. ret' \in [Callers -> Result] /\ icache' \in [SlotIdx -> SUBSET (Payloads \cup {Torn})]
  BY <1>1, <1>3, <1>4
<1>6. CallRunsOwnCode'
  BY <1>1, <1>2, <1>3, <1>4 DEF IInv, CallRunsOwnCode
<1>7. ASSUME NEW j \in SlotIdx PROVE Fetches(j)' = Fetches(j)
  BY <1>1, <1>4 DEF Fetches
<1>8. QED
  BY <1>5, <1>6, <1>7

\* Results that ran nothing leave CallRunsOwnCode alone.
LEMMA QuietResult ==
    ASSUME IInv, NEW c \in Callers, NEW r \in Result, r.ran = None,
           ret' = [ret EXCEPT ![c] = r]
    PROVE  ret' \in [Callers -> Result] /\ CallRunsOwnCode'
BY DEF IInv, TypeOK, CallRunsOwnCode

LEMMA EnsureHitStep ==
    ASSUME IInv, Borrowable, NEW c \in Callers, NEW m \in Modules,
           NEW then_call \in BOOLEAN, EnsureHit(c, m, then_call)
    PROVE  IInv'
<1>1. UNCHANGED <<flash, resident_module, entry_offset, is_pinned, ram, op>>
  BY DEF EnsureHit
<1>2. PICK i \in FindResidentSlot(m) :
         /\ Touch(i)
         /\ \/ \E x \in Fetches(i) : Branch(c, m, i, x)
            \/ ret' = [ret EXCEPT ![c] = Ok(m, i, None)] /\ UNCHANGED icache
  BY DEF EnsureHit
<1>3. i \in SlotIdx /\ resident_module[i] = m
  BY FoundSlot
<1>4. lru_counter' \in Nat /\ generation' \in [SlotIdx -> Nat] /\ GenerationOrder'
  BY <1>1, <1>2, <1>3, TouchOrders
<1>5. /\ ret' \in [Callers -> Result]
      /\ icache' \in [SlotIdx -> SUBSET (Payloads \cup {Torn})]
      /\ CallRunsOwnCode'
      /\ \A j \in SlotIdx : Fetches(j)' = Fetches(j)
  <2>1. CASE \E x \in Fetches(i) : Branch(c, m, i, x)
    BY <1>1, <1>3, <2>1, BranchRunsOwn
  <2>2. CASE ret' = [ret EXCEPT ![c] = Ok(m, i, None)] /\ UNCHANGED icache
    <3>1. Ok(m, i, None) \in Result /\ Ok(m, i, None).ran = None
      BY <1>3 DEF Ok, Result
    <3>2. ret' \in [Callers -> Result] /\ CallRunsOwnCode'
      BY <2>2, <3>1, QuietResult
    <3>3. QED
      BY <1>1, <2>2, <3>2 DEF IInv, TypeOK, Fetches
  <2>3. QED
    BY <1>2, <2>1, <2>2
<1>6. TypeOK'
  BY <1>1, <1>4, <1>5 DEF IInv, TypeOK
<1>7. OneBorrower' /\ AwaitedAbsent' /\ StreamPrepared'
  BY <1>1, NothingSuspended
<1>8. UniqueResidency' /\ ResidentVerified'
  BY <1>1, <1>5 DEF IInv, UniqueResidency, ResidentVerified
<1>9. QED
  BY <1>4, <1>5, <1>6, <1>7, <1>8 DEF IInv

\* call_typed and call_raw: a branch into the slot's module, or an error.
LEMMA CallStep ==
    ASSUME IInv, Borrowable, NEW c \in Callers, NEW i \in SlotIdx,
           \/ \E m \in Modules, x \in Fetches(i) : resident_module[i] = m /\ Branch(c, m, i, x)
           \/ \E e \in Errors, m \in Modules \cup {None} :
                 ret' = [ret EXCEPT ![c] = Err(e, m)] /\ UNCHANGED icache,
           UNCHANGED <<flash, slotVars, ram, lru_counter, op>>
    PROVE  IInv'
<1>1. /\ ret' \in [Callers -> Result]
      /\ icache' \in [SlotIdx -> SUBSET (Payloads \cup {Torn})]
      /\ CallRunsOwnCode'
      /\ \A j \in SlotIdx : Fetches(j)' = Fetches(j)
  <2>1. CASE \E m \in Modules, x \in Fetches(i) : resident_module[i] = m /\ Branch(c, m, i, x)
    BY <2>1, BranchRunsOwn
  <2>2. ASSUME NEW e \in Errors, NEW m \in Modules \cup {None},
               ret' = [ret EXCEPT ![c] = Err(e, m)], UNCHANGED icache
        PROVE  <1>1!1 /\ <1>1!2 /\ <1>1!3 /\ <1>1!4
    BY <2>2, ErrResult, QuietResult DEF IInv, TypeOK, Fetches
  <2>3. QED
    BY <2>1, <2>2
<1>2. TypeOK'
  BY <1>1 DEF IInv, TypeOK, slotVars
<1>3. OneBorrower' /\ AwaitedAbsent' /\ StreamPrepared'
  BY NothingSuspended
<1>4. UniqueResidency' /\ ResidentVerified' /\ GenerationOrder'
  BY <1>1 DEF IInv, UniqueResidency, ResidentVerified, GenerationOrder, slotVars
<1>5. QED
  BY <1>1, <1>2, <1>3, <1>4 DEF IInv

LEMMA EvictStep ==
    ASSUME IInv, Borrowable, NEW m \in Modules, Evict(m)
    PROVE  IInv'
<1>1. PICK i \in SlotIdx :
         /\ resident_module' = [resident_module EXCEPT ![i] = None]
         /\ entry_offset' = [entry_offset EXCEPT ![i] = 0]
  BY FoundSlot DEF Evict, EvictSlot
<1>2. UNCHANGED <<flash, generation, is_pinned, ram, icache, lru_counter, op, ret>>
  BY DEF Evict, memVars
<1>3. TypeOK'
  BY <1>1, <1>2 DEF IInv, TypeOK
<1>4. OneBorrower' /\ AwaitedAbsent' /\ StreamPrepared'
  BY <1>2, NothingSuspended
<1>5. \A j \in SlotIdx : resident_module'[j] # None =>
          j # i /\ resident_module'[j] = resident_module[j]
  BY <1>1 DEF IInv, TypeOK
<1>6. UniqueResidency' /\ ResidentVerified' /\ GenerationOrder' /\ CallRunsOwnCode'
  BY <1>2, <1>5 DEF IInv, UniqueResidency, ResidentVerified, GenerationOrder,
     CallRunsOwnCode, Fetches
<1>7. QED
  BY <1>3, <1>4, <1>6 DEF IInv

LEMMA PinStep ==
    ASSUME IInv, Borrowable, NEW i \in SlotIdx, PinSlot(i) \/ UnpinSlot(i)
    PROVE  IInv'
<1>1. /\ is_pinned' \in [SlotIdx -> BOOLEAN]
      /\ UNCHANGED <<flash, resident_module, entry_offset, generation, ram, icache,
                     lru_counter, op, ret>>
  BY DEF IInv, TypeOK, PinSlot, UnpinSlot, memVars
<1>2. TypeOK'
  BY <1>1 DEF IInv, TypeOK
<1>3. OneBorrower' /\ AwaitedAbsent' /\ StreamPrepared'
  BY <1>1, NothingSuspended
<1>4. UniqueResidency' /\ ResidentVerified' /\ GenerationOrder' /\ CallRunsOwnCode'
  BY <1>1 DEF IInv, UniqueResidency, ResidentVerified, GenerationOrder, CallRunsOwnCode, Fetches
<1>5. QED
  BY <1>2, <1>3, <1>4 DEF IInv

\* Storage may change under a suspended load; what the load has kept of the
\* header does not.
LEMMA StorageStep ==
    ASSUME IInv, Storage
    PROVE  IInv'
<1>1. /\ flash' \in [Offsets -> Containers]
      /\ UNCHANGED <<slotVars, memVars, lru_counter, op, ret>>
  BY DEF IInv, TypeOK, Storage, Reprogram
<1>2. TypeOK'
  BY <1>1 DEF IInv, TypeOK, slotVars, memVars
<1>3. OneBorrower' /\ AwaitedAbsent' /\ StreamPrepared'
  BY <1>1 DEF IInv, OneBorrower, AwaitedAbsent, StreamPrepared, SelectEvictionSlot,
     EmptySlots, UnpinnedSlots, slotVars
<1>4. UniqueResidency' /\ ResidentVerified' /\ GenerationOrder' /\ CallRunsOwnCode'
  BY <1>1 DEF IInv, UniqueResidency, ResidentVerified, GenerationOrder, CallRunsOwnCode,
     Fetches, slotVars, memVars
<1>5. QED
  BY <1>2, <1>3, <1>4 DEF IInv

-----------------------------------------------------------------------------
(* The invariant and what follows from it.                                 *)

LEMMA NextIInv == IInv /\ [Next]_vars => IInv'
<1> SUFFICES ASSUME IInv, [Next]_vars PROVE IInv'
  OBVIOUS
<1>1. ASSUME NEW c \in Callers, Resume(c) PROVE IInv'
  BY <1>1, HeaderReadFailsStep, HeaderReadStep, StreamFailsStep, StreamCorruptStep,
     StreamLoadedStep, DropFutureStep DEF Resume
<1>2. ASSUME NEW c \in Callers, Borrowable, Begin(c) PROVE IInv'
  <2>1. CASE \E m \in Modules, then_call \in BOOLEAN :
                \/ EnsureHit(c, m, then_call)
                \/ \E offset \in Offsets : EnsureMiss(c, m, offset, then_call)
    BY <1>2, <2>1, EnsureHitStep, EnsureMissStep
  <2>2. ASSUME NEW i \in SlotIdx, CallRaw(c, i) PROVE IInv'
    <3>1. "InvalidSlotIndex" \in Errors /\ resident_module[i] \in Modules \cup {None}
      BY DEF Errors, IInv, TypeOK
    <3>2. QED
      BY <1>2, <2>2, <3>1, CallStep DEF CallRaw
  <2>3. ASSUME NEW i \in SlotIdx, NEW m \in Modules, CallTyped(c, m, i) PROVE IInv'
    <3>1. "ModuleNotFound" \in Errors
      BY DEF Errors
    <3>2. QED
      BY <1>2, <2>3, <3>1, CallStep DEF CallTyped, HoldsModule
  <2>4. QED
    BY <1>2, <2>1, <2>2, <2>3 DEF Begin
<1>3. CASE Borrowable /\ Administer
  BY <1>3, EvictStep, PinStep DEF Administer
<1>4. CASE Storage
  BY <1>4, StorageStep
<1>5. CASE UNCHANGED vars
  <2>1. UNCHANGED <<flash, resident_module, entry_offset, generation, is_pinned, ram, icache,
                    lru_counter, op, ret>>
    BY <1>5 DEF vars, slotVars, memVars
  <2>2. TypeOK' /\ OneBorrower' /\ AwaitedAbsent'
    BY <2>1 DEF IInv, TypeOK, OneBorrower, AwaitedAbsent
  <2>3. StreamPrepared'
    BY <2>1 DEF IInv, StreamPrepared, SelectEvictionSlot, EmptySlots, UnpinnedSlots
  <2>4. UniqueResidency' /\ ResidentVerified' /\ GenerationOrder' /\ CallRunsOwnCode'
    BY <2>1 DEF IInv, UniqueResidency, ResidentVerified, GenerationOrder, CallRunsOwnCode, Fetches
  <2>5. QED
    BY <2>2, <2>3, <2>4 DEF IInv
<1>6. QED
  BY <1>1, <1>2, <1>3, <1>4, <1>5 DEF Next

\* IInv holds in every state of the manager: it is inductive.
THEOREM IInvHolds == Spec => []IInv
<1>1. Init => IInv
  BY InitIInv
<1>2. IInv /\ [Next]_vars => IInv'
  BY NextIInv
<1>3. QED
  BY <1>1, <1>2, PTL DEF Spec

\* The manager's variables keep their types.
THEOREM TypeCorrect == Spec => []TypeOK
<1>1. IInv => TypeOK
  BY DEF IInv
<1>2. QED
  BY <1>1, IInvHolds, PTL

\* find_resident_slot, evict and call_typed always speak of one copy.
THEOREM ResidencyUnique == Spec => []UniqueResidency
<1>1. IInv => UniqueResidency
  BY DEF IInv
<1>2. QED
  BY <1>1, IInvHolds, PTL

\* A resident slot serves verified builds of its module or torn RAM, nothing else.
THEOREM ResidencyVerified == Spec => []ResidentVerified
<1>1. IInv => ResidentVerified
  BY DEF IInv
<1>2. QED
  BY <1>1, IInvHolds, PTL

\* No call through a stale slot index or a stale cache line runs foreign code.
THEOREM CallsRunOwnCode == Spec => []CallRunsOwnCode
<1>1. IInv => CallRunsOwnCode
  BY DEF IInv
<1>2. QED
  BY <1>1, IInvHolds, PTL

\* The LRU scan always has one answer among occupied slots.
THEOREM GenerationsOrdered == Spec => []GenerationOrder
<1>1. IInv => GenerationOrder
  BY DEF IInv
<1>2. QED
  BY <1>1, IInvHolds, PTL

\* The slot a load was given is not the one used last, if another was free to
\* take: that other slot is occupied, so it has a lower generation.
LEMMA ChosenNotLast ==
    ASSUME IInv, NEW c \in Callers, op[c].pc = "stream",
           resident_module[op[c].slot] # None,
           NEW j \in UnpinnedSlots, j # op[c].slot
    PROVE  generation[op[c].slot] < lru_counter
<1> DEFINE i == op[c].slot
<1>1. i \in SlotIdx /\ SelectEvictionSlot(i)
  BY DEF IInv, StreamPrepared
<1>2. i \notin EmptySlots
  BY DEF EmptySlots
<1>3. EmptySlots = {} /\ \A k \in UnpinnedSlots : generation[i] <= generation[k]
  <2>1. generation \in [SlotIdx -> Nat]
    BY DEF IInv, TypeOK
  <2>2. QED
    BY <1>1, <1>2, <2>1 DEF SelectEvictionSlot, UnpinnedSlots
<1>4. j \in SlotIdx /\ resident_module[j] # None
  BY <1>3 DEF EmptySlots, UnpinnedSlots
<1>5. generation[i] # generation[j] /\ generation[j] <= lru_counter
  BY <1>1, <1>4 DEF IInv, GenerationOrder
<1>6. generation[i] <= generation[j]
  BY <1>3
<1>7. generation[i] \in Nat /\ generation[j] \in Nat /\ lru_counter \in Nat
  BY <1>1, <1>4 DEF IInv, TypeOK
<1>8. QED
  BY <1>5, <1>6, <1>7

\* A load replaces the module used last only if it has no other slot.
THEOREM LastUsedIsSpared == Spec => []LastUsedSpared
<1>1. IInv => LastUsedSpared
  <2> SUFFICES ASSUME IInv, NEW c \in Callers, op[c].pc = "stream",
                      resident_module[op[c].slot] # None, UnpinnedSlots # {op[c].slot}
               PROVE  generation[op[c].slot] < lru_counter
    BY DEF LastUsedSpared
  <2>1. op[c].slot \in UnpinnedSlots
    BY DEF IInv, StreamPrepared, SelectEvictionSlot, EmptySlots
  <2>2. PICK j \in UnpinnedSlots : j # op[c].slot
    BY <2>1
  <2>3. QED
    BY <2>2, ChosenNotLast
<1>2. QED
  BY <1>1, IInvHolds, PTL

-----------------------------------------------------------------------------
(* Pins.                                                                   *)

\* A load in flight never aims at a pinned slot.
LEMMA StreamTargetUnpinned ==
    ASSUME IInv, NEW c \in Callers, op[c].pc = "stream"
    PROVE  op[c].slot \in SlotIdx /\ ~is_pinned[op[c].slot]
BY DEF IInv, StreamPrepared, SelectEvictionSlot, EmptySlots, UnpinnedSlots

LEMMA StepKeepsPinned == IInv /\ [Next]_vars => PinnedSlotsKept \/ UNCHANGED vars
<1> SUFFICES ASSUME IInv, Next, NEW i \in SlotIdx, is_pinned[i]
             PROVE  /\ ram'[i] = ram[i]
                    /\ resident_module'[i] # resident_module[i] =>
                          resident_module'[i] = None /\ Evict(resident_module[i])
  BY DEF PinnedSlotsKept
<1>1. ASSUME NEW c \in Callers, op[c].pc = "stream",
             StreamFails(c) \/ StreamCorrupt(c) \/ StreamLoaded(c) \/ DropFuture(c)
      PROVE  ram'[i] = ram[i] /\ resident_module'[i] = resident_module[i]
  <2>1. op[c].slot \in SlotIdx /\ op[c].slot # i
    BY <1>1, StreamTargetUnpinned
  <2>2. /\ ram \in [SlotIdx -> Payloads \cup {Torn}]
        /\ resident_module \in [SlotIdx -> Modules \cup {None}]
    BY DEF IInv, TypeOK
  <2>3. CASE StreamFails(c) \/ DropFuture(c)
    BY <1>1, <2>1, <2>2, <2>3 DEF StreamFails, DropFuture, RamInterrupted, slotVars
  <2>4. CASE StreamCorrupt(c) \/ StreamLoaded(c)
    BY <2>1, <2>2, <2>4 DEF StreamCorrupt, StreamLoaded, EvictSlot
  <2>5. QED
    BY <1>1, <2>3, <2>4
<1>2. ASSUME NEW c \in Callers, Resume(c) PROVE ram'[i] = ram[i] /\ resident_module'[i] = resident_module[i]
  <2>1. CASE HeaderReadFails(c) \/ HeaderRead(c)
    BY <2>1 DEF HeaderReadFails, HeaderRead, slotVars, memVars
  <2>2. CASE DropFuture(c) /\ op[c].pc = "header"
    BY <2>2 DEF DropFuture, slotVars
  <2>3. CASE StreamFails(c) \/ StreamCorrupt(c) \/ StreamLoaded(c)
    BY <1>1, <2>3 DEF StreamFails, StreamCorrupt, StreamLoaded
  <2>4. CASE DropFuture(c) /\ op[c].pc = "stream"
    BY <1>1, <2>4
  <2>5. QED
    BY <1>2, <2>1, <2>2, <2>3, <2>4 DEF Resume, DropFuture
<1>3. ASSUME NEW c \in Callers, Begin(c) PROVE ram'[i] = ram[i] /\ resident_module'[i] = resident_module[i]
  BY <1>3 DEF Begin, EnsureHit, EnsureMiss, CallRaw, CallTyped, slotVars, memVars
<1>4. ASSUME NEW m \in Modules, Evict(m)
      PROVE  /\ ram'[i] = ram[i]
             /\ resident_module'[i] # resident_module[i] =>
                   resident_module'[i] = None /\ m = resident_module[i]
  <2>1. PICK j \in FindResidentSlot(m) : resident_module' = [resident_module EXCEPT ![j] = None]
    BY <1>4 DEF Evict, EvictSlot
  <2>2. j \in SlotIdx /\ resident_module[j] = m
    BY FoundSlot
  <2>3. QED
    BY <1>4, <2>1, <2>2 DEF Evict, memVars, IInv, TypeOK
<1>5. CASE Storage \/ \E j \in SlotIdx : PinSlot(j) \/ UnpinSlot(j)
  BY <1>5 DEF Storage, Reprogram, PinSlot, UnpinSlot, slotVars, memVars
<1>6. QED
  BY <1>2, <1>3, <1>4, <1>5 DEF Next, Administer

\* Loads of every outcome leave pinned slots and their code alone.
THEOREM PinsHold == Spec => PinnedModulesStay
<1>1. IInv /\ [Next]_vars => [PinnedSlotsKept]_vars
  BY StepKeepsPinned
<1>2. QED
  BY <1>1, IInvHolds, PTL DEF Spec, PinnedModulesStay

=============================================================================
