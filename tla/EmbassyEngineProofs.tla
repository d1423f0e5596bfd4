-------------------------- MODULE EmbassyEngineProofs --------------------------
(***************************************************************************)
(* The mutex does the work of the exclusive borrow: every behaviour of the *)
(* tasks on the engine is a behaviour of the manager, so everything proved *)
(* of the manager holds under any interleaving of any number of tasks.     *)
(***************************************************************************)
EXTENDS EmbassyEngine, OverlayCacheProofs, FiniteSetTheorems

USE RegistryAssumption, RequestsAssumption

-----------------------------------------------------------------------------
(* The lock and the borrow.                                                *)

LEMMA FreeLockIsBorrowable == EngineInv /\ LockFree => Borrowable
BY DEF EngineInv, LockCoversLoad, LockFree, Borrowable, EngineTypeOK

\* The part of TypeOK about futures, which every manager step keeps.
LEMMA OpStep ==
    ASSUME TypeOK, NEW c \in Callers, NEW v \in Suspension, op' = [op EXCEPT ![c] = v]
    PROVE  op'[c] = v /\ \A d \in Callers : d # c => op'[d] = op[d]
BY DEF TypeOK

LEMMA NoOpSuspension == NoOp \in Suspension /\ NoOp.pc = "idle"
BY DEF NoOp, Suspension

\* A resumed future changes nobody else's suspension.
LEMMA ResumeFrame ==
    ASSUME TypeOK, NEW c \in Callers, Resume(c)
    PROVE  /\ op[c].pc # "idle"
           /\ \A d \in Callers : d # c => op'[d] = op[d]
<1>1. op[c].pc # "idle"
  BY DEF Resume, HeaderReadFails, HeaderRead, StreamFails, StreamCorrupt, StreamLoaded, DropFuture
<1>2. \E v : op' = [op EXCEPT ![c] = v]
  <2>1. CASE HeaderRead(c)
    <3>1. ASSUME NEW r, Return(c, r) PROVE \E v : op' = [op EXCEPT ![c] = v]
      BY <3>1 DEF Return
    <3>2. CASE HeaderRejected(c, flash[op[c].flash_offset].header)
      BY <3>1, <3>2 DEF HeaderRejected
    <3>3. ASSUME NEW i \in SlotIdx, SlotChosen(c, flash[op[c].flash_offset].header, i)
          PROVE  \E v : op' = [op EXCEPT ![c] = v]
      BY <3>1, <3>3 DEF SlotChosen
    <3>4. QED
      BY <2>1, <3>2, <3>3 DEF HeaderRead
  <2>2. CASE ~HeaderRead(c)
    BY <2>2 DEF Resume, HeaderReadFails, StreamFails, StreamCorrupt, StreamLoaded, DropFuture, Return
  <2>3. QED
    BY <2>1, <2>2
<1>3. QED
  BY <1>1, <1>2 DEF TypeOK

-----------------------------------------------------------------------------
(* Every engine step is a manager step or leaves the manager alone.        *)

\* A task with work has a registered module to do it on.
LEMMA WorkRegistered ==
    ASSUME EngineInv, NEW c \in Callers, task[c].pc # "idle"
    PROVE  /\ task[c] \in Work /\ task[c].module_id \in Modules
           /\ Registry[task[c].module_id] \in Offsets
BY DEF EngineInv, EngineTypeOK

LEMMA EngineStepIsManagerStep == EngineInv /\ [EngineNext]_engineVars => [Next]_vars
<1> SUFFICES ASSUME EngineInv, [EngineNext]_engineVars PROVE [Next]_vars
  OBVIOUS
<1>1. ASSUME NEW c \in Callers, NEW kind, NEW m, NEW next, Request(c, kind, m, next)
      PROVE  UNCHANGED vars
  BY <1>1 DEF Request
<1>2. ASSUME NEW c \in Callers, Acquire(c) PROVE Next
  <2>1. task[c].module_id \in Modules /\ Registry[task[c].module_id] \in Offsets
    BY <1>2, WorkRegistered DEF Acquire
  <2>2. Borrowable
    BY <1>2, FreeLockIsBorrowable DEF Acquire
  <2>3. (task[c].kind = "call") \in BOOLEAN
    OBVIOUS
  <2>4. Begin(c)
    BY <1>2, <2>1, <2>3 DEF Acquire, Begin
  <2>5. QED
    BY <2>2, <2>4 DEF Next
<1>3. ASSUME NEW c \in Callers, Progress(c) PROVE Next
  BY <1>3 DEF Progress, Next, Resume
<1>4. ASSUME NEW c \in Callers, DropRequest(c) PROVE Next \/ UNCHANGED vars
  BY <1>4 DEF DropRequest, Next, Resume
<1>5. CASE Locked
  <2>1. Borrowable
    BY <1>5, FreeLockIsBorrowable DEF Locked
  <2>2. CASE Administer
    BY <2>1, <2>2 DEF Next
  <2>3. CASE \E c \in Callers, m \in Modules, i \in SlotIdx : CallTyped(c, m, i)
    BY <2>1, <2>3 DEF Next, Begin
  <2>4. QED
    BY <1>5, <2>2, <2>3 DEF Locked
<1>6. CASE EngineStorage
  BY <1>6 DEF EngineStorage, Next
<1>7. CASE UNCHANGED engineVars
  BY <1>7 DEF engineVars
<1>8. QED
  BY <1>1, <1>2, <1>3, <1>4, <1>5, <1>6, <1>7 DEF EngineNext

-----------------------------------------------------------------------------
(* The engine's own invariant.                                             *)

\* After an answer the task waits for a registered module or is idle.
LEMMA AnswerType ==
    ASSUME EngineInv, TypeOK', NEW c \in Callers, Answer(c)
    PROVE  /\ task' \in [Callers -> Work]
           /\ task'[c].pc \in {"idle", "waiting"}
           /\ task'[c].pc = "waiting" =>
                 task'[c].module_id \in Modules /\ Registry[task'[c].module_id] \in Offsets
           /\ \A d \in Callers : d # c => task'[d] = task[d]
           /\ reply' \in [Callers -> Errors \cup {"none", "Ok"}]
<1>1. /\ task \in [Callers -> Work] /\ reply \in [Callers -> Errors \cup {"none", "Ok"}]
      /\ task[c].next \in Modules \cup {None} /\ task[c].module_id \in Modules \cup {None}
  BY DEF EngineInv, EngineTypeOK, Work
<1>2. ret'[c].status \in Errors \cup {"none", "Ok"}
  BY DEF TypeOK, Result
<1>3. IdleTask \in Work /\ IdleTask.pc = "idle"
  BY DEF IdleTask, Work
<1>4. CASE /\ PrefetchFollows(c) /\ Registry[task[c].next] # None
           /\ task' = [task EXCEPT ![c] = Waiting("prefetch", @.next, None, @.module_id)]
           /\ UNCHANGED reply
  <2>1. task[c].next \in Modules /\ Registry[task[c].next] \in Offsets
    BY <1>1, <1>4 DEF PrefetchFollows
  <2> DEFINE w == Waiting("prefetch", task[c].next, None, task[c].module_id)
  <2>2. w \in Work /\ w.pc = "waiting" /\ w.module_id = task[c].next
    BY <1>1, <2>1 DEF Waiting, Work
  <2>3. task' = [task EXCEPT ![c] = w]
    BY <1>4
  <2> HIDE DEF w
  <2>4. QED
    BY <1>1, <1>4, <2>1, <2>2, <2>3
<1>5. CASE task' = [task EXCEPT ![c] = IdleTask] /\ reply' = [reply EXCEPT ![c] = "ModuleNotFound"]
  BY <1>1, <1>3, <1>5 DEF Errors
<1>6. CASE task' = [task EXCEPT ![c] = IdleTask] /\ reply' = [reply EXCEPT ![c] = ret'[c].status]
  BY <1>1, <1>2, <1>3, <1>6
<1>7. QED
  BY <1>4, <1>5, <1>6 DEF Answer

LEMMA InitEngineInv == EngineInit => EngineInv
<1> SUFFICES ASSUME EngineInit PROVE EngineInv
  OBVIOUS
<1>1. TypeOK
  BY InitIInv DEF EngineInit, IInv
<1>2. IdleTask \in Work /\ IdleTask.pc = "idle"
  BY DEF IdleTask, Work
<1>3. \A c \in Callers : task[c] = IdleTask /\ op[c].pc = "idle"
  BY DEF EngineInit, Init, NoOp
<1>4. QED
  BY <1>1, <1>2, <1>3 DEF EngineInit, EngineInv, EngineTypeOK, LockCoversLoad

LEMMA NextEngineInv == EngineInv /\ TypeOK' /\ [EngineNext]_engineVars => EngineInv'
<1> SUFFICES ASSUME EngineInv, TypeOK', [EngineNext]_engineVars PROVE EngineInv'
  OBVIOUS
<1> USE DEF EngineInv
<1>1. ASSUME NEW c \in Callers, NEW kind \in {"call", "prefetch"}, NEW m \in Modules,
             NEW next \in Modules \cup {None}, Request(c, kind, m, next)
      PROVE  EngineInv'
  <2> DEFINE w == Waiting(kind, m, next, None)
  <2>1. w \in Work /\ w.pc = "waiting" /\ w.module_id = m
    BY DEF Waiting, Work
  <2>2. /\ requests' \in [Callers -> 0 .. MaxRequests]
        /\ reply' \in [Callers -> Errors \cup {"none", "Ok"}]
    BY <1>1 DEF Request, EngineTypeOK, Errors
  <2>3. UNCHANGED <<op, lock>>
    BY <1>1 DEF Request, vars
  <2>4. \/ UNCHANGED task
        \/ Registry[m] \in Offsets /\ task' = [task EXCEPT ![c] = w]
    BY <1>1 DEF Request
  <2> HIDE DEF w
  <2>5. QED
    BY <1>1, <2>1, <2>2, <2>3, <2>4 DEF Request, EngineTypeOK, LockCoversLoad
<1>2. ASSUME NEW c \in Callers, Acquire(c) PROVE EngineInv'
  <2>1. CASE /\ EnsureHit(c, task[c].module_id, task[c].kind = "call")
             /\ Answer(c) /\ UNCHANGED lock
    <3>1. UNCHANGED <<op, lock, requests>> /\ LockFree
      BY <1>2, <2>1 DEF Acquire, EnsureHit
    <3>2. QED
      BY <2>1, <3>1, AnswerType DEF EngineTypeOK, LockCoversLoad, LockFree
  <2>2. CASE /\ EnsureMiss(c, task[c].module_id, Registry[task[c].module_id], task[c].kind = "call")
             /\ task' = [task EXCEPT ![c].pc = "holding"] /\ lock' = c /\ UNCHANGED reply
    <3>1. /\ task[c].module_id \in Modules /\ Registry[task[c].module_id] \in Offsets
          /\ task[c] \in Work
      BY <1>2, WorkRegistered DEF Acquire
    <3> DEFINE v == [NoOp EXCEPT !.pc = "header", !.module_id = task[c].module_id,
                         !.flash_offset = Registry[task[c].module_id],
                         !.then_call = (task[c].kind = "call")]
               w == [task[c] EXCEPT !.pc = "holding"]
    <3>2. v \in Suspension /\ v.pc = "header"
      BY <3>1 DEF NoOp, Suspension
    <3>3. w \in Work /\ w.pc = "holding" /\ w.module_id = task[c].module_id
      BY <3>1 DEF Work
    <3>4. op' = [op EXCEPT ![c] = v] /\ task' = [task EXCEPT ![c] = w]
      BY <2>2 DEF EnsureMiss
    <3> HIDE DEF v, w
    <3>5. op'[c] = v /\ \A d \in Callers : d # c => op'[d] = op[d]
      BY <3>2, <3>4, OpStep DEF EngineTypeOK
    <3>6. task'[c] = w /\ \A d \in Callers : d # c => task'[d] = task[d]
      BY <3>4 DEF EngineTypeOK
    <3>7. UNCHANGED <<reply, requests>> /\ LockFree
      BY <1>2, <2>2 DEF Acquire
    <3>8. EngineTypeOK'
      BY <2>2, <3>1, <3>3, <3>4, <3>6, <3>7 DEF EngineTypeOK
    <3>9. LockCoversLoad'
      BY <2>2, <3>2, <3>3, <3>5, <3>6, <3>7 DEF LockCoversLoad, LockFree
    <3>10. QED
      BY <3>8, <3>9
  <2>3. QED
    BY <1>2, <2>1, <2>2 DEF Acquire
<1>3. ASSUME NEW c \in Callers, Progress(c) PROVE EngineInv'
  <2>1. lock = c /\ UNCHANGED requests /\ Resume(c)
    BY <1>3 DEF Progress, Resume
  <2>2. \A d \in Callers : d # c => op'[d] = op[d]
    BY <2>1, ResumeFrame DEF EngineTypeOK
  <2>3. CASE op'[c].pc = "idle" /\ Answer(c) /\ lock' = None
    BY <2>1, <2>2, <2>3, AnswerType DEF EngineTypeOK, LockCoversLoad
  <2>4. CASE op'[c].pc # "idle" /\ UNCHANGED <<task, lock, reply>>
    BY <2>1, <2>2, <2>4 DEF EngineTypeOK, LockCoversLoad
  <2>5. QED
    BY <1>3, <2>3, <2>4 DEF Progress, Release
<1>4. ASSUME NEW c \in Callers, DropRequest(c) PROVE EngineInv'
  <2>1. IdleTask \in Work /\ IdleTask.pc = "idle"
    BY DEF IdleTask, Work
  <2>2. task' = [task EXCEPT ![c] = IdleTask] /\ UNCHANGED <<reply, requests>>
    BY <1>4 DEF DropRequest
  <2>3. EngineTypeOK'
    BY <1>4, <2>1, <2>2 DEF DropRequest, EngineTypeOK
  <2>4. CASE task[c].pc = "waiting" /\ UNCHANGED <<vars, lock>>
    BY <2>1, <2>2, <2>3, <2>4 DEF vars, EngineTypeOK, LockCoversLoad
  <2>5. CASE task[c].pc = "holding" /\ DropFuture(c) /\ lock' = None
    <3>1. \A d \in Callers : d # c => op'[d] = op[d]
      BY <2>5, ResumeFrame DEF EngineTypeOK, Resume
    <3>2. op'[c].pc = "idle"
      BY <2>5, NoOpSuspension, OpStep DEF DropFuture, Return, EngineTypeOK
    <3>3. QED
      BY <2>1, <2>2, <2>3, <2>5, <3>1, <3>2 DEF EngineTypeOK, LockCoversLoad
  <2>6. QED
    BY <1>4, <2>4, <2>5 DEF DropRequest
<1>5. CASE Locked \/ EngineStorage \/ UNCHANGED engineVars
  <2>1. UNCHANGED <<op, lock, task, reply, requests>>
    BY <1>5 DEF Locked, EngineStorage, Administer, Evict, PinSlot, UnpinSlot, CallTyped,
       Storage, Reprogram, engineVars, vars
  <2>2. QED
    BY <2>1 DEF EngineTypeOK, LockCoversLoad
<1>6. QED
  BY <1>1, <1>2, <1>3, <1>4, <1>5 DEF EngineNext

-----------------------------------------------------------------------------
(* Theorems.                                                               *)

LEMMA EngineInvariant == EngineSpec => [](IInv /\ EngineInv)
<1>1. EngineInit => IInv /\ EngineInv
  BY InitIInv, InitEngineInv DEF EngineInit
<1>2. IInv /\ EngineInv /\ [EngineNext]_engineVars => (IInv /\ EngineInv)'
  <2> SUFFICES ASSUME IInv, EngineInv, [EngineNext]_engineVars PROVE IInv' /\ EngineInv'
    OBVIOUS
  <2>1. IInv'
    BY EngineStepIsManagerStep, NextIInv
  <2>2. TypeOK'
    BY <2>1 DEF IInv
  <2>3. QED
    BY <2>1, <2>2, NextEngineInv
<1>3. QED
  BY <1>1, <1>2, PTL DEF EngineSpec

\* No path leaks the lock and no load runs without it.
THEOREM LockHeldDuringLoad == EngineSpec => []LockCoversLoad
<1>1. EngineInv => LockCoversLoad
  BY DEF EngineInv
<1>2. QED
  BY <1>1, EngineInvariant, PTL

\* The tasks, however they interleave, drive the manager through its own
\* behaviours: the mutex is as good as the exclusive borrow.
THEOREM EngineImplementsManager == EngineSpec => ManagerSpec
<1>1. EngineInit => Init
  BY DEF EngineInit
<1>2. EngineInv /\ [EngineNext]_engineVars => [Next]_vars
  BY EngineStepIsManagerStep
<1>3. QED
  BY <1>1, <1>2, EngineInvariant, PTL DEF EngineSpec, ManagerSpec, Spec

\* So all tasks that share the engine (call, prefetch, evict of engine.rs) together
\* see one least-recently-used cache with pins, however they interleave.
THEOREM EngineImplementsCache == EngineSpec => CacheSpec
BY EngineImplementsManager, ManagerImplementsCache, PTL DEF ManagerSpec

\* What the manager promises any single borrower it promises the engine's
\* tasks: one copy per module, verified code, calls that run their own code,
\* and pins that hold.
THEOREM EngineSafe ==
    EngineSpec => /\ [](UniqueResidency /\ ResidentVerified /\ CallRunsOwnCode /\ GenerationOrder)
                  /\ PinnedModulesStay
<1>1. IInv => UniqueResidency /\ ResidentVerified /\ CallRunsOwnCode /\ GenerationOrder
  BY DEF IInv
<1>2. QED
  BY <1>1, EngineImplementsManager, IInvHolds, PinsHold, PTL DEF ManagerSpec

-----------------------------------------------------------------------------
(* One task: the prefetch of call_and_prefetch spares the module called.    *)

\* The engine's variables keep their types, and a task only ever works on a
\* registered module.
THEOREM EngineTypeCorrect == EngineSpec => []EngineTypeOK
<1>1. EngineInv => EngineTypeOK
  BY DEF EngineInv
<1>2. QED
  BY <1>1, EngineInvariant, PTL

\* A load is for the task's request, and the module a call_and_prefetch has
\* called is the one used last, wherever it still is.
CalledLast ==
    \A c \in Callers :
        /\ task[c].pc = "idle" => task[c].current = None
        /\ task[c].pc = "holding" => op[c].module_id = task[c].module_id
        /\ task[c].current # None =>
              \A i \in SlotIdx :
                  resident_module[i] = task[c].current => generation[i] = lru_counter

\* The only way to have a current module is an answered call.
LEMMA AnswerCurrent ==
    ASSUME EngineInv, TypeOK', NEW c \in Callers, Answer(c)
    PROVE  /\ task'[c].pc \in {"idle", "waiting"}
           /\ task'[c].current # None =>
                 /\ task'[c].pc = "waiting"
                 /\ ret'[c].status = "Ok" /\ task'[c].current = task[c].module_id
<1>1. task'[c].pc \in {"idle", "waiting"}
  BY AnswerType
<1>2. CASE task' = [task EXCEPT ![c] = IdleTask]
  BY <1>1, <1>2 DEF IdleTask, EngineInv, EngineTypeOK
<1>3. CASE /\ PrefetchFollows(c)
           /\ task' = [task EXCEPT ![c] = Waiting("prefetch", @.next, None, @.module_id)]
  BY <1>1, <1>3 DEF PrefetchFollows, Waiting, EngineInv, EngineTypeOK
<1>4. QED
  BY <1>2, <1>3 DEF Answer

LEMMA AcquireCalledLast ==
    ASSUME IInv, EngineInv, CalledLast, IInv', \A c, d \in Callers : c = d,
           NEW c \in Callers, Acquire(c)
    PROVE  CalledLast'
<1> DEFINE m == task[c].module_id
<1>0. TypeOK' /\ m \in Modules
  BY WorkRegistered DEF IInv, Acquire
<1>1. CASE EnsureHit(c, m, task[c].kind = "call") /\ Answer(c)
  <2>1. PICK i \in FindResidentSlot(m) : Touch(i)
    BY <1>1 DEF EnsureHit
  <2>2. UNCHANGED resident_module
    BY <1>1 DEF EnsureHit
  <2>3. i \in SlotIdx /\ resident_module[i] = m /\ m # None
    BY <1>0, <2>1, FoundSlot, ValuesAssumption
  <2>4. generation'[i] = lru_counter'
    BY <2>1, <2>3 DEF Touch, IInv, TypeOK
  <2>5. \A k \in SlotIdx : resident_module'[k] = m => k = i
    BY <2>2, <2>3 DEF IInv, UniqueResidency
  <2>6. QED
    BY <1>0, <1>1, <2>4, <2>5, AnswerCurrent DEF CalledLast
<1>2. CASE /\ EnsureMiss(c, m, Registry[m], task[c].kind = "call")
           /\ task' = [task EXCEPT ![c].pc = "holding"]
  <2>1. UNCHANGED <<resident_module, generation, lru_counter>>
    BY <1>2 DEF EnsureMiss, slotVars
  <2>2. op'[c].module_id = m
    BY <1>2 DEF EnsureMiss, NoOp, IInv, TypeOK
  <2>3. /\ task'[c].pc = "holding" /\ task'[c].module_id = m
        /\ task'[c].current = task[c].current
    BY <1>2 DEF EngineInv, EngineTypeOK, Work
  <2>4. QED
    BY <2>1, <2>2, <2>3 DEF CalledLast
<1>3. QED
  BY <1>1, <1>2 DEF Acquire

\* How a load that is not finished well goes on: with an error, or suspended.
LEMMA UnfinishedLoad ==
    ASSUME IInv, NEW c \in Callers,
           HeaderReadFails(c) \/ HeaderRead(c) \/ StreamFails(c) \/ StreamCorrupt(c)
    PROVE  \/ op'[c].pc = "idle" /\ ret'[c].status # "Ok"
           \/ /\ op'[c].pc = "stream" /\ op'[c].module_id = op[c].module_id
              /\ UNCHANGED <<resident_module, generation, lru_counter>>
<1>1. ASSUME NEW e \in Errors, NEW n, Return(c, Err(e, n))
      PROVE  op'[c].pc = "idle" /\ ret'[c].status # "Ok"
  <2>1. ret'[c] = Err(e, n)
    BY <1>1 DEF Return, IInv, TypeOK
  <2>2. op'[c].pc = "idle"
    BY <1>1, NoOpSuspension, OpStep DEF Return, IInv
  <2>3. e # "Ok"
    BY DEF Errors, HeaderErrors
  <2>4. QED
    BY <2>1, <2>2, <2>3 DEF Err
<1>2. CASE HeaderReadFails(c) \/ StreamFails(c) \/ StreamCorrupt(c)
  <2>1. "Storage" \in Errors /\ "PayloadCrcMismatch" \in Errors
    BY DEF Errors
  <2>2. QED
    BY <1>1, <1>2, <2>1 DEF HeaderReadFails, StreamFails, StreamCorrupt
<1>3. CASE HeaderRead(c)
  <2> DEFINE header == flash[op[c].flash_offset].header
  <2>1. UNCHANGED <<resident_module, generation, lru_counter>>
    BY <1>3 DEF HeaderRead, slotVars
  <2>2. header.status \in HeaderErrors \cup {"Ok"}
    BY <1>3, StoredContainer DEF IInv, AwaitedAbsent, HeaderRead, Header
  <2>3. CASE HeaderRejected(c, header)
    <3>1. \E e \in Errors : Return(c, Err(e, op[c].module_id))
      BY <2>2, <2>3 DEF HeaderRejected, Errors
    <3>2. QED
      BY <1>1, <3>1
  <2>4. ASSUME NEW i \in SlotIdx, SlotChosen(c, header, i)
        PROVE  \/ op'[c].pc = "idle" /\ ret'[c].status # "Ok"
               \/ op'[c].pc = "stream" /\ op'[c].module_id = op[c].module_id
    <3>1. CASE op' = [op EXCEPT ![c] = [@ EXCEPT !.pc = "stream", !.header = header, !.slot = i]]
      <4>1. op \in [Callers -> Suspension] /\ op[c] \in Suspension
        BY DEF IInv, TypeOK
      <4>2. op'[c] = [op[c] EXCEPT !.pc = "stream", !.header = header, !.slot = i]
        BY <3>1, <4>1
      <4>3. QED
        BY <4>1, <4>2 DEF Suspension
    <3>2. CASE \E e \in Errors : Return(c, Err(e, op[c].module_id))
      BY <1>1, <3>2
    <3>3. QED
      BY <2>4, <3>1, <3>2 DEF SlotChosen, Errors
  <2>5. QED
    BY <1>3, <2>1, <2>3, <2>4 DEF HeaderRead
<1>4. QED
  BY <1>2, <1>3

LEMMA ProgressCalledLast ==
    ASSUME IInv, EngineInv, CalledLast, IInv', \A c, d \in Callers : c = d,
           NEW c \in Callers, Progress(c)
    PROVE  CalledLast'
<1> DEFINE m == task[c].module_id
           i == op[c].slot
<1>1. /\ TypeOK' /\ lock = c /\ task[c].pc = "holding"
      /\ op[c].module_id = m /\ op[c].pc # "idle"
  BY DEF Progress, IInv, EngineInv, LockCoversLoad, CalledLast
<1>2. CASE op'[c].pc = "idle" /\ Answer(c) /\ ret'[c].status # "Ok"
  BY <1>1, <1>2, AnswerCurrent DEF CalledLast
<1>3. CASE StreamLoaded(c) /\ op'[c].pc = "idle" /\ Answer(c)
  <2>1. i \in SlotIdx /\ \A k \in SlotIdx : resident_module[k] # m
    BY <1>1, <1>3 DEF StreamLoaded, IInv, StreamPrepared, AwaitedAbsent
  <2>2. resident_module' = [resident_module EXCEPT ![i] = m] /\ Touch(i)
    BY <1>1, <1>3 DEF StreamLoaded
  <2>3. generation'[i] = lru_counter'
    BY <2>1, <2>2 DEF Touch, IInv, TypeOK
  <2>4. \A k \in SlotIdx : resident_module'[k] = m => k = i
    BY <2>1, <2>2 DEF IInv, TypeOK
  <2>5. QED
    BY <1>1, <1>3, <2>3, <2>4, AnswerCurrent DEF CalledLast
<1>4. CASE /\ op'[c].pc = "stream" /\ op'[c].module_id = op[c].module_id
           /\ UNCHANGED <<resident_module, generation, lru_counter, task>>
  BY <1>1, <1>4 DEF CalledLast
<1>5. CASE StreamLoaded(c)
  <2>1. \E r : Return(c, r)
    BY <1>5 DEF StreamLoaded
  <2>2. op'[c].pc = "idle"
    BY <2>1, NoOpSuspension, OpStep DEF Return, IInv
  <2>3. QED
    BY <1>3, <1>5, <2>2 DEF Progress
<1>6. CASE HeaderReadFails(c) \/ HeaderRead(c) \/ StreamFails(c) \/ StreamCorrupt(c)
  <2>1. CASE op'[c].pc = "idle" /\ ret'[c].status # "Ok"
    BY <1>1, <1>2, <2>1 DEF Progress
  <2>2. CASE /\ op'[c].pc = "stream" /\ op'[c].module_id = op[c].module_id
             /\ UNCHANGED <<resident_module, generation, lru_counter>>
    BY <1>1, <1>4, <2>2 DEF Progress
  <2>3. QED
    BY <1>6, <2>1, <2>2, UnfinishedLoad
<1>7. QED
  BY <1>5, <1>6 DEF Progress

LEMMA NextCalledLast ==
    ASSUME IInv, EngineInv, CalledLast, IInv', \A c, d \in Callers : c = d,
           [EngineNext]_engineVars
    PROVE  CalledLast'
<1>0. task \in [Callers -> Work]
  BY DEF EngineInv, EngineTypeOK
<1>1. ASSUME NEW c \in Callers, NEW kind, NEW m, NEW next, Request(c, kind, m, next)
      PROVE  CalledLast'
  <2>1. UNCHANGED <<resident_module, generation, lru_counter, op>>
    BY <1>1 DEF Request, vars, slotVars
  <2>2. CASE UNCHANGED task
    BY <2>1, <2>2 DEF CalledLast
  <2>3. CASE task' = [task EXCEPT ![c] = Waiting(kind, m, next, None)]
    <3>1. task'[c].pc = "waiting" /\ task'[c].current = None
      BY <1>0, <2>3 DEF Waiting
    <3>2. QED
      BY <3>1 DEF CalledLast
  <2>4. QED
    BY <1>1, <2>2, <2>3 DEF Request
<1>2. ASSUME NEW c \in Callers, DropRequest(c) PROVE CalledLast'
  <2>1. task'[c].pc = "idle" /\ task'[c].current = None
    BY <1>0, <1>2 DEF DropRequest, IdleTask
  <2>2. QED
    BY <2>1 DEF CalledLast
<1>3. CASE Locked /\ Administer
  <2>1. UNCHANGED <<generation, lru_counter, op, task>>
    BY <1>3 DEF Locked, Administer, Evict, PinSlot, UnpinSlot
  <2>2. \A i \in SlotIdx : resident_module'[i] \in {resident_module[i], None}
    BY <1>3, FoundSlot DEF Administer, Evict, EvictSlot, PinSlot, UnpinSlot, IInv, TypeOK
  <2>3. QED
    BY <2>1, <2>2 DEF CalledLast
<1>4. CASE \/ Locked /\ ~Administer
           \/ EngineStorage
           \/ UNCHANGED engineVars
  BY <1>4 DEF Locked, CallTyped, EngineStorage, Storage, Reprogram, engineVars, vars, slotVars,
     CalledLast
<1>5. QED
  BY <1>1, <1>2, <1>3, <1>4, AcquireCalledLast, ProgressCalledLast DEF EngineNext

\* call_and_prefetch on one task: a module is called, and the prefetch that
\* follows never streams over it while a second slot is unpinned, whatever is
\* evicted, pinned, rewritten in storage or dropped in between.  Other tasks can
\* defeat it: their calls come in between and make the called module the older.
THEOREM SoloPrefetchSparesCurrent ==
    ASSUME \A c, d \in Callers : c = d
    PROVE  EngineSpec => []PrefetchSparesCurrent
<1>1. EngineInit => CalledLast
  BY DEF EngineInit, IdleTask, CalledLast
<1>2. IInv /\ EngineInv /\ CalledLast /\ IInv' /\ [EngineNext]_engineVars => CalledLast'
  BY NextCalledLast
<1>3. IInv /\ CalledLast => PrefetchSparesCurrent
  <2> SUFFICES ASSUME IInv, CalledLast, NEW c \in Callers, op[c].pc = "stream",
                      task[c].current # None, Cardinality(UnpinnedSlots) >= 2,
                      resident_module[op[c].slot] = task[c].current
               PROVE  FALSE
    BY DEF PrefetchSparesCurrent
  <2>1. op[c].slot \in UnpinnedSlots /\ op[c].slot \in SlotIdx
    BY DEF IInv, StreamPrepared, SelectEvictionSlot, EmptySlots, UnpinnedSlots
  <2>2. Cardinality({op[c].slot}) = 1
    BY FS_Singleton
  <2>3. UnpinnedSlots # {op[c].slot}
    BY <2>2
  <2>4. PICK j \in UnpinnedSlots : j # op[c].slot
    BY <2>1, <2>3
  <2>5. generation[op[c].slot] < lru_counter
    BY <2>4, ChosenNotLast
  <2>6. generation[op[c].slot] = lru_counter
    BY <2>1 DEF CalledLast
  <2>7. generation[op[c].slot] \in Nat /\ lru_counter \in Nat
    BY <2>1 DEF IInv, TypeOK
  <2>8. QED
    BY <2>5, <2>6, <2>7
<1>4. QED
  BY <1>1, <1>2, <1>3, EngineInvariant, PTL DEF EngineSpec

=============================================================================
