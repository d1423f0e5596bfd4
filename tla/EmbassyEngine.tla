---------------------------- MODULE EmbassyEngine ----------------------------
(***************************************************************************)
(* src/src/embassy/engine.rs and pipeline.rs: tasks that share one         *)
(* OverlayManager through embassy-sync's async Mutex.                      *)
(*                                                                         *)
(* call and prefetch look the module up in the registry, await the lock,   *)
(* and hold it across both awaits of ensure_resident.  call_and_prefetch   *)
(* is call followed by prefetch, with the lock released in between.  The   *)
(* registry is written through &mut self only, so it is fixed once tasks   *)
(* share the engine.                                                       *)
(***************************************************************************)
EXTENDS OverlayManager

CONSTANTS
    Registry,     \* find_offset: module -> flash offset, or None
    MaxRequests   \* bound: requests each task makes

ASSUME RegistryAssumption == Registry \in [Modules -> Offsets \cup {None}]
ASSUME RequestsAssumption == MaxRequests \in Nat /\ None \notin Callers

VARIABLES
    lock,       \* the task that holds the mutex across an await, or None
    task,       \* per task: the request it is waiting or working on
    reply,      \* per task: the status its last request was answered with
    requests    \* per task: how many requests it may still make

engineVars == <<vars, lock, task, reply, requests>>

\* What a task is doing: waiting for the lock, or holding it across an await.
Work == [pc : {"idle", "waiting", "holding"}, kind : {"call", "prefetch"},
         module_id : Modules \cup {None}, next : Modules \cup {None},
         current : Modules \cup {None}]

IdleTask == [pc |-> "idle", kind |-> "call", module_id |-> None, next |-> None, current |-> None]

EngineTypeOK ==
    /\ TypeOK
    /\ lock \in Callers \cup {None}
    /\ task \in [Callers -> Work]
    /\ \A c \in Callers : task[c].pc # "idle" =>
          task[c].module_id \in Modules /\ Registry[task[c].module_id] \in Offsets
    /\ reply \in [Callers -> Errors \cup {"none", "Ok"}]
    /\ requests \in [Callers -> 0 .. MaxRequests]

EngineInit ==
    /\ Init
    /\ lock = None
    /\ task = [c \in Callers |-> IdleTask]
    /\ reply = [c \in Callers |-> "none"]
    /\ requests = [c \in Callers |-> MaxRequests]

\* Mutex::lock succeeds on a poll that finds it free; waiters have no order.
LockIgnored == TRUE
LockFree == lock = None

-----------------------------------------------------------------------------
(* Requests.                                                               *)

Waiting(kind, m, next, current) ==
    [pc |-> "waiting", kind |-> kind, module_id |-> m, next |-> next, current |-> current]

\* The first poll of call, prefetch or call_and_prefetch (next # None) up to
\* the lock; an unregistered module is answered before it.
Request(c, kind, m, next) ==
    /\ task[c].pc = "idle"
    /\ requests[c] > 0
    /\ requests' = [requests EXCEPT ![c] = @ - 1]
    /\ \/ /\ Registry[m] = None
          /\ reply' = [reply EXCEPT ![c] = "ModuleNotFound"]
          /\ UNCHANGED task
       \/ /\ Registry[m] # None
          /\ task' = [task EXCEPT ![c] = Waiting(kind, m, next, None)]
          /\ reply' = [reply EXCEPT ![c] = "none"]
    /\ UNCHANGED <<vars, lock>>

\* A request is over, or the call of a call_and_prefetch is and its prefetch
\* comes next; a failed call, like an unregistered next module, ends both.
PrefetchFollows(c) == task[c].next # None /\ ret'[c].status = "Ok"

Answer(c) ==
    \/ /\ PrefetchFollows(c)
       /\ Registry[task[c].next] # None
       /\ task' = [task EXCEPT ![c] = Waiting("prefetch", @.next, None, @.module_id)]
       /\ UNCHANGED reply
    \/ /\ PrefetchFollows(c)
       /\ Registry[task[c].next] = None
       /\ task' = [task EXCEPT ![c] = IdleTask]
       /\ reply' = [reply EXCEPT ![c] = "ModuleNotFound"]
    \/ /\ ~PrefetchFollows(c)
       /\ task' = [task EXCEPT ![c] = IdleTask]
       /\ reply' = [reply EXCEPT ![c] = ret'[c].status]

\* The poll that gets the lock.  A hit has no await: the guard is dropped
\* before anyone else runs.  A miss keeps the guard across the header read.
Acquire(c) ==
    /\ task[c].pc = "waiting"
    /\ LockFree
    /\ \/ /\ EnsureHit(c, task[c].module_id, task[c].kind = "call")
          /\ Answer(c)
          /\ UNCHANGED lock
       \/ /\ EnsureMiss(c, task[c].module_id, Registry[task[c].module_id], task[c].kind = "call")
          /\ task' = [task EXCEPT ![c].pc = "holding"]
          /\ lock' = c
          /\ UNCHANGED reply
    /\ UNCHANGED requests

\* The guard is dropped with the future's frame, on every return path.
ReleaseOnSuccess(c) ==
    \/ ret'[c].status = "Ok" /\ lock' = None
    \/ ret'[c].status # "Ok" /\ UNCHANGED lock
Release(c) == lock' = None

\* The holder is polled after one of its storage reads has ended.
Progress(c) ==
    /\ lock = c
    /\ \/ HeaderReadFails(c)
       \/ HeaderRead(c)
       \/ StreamFails(c)
       \/ StreamCorrupt(c)
       \/ StreamLoaded(c)
    /\ \/ /\ op'[c].pc = "idle"
          /\ Answer(c)
          /\ Release(c)
       \/ /\ op'[c].pc # "idle"
          /\ UNCHANGED <<task, lock, reply>>
    /\ UNCHANGED requests

\* A request's future is dropped (select, timeout) while it waits or loads.
DropRequest(c) ==
    /\ "drop" \in Faults
    /\ \/ /\ task[c].pc = "waiting"
          /\ UNCHANGED <<vars, lock>>
       \/ /\ task[c].pc = "holding"
          /\ DropFuture(c)
          /\ lock' = None
    /\ task' = [task EXCEPT ![c] = IdleTask]
    /\ UNCHANGED <<reply, requests>>

\* evict, and pin_slot, unpin_slot and call_typed through inner(): one poll
\* under the lock, without an await inside it.
Locked ==
    /\ LockFree
    /\ \/ Administer
       \/ \E c \in Callers, m \in Modules, i \in SlotIdx :
             task[c].pc = "idle" /\ CallTyped(c, m, i)
    /\ UNCHANGED <<lock, task, reply, requests>>

EngineStorage == Storage /\ UNCHANGED <<lock, task, reply, requests>>

EngineNext ==
    \/ \E c \in Callers :
          \/ \E m \in Modules, next \in Modules \cup {None} : Request(c, "call", m, next)
          \/ \E m \in Modules : Request(c, "prefetch", m, None)
          \/ Acquire(c)
          \/ Progress(c)
          \/ DropRequest(c)
    \/ Locked
    \/ EngineStorage

\* The executor polls a woken task, a read ends, and releasing the mutex wakes
\* a waiter; which waiter gets in is up to the polling order, so with finitely
\* many requests ahead of it a waiter is only known to find the lock free for
\* good in the end.  Nobody has to make a request, drop one or administer.
Fairness == \A c \in Callers : WF_engineVars(Acquire(c)) /\ WF_engineVars(Progress(c))

EngineSpec == EngineInit /\ [][EngineNext]_engineVars /\ Fairness

-----------------------------------------------------------------------------
(* Properties.                                                             *)

\* The mutex stands in for the exclusive borrow: the tasks' interleaved
\* requests drive the manager through behaviours its own specification allows.
ManagerSpec == Spec

\* The lock is held exactly while its holder is suspended inside
\* ensure_resident: no return path, error or drop leaks it, and no load goes
\* on after it is released.
LockCoversLoad ==
    /\ \A c \in Callers : (lock = c) = (op[c].pc # "idle")
    /\ \A c \in Callers : (lock = c) = (task[c].pc = "holding")

\* What makes the engine's steps the manager's: the inductive invariant.
EngineInv == EngineTypeOK /\ LockCoversLoad

\* Every request that waits for the engine or loads is answered, or dropped by
\* its caller.
EveryRequestAnswered == \A c \in Callers : task[c].pc # "idle" ~> task[c].pc = "idle"

\* pipeline.rs, README "Executes ModuleA in Slot A and automatically triggers
\* background prefetch of ModuleB into Slot B": with two unpinned slots the
\* prefetch of call_and_prefetch never replaces the module just called.  It holds
\* of a task that has the engine to itself (EmbassyEngineProofs).
PrefetchSparesCurrent ==
    \A c \in Callers :
        /\ op[c].pc = "stream"
        /\ task[c].current # None
        /\ Cardinality(UnpinnedSlots) >= 2
        => resident_module[op[c].slot] # task[c].current

=============================================================================
