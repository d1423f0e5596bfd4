------------------------------ MODULE StorageBus ------------------------------
(***************************************************************************)
(* src/src/partition.rs over src/src/embassy/shared_storage.rs over a NOR  *)
(* flash (src/src/mock.rs): clients, each with a view of the chip, share   *)
(* it through an async mutex taken for one operation at a time.            *)
(*                                                                         *)
(* A driver moves a range byte by byte, so a client that held no lock      *)
(* could see half an operation.  A dropped future releases the bus with    *)
(* its operation half done.                                                *)
(***************************************************************************)
EXTENDS Naturals

CONSTANTS
    Clients,
    CAPACITY,       \* of the chip
    ERASE_SIZE,
    View,           \* client -> [base_offset, size, partition]; a client without
                    \* a PartitionView holds a bare SharedStorageHandle
    Bits,           \* bits of a byte; a byte is the set of its ones
    AddressSpace,   \* 2^32 in the code
    MaxLen,         \* bound: length of a range
    MaxRequests,    \* bound: requests each client makes
    Faults,         \* {"drop"} when futures may be dropped
    None

Chip == 0 .. CAPACITY - 1
Bytes == SUBSET Bits
Erased == Bits

\* PartitionView::new panics if base_offset + size leaves the address space;
\* nothing compares it with the chip.
ASSUME BusAssumption ==
    /\ CAPACITY \in Nat /\ ERASE_SIZE \in Nat \ {0}
    /\ AddressSpace \in Nat /\ CAPACITY < AddressSpace
    /\ MaxLen \in Nat /\ MaxRequests \in Nat
    /\ View \in [Clients -> [base_offset : Nat, size : Nat, partition : BOOLEAN]]
    /\ \A c \in Clients : View[c].base_offset + View[c].size < AddressSpace
    /\ \A c \in Clients : ~View[c].partition => View[c].base_offset = 0
    /\ None \notin Clients

VARIABLES
    flash,      \* address -> byte
    bus,        \* the client holding the bus mutex, or None
    op,         \* per client: its operation
    buf,        \* per client: the bytes its read has delivered
    requests    \* per client: how many requests it may still make

vars == <<flash, bus, op, buf, requests>>

\* A physical range [from, end) with the next address to transfer.
Operation == [state : {"idle", "waiting", "active"}, kind : {"read", "write", "erase"},
              from : Nat, next : Nat, end : Nat, value : Bytes,
              status : {"none", "Ok", "OutOfBounds", "NotAligned"}]
NoOperation == [state |-> "idle", kind |-> "read", from |-> 0, next |-> 0, end |-> 0,
                value |-> Erased, status |-> "none"]

TypeOK ==
    /\ flash \in [Chip -> Bytes]
    /\ bus \in Clients \cup {None}
    /\ op \in [Clients -> Operation]
    /\ \A c \in Clients : op[c].state = "active" =>
          op[c].from <= op[c].next /\ op[c].next <= op[c].end /\ op[c].end <= CAPACITY
    /\ buf \in [Clients -> [Chip -> Bytes]]
    /\ requests \in [Clients -> 0 .. MaxRequests]

\* MockFlash::new: all bytes erased.
Init ==
    /\ flash = [a \in Chip |-> Erased]
    /\ bus = None
    /\ op = [c \in Clients |-> NoOperation]
    /\ buf = [c \in Clients |-> [a \in Chip |-> {}]]
    /\ requests = [c \in Clients |-> MaxRequests]

-----------------------------------------------------------------------------
\* PartitionView's checks: checked_add, then the end against the size.  Unchecked,
\* the sum of an offset and a length would wrap to a small end.
FitsUnchecked(c, from, end) == from <= end /\ end % AddressSpace <= View[c].size
FitsView(c, from, end) == from <= end /\ end < AddressSpace /\ end <= View[c].size

\* base_offset + an offset, in u32.
Physical(c, offset) == (View[c].base_offset + offset) % AddressSpace

\* A read or a write passes on an offset and a length, an erase both its ends.
PhysicalEnd(c, kind, from, end) ==
    IF kind = "erase" THEN Physical(c, end) ELSE Physical(c, from) + (end - from)

\* PartitionView::read, write, erase with a relative range, up to the lock.
Request(c, kind, from, end, value) ==
    /\ op[c].state = "idle"
    /\ requests[c] > 0
    /\ requests' = [requests EXCEPT ![c] = @ - 1]
    /\ op' = [op EXCEPT ![c] =
                IF View[c].partition /\ ~FitsView(c, from, end)
                THEN [NoOperation EXCEPT !.status = "OutOfBounds"]
                ELSE [state |-> "waiting", kind |-> kind, value |-> value, status |-> "none",
                      from |-> Physical(c, from), next |-> Physical(c, from),
                      end |-> PhysicalEnd(c, kind, from, end)]]
    /\ buf' = [buf EXCEPT ![c] = [a \in Chip |-> {}]]
    /\ UNCHANGED <<flash, bus>>

Finish(c, status) == op' = [op EXCEPT ![c] = [NoOperation EXCEPT !.status = status]]

BusIgnored == TRUE
BusFree == bus = None

Aligned(c) == op[c].from % ERASE_SIZE = 0 /\ op[c].end % ERASE_SIZE = 0

\* The lock is free; the driver checks the range before it moves anything.
RefusedAlignmentOnly(c) == IF op[c].kind = "erase" /\ ~Aligned(c) THEN "NotAligned" ELSE "Ok"
Refused(c) ==
    IF op[c].end > CAPACITY \/ op[c].from > op[c].end THEN "OutOfBounds"
    ELSE IF op[c].kind = "erase" /\ ~Aligned(c) THEN "NotAligned"
    ELSE "Ok"

Acquire(c) ==
    /\ op[c].state = "waiting"
    /\ BusFree
    /\ \/ /\ Refused(c) # "Ok"
          /\ Finish(c, Refused(c))
          /\ UNCHANGED bus
       \/ /\ Refused(c) = "Ok"
          /\ op' = [op EXCEPT ![c].state = "active"]
          /\ bus' = c
    /\ UNCHANGED <<flash, buf, requests>>

\* One byte: a write can only clear bits, an erase sets them.
Programmed(old, value) == old \cap value

Transfer(c) ==
    /\ op[c].state = "active"
    /\ op[c].next < op[c].end
    /\ LET a == op[c].next
       IN  /\ flash' = [flash EXCEPT ![a] =
                          CASE op[c].kind = "write" -> Programmed(@, op[c].value)
                            [] op[c].kind = "erase" -> Erased
                            [] op[c].kind = "read"  -> @]
           /\ buf' = IF op[c].kind = "read" THEN [buf EXCEPT ![c][a] = flash[a]] ELSE buf
    /\ op' = [op EXCEPT ![c].next = @ + 1]
    /\ UNCHANGED <<bus, requests>>

\* The driver returns and the guard is dropped.
CompleteKeepsBus(c) ==
    /\ op[c].state = "active"
    /\ op[c].next = op[c].end
    /\ Finish(c, "Ok")
    /\ UNCHANGED <<flash, bus, buf, requests>>

Complete(c) ==
    /\ op[c].state = "active"
    /\ op[c].next = op[c].end
    /\ Finish(c, "Ok")
    /\ bus' = None
    /\ UNCHANGED <<flash, buf, requests>>

Drop(c) ==
    /\ "drop" \in Faults
    /\ op[c].state # "idle"
    /\ Finish(c, "none")
    /\ bus' = IF bus = c THEN None ELSE bus
    /\ UNCHANGED <<flash, buf, requests>>

\* An offset is any u32.
Offsets == 0 .. AddressSpace - 1

Next ==
    \E c \in Clients :
        \/ \E from \in Offsets, len \in 0 .. MaxLen :
              \/ Request(c, "read", from, from + len, Erased)
              \/ \E value \in Bytes : Request(c, "write", from, from + len, value)
        \/ \E from, to \in Offsets :
              to <= from + MaxLen /\ Request(c, "erase", from, to, Erased)
        \/ Acquire(c)
        \/ Transfer(c)
        \/ Complete(c)
        \/ Drop(c)

\* Waiters and the bus holder are polled; the chip answers.  With finitely many
\* requests a waiter finds the bus free for good in the end.
Fairness == \A c \in Clients :
    WF_vars(Acquire(c)) /\ WF_vars(Transfer(c)) /\ WF_vars(Complete(c))

Spec == Init /\ [][Next]_vars /\ Fairness

-----------------------------------------------------------------------------
(* Properties.                                                             *)

Window(c) ==
    {a \in Chip : View[c].base_offset <= a /\ a < View[c].base_offset + View[c].size}

\* "strictly enforcing partition boundaries" (partition.rs): a byte changes only
\* under the bus, by a client whose view contains it, whatever the request.
OnlyOwnWindow ==
    \A a \in Chip : flash'[a] # flash[a] =>
        \E c \in Clients : bus = c /\ (View[c].partition => a \in Window(c))
PartitionIsolation == [][OnlyOwnWindow]_vars

\* A read that returns Ok has read one state of the flash: nobody else's write
\* or erase took effect between its first byte and its last.
ReadIsSnapshot ==
    \A c \in Clients : op[c].state = "active" /\ op[c].kind = "read" =>
        \A a \in Chip : op[c].from <= a /\ a < op[c].next => buf[c][a] = flash[a]

\* The bus is held exactly by the client whose operation is under way.
BusHeldWhileActive == \A c \in Clients : (op[c].state = "active") = (bus = c)

\* Every operation on the bus ends.
EveryOperationEnds == \A c \in Clients : op[c].state # "idle" ~> op[c].state = "idle"

=============================================================================
