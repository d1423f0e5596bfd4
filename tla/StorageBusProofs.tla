---------------------------- MODULE StorageBusProofs ----------------------------
(***************************************************************************)
(* The bus excludes, reads are snapshots and partitions isolate: for every *)
(* set of clients and views, every chip, and futures dropped at any byte.  *)
(***************************************************************************)
EXTENDS StorageBus, TLAPS

-----------------------------------------------------------------------------
(* The invariant.                                                          *)

\* A transfer has moved [from, next) of a range on the chip.
Transferring ==
    \A c \in Clients : op[c].state = "active" =>
        op[c].from <= op[c].next /\ op[c].next <= op[c].end /\ op[c].end <= CAPACITY

\* What the checks before the lock leave behind: an untouched range, and one
\* inside the view if the client has a partition.  It stays so while the client
\* waits and while it transfers.
Prepared ==
    \A c \in Clients :
        /\ op[c].state = "waiting" => op[c].next = op[c].from
        /\ op[c].state # "idle" /\ View[c].partition =>
              /\ View[c].base_offset <= op[c].from
              /\ op[c].end <= View[c].base_offset + View[c].size

BusInv == TypeOK /\ Transferring /\ Prepared /\ BusHeldWhileActive /\ ReadIsSnapshot

\* A view is a range of addresses.
LEMMA ViewType ==
    ASSUME NEW c \in Clients
    PROVE  View[c].base_offset \in Nat /\ View[c].size \in Nat /\ View[c].partition \in BOOLEAN
BY BusAssumption

LEMMA OperationType ==
    ASSUME TypeOK, NEW c \in Clients
    PROVE  /\ op[c] \in Operation
           /\ op[c].from \in Nat /\ op[c].next \in Nat /\ op[c].end \in Nat
           /\ op[c].kind \in {"read", "write", "erase"} /\ op[c].value \in Bytes
BY DEF TypeOK, Operation

\* A step of one client changes its own operation only.
LEMMA OwnOperation ==
    ASSUME TypeOK, NEW c \in Clients, NEW o \in Operation, op' = [op EXCEPT ![c] = o]
    PROVE  /\ op' \in [Clients -> Operation]
           /\ op'[c] = o
           /\ \A d \in Clients \ {c} : op'[d] = op[d]
BY DEF TypeOK

\* An operation that ends, or a request that is refused, leaves its client idle.
LEMMA Idle ==
    ASSUME NEW status \in {"none", "Ok", "OutOfBounds", "NotAligned"}
    PROVE  /\ [NoOperation EXCEPT !.status = status] \in Operation
           /\ [NoOperation EXCEPT !.status = status].state = "idle"
BY DEF NoOperation, Operation, Erased, Bytes

\* A client that becomes idle, on the bus or off it, leaves the others alone.
LEMMA IdleKeeps ==
    ASSUME BusInv, NEW c \in Clients, UNCHANGED flash,
           requests' \in [Clients -> 0 .. MaxRequests],
           NEW o \in Operation, o.state = "idle", op' = [op EXCEPT ![c] = o],
           buf' \in [Clients -> [Chip -> Bytes]], \A d \in Clients \ {c} : buf'[d] = buf[d],
           bus' = IF bus = c THEN None ELSE bus
    PROVE  BusInv'
<1>1. /\ op' \in [Clients -> Operation]
      /\ op'[c] = o
      /\ \A d \in Clients \ {c} : op'[d] = op[d]
  BY OwnOperation DEF BusInv
<1>2. Transferring' /\ Prepared'
  BY <1>1 DEF BusInv, Transferring, Prepared
<1>3. TypeOK'
  <2>1. bus' \in Clients \cup {None}
    BY DEF BusInv, TypeOK
  <2>2. QED
    BY <1>1, <1>2, <2>1 DEF BusInv, TypeOK, Transferring
<1>4. BusHeldWhileActive'
  <2> SUFFICES ASSUME NEW d \in Clients PROVE (op'[d].state = "active") = (bus' = d)
    BY DEF BusHeldWhileActive
  <2>1. d # None /\ (op[d].state = "active") = (bus = d)
    BY BusAssumption DEF BusInv, BusHeldWhileActive
  <2>2. QED
    BY <1>1, <2>1
<1>5. ReadIsSnapshot'
  BY <1>1 DEF BusInv, ReadIsSnapshot
<1>6. QED
  BY <1>2, <1>3, <1>4, <1>5 DEF BusInv

\* A physical offset is an address, and the sum when that does not wrap.
LEMMA PhysicalOffset ==
    ASSUME NEW c \in Clients, NEW offset \in Nat
    PROVE  /\ Physical(c, offset) \in Nat
           /\ View[c].base_offset + offset < AddressSpace =>
                 Physical(c, offset) = View[c].base_offset + offset
<1> DEFINE sum == View[c].base_offset + offset
<1>1. sum \in Nat /\ AddressSpace \in Nat /\ AddressSpace > 0
  BY ViewType, BusAssumption
<1>2. Physical(c, offset) = sum % AddressSpace
  BY DEF Physical
<1> HIDE DEF sum
<1>3. sum % AddressSpace \in Nat
  BY <1>1
<1>4. sum < AddressSpace => sum % AddressSpace = sum
  BY <1>1
<1>5. QED
  BY <1>2, <1>3, <1>4 DEF sum

\* A range that passed the view's checks does not wrap: it lies in the view.
LEMMA FittingRange ==
    ASSUME NEW c \in Clients, NEW kind \in {"read", "write", "erase"},
           NEW from \in Nat, NEW end \in Nat, FitsView(c, from, end)
    PROVE  /\ View[c].base_offset <= Physical(c, from)
           /\ PhysicalEnd(c, kind, from, end) <= View[c].base_offset + View[c].size
<1> DEFINE base == View[c].base_offset
           size == View[c].size
<1>1. /\ base \in Nat /\ size \in Nat /\ AddressSpace \in Nat /\ base + size < AddressSpace
      /\ from <= end /\ end <= size
  BY ViewType, BusAssumption DEF FitsView
<1>2. base + from < AddressSpace /\ base + end < AddressSpace
  BY <1>1
<1>3. Physical(c, from) = base + from /\ Physical(c, end) = base + end
  BY <1>2, PhysicalOffset
<1>4. PhysicalEnd(c, kind, from, end) = base + end
  BY <1>1, <1>3 DEF PhysicalEnd
<1>5. QED
  BY <1>1, <1>3, <1>4

-----------------------------------------------------------------------------
(* The actions.                                                            *)

LEMMA RequestKeeps ==
    ASSUME BusInv, NEW c \in Clients, NEW kind \in {"read", "write", "erase"},
           NEW from \in Nat, NEW end \in Nat, NEW value \in Bytes,
           kind # "erase" => from <= end,
           Request(c, kind, from, end, value)
    PROVE  BusInv'
<1> DEFINE start == Physical(c, from)
           stop == PhysicalEnd(c, kind, from, end)
           waiting == [state |-> "waiting", kind |-> kind, value |-> value, status |-> "none",
                       from |-> start, next |-> start, end |-> stop]
<1>1. /\ op[c].state = "idle" /\ UNCHANGED <<flash, bus>>
      /\ requests' \in [Clients -> 0 .. MaxRequests]
  <2>1. requests \in [Clients -> 0 .. MaxRequests] /\ MaxRequests \in Nat
    BY BusAssumption DEF BusInv, TypeOK
  <2>2. requests[c] > 0 /\ requests' = [requests EXCEPT ![c] = requests[c] - 1]
    BY DEF Request
  <2>3. requests[c] - 1 \in 0 .. MaxRequests
    BY <2>1, <2>2
  <2>4. QED
    BY <2>1, <2>2, <2>3 DEF Request
<1>2. /\ buf' \in [Clients -> [Chip -> Bytes]]
      /\ \A d \in Clients \ {c} : buf'[d] = buf[d]
  <2>1. [a \in Chip |-> {}] \in [Chip -> Bytes]
    BY DEF Bytes
  <2>2. QED
    BY <2>1 DEF Request, BusInv, TypeOK
<1>3. bus # c
  BY <1>1 DEF BusInv, BusHeldWhileActive
<1>4. CASE View[c].partition /\ ~FitsView(c, from, end)
  <2> DEFINE o == [NoOperation EXCEPT !.status = "OutOfBounds"]
  <2>1. op' = [op EXCEPT ![c] = o]
    BY <1>4 DEF Request
  <2>2. o \in Operation /\ o.state = "idle"
    BY Idle
  <2> HIDE DEF o
  <2>3. QED
    BY <1>1, <1>2, <1>3, <2>1, <2>2, IdleKeeps
<1>5. CASE ~(View[c].partition /\ ~FitsView(c, from, end))
  <2>1. op' = [op EXCEPT ![c] = waiting]
    BY <1>5 DEF Request
  <2>2. start \in Nat /\ stop \in Nat
    <3>1. start \in Nat /\ Physical(c, end) \in Nat
      BY PhysicalOffset
    <3>2. QED
      BY <3>1 DEF PhysicalEnd
  <2> HIDE DEF start, stop
  <2>3. /\ waiting \in Operation /\ waiting.state = "waiting" /\ waiting.next = waiting.from
        /\ waiting.from = start /\ waiting.end = stop
    BY <2>2 DEF Operation
  <2>4. View[c].partition => /\ View[c].base_offset <= waiting.from
                             /\ waiting.end <= View[c].base_offset + View[c].size
    <3>1. View[c].partition => FitsView(c, from, end)
      BY <1>5
    <3>2. QED
      BY <2>3, <3>1, FittingRange DEF start, stop
  <2> HIDE DEF waiting
  <2>5. /\ op' \in [Clients -> Operation]
        /\ op'[c] = waiting
        /\ \A d \in Clients \ {c} : op'[d] = op[d]
    BY <2>1, <2>3, OwnOperation DEF BusInv
  <2>6. Transferring'
    BY <2>3, <2>5 DEF BusInv, Transferring
  <2>7. Prepared'
    BY <2>3, <2>4, <2>5 DEF BusInv, Prepared
  <2>8. TypeOK'
    BY <1>1, <1>2, <2>5, <2>6 DEF BusInv, TypeOK, Transferring
  <2>9. BusHeldWhileActive'
    BY <1>1, <1>3, <2>3, <2>5 DEF BusInv, BusHeldWhileActive
  <2>10. ReadIsSnapshot'
    BY <1>1, <1>2, <2>3, <2>5 DEF BusInv, ReadIsSnapshot
  <2>11. QED
    BY <2>6, <2>7, <2>8, <2>9, <2>10 DEF BusInv
<1>6. QED
  BY <1>4, <1>5

\* Whoever finds the bus free and its range sound is alone on the bus.
LEMMA AcquireKeeps ==
    ASSUME BusInv, NEW c \in Clients, Acquire(c)
    PROVE  BusInv'
<1>1. /\ op[c].state = "waiting" /\ bus = None
      /\ UNCHANGED <<flash, buf, requests>>
  BY DEF Acquire, BusFree
<1>2. ASSUME Refused(c) # "Ok", Finish(c, Refused(c)), UNCHANGED bus PROVE BusInv'
  <2> DEFINE o == [NoOperation EXCEPT !.status = Refused(c)]
  <2>1. Refused(c) \in {"none", "Ok", "OutOfBounds", "NotAligned"}
    BY DEF Refused
  <2>2. o \in Operation /\ o.state = "idle"
    BY <2>1, Idle
  <2>3. op' = [op EXCEPT ![c] = o]
    BY <1>2 DEF Finish
  <2> HIDE DEF o
  <2>4. bus' = IF bus = c THEN None ELSE bus
    BY <1>1, <1>2, BusAssumption
  <2>5. /\ requests' \in [Clients -> 0 .. MaxRequests]
        /\ buf' \in [Clients -> [Chip -> Bytes]] /\ \A d \in Clients \ {c} : buf'[d] = buf[d]
    BY <1>1 DEF BusInv, TypeOK
  <2>6. QED
    BY <1>1, <2>2, <2>3, <2>4, <2>5, IdleKeeps
<1>3. ASSUME Refused(c) = "Ok", op' = [op EXCEPT ![c].state = "active"], bus' = c PROVE BusInv'
  <2> DEFINE o == [op[c] EXCEPT !.state = "active"]
  <2>1. op[c] \in Operation /\ op[c].from \in Nat /\ op[c].next \in Nat /\ op[c].end \in Nat
    BY OperationType DEF BusInv
  <2>2. /\ o \in Operation /\ o.state = "active" /\ o.from = op[c].from /\ o.next = op[c].next
        /\ o.end = op[c].end
    BY <2>1 DEF Operation
  <2>3. op' = [op EXCEPT ![c] = o]
    BY <1>3
  <2> HIDE DEF o
  <2>4. /\ op' \in [Clients -> Operation]
        /\ op'[c] = o
        /\ \A d \in Clients \ {c} : op'[d] = op[d]
    BY <2>2, <2>3, OwnOperation DEF BusInv
  <2>5. o.from = o.next /\ o.next <= o.end /\ o.end <= CAPACITY
    <3>1. op[c].end <= CAPACITY /\ op[c].from <= op[c].end
      BY <1>3, <2>1, BusAssumption DEF Refused
    <3>2. op[c].next = op[c].from
      BY <1>1 DEF BusInv, Prepared
    <3>3. QED
      BY <2>2, <3>1, <3>2
  <2>6. Transferring'
    BY <2>1, <2>2, <2>4, <2>5 DEF BusInv, Transferring
  <2>7. Prepared'
    BY <1>1, <2>2, <2>4 DEF BusInv, Prepared
  <2>8. TypeOK'
    BY <1>1, <1>3, <2>4, <2>6 DEF BusInv, TypeOK, Transferring
  <2>9. BusHeldWhileActive'
    <3> SUFFICES ASSUME NEW d \in Clients PROVE (op'[d].state = "active") = (bus' = d)
      BY DEF BusHeldWhileActive
    <3>1. op[d].state # "active"
      BY <1>1, BusAssumption DEF BusInv, BusHeldWhileActive
    <3>2. QED
      BY <1>3, <2>2, <2>4, <3>1
  <2>10. ReadIsSnapshot'
    <3> SUFFICES ASSUME NEW d \in Clients, op'[d].state = "active", op'[d].kind = "read",
                        NEW a \in Chip, op'[d].from <= a, a < op'[d].next
                 PROVE  buf'[d][a] = flash'[a]
      BY DEF ReadIsSnapshot
    <3>1. CASE d = c
      BY <2>1, <2>2, <2>4, <2>5, <3>1, BusAssumption DEF Chip
    <3>2. CASE d # c
      BY <1>1, <2>4, <3>2 DEF BusInv, ReadIsSnapshot
    <3>3. QED
      BY <3>1, <3>2
  <2>11. QED
    BY <2>6, <2>7, <2>8, <2>9, <2>10 DEF BusInv
<1>4. QED
  BY <1>2, <1>3 DEF Acquire

\* A transfer moves one byte under the bus.
LEMMA TransferStep ==
    ASSUME BusInv, NEW c \in Clients, Transfer(c)
    PROVE  /\ op[c].state = "active" /\ bus = c
           /\ op[c].next \in Chip
           /\ flash' \in [Chip -> Bytes]
           /\ \A a \in Chip : flash'[a] # flash[a] => a = op[c].next /\ op[c].kind # "read"
<1> DEFINE n == op[c].next
           written == CASE op[c].kind = "write" -> Programmed(flash[n], op[c].value)
                        [] op[c].kind = "erase" -> Erased
                        [] op[c].kind = "read"  -> flash[n]
<1>1. op[c].state = "active" /\ n < op[c].end /\ flash' = [flash EXCEPT ![n] = written]
  BY DEF Transfer
<1>2. n \in Nat /\ op[c].end \in Nat /\ op[c].end <= CAPACITY
      /\ op[c].kind \in {"read", "write", "erase"} /\ op[c].value \in Bytes
  BY <1>1, OperationType DEF BusInv, Transferring
<1>3. n \in Chip
  BY <1>1, <1>2, BusAssumption DEF Chip
<1>4. flash \in [Chip -> Bytes]
  BY DEF BusInv, TypeOK
<1>5. written \in Bytes /\ (op[c].kind = "read" => written = flash[n])
  BY <1>2, <1>3, <1>4 DEF Programmed, Erased, Bytes
<1>6. bus = c
  BY <1>1 DEF BusInv, BusHeldWhileActive
<1> HIDE DEF n, written
<1>7. flash' \in [Chip -> Bytes] /\ flash'[n] = written
      /\ \A a \in Chip \ {n} : flash'[a] = flash[a]
  BY <1>1, <1>3, <1>4, <1>5
<1>8. \A a \in Chip : flash'[a] # flash[a] => a = n /\ op[c].kind # "read"
  BY <1>5, <1>7
<1>9. QED
  BY <1>1, <1>3, <1>6, <1>7, <1>8 DEF n

LEMMA TransferKeeps ==
    ASSUME BusInv, NEW c \in Clients, Transfer(c)
    PROVE  BusInv'
<1> DEFINE o == [op[c] EXCEPT !.next = op[c].next + 1]
<1>1. op[c] \in Operation /\ op[c].from \in Nat /\ op[c].next \in Nat /\ op[c].end \in Nat
  BY OperationType DEF BusInv
<1>2. /\ op[c].state = "active" /\ bus = c /\ op[c].next \in Chip /\ op[c].next < op[c].end
      /\ flash' \in [Chip -> Bytes] /\ UNCHANGED <<bus, requests>>
      /\ \A a \in Chip : flash'[a] # flash[a] => a = op[c].next /\ op[c].kind # "read"
  BY TransferStep DEF Transfer
<1>3. op' = [op EXCEPT ![c] = o]
  BY DEF Transfer
<1>4. /\ o \in Operation /\ o.state = "active" /\ o.from = op[c].from /\ o.end = op[c].end
      /\ o.next = op[c].next + 1 /\ o.kind = op[c].kind
  BY <1>1, <1>2 DEF Operation
<1> HIDE DEF o
<1>5. /\ op' \in [Clients -> Operation]
      /\ op'[c] = o
      /\ \A d \in Clients \ {c} : op'[d] = op[d]
  BY <1>3, <1>4, OwnOperation DEF BusInv
<1>6. op[c].from <= op[c].next /\ op[c].end <= CAPACITY
  BY <1>2 DEF BusInv, Transferring
<1>7. /\ buf' \in [Clients -> [Chip -> Bytes]]
      /\ \A d \in Clients \ {c} : buf'[d] = buf[d]
      /\ \A a \in Chip \ {op[c].next} : buf'[c][a] = buf[c][a]
      /\ op[c].kind = "read" => buf'[c][op[c].next] = flash[op[c].next]
  <2>1. buf \in [Clients -> [Chip -> Bytes]] /\ flash \in [Chip -> Bytes]
    BY DEF BusInv, TypeOK
  <2>2. CASE op[c].kind = "read"
    <3>1. buf' = [buf EXCEPT ![c] = [buf[c] EXCEPT ![op[c].next] = flash[op[c].next]]]
      BY <2>2 DEF Transfer
    <3>2. QED
      BY <1>2, <2>1, <3>1
  <2>3. CASE op[c].kind # "read"
    BY <2>1, <2>3 DEF Transfer
  <2>4. QED
    BY <2>2, <2>3
<1>8. Transferring'
  BY <1>1, <1>2, <1>4, <1>5, <1>6 DEF BusInv, Transferring
<1>9. Prepared'
  BY <1>2, <1>4, <1>5 DEF BusInv, Prepared
<1>10. TypeOK'
  BY <1>2, <1>5, <1>7, <1>8 DEF BusInv, TypeOK, Transferring
<1>11. BusHeldWhileActive'
  BY <1>2, <1>4, <1>5 DEF BusInv, BusHeldWhileActive
<1>12. ReadIsSnapshot'
  <2> SUFFICES ASSUME NEW d \in Clients, op'[d].state = "active", op'[d].kind = "read",
                      NEW a \in Chip, op'[d].from <= a, a < op'[d].next
               PROVE  buf'[d][a] = flash'[a]
    BY DEF ReadIsSnapshot
  <2>1. d = c
    BY <1>2, <1>11 DEF BusHeldWhileActive
  <2>2. flash'[a] = flash[a]
    BY <1>2, <1>4, <1>5, <2>1
  <2>3. CASE a = op[c].next
    BY <1>4, <1>5, <1>7, <2>1, <2>2, <2>3
  <2>4. CASE a # op[c].next
    <3>1. a \in Nat /\ a < op[c].next + 1 /\ op[c].from <= a
      BY <1>4, <1>5, <2>1, BusAssumption DEF Chip
    <3>2. a < op[c].next
      BY <1>1, <2>4, <3>1
    <3>3. buf[c][a] = flash[a]
      BY <1>2, <1>4, <1>5, <2>1, <3>1, <3>2 DEF BusInv, ReadIsSnapshot
    <3>4. QED
      BY <1>7, <2>1, <2>2, <2>4, <3>3
  <2>5. QED
    BY <2>3, <2>4
<1>13. QED
  BY <1>8, <1>9, <1>10, <1>11, <1>12 DEF BusInv

\* The guard is dropped with the operation, whether it is complete or not.
LEMMA EndKeeps ==
    ASSUME BusInv, NEW c \in Clients, Complete(c) \/ Drop(c)
    PROVE  BusInv'
<1>1. PICK status \in {"none", "Ok"} : Finish(c, status)
  BY DEF Complete, Drop
<1> DEFINE o == [NoOperation EXCEPT !.status = status]
<1>2. op' = [op EXCEPT ![c] = o] /\ o \in Operation /\ o.state = "idle"
  BY <1>1, Idle DEF Finish
<1>3. bus' = IF bus = c THEN None ELSE bus
  BY DEF Complete, Drop, BusInv, BusHeldWhileActive
<1>4. /\ UNCHANGED flash /\ requests' \in [Clients -> 0 .. MaxRequests]
      /\ buf' \in [Clients -> [Chip -> Bytes]] /\ \A d \in Clients \ {c} : buf'[d] = buf[d]
  BY DEF Complete, Drop, BusInv, TypeOK
<1> HIDE DEF o
<1>5. QED
  BY <1>2, <1>3, <1>4, IdleKeeps

LEMMA InitBusInv == Init => BusInv
<1> SUFFICES ASSUME Init PROVE BusInv
  OBVIOUS
<1>1. NoOperation \in Operation /\ NoOperation.state = "idle"
  BY DEF NoOperation, Operation, Erased, Bytes
<1>2. \A c \in Clients : op[c] = NoOperation
  BY DEF Init
<1>3. TypeOK
  BY <1>1, <1>2, BusAssumption DEF Init, TypeOK, Bytes, Erased
<1>4. BusHeldWhileActive
  BY <1>1, <1>2, BusAssumption DEF Init, BusHeldWhileActive
<1>5. QED
  BY <1>1, <1>2, <1>3, <1>4 DEF BusInv, Transferring, Prepared, ReadIsSnapshot

LEMMA NextBusInv == BusInv /\ [Next]_vars => BusInv'
<1> SUFFICES ASSUME BusInv, [Next]_vars PROVE BusInv'
  OBVIOUS
<1>1. ASSUME NEW c \in Clients, NEW from \in Offsets, NEW len \in 0 .. MaxLen,
             \/ Request(c, "read", from, from + len, Erased)
             \/ \E value \in Bytes : Request(c, "write", from, from + len, value)
      PROVE  BusInv'
  <2>1. from \in Nat /\ from + len \in Nat /\ from <= from + len /\ Erased \in Bytes
    BY BusAssumption DEF Offsets, Erased, Bytes
  <2>2. QED
    BY <1>1, <2>1, RequestKeeps
<1>2. ASSUME NEW c \in Clients, NEW from \in Offsets, NEW to \in Offsets,
             Request(c, "erase", from, to, Erased)
      PROVE  BusInv'
  <2>1. from \in Nat /\ to \in Nat /\ Erased \in Bytes
    BY BusAssumption DEF Offsets, Erased, Bytes
  <2>2. QED
    BY <1>2, <2>1, RequestKeeps
<1>3. CASE UNCHANGED vars
  BY <1>3 DEF vars, BusInv, TypeOK, Transferring, Prepared, BusHeldWhileActive, ReadIsSnapshot
<1>4. QED
  BY <1>1, <1>2, <1>3, AcquireKeeps, TransferKeeps, EndKeeps DEF Next

LEMMA BusInvHolds == Spec => []BusInv
BY InitBusInv, NextBusInv, PTL DEF Spec

-----------------------------------------------------------------------------
(* Theorems.                                                               *)

\* The bus has its types, and no transfer leaves its range or the chip.
THEOREM BusTypeCorrect == Spec => []TypeOK
<1>1. BusInv => TypeOK
  BY DEF BusInv
<1>2. QED
  BY <1>1, BusInvHolds, PTL

\* The mutex is held by the client whose operation is under way, and by nobody
\* when there is none, although futures are dropped at any byte.
THEOREM BusExcludes == Spec => []BusHeldWhileActive
<1>1. BusInv => BusHeldWhileActive
  BY DEF BusInv
<1>2. QED
  BY <1>1, BusInvHolds, PTL

\* What a read has delivered is what the flash holds, for any number of clients
\* that write and erase between its bytes' requests.
THEOREM ReadsAreSnapshots == Spec => []ReadIsSnapshot
<1>1. BusInv => ReadIsSnapshot
  BY DEF BusInv
<1>2. QED
  BY <1>1, BusInvHolds, PTL

\* No byte changes but under the bus, and a partition's client changes none
\* outside its partition, for any base, size and range of 32-bit offsets.
THEOREM PartitionsIsolate == Spec => PartitionIsolation
<1>1. BusInv /\ [Next]_vars => [OnlyOwnWindow]_vars
  <2> SUFFICES ASSUME BusInv, Next, NEW a \in Chip, flash'[a] # flash[a]
               PROVE  \E c \in Clients : bus = c /\ (View[c].partition => a \in Window(c))
    BY DEF OnlyOwnWindow
  <2>1. PICK c \in Clients : Transfer(c)
    BY DEF Next, Request, Acquire, Complete, Drop
  <2>2. op[c].state = "active" /\ bus = c /\ a = op[c].next
    BY <2>1, TransferStep
  <2>3. View[c].partition => a \in Window(c)
    <3>1. /\ op[c].from \in Nat /\ op[c].next \in Nat /\ op[c].end \in Nat
          /\ op[c].from <= op[c].next /\ op[c].next < op[c].end
      BY <2>1, <2>2, OperationType DEF BusInv, Transferring, Transfer
    <3>2. View[c].partition => /\ View[c].base_offset <= op[c].from
                               /\ op[c].end <= View[c].base_offset + View[c].size
      BY <2>2 DEF BusInv, Prepared
    <3>3. View[c].base_offset \in Nat /\ View[c].size \in Nat
      BY ViewType
    <3>4. QED
      BY <2>2, <3>1, <3>2, <3>3 DEF Window
  <2>4. QED
    BY <2>2, <2>3
<1>2. QED
  BY <1>1, BusInvHolds, PTL DEF Spec, PartitionIsolation

=============================================================================
