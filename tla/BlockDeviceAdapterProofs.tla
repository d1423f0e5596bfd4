----------------------- MODULE BlockDeviceAdapterProofs -----------------------
(***************************************************************************)
(* Reads and writes through the bounce buffer, for every block size, card, *)
(* request and address space, and for transfers that break off anywhere.   *)
(***************************************************************************)
EXTENDS BlockDeviceAdapter, Integers, TLAPS

-----------------------------------------------------------------------------
(* Blocks and positions.                                                   *)

LEMMA SizeType == BLOCK_SIZE \in Nat \ {0} /\ NUM_BLOCKS \in Nat
BY GeometryAssumption

LEMMA ProductOrder ==
    ASSUME NEW k \in Nat, NEW m \in Nat, k < m
    PROVE  k * BLOCK_SIZE + BLOCK_SIZE <= m * BLOCK_SIZE
<1>1. PICK d \in Nat : m = k + 1 + d
  <2>1. m - k - 1 \in Nat /\ m = k + 1 + (m - k - 1)
    OBVIOUS
  <2>2. QED
    BY <2>1
<1>2. m * BLOCK_SIZE = k * BLOCK_SIZE + BLOCK_SIZE + d * BLOCK_SIZE
  BY <1>1, SizeType
<1>3. d * BLOCK_SIZE \in Nat /\ k * BLOCK_SIZE \in Nat
  BY SizeType
<1>4. QED
  BY <1>2, <1>3, SizeType

LEMMA Division ==
    ASSUME NEW n \in Nat
    PROVE  /\ BlockOf(n) \in Nat
           /\ n % BLOCK_SIZE \in InBlock
           /\ n = BlockOf(n) * BLOCK_SIZE + (n % BLOCK_SIZE)
<1>1. /\ n \div BLOCK_SIZE \in Int
      /\ n % BLOCK_SIZE \in 0 .. BLOCK_SIZE - 1
      /\ n = BLOCK_SIZE * (n \div BLOCK_SIZE) + (n % BLOCK_SIZE)
  BY SizeType
<1>2. n \div BLOCK_SIZE \in Nat
  BY <1>1, SizeType
<1>3. QED
  BY <1>1, <1>2, SizeType DEF BlockOf, InBlock

\* An address has one block and one position in it.
LEMMA Decomposition ==
    ASSUME NEW b \in Nat, NEW p \in InBlock
    PROVE  b * BLOCK_SIZE + p \in Nat /\ BlockOf(b * BLOCK_SIZE + p) = b /\ (b * BLOCK_SIZE + p) % BLOCK_SIZE = p
<1> DEFINE n == b * BLOCK_SIZE + p
           q == BlockOf(n)
           r == n % BLOCK_SIZE
<1>1. p \in Nat /\ p < BLOCK_SIZE /\ b * BLOCK_SIZE \in Nat
  BY SizeType DEF InBlock
<1>2. n \in Nat
  BY <1>1
<1>3. q \in Nat /\ r \in Nat /\ r < BLOCK_SIZE /\ n = q * BLOCK_SIZE + r
  <2> HIDE DEF n
  <2>1. q \in Nat /\ r \in InBlock /\ n = q * BLOCK_SIZE + r
    BY <1>2, Division
  <2>2. QED
    BY <2>1, SizeType DEF InBlock
<1> HIDE DEF q, r
<1>4. ~(q < b)
  BY <1>1, <1>3, ProductOrder, SizeType
<1>5. ~(b < q)
  BY <1>1, <1>3, ProductOrder, SizeType
<1>6. q = b
  BY <1>3, <1>4, <1>5
<1>7. r = p
  BY <1>1, <1>3, <1>6, SizeType
<1>8. QED
  BY <1>2, <1>6, <1>7 DEF q, r

LEMMA OnCard ==
    /\ \A a \in Addresses : a \in Nat /\ BlockOf(a) \in Blocks /\ a % BLOCK_SIZE \in InBlock
    /\ \A b \in Blocks, p \in InBlock : b * BLOCK_SIZE + p \in Addresses
<1>1. DeviceSize = NUM_BLOCKS * BLOCK_SIZE /\ DeviceSize \in Nat
  BY SizeType DEF DeviceSize
<1>2. ASSUME NEW a \in Addresses PROVE a \in Nat /\ BlockOf(a) \in Blocks /\ a % BLOCK_SIZE \in InBlock
  <2>1. a \in Nat /\ a < DeviceSize
    BY <1>1 DEF Addresses
  <2>2. BlockOf(a) \in Nat /\ a % BLOCK_SIZE \in InBlock /\ a = BlockOf(a) * BLOCK_SIZE + (a % BLOCK_SIZE)
    BY <2>1, Division
  <2>3. BlockOf(a) < NUM_BLOCKS
    <3>1. SUFFICES ASSUME ~(BlockOf(a) < NUM_BLOCKS) PROVE FALSE
      OBVIOUS
    <3>2. BlockOf(a) = NUM_BLOCKS \/ NUM_BLOCKS < BlockOf(a)
      BY <2>2, <3>1, SizeType
    <3>3. NUM_BLOCKS * BLOCK_SIZE <= BlockOf(a) * BLOCK_SIZE
      <4>1. BlockOf(a) * BLOCK_SIZE \in Nat /\ NUM_BLOCKS * BLOCK_SIZE \in Nat
        BY <2>2, SizeType
      <4>2. QED
        BY <2>2, <3>2, <4>1, ProductOrder, SizeType
    <3>4. BlockOf(a) * BLOCK_SIZE \in Nat /\ a % BLOCK_SIZE \in Nat
      BY <2>2, SizeType DEF InBlock
    <3>5. QED
      BY <1>1, <2>1, <2>2, <3>3, <3>4
  <2>4. QED
    BY <2>1, <2>2, <2>3, SizeType DEF Blocks
<1>3. ASSUME NEW b \in Blocks, NEW p \in InBlock PROVE b * BLOCK_SIZE + p \in Addresses
  <2>1. b \in Nat /\ b < NUM_BLOCKS /\ p \in Nat /\ p < BLOCK_SIZE
    BY SizeType DEF Blocks, InBlock
  <2>2. b * BLOCK_SIZE + BLOCK_SIZE <= NUM_BLOCKS * BLOCK_SIZE /\ b * BLOCK_SIZE \in Nat
    BY <2>1, ProductOrder, SizeType
  <2>3. QED
    BY <1>1, <2>1, <2>2, SizeType DEF Addresses
<1>4. QED
  BY <1>2, <1>3

\* What lies between the starts of two blocks lies in the blocks between.
LEMMA Between ==
    ASSUME NEW k \in Nat, NEW m \in Nat, NEW a \in Nat
    PROVE  k * BLOCK_SIZE <= a /\ a < m * BLOCK_SIZE <=> k <= BlockOf(a) /\ BlockOf(a) < m
<1> DEFINE q == BlockOf(a)
           r == a % BLOCK_SIZE
<1>1. q \in Nat /\ r \in InBlock /\ a = q * BLOCK_SIZE + r
  BY Division
<1>2. r \in Nat /\ r < BLOCK_SIZE
  BY <1>1, SizeType DEF InBlock
<1> HIDE DEF q, r
<1>3. k * BLOCK_SIZE \in Nat /\ m * BLOCK_SIZE \in Nat /\ q * BLOCK_SIZE \in Nat
  BY <1>1, SizeType
<1>4. k <= q => k * BLOCK_SIZE <= a
  BY <1>1, <1>2, <1>3, ProductOrder, SizeType
<1>5. q < k => a < k * BLOCK_SIZE
  BY <1>1, <1>2, <1>3, ProductOrder, SizeType
<1>6. q < m => a < m * BLOCK_SIZE
  BY <1>1, <1>2, <1>3, ProductOrder, SizeType
<1>7. m <= q => m * BLOCK_SIZE <= a
  BY <1>1, <1>2, <1>3, ProductOrder, SizeType
<1>8. QED
  BY <1>1, <1>2, <1>3, <1>4, <1>5, <1>6, <1>7 DEF q

-----------------------------------------------------------------------------
(* The invariant.  The bounce buffer is a true copy but for bytes in doubt *)
(* (CacheCoherent), in the middle of a read-modify-write only outside the  *)
(* turn's range.  What the turns so far were to do is done, and a turn     *)
(* that is not the first starts on a block, so that no later write-back    *)
(* can touch what an earlier turn wrote.                                   *)

WritesValue == op.kind = "write" => op.value \in Values

OutcomeFits ==
    /\ op.kind = "none" => status = "Ok"
    /\ op.kind # "none" /\ status = "Ok" => op.offset = op.end
    /\ op.dirty => status = "running"

AtBoundary == status = "running" => op.offset = op.from \/ op.offset % BLOCK_SIZE = 0

DeliveredSoFar ==
    op.kind = "read" /\ status \in {"running", "Ok"} =>
        \A a \in Addresses :
            IF a \in Range(op.from, op.offset) THEN a \in doubtful \/ dest[a] = device[a]
                                               ELSE dest[a] = None

WrittenSoFar ==
    op.kind = "write" /\ status \in {"running", "Ok"} =>
        \A a \in Range(op.from, op.offset) : device[a] = op.value

InTurn(a) == a \in TurnRange

Modified ==
    op.dirty =>
        /\ op.kind = "write" /\ ~Whole
        /\ cached_block = BlockOf(op.offset)
        /\ \A a \in Addresses : InTurn(a) => cache[a % BLOCK_SIZE] = op.value
        /\ \A a \in Addresses : BlockOf(a) = BlockOf(op.offset) /\ ~InTurn(a) => Agrees(a)

IInv ==
    /\ TypeOK /\ WritesValue /\ OutcomeFits /\ AtBoundary
    /\ DeliveredSoFar /\ WrittenSoFar /\ Modified /\ CacheCoherent

-----------------------------------------------------------------------------
(* One turn of the loops.                                                  *)

LEMMA Typed ==
    ASSUME TypeOK
    PROVE  /\ op.from \in Nat /\ op.offset \in Nat /\ op.end \in Nat
           /\ op.dirty \in BOOLEAN /\ op.value \in Values \cup {None}
           /\ DeviceSize = NUM_BLOCKS * BLOCK_SIZE /\ DeviceSize \in Nat
BY SizeType DEF TypeOK, DeviceSize

\* A whole-block turn runs from one block's start to another's.
LEMMA WholeTurn ==
    ASSUME TypeOK, status = "running", Whole
    PROVE  /\ WholeBlocks \in Nat \ {0}
           /\ op.offset = BlockOf(op.offset) * BLOCK_SIZE
           /\ TurnEnd = (BlockOf(op.offset) + WholeBlocks) * BLOCK_SIZE
           /\ \A n \in 0 .. WholeBlocks : op.offset + n * BLOCK_SIZE <= TurnEnd
           /\ op.offset < TurnEnd /\ TurnEnd <= op.end
<1> DEFINE q == BlockOf(op.offset)
           w == WholeBlocks
<1>1. op.offset \in Nat /\ op.end \in Nat /\ op.offset < op.end
  BY Typed DEF TypeOK
<1>2. Left \in Nat /\ Left = op.end - op.offset /\ Left >= BLOCK_SIZE /\ op.offset % BLOCK_SIZE = 0
  BY <1>1 DEF Left, Whole
<1>3. w \in Nat /\ Left = w * BLOCK_SIZE + (Left % BLOCK_SIZE) /\ Left % BLOCK_SIZE \in InBlock
  BY <1>2, Division DEF WholeBlocks, BlockOf
<1>4. q \in Nat /\ op.offset = q * BLOCK_SIZE + 0
  BY <1>1, <1>2, Division
<1>5. TurnEnd = op.offset + w * BLOCK_SIZE
  BY DEF TurnEnd
<1> HIDE DEF q, w
<1>6. w # 0
  <2>1. Left % BLOCK_SIZE \in Nat /\ Left % BLOCK_SIZE < BLOCK_SIZE
    BY <1>3, SizeType DEF InBlock
  <2>2. SUFFICES ASSUME w = 0 PROVE FALSE
    OBVIOUS
  <2>3. w * BLOCK_SIZE = 0
    BY <2>2, SizeType
  <2>4. QED
    BY <1>2, <1>3, <2>1, <2>3, SizeType
<1>7. /\ w * BLOCK_SIZE \in Nat /\ q * BLOCK_SIZE \in Nat
      /\ (q + w) * BLOCK_SIZE = q * BLOCK_SIZE + w * BLOCK_SIZE
      /\ Left % BLOCK_SIZE \in Nat
  BY <1>3, <1>4, SizeType DEF InBlock
<1>8. 0 < w * BLOCK_SIZE
  BY <1>3, <1>6, SizeType
<1>9. ASSUME NEW n \in 0 .. w PROVE op.offset + n * BLOCK_SIZE <= TurnEnd
  <2>1. n \in Nat /\ n * BLOCK_SIZE \in Nat /\ (n < w \/ n = w)
    BY <1>3, SizeType
  <2>2. n * BLOCK_SIZE <= w * BLOCK_SIZE
    BY <1>3, <1>7, <2>1, ProductOrder, SizeType
  <2>3. QED
    BY <1>1, <1>5, <1>7, <2>1, <2>2
<1>10. op.offset < TurnEnd /\ TurnEnd <= op.end
  BY <1>1, <1>2, <1>3, <1>5, <1>7, <1>8
<1>11. op.offset = q * BLOCK_SIZE /\ TurnEnd = (q + w) * BLOCK_SIZE
  BY <1>4, <1>5, <1>7
<1>12. QED
  BY <1>3, <1>6, <1>9, <1>10, <1>11 DEF q, w

\* Any other turn stays in one block.
LEMMA PartTurn ==
    ASSUME TypeOK, status = "running", ~Whole
    PROVE  /\ TurnEnd \in Nat /\ op.offset < TurnEnd /\ TurnEnd <= op.end
           /\ TurnEnd = op.end \/ TurnEnd = (BlockOf(op.offset) + 1) * BLOCK_SIZE
           /\ \A a \in Addresses : InTurn(a) => BlockOf(a) = BlockOf(op.offset)
<1> DEFINE q == BlockOf(op.offset)
           block_end == (q + 1) * BLOCK_SIZE
<1>1. op.offset \in Nat /\ op.end \in Nat /\ op.offset < op.end
  BY Typed DEF TypeOK
<1>2. q \in Nat
  BY <1>1, Division
<1>3. TurnEnd = IF op.end < block_end THEN op.end ELSE block_end
  BY DEF TurnEnd, ChunkEnd
<1> HIDE DEF q
<1>4. block_end \in Nat /\ q * BLOCK_SIZE \in Nat /\ q + 1 \in Nat
  BY <1>2, SizeType
<1>5. q * BLOCK_SIZE <= op.offset /\ op.offset < block_end
  BY <1>1, <1>2, <1>4, Between DEF q
<1> HIDE DEF block_end
<1>6. TurnEnd \in Nat /\ op.offset < TurnEnd /\ TurnEnd <= op.end /\ TurnEnd <= block_end
  BY <1>1, <1>3, <1>4, <1>5
<1>7. ASSUME NEW a \in Addresses, InTurn(a) PROVE BlockOf(a) = q
  <2>1. a \in Nat /\ BlockOf(a) \in Nat
    BY OnCard, Division
  <2>2. q * BLOCK_SIZE <= a /\ a < (q + 1) * BLOCK_SIZE
    BY <1>1, <1>4, <1>5, <1>6, <1>7, <2>1 DEF InTurn, TurnRange, Range, block_end
  <2>3. q <= BlockOf(a) /\ BlockOf(a) < q + 1
    BY <1>2, <1>4, <2>1, <2>2, Between
  <2>4. QED
    BY <1>2, <2>1, <2>3
<1>8. QED
  BY <1>3, <1>6, <1>7 DEF q, block_end

LEMMA Turn ==
    ASSUME TypeOK, status = "running"
    PROVE  /\ TurnEnd \in Nat /\ op.offset < TurnEnd /\ TurnEnd <= op.end
           /\ op.from <= op.offset /\ op.end <= DeviceSize /\ op.offset \in Addresses
           /\ TurnEnd = op.end \/ TurnEnd % BLOCK_SIZE = 0
<1>1. /\ op.from <= op.offset /\ op.offset < op.end /\ op.end <= DeviceSize
      /\ op.offset \in Nat /\ op.end \in Nat /\ DeviceSize \in Nat /\ BlockOf(op.offset) \in Nat
  BY Typed, Division DEF TypeOK
<1>2. op.offset \in Addresses
  BY <1>1 DEF Addresses
<1>3. ASSUME NEW k \in Nat PROVE k * BLOCK_SIZE \in Nat /\ (k * BLOCK_SIZE) % BLOCK_SIZE = 0
  <2>1. 0 \in InBlock /\ k * BLOCK_SIZE \in Nat
    BY SizeType DEF InBlock
  <2>2. k * BLOCK_SIZE + 0 = k * BLOCK_SIZE
    BY <2>1
  <2>3. (k * BLOCK_SIZE + 0) % BLOCK_SIZE = 0
    BY <2>1, Decomposition
  <2>4. QED
    BY <2>1, <2>2, <2>3
<1>4. CASE Whole
  <2>1. PICK k \in Nat : TurnEnd = k * BLOCK_SIZE
    BY <1>1, <1>4, WholeTurn
  <2>2. QED
    BY <1>1, <1>2, <1>3, <1>4, <2>1, WholeTurn
<1>5. CASE ~Whole
  <2>1. BlockOf(op.offset) + 1 \in Nat
    BY <1>1
  <2>2. QED
    BY <1>1, <1>2, <1>3, <1>5, <2>1, PartTurn
<1>6. QED
  BY <1>4, <1>5

\* The turn adds its range to what the earlier turns have done, and stays in
\* the range of the request.
LEMMA RangeSplit ==
    ASSUME TypeOK, status = "running", NEW a \in Addresses
    PROVE  /\ a \in Range(op.from, TurnEnd) <=> a \in Range(op.from, op.offset) \/ InTurn(a)
           /\ InTurn(a) => a \in Range(op.from, op.end)
<1>1. /\ a \in Nat /\ op.from \in Nat /\ op.offset \in Nat /\ op.end \in Nat
      /\ TurnEnd \in Nat /\ op.from <= op.offset /\ op.offset < TurnEnd /\ TurnEnd <= op.end
  BY OnCard, Typed, Turn
<1>2. QED
  BY <1>1 DEF Range, InTurn, TurnRange

\* What an earlier turn has done lies in an earlier block than this turn's.
LEMMA EarlierBlocks ==
    ASSUME TypeOK, status = "running", AtBoundary,
           NEW a \in Addresses, a \in Range(op.from, op.offset)
    PROVE  BlockOf(a) # BlockOf(op.offset)
<1> DEFINE q == BlockOf(op.offset)
<1>1. /\ a \in Nat /\ op.from \in Nat /\ op.offset \in Nat /\ op.from <= a /\ a < op.offset
  BY OnCard, Typed DEF Range
<1>2. op.offset % BLOCK_SIZE = 0
  BY <1>1 DEF AtBoundary
<1>3. q \in Nat /\ op.offset = q * BLOCK_SIZE + 0
  BY <1>1, <1>2, Division
<1> HIDE DEF q
<1>4. q * BLOCK_SIZE \in Nat /\ 0 * BLOCK_SIZE = 0
  BY <1>3, SizeType
<1>5. BlockOf(a) < q
  BY <1>1, <1>3, <1>4, Between
<1>6. BlockOf(a) \in Nat
  BY <1>1, Division
<1>7. QED
  BY <1>3, <1>5, <1>6 DEF q

-----------------------------------------------------------------------------
(* The buffer, and the steps that end a turn or a request.                 *)

LEMMA ContentsAt ==
    /\ \A a \in Addresses : Contents(BlockOf(a))[a % BLOCK_SIZE] = device[a]
    /\ \A b \in Blocks : \A p \in InBlock :
          b * BLOCK_SIZE + p \in Addresses /\ Contents(b)[p] = device[b * BLOCK_SIZE + p]
<1>1. ASSUME NEW a \in Addresses PROVE Contents(BlockOf(a))[a % BLOCK_SIZE] = device[a]
  BY OnCard, Division DEF Contents
<1>2. QED
  BY <1>1, OnCard DEF Contents

LEMMA BufferTrue ==
    ASSUME IInv, status = "running", ~op.dirty
    PROVE  /\ Buffer \in [InBlock -> Values \cup {Garbled}]
           /\ BlockOf(op.offset) \in Blocks
           /\ \A a \in Addresses : BlockOf(a) = BlockOf(op.offset) =>
                 a \in doubtful \/ Buffer[a % BLOCK_SIZE] = device[a]
<1>1. BlockOf(op.offset) \in Blocks
  BY Turn, OnCard DEF IInv
<1>2. Contents(BlockOf(op.offset)) \in [InBlock -> Values \cup {Garbled}]
  BY <1>1, OnCard DEF Contents, IInv, TypeOK
<1>3. BlockOf(op.offset) # None
  BY <1>1, SizeType, GeometryAssumption DEF Blocks
<1>4. Buffer \in [InBlock -> Values \cup {Garbled}]
  BY <1>2, <1>3 DEF Buffer, IInv, TypeOK
<1>5. ASSUME NEW a \in Addresses, BlockOf(a) = BlockOf(op.offset)
      PROVE  a \in doubtful \/ Buffer[a % BLOCK_SIZE] = device[a]
  <2>1. CASE cached_block = BlockOf(op.offset)
    BY <1>5, <2>1 DEF Buffer, IInv, CacheCoherent, Agrees
  <2>2. CASE cached_block # BlockOf(op.offset)
    BY <1>5, <2>2, ContentsAt DEF Buffer
  <2>3. QED
    BY <2>1, <2>2
<1>6. QED
  BY <1>1, <1>4, <1>5

\* The turn is over: the request goes on at its end or has succeeded.
LEMMA AdvanceStep ==
    ASSUME IInv, status = "running", Advance
    PROVE  /\ op' \in [kind : {"none", "read", "write"}, from : Nat, end : Nat, offset : Nat,
                       value : Values \cup {None}, dirty : BOOLEAN]
           /\ status' \in {"running", "Ok"}
           /\ status' = "running" =>
                 op'.from <= op'.offset /\ op'.offset < op'.end /\ op'.end <= DeviceSize
           /\ op'.kind = op.kind /\ op'.from = op.from /\ op'.offset = TurnEnd
           /\ op'.value = op.value /\ ~op'.dirty
           /\ OutcomeFits' /\ AtBoundary' /\ WritesValue' /\ Modified'
<1>1. /\ TurnEnd \in Nat /\ op.offset < TurnEnd /\ TurnEnd <= op.end
      /\ op.from <= op.offset /\ op.end <= DeviceSize
      /\ TurnEnd = op.end \/ TurnEnd % BLOCK_SIZE = 0
  BY Turn DEF IInv
<1>2. op \in [kind : {"none", "read", "write"}, from : Nat, end : Nat, offset : Nat,
              value : Values \cup {None}, dirty : BOOLEAN]
  BY DEF IInv, TypeOK
<1>3. /\ op' = [op EXCEPT !.offset = TurnEnd, !.dirty = FALSE]
      /\ status' = IF TurnEnd = op.end THEN "Ok" ELSE "running"
  BY DEF Advance
<1> HIDE DEF TurnEnd
<1>4. op' \in [kind : {"none", "read", "write"}, from : Nat, end : Nat, offset : Nat,
               value : Values \cup {None}, dirty : BOOLEAN]
  BY <1>1, <1>2, <1>3
<1>5. /\ op'.kind = op.kind /\ op'.from = op.from /\ op'.end = op.end /\ op'.offset = TurnEnd
      /\ op'.value = op.value /\ ~op'.dirty
  BY <1>2, <1>3
<1>6. op.from \in Nat /\ op.offset \in Nat /\ op.end \in Nat
  BY <1>2
<1>7. status' = "running" => op'.from <= op'.offset /\ op'.offset < op'.end /\ op'.end <= DeviceSize
  BY <1>1, <1>3, <1>5, <1>6
<1>8. op.kind # "none"
  BY DEF IInv, OutcomeFits
<1>9. OutcomeFits'
  BY <1>3, <1>5, <1>8 DEF OutcomeFits
<1>10. AtBoundary' /\ WritesValue' /\ Modified'
  BY <1>1, <1>3, <1>5 DEF AtBoundary, WritesValue, Modified, IInv
<1>11. QED
  BY <1>3, <1>4, <1>5, <1>7, <1>9, <1>10

\* After a transfer that broke off the types and the buffer are left to check.
LEMMA AbortStep ==
    ASSUME IInv, status = "running", NEW D \in SUBSET Addresses, Abort(D), CacheCoherent',
           device' \in [Addresses -> Values \cup {Garbled}],
           cached_block' \in Blocks \cup {None},
           cache' \in [InBlock -> Values \cup {Garbled}],
           dest' = dest
    PROVE  IInv'
<1>1. status' = "Device" /\ doubtful' = doubtful \cup D /\ op' = [op EXCEPT !.dirty = FALSE]
  BY DEF Abort
<1>2. op' \in [kind : {"none", "read", "write"}, from : Nat, end : Nat, offset : Nat,
               value : Values \cup {None}, dirty : BOOLEAN]
  BY <1>1 DEF IInv, TypeOK
<1>3. op'.kind = op.kind /\ op'.value = op.value /\ ~op'.dirty
  BY <1>1 DEF IInv, TypeOK
<1>4. TypeOK'
  BY <1>1, <1>2 DEF IInv, TypeOK
<1>5. op.kind # "none"
  BY DEF IInv, OutcomeFits
<1>6. /\ WritesValue' /\ OutcomeFits' /\ AtBoundary'
      /\ DeliveredSoFar' /\ WrittenSoFar' /\ Modified'
  BY <1>1, <1>3, <1>5
     DEF IInv, WritesValue, OutcomeFits, AtBoundary, DeliveredSoFar, WrittenSoFar, Modified
<1>7. QED
  BY <1>4, <1>6 DEF IInv

-----------------------------------------------------------------------------
(* The actions.                                                            *)

LEMMA InitIInv == Init => IInv
<1> SUFFICES ASSUME Init PROVE IInv
  OBVIOUS
<1>1. /\ op = NoRequest /\ status = "Ok" /\ doubtful = {} /\ cached_block = None
      /\ dest = [a \in Addresses |-> None]
      /\ device \in [Addresses -> Values \cup {Garbled}]
      /\ cache \in [InBlock -> Values \cup {Garbled}]
  BY DEF Init
<1>2. TypeOK
  BY <1>1 DEF TypeOK, NoRequest
<1>3. CacheCoherent
  <2>1. \A a \in Addresses : BlockOf(a) # None
    BY OnCard, SizeType, GeometryAssumption DEF Blocks
  <2>2. QED
    BY <1>1, <2>1 DEF CacheCoherent
<1>4. QED
  BY <1>1, <1>2, <1>3
     DEF NoRequest, IInv, WritesValue, OutcomeFits, AtBoundary, DeliveredSoFar, WrittenSoFar,
         Modified

LEMMA RequestIInv ==
    ASSUME IInv, NEW kind \in {"read", "write"}, NEW from \in Nat, NEW len \in Nat,
           NEW value \in Values \cup {None}, kind = "write" => value \in Values,
           Request(kind, from, len, value)
    PROVE  IInv'
<1>1. /\ op' = [kind |-> kind, from |-> from, end |-> from + len, offset |-> from,
                value |-> value, dirty |-> FALSE]
      /\ dest' = [a \in Addresses |-> None]
      /\ status' = IF ~InBounds(from, len) THEN "OutOfBounds"
                   ELSE IF len = 0 THEN "Ok" ELSE "running"
      /\ UNCHANGED <<device, cached_block, cache, doubtful>>
      /\ ~op.dirty
  BY DEF Request, NoRequest, Idle, IInv, OutcomeFits
<1>2. InBounds(from, len) => from + len <= DeviceSize
  <2>1. TotalCapacity <= DeviceSize
    <3>1. DeviceSize \in Nat /\ AddressSpace \in Nat \ {0}
      BY SizeType, GeometryAssumption DEF DeviceSize
    <3>2. QED
      BY <3>1 DEF TotalCapacity
  <2>2. TotalCapacity \in Nat /\ DeviceSize \in Nat
    BY SizeType, GeometryAssumption DEF DeviceSize, TotalCapacity
  <2>3. QED
    BY <2>1, <2>2 DEF InBounds
<1>3. TypeOK'
  <2>1. op' \in [kind : {"none", "read", "write"}, from : Nat, end : Nat, offset : Nat,
                 value : Values \cup {None}, dirty : BOOLEAN]
    BY <1>1
  <2>2. dest' \in [Addresses -> Values \cup {Garbled, None}]
    BY <1>1
  <2>3. status' = "running" =>
            op'.from <= op'.offset /\ op'.offset < op'.end /\ op'.end <= DeviceSize
    BY <1>1, <1>2
  <2>4. QED
    BY <1>1, <2>1, <2>2, <2>3 DEF IInv, TypeOK
<1>4. WritesValue' /\ AtBoundary' /\ Modified'
  BY <1>1 DEF WritesValue, AtBoundary, Modified
<1>5. OutcomeFits'
  BY <1>1 DEF OutcomeFits
<1>6. \A a : a \notin Range(from, from)
  BY OnCard DEF Range
<1>7. DeliveredSoFar' /\ WrittenSoFar'
  BY <1>1, <1>6 DEF DeliveredSoFar, WrittenSoFar
<1>8. CacheCoherent'
  BY <1>1 DEF IInv, CacheCoherent, Agrees
<1>9. QED
  BY <1>3, <1>4, <1>5, <1>7, <1>8 DEF IInv

LEMMA ReadWholeIInv == IInv /\ ReadWhole => IInv'
<1> SUFFICES ASSUME IInv, ReadWhole PROVE IInv'
  OBVIOUS
<1>1. /\ status = "running" /\ op.kind = "read" /\ ~op.dirty /\ Advance
      /\ UNCHANGED <<device, cached_block, cache, doubtful>>
      /\ dest' = [a \in Addresses |-> IF InTurn(a) THEN device[a] ELSE dest[a]]
  BY DEF ReadWhole, Running, IInv, Modified, InTurn
<1>2. TypeOK'
  <2>1. dest' \in [Addresses -> Values \cup {Garbled, None}]
    BY <1>1 DEF IInv, TypeOK
  <2>2. QED
    BY <1>1, <2>1, AdvanceStep DEF IInv, TypeOK
<1>3. DeliveredSoFar'
  <2>1. SUFFICES ASSUME NEW a \in Addresses
                 PROVE  IF a \in Range(op.from, TurnEnd) THEN a \in doubtful \/ dest'[a] = device[a]
                                                         ELSE dest'[a] = None
    BY <1>1, AdvanceStep DEF DeliveredSoFar
  <2>2. IF a \in Range(op.from, op.offset) THEN a \in doubtful \/ dest[a] = device[a]
                                           ELSE dest[a] = None
    BY <1>1 DEF IInv, DeliveredSoFar
  <2>3. QED
    BY <1>1, <2>2, RangeSplit DEF IInv
<1>4. WrittenSoFar'
  BY <1>1, AdvanceStep DEF WrittenSoFar
<1>5. CacheCoherent'
  BY <1>1 DEF IInv, CacheCoherent, Agrees
<1>6. QED
  BY <1>1, <1>2, <1>3, <1>4, <1>5, AdvanceStep DEF IInv

LEMMA ReadPartIInv == IInv /\ ReadPart => IInv'
<1> SUFFICES ASSUME IInv, ReadPart PROVE IInv'
  OBVIOUS
<1>1. /\ status = "running" /\ op.kind = "read" /\ ~Whole /\ ~op.dirty /\ Advance
      /\ UNCHANGED <<device, doubtful>>
      /\ cache' = Buffer /\ cached_block' = BlockOf(op.offset)
      /\ dest' = [a \in Addresses |-> IF InTurn(a) THEN Buffer[a % BLOCK_SIZE] ELSE dest[a]]
  BY DEF ReadPart, Running, IInv, Modified, InTurn
<1>2. /\ Buffer \in [InBlock -> Values \cup {Garbled}] /\ BlockOf(op.offset) \in Blocks
      /\ \A a \in Addresses : BlockOf(a) = BlockOf(op.offset) =>
            a \in doubtful \/ Buffer[a % BLOCK_SIZE] = device[a]
  BY <1>1, BufferTrue
<1>3. TypeOK'
  <2>1. dest' \in [Addresses -> Values \cup {Garbled, None}]
    BY <1>1, <1>2, OnCard DEF IInv, TypeOK
  <2>2. QED
    BY <1>1, <1>2, <2>1, AdvanceStep DEF IInv, TypeOK
<1>4. DeliveredSoFar'
  <2>1. SUFFICES ASSUME NEW a \in Addresses
                 PROVE  IF a \in Range(op.from, TurnEnd) THEN a \in doubtful \/ dest'[a] = device[a]
                                                         ELSE dest'[a] = None
    BY <1>1, AdvanceStep DEF DeliveredSoFar
  <2>2. IF a \in Range(op.from, op.offset) THEN a \in doubtful \/ dest[a] = device[a]
                                           ELSE dest[a] = None
    BY <1>1 DEF IInv, DeliveredSoFar
  <2>3. InTurn(a) => a \in doubtful \/ Buffer[a % BLOCK_SIZE] = device[a]
    BY <1>1, <1>2, PartTurn DEF IInv
  <2>4. QED
    BY <1>1, <2>2, <2>3, RangeSplit DEF IInv
<1>5. WrittenSoFar'
  BY <1>1, AdvanceStep DEF WrittenSoFar
<1>6. CacheCoherent'
  BY <1>1, <1>2 DEF CacheCoherent, Agrees
<1>7. QED
  BY <1>1, <1>3, <1>4, <1>5, <1>6, AdvanceStep DEF IInv

LEMMA WriteWholeIInv == IInv /\ WriteWhole => IInv'
<1> SUFFICES ASSUME IInv, WriteWhole PROVE IInv'
  OBVIOUS
<1>1. /\ status = "running" /\ op.kind = "write" /\ Whole /\ ~op.dirty /\ Advance
      /\ UNCHANGED <<cache, dest>> /\ doubtful' = doubtful \ TurnRange
      /\ cached_block' = ForgetOverwritten
      /\ device' = [a \in Addresses |-> IF InTurn(a) THEN op.value ELSE device[a]]
  BY DEF WriteWhole, Running, IInv, Modified, InTurn
<1>2. TypeOK'
  <2>1. device' \in [Addresses -> Values \cup {Garbled}]
    BY <1>1 DEF IInv, TypeOK, WritesValue
  <2>2. cached_block' \in Blocks \cup {None}
    BY <1>1 DEF IInv, TypeOK, ForgetOverwritten
  <2>3. QED
    BY <1>1, <2>1, <2>2, AdvanceStep DEF IInv, TypeOK
<1>3. WrittenSoFar'
  <2>1. SUFFICES ASSUME NEW a \in Addresses, a \in Range(op.from, TurnEnd)
                 PROVE  device'[a] = op.value
    BY <1>1, AdvanceStep DEF WrittenSoFar, Range
  <2>2. a \in Range(op.from, op.offset) => device[a] = op.value
    BY <1>1 DEF IInv, WrittenSoFar
  <2>3. QED
    BY <1>1, <2>1, <2>2, RangeSplit DEF IInv
<1>4. DeliveredSoFar'
  BY <1>1, AdvanceStep DEF DeliveredSoFar
<1>5. CacheCoherent'
  <2>1. SUFFICES ASSUME NEW a \in Addresses, BlockOf(a) = cached_block'
                 PROVE  a \in doubtful' \/ cache[a % BLOCK_SIZE] = device'[a]
    BY <1>1 DEF CacheCoherent, Agrees
  <2>2. BlockOf(a) # None /\ a \in Nat
    BY OnCard, SizeType, GeometryAssumption DEF Blocks
  <2>3. BlockOf(a) = cached_block /\ ~Overwritten(BlockOf(a))
    BY <1>1, <2>1, <2>2 DEF ForgetOverwritten
  <2>4. a \in doubtful \/ cache[a % BLOCK_SIZE] = device[a]
    BY <1>1, <2>3 DEF IInv, CacheCoherent, Agrees
  <2>5. ~InTurn(a)
    <3> DEFINE q == BlockOf(op.offset)
    <3>1. /\ q \in Nat /\ WholeBlocks \in Nat
          /\ op.offset = q * BLOCK_SIZE /\ TurnEnd = (q + WholeBlocks) * BLOCK_SIZE
      BY <1>1, WholeTurn, Typed, Division DEF IInv
    <3>2. ~(q <= BlockOf(a) /\ BlockOf(a) < q + WholeBlocks)
      BY <2>3 DEF Overwritten
    <3> HIDE DEF q
    <3>3. q + WholeBlocks \in Nat
      BY <3>1
    <3>4. ~(q * BLOCK_SIZE <= a /\ a < (q + WholeBlocks) * BLOCK_SIZE)
      BY <2>2, <3>1, <3>2, <3>3, Between
    <3>5. QED
      BY <3>1, <3>4 DEF InTurn, TurnRange, Range
  <2>6. QED
    BY <1>1, <2>4, <2>5 DEF InTurn
<1>6. QED
  BY <1>1, <1>2, <1>3, <1>4, <1>5, AdvanceStep DEF IInv

\* An address of the current block, by its position.
LEMMA InCurrentBlock ==
    ASSUME NEW a \in Addresses, BlockOf(a) = BlockOf(op.offset)
    PROVE  a % BLOCK_SIZE \in InBlock /\ BlockOf(op.offset) * BLOCK_SIZE + (a % BLOCK_SIZE) = a
BY OnCard, Division

LEMMA ModifyBufferIInv == IInv /\ ModifyBuffer => IInv'
<1> SUFFICES ASSUME IInv, ModifyBuffer PROVE IInv'
  OBVIOUS
<1>1. /\ status = "running" /\ op.kind = "write" /\ ~Whole /\ ~op.dirty
      /\ UNCHANGED <<device, dest, status, doubtful>>
      /\ cached_block' = BlockOf(op.offset)
      /\ cache' = [p \in InBlock |-> IF InTurn(BlockOf(op.offset) * BLOCK_SIZE + p)
                                      THEN op.value ELSE Buffer[p]]
      /\ op' = [op EXCEPT !.dirty = TRUE]
  BY DEF ModifyBuffer, Running, InTurn
<1>2. /\ op'.kind = op.kind /\ op'.from = op.from /\ op'.end = op.end /\ op'.offset = op.offset
      /\ op'.value = op.value /\ op'.dirty
      /\ op' \in [kind : {"none", "read", "write"}, from : Nat, end : Nat, offset : Nat,
                   value : Values \cup {None}, dirty : BOOLEAN]
  BY <1>1 DEF IInv, TypeOK
<1>3. /\ Buffer \in [InBlock -> Values \cup {Garbled}] /\ BlockOf(op.offset) \in Blocks
      /\ \A a \in Addresses : BlockOf(a) = BlockOf(op.offset) =>
            a \in doubtful \/ Buffer[a % BLOCK_SIZE] = device[a]
  BY <1>1, BufferTrue
<1>4. TypeOK'
  <2>1. cache' \in [InBlock -> Values \cup {Garbled}]
    BY <1>1, <1>3 DEF IInv, WritesValue
  <2>2. QED
    BY <1>1, <1>2, <1>3, <2>1 DEF IInv, TypeOK
<1>5. WritesValue' /\ OutcomeFits' /\ AtBoundary' /\ DeliveredSoFar' /\ WrittenSoFar' /\ CacheCoherent'
  BY <1>1, <1>2
     DEF IInv, WritesValue, OutcomeFits, AtBoundary, DeliveredSoFar, WrittenSoFar, CacheCoherent
<1>6. Modified'
  <2>1. TurnEnd' = TurnEnd /\ Whole' = Whole
    BY <1>2 DEF TurnEnd, Whole, WholeBlocks, ChunkEnd, Left
  <2>2. \A a : InTurn(a)' <=> InTurn(a)
    BY <1>2, <2>1 DEF InTurn, TurnRange
  <2>3. ASSUME NEW a \in Addresses, InTurn(a) PROVE cache'[a % BLOCK_SIZE] = op.value
    <3>1. BlockOf(a) = BlockOf(op.offset)
      BY <1>1, <2>3, PartTurn DEF IInv
    <3>2. QED
      BY <1>1, <2>3, <3>1, InCurrentBlock
  <2>4. ASSUME NEW a \in Addresses, BlockOf(a) = BlockOf(op.offset), ~InTurn(a)
        PROVE  Agrees(a)'
    <3>1. cache'[a % BLOCK_SIZE] = Buffer[a % BLOCK_SIZE]
      BY <1>1, <2>4, InCurrentBlock
    <3>2. QED
      BY <1>1, <1>3, <2>4, <3>1 DEF Agrees
  <2>5. QED
    BY <1>1, <1>2, <2>1, <2>2, <2>3, <2>4 DEF Modified
<1>7. QED
  BY <1>4, <1>5, <1>6 DEF IInv

\* What writing the modified buffer back puts on the card.
LEMMA WrittenBack ==
    ASSUME IInv, op.dirty, WriteBack(cache)
    PROVE  /\ device' \in [Addresses -> Values \cup {Garbled}]
           /\ \A a \in Addresses : device'[a] = IF BlockOf(a) = BlockOf(op.offset)
                                               THEN cache[a % BLOCK_SIZE] ELSE device[a]
BY OnCard DEF WriteBack, IInv, TypeOK

LEMMA WritePartIInv == IInv /\ WritePart => IInv'
<1> SUFFICES ASSUME IInv, WritePart PROVE IInv'
  OBVIOUS
<1>1. /\ status = "running" /\ op.kind = "write" /\ ~Whole /\ op.dirty /\ Advance
      /\ WriteBack(cache)
      /\ UNCHANGED <<cached_block, cache, dest>> /\ doubtful' = doubtful \ TurnRange
      /\ cached_block = BlockOf(op.offset)
      /\ \A a \in Addresses : InTurn(a) => cache[a % BLOCK_SIZE] = op.value
  BY DEF WritePart, Running, IInv, Modified
<1>2. TypeOK'
  BY <1>1, WrittenBack, AdvanceStep DEF IInv, TypeOK
<1>3. WrittenSoFar'
  <2>1. SUFFICES ASSUME NEW a \in Addresses, a \in Range(op.from, TurnEnd)
                 PROVE  device'[a] = op.value
    BY <1>1, AdvanceStep DEF WrittenSoFar, Range
  <2>2. CASE InTurn(a)
    BY <1>1, <2>2, PartTurn, WrittenBack DEF IInv
  <2>3. CASE a \in Range(op.from, op.offset)
    <3>1. device[a] = op.value
      BY <1>1, <2>3 DEF IInv, WrittenSoFar
    <3>2. BlockOf(a) # BlockOf(op.offset)
      BY <1>1, <2>3, EarlierBlocks DEF IInv
    <3>3. QED
      BY <1>1, <3>1, <3>2, WrittenBack
  <2>4. QED
    BY <1>1, <2>1, <2>2, <2>3, RangeSplit DEF IInv
<1>4. DeliveredSoFar'
  BY <1>1, AdvanceStep DEF DeliveredSoFar
<1>5. CacheCoherent'
  BY <1>1, WrittenBack DEF CacheCoherent, Agrees
<1>6. QED
  BY <1>1, <1>2, <1>3, <1>4, <1>5, AdvanceStep DEF IInv

\* A direct write that breaks off has written whole blocks of its turn.
LEMMA PartWritten ==
    ASSUME IInv, WriteWholeFails
    PROVE  /\ device' \in [Addresses -> Values \cup {Garbled}]
           /\ \A a \in Addresses : ~InTurn(a) => device'[a] = device[a]
<1>1. PICK written \in 0 .. WholeBlocks :
          device' = [x \in Addresses |->
                       IF x \in Range(op.offset, op.offset + written * BLOCK_SIZE)
                       THEN op.value ELSE device[x]]
  BY DEF WriteWholeFails
<1>2. device' \in [Addresses -> Values \cup {Garbled}]
  BY <1>1 DEF WriteWholeFails, Running, IInv, TypeOK, WritesValue
<1>3. /\ op.offset + written * BLOCK_SIZE <= TurnEnd /\ TurnEnd \in Nat
      /\ op.offset + written * BLOCK_SIZE \in Nat
  <2>1. /\ op.offset + written * BLOCK_SIZE <= TurnEnd /\ TurnEnd \in Nat
        /\ WholeBlocks \in Nat /\ op.offset \in Nat
    BY WholeTurn, Turn, Typed DEF WriteWholeFails, Running, IInv
  <2>2. QED
    BY <2>1, SizeType
<1>4. ASSUME NEW a \in Addresses, a \in Range(op.offset, op.offset + written * BLOCK_SIZE)
      PROVE  InTurn(a)
  <2>1. a \in Nat
    BY OnCard
  <2>2. QED
    BY <1>3, <1>4, <2>1 DEF Range, InTurn, TurnRange
<1>5. QED
  BY <1>1, <1>2, <1>4

LEMMA FailureIInv ==
    IInv /\ (ReadWholeFails \/ FillFails \/ WriteWholeFails \/ WritePartFails) => IInv'
<1> SUFFICES ASSUME IInv, ReadWholeFails \/ FillFails \/ WriteWholeFails \/ WritePartFails PROVE IInv'
  OBVIOUS
<1>1. /\ device \in [Addresses -> Values \cup {Garbled}]
      /\ cached_block \in Blocks \cup {None}
      /\ cache \in [InBlock -> Values \cup {Garbled}]
  BY DEF IInv, TypeOK
<1>2. status = "running" /\ op.dirty \in BOOLEAN /\ TurnRange \in SUBSET Addresses
  BY Typed DEF ReadWholeFails, FillFails, WriteWholeFails, WritePartFails, Running, IInv, TurnRange, Range
<1>3. CASE ReadWholeFails
  <2>1. Abort({}) /\ UNCHANGED <<device, cached_block, cache, dest>> /\ ~op.dirty
    BY <1>3 DEF ReadWholeFails, Running, IInv, Modified
  <2>2. CacheCoherent'
    BY <2>1 DEF Abort, IInv, CacheCoherent, Agrees
  <2>3. QED
    BY <1>1, <1>2, <2>1, <2>2, AbortStep
<1>4. CASE FillFails
  <2>1. /\ Abort(BlockRange(cached_block)) /\ UNCHANGED <<device, cached_block, dest>>
        /\ cache' \in Refilled
    BY <1>4 DEF FillFails
  <2>2. CacheCoherent'
    BY <2>1 DEF Abort, CacheCoherent, Agrees, BlockRange
  <2>3. BlockOf(op.offset) \in Blocks
    BY <1>2, Turn, OnCard DEF IInv
  <2>4. Contents(BlockOf(op.offset)) \in [InBlock -> Values \cup {Garbled}]
    BY <1>1, <2>3, OnCard DEF Contents
  <2>5. cache' \in [InBlock -> Values \cup {Garbled}]
    BY <1>1, <2>1, <2>4 DEF Refilled
  <2>6. BlockRange(cached_block) \in SUBSET Addresses
    BY DEF BlockRange
  <2>7. QED
    BY <1>1, <1>2, <2>1, <2>2, <2>5, <2>6, AbortStep
<1>5. CASE WriteWholeFails
  <2>1. Abort(TurnRange) /\ UNCHANGED <<cached_block, cache, dest>> /\ ~op.dirty
    BY <1>5 DEF WriteWholeFails, Running, IInv, Modified
  <2>2. CacheCoherent'
    BY <1>5, <2>1, PartWritten DEF Abort, IInv, CacheCoherent, Agrees, InTurn
  <2>3. QED
    BY <1>1, <1>2, <1>5, <2>1, <2>2, PartWritten, AbortStep
<1>6. CASE WritePartFails
  <2>1. /\ Abort(TurnRange) /\ UNCHANGED <<cached_block, cache, dest>> /\ op.dirty
        /\ WriteBack(cache) \/ UNCHANGED device
    BY <1>6 DEF WritePartFails, Running
  <2>2. /\ cached_block = BlockOf(op.offset)
        /\ \A a \in Addresses : BlockOf(a) = cached_block /\ ~InTurn(a) => Agrees(a)
    BY <2>1 DEF IInv, Modified
  <2>3. CacheCoherent'
    BY <2>1, <2>2, WrittenBack DEF Abort, CacheCoherent, Agrees, InTurn
  <2>4. device' \in [Addresses -> Values \cup {Garbled}]
    BY <1>1, <2>1, WrittenBack
  <2>5. QED
    BY <1>1, <1>2, <2>1, <2>3, <2>4, AbortStep
<1>7. QED
  BY <1>3, <1>4, <1>5, <1>6

LEMMA NextIInv == IInv /\ [Next]_vars => IInv'
<1> SUFFICES ASSUME IInv, [Next]_vars PROVE IInv'
  OBVIOUS
<1>1. ASSUME NEW from \in 0 .. AddressSpace - 1, NEW len \in 0 .. MaxLen,
             \/ Request("read", from, len, None)
             \/ \E v \in Values : Request("write", from, len, v)
      PROVE  IInv'
  <2>1. from \in Nat /\ len \in Nat
    BY GeometryAssumption
  <2>2. QED
    BY <1>1, <2>1, RequestIInv
<1>2. CASE UNCHANGED vars
  <2>1. /\ op' = op /\ device' = device /\ TurnEnd' = TurnEnd /\ Whole' = Whole
        /\ status' = status /\ cached_block' = cached_block /\ cache' = cache
        /\ dest' = dest /\ doubtful' = doubtful /\ TurnRange' = TurnRange
    BY <1>2 DEF vars, TurnEnd, TurnRange, Whole, WholeBlocks, ChunkEnd, Left
  <2>2. TypeOK' /\ WritesValue' /\ OutcomeFits' /\ AtBoundary'
    BY <2>1 DEF IInv, TypeOK, WritesValue, OutcomeFits, AtBoundary
  <2>3. DeliveredSoFar' /\ WrittenSoFar' /\ CacheCoherent'
    BY <2>1 DEF IInv, DeliveredSoFar, WrittenSoFar, CacheCoherent, Agrees
  <2>4. Modified'
    BY <2>1 DEF IInv, Modified, InTurn, Agrees
  <2>5. QED
    BY <2>2, <2>3, <2>4 DEF IInv
<1>3. QED
  BY <1>1, <1>2, ReadWholeIInv, ReadPartIInv, WriteWholeIInv, ModifyBufferIInv, WritePartIInv,
     FailureIInv DEF Next

-----------------------------------------------------------------------------
(* What no step does.                                                      *)

LEMMA ContainedStep ==
    ASSUME IInv, [Next]_vars, NEW a \in Addresses, a \notin Range(op.from, op.end), a \notin doubtful
    PROVE  device'[a] = device[a]
<1>1. CASE UNCHANGED device
  BY <1>1
<1>2. CASE WriteWhole
  BY <1>2, RangeSplit DEF WriteWhole, Running, IInv, InTurn
<1>3. CASE WriteWholeFails
  BY <1>3, PartWritten, RangeSplit DEF WriteWholeFails, Running, IInv
<1>4. CASE (WritePart \/ WritePartFails) /\ WriteBack(cache)
  <2>1. status = "running" /\ op.dirty
    BY <1>4 DEF WritePart, WritePartFails, Running
  <2>2. ~InTurn(a)
    BY <2>1, RangeSplit DEF IInv
  <2>3. BlockOf(a) = BlockOf(op.offset) => cache[a % BLOCK_SIZE] = device[a]
    BY <2>1, <2>2 DEF IInv, Modified, Agrees
  <2>4. QED
    BY <1>4, <2>1, <2>3, WrittenBack
<1>5. QED
  BY <1>1, <1>2, <1>3, <1>4
     DEF Next, vars, Request, ReadWhole, ReadPart, ModifyBuffer, WritePart, ReadWholeFails, FillFails,
         WritePartFails

LEMMA RefusedStep == IInv /\ FittingRequestAccepted /\ [Next]_vars => FittingRequestAccepted'
<1> SUFFICES ASSUME IInv, FittingRequestAccepted, [Next]_vars PROVE FittingRequestAccepted'
  OBVIOUS
<1>1. ASSUME NEW kind, NEW from \in Nat, NEW len \in Nat, NEW value, Request(kind, from, len, value)
      PROVE  FittingRequestAccepted'
  <2>1. op'.end = from + len /\ (status' = "OutOfBounds" => ~InBounds(from, len))
    BY <1>1 DEF Request, NoRequest
  <2>2. DeviceSize \in Nat /\ AddressSpace \in Nat \ {0}
    BY SizeType, GeometryAssumption DEF DeviceSize
  <2>3. DeviceSize < AddressSpace => TotalCapacity = DeviceSize
    BY <2>2 DEF TotalCapacity
  <2>4. DeviceSize < AddressSpace /\ ~InBounds(from, len) => from + len > DeviceSize
    BY <2>2, <2>3 DEF InBounds
  <2>5. QED
    BY <2>1, <2>4 DEF FittingRequestAccepted
<1>2. CASE \E from \in 0 .. AddressSpace - 1, len \in 0 .. MaxLen :
               \/ Request("read", from, len, None)
               \/ \E v \in Values : Request("write", from, len, v)
  <2>1. (0 .. AddressSpace - 1) \subseteq Nat /\ (0 .. MaxLen) \subseteq Nat
    BY GeometryAssumption
  <2>2. QED
    BY <1>1, <1>2, <2>1
<1>3. CASE status' # "OutOfBounds"
  BY <1>3 DEF FittingRequestAccepted
<1>4. CASE UNCHANGED vars
  BY <1>4 DEF FittingRequestAccepted, vars
<1>5. QED
  BY <1>2, <1>3, <1>4
     DEF Next, Advance, Abort, Running, ReadWhole, ReadPart, WriteWhole, ModifyBuffer, WritePart,
         ReadWholeFails, FillFails, WriteWholeFails, WritePartFails

-----------------------------------------------------------------------------
(* The theorems.                                                           *)

\* The inductive invariant holds in every reachable state, whatever breaks off
\* (read and write of block.rs, turn by turn).
THEOREM IInvHolds == Spec => []IInv
<1>1. Init => IInv
  BY InitIInv
<1>2. IInv /\ [Next]_vars => IInv'
  BY NextIInv
<1>3. QED
  BY <1>1, <1>2, PTL DEF Spec

\* The adapter's state has its types, and a running request lies on the card
\* (the checks at the head of read and write, block.rs).
THEOREM AdapterTypeCorrect == Spec => []TypeOK
<1>1. IInv => TypeOK
  BY DEF IInv
<1>2. QED
  BY <1>1, IInvHolds, PTL

\* The bounce buffer is a true copy of its block, after any failures, but for
\* bytes in doubt (the fills of read and write in block.rs, and the invalidation
\* in write).
THEOREM BufferCoherent == Spec => []CacheCoherent
<1>1. IInv => CacheCoherent
  BY DEF IInv
<1>2. QED
  BY <1>1, IInvHolds, PTL

\* A successful read delivers what the card holds, but for bytes in doubt, for
\* any alignment and length and after any failures (read of block.rs).
THEOREM ReadsReturnStored == Spec => []ReadReturnsStored
<1>1. IInv => ReadReturnsStored
  BY DEF IInv, OutcomeFits, DeliveredSoFar, ReadReturnsStored
<1>2. QED
  BY <1>1, IInvHolds, PTL

\* A successful write is on the card throughout, whatever failed before it
\* (write of block.rs).
THEOREM WritesLand == Spec => []WriteLands
<1>1. IInv => WriteLands
  BY DEF IInv, OutcomeFits, WrittenSoFar, WriteLands
<1>2. QED
  BY <1>1, IInvHolds, PTL

\* However many transfers have broken off, no step changes a byte that is outside
\* the request's range and not in doubt (the read-modify-write of block.rs).
THEOREM DoubtStaysContained == Spec => DoubtContained
<1>1. IInv /\ [Next]_vars =>
          [\A a \in Addresses \ (Range(op.from, op.end) \cup doubtful) : device'[a] = device[a]]_vars
  BY ContainedStep
<1>2. QED
  BY <1>1, IInvHolds, PTL DEF Spec, DoubtContained

\* On a card that the address space can hold no request that fits is refused
\* (total_capacity in read and write of block.rs).
THEOREM FittingRequestsAccepted == Spec => []FittingRequestAccepted
<1>1. Init => FittingRequestAccepted
  BY DEF Init, FittingRequestAccepted
<1>2. IInv /\ FittingRequestAccepted /\ [Next]_vars => FittingRequestAccepted'
  BY RefusedStep
<1>3. QED
  BY <1>1, <1>2, IInvHolds, PTL DEF Spec

=============================================================================
