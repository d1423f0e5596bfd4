-------------------------- MODULE OverlayMountProofs --------------------------
(***************************************************************************)
(* What mount leaves in the registry, for every list of overlays, their    *)
(* sizes, the address they are programmed at, and the registry's size.     *)
(***************************************************************************)
EXTENDS OverlayMount, Integers, WellFoundedInduction, TLAPS

-----------------------------------------------------------------------------
(* Induction.  The library's induction theorems take the statement as an   *)
(* operator; here it is the set of the numbers it holds of.                *)

LEMMA Least ==
    ASSUME NEW T \in SUBSET Nat, T # {}
    PROVE  \E n \in T : \A m \in T : n <= m
<1> DEFINE R == OpToRel(<, Nat)
<1>1. IsWellFoundedOn(R, Nat)
  BY NatLessThanWellFounded
<1>2. \A x, y \in Nat : <<y, x>> \in R <=> y < x
  BY DEF OpToRel
<1> HIDE DEF R
<1>3. PICK n \in T : \A y \in T : ~ (<<y, n>> \in R)
  BY <1>1, WFMin
<1>4. ASSUME NEW y \in T PROVE n <= y
  <2>1. y \in Nat /\ n \in Nat
    OBVIOUS
  <2>2. ~(y < n)
    BY <1>2, <1>3, <2>1, Zenon
  <2>3. QED
    BY <2>1, <2>2
<1>5. QED
  BY <1>4

LEMMA Induction ==
    ASSUME NEW S, 0 \in S, \A n \in Nat : n \in S => n + 1 \in S
    PROVE  \A n \in Nat : n \in S
<1> SUFFICES ASSUME Nat \ S # {} PROVE FALSE
  OBVIOUS
<1>1. PICK n \in Nat \ S : \A m \in Nat \ S : n <= m
  <2>1. (Nat \ S) \in SUBSET Nat
    OBVIOUS
  <2>2. QED
    BY <2>1, Least
<1>2. n # 0 /\ n \in Nat
  BY <1>1
<1>3. n - 1 \in Nat /\ n - 1 \in S
  BY <1>1, <1>2
<1>4. n - 1 + 1 = n
  BY <1>2
<1>5. QED
  BY <1>1, <1>3, <1>4

-----------------------------------------------------------------------------
(* The registration loop.                                                  *)

\* One turn of the loop over list, after the turns in g.
Turn(list, g, k) ==
    IF k = 0 THEN [entries |-> registry, full |-> FALSE]
    ELSE IF g[k - 1].full THEN g[k - 1]
    ELSE Register(g[k - 1], list[k])

LEMMA LoopExists ==
    ASSUME NEW list, NEW n \in Nat
    PROVE  \E g : g = [k \in 0 .. n |-> Turn(list, g, k)]
<1> DEFINE S == {m \in Nat : \E g : g = [k \in 0 .. m |-> Turn(list, g, k)]}
<1>1. 0 \in S
  <2> DEFINE g == [k \in 0 .. 0 |-> Turn(list, <<>>, 0)]
  <2>1. g = [k \in 0 .. 0 |-> Turn(list, g, k)]
    BY DEF Turn
  <2>2. QED
    BY <2>1
<1>2. ASSUME NEW m \in Nat, m \in S PROVE m + 1 \in S
  <2>1. PICK g : g = [k \in 0 .. m |-> Turn(list, g, k)]
    BY <1>2
  <2> DEFINE h == [k \in 0 .. m + 1 |-> IF k <= m THEN g[k] ELSE Turn(list, g, m + 1)]
  <2>2. ASSUME NEW k \in 0 .. m + 1 PROVE h[k] = Turn(list, h, k)
    <3>1. \A j \in 0 .. m : h[j] = g[j]
      OBVIOUS
    <3>2. k # 0 => k - 1 \in 0 .. m /\ h[k - 1] = g[k - 1]
      BY <3>1
    <3>3. Turn(list, h, k) = Turn(list, g, k)
      BY <3>2 DEF Turn
    <3>4. CASE k <= m
      BY <2>1, <3>3, <3>4
    <3>5. CASE ~(k <= m)
      <4>1. k = m + 1
        BY <3>5
      <4>2. QED
        BY <3>3, <3>5, <4>1
    <3>6. QED
      BY <3>4, <3>5
  <2>3. h = [k \in 0 .. m + 1 |-> h[k]]
    OBVIOUS
  <2>4. h = [k \in 0 .. m + 1 |-> Turn(list, h, k)]
    <3> HIDE DEF h
    <3>1. QED
      BY <2>2, <2>3
  <2> HIDE DEF h
  <2>5. \E f : f = [k \in 0 .. m + 1 |-> Turn(list, f, k)]
    BY <2>4
  <2>6. QED
    BY <2>5
<1>3. \A m \in Nat : m \in S
  <2> HIDE DEF S
  <2>1. QED
    BY <1>1, <1>2, Induction
<1>4. QED
  BY <1>3

LEMMA RegisterAllLoop ==
    ASSUME NEW list, Len(list) \in Nat
    PROVE  \E g : /\ g = [k \in 0 .. Len(list) |-> Turn(list, g, k)]
                 /\ RegisterAll(list) = g[Len(list)]
<1> DEFINE g == CHOOSE g : g = [k \in 0 .. Len(list) |-> Turn(list, g, k)]
<1>1. g = [k \in 0 .. Len(list) |-> Turn(list, g, k)]
  <2>1. \E h : h = [k \in 0 .. Len(list) |-> Turn(list, h, k)]
    BY LoopExists
  <2>2. QED
    BY <2>1
<1>2. RegisterAll(list) = g[Len(list)]
  BY DEF RegisterAll, Turn
<1> HIDE DEF g
<1>3. QED
  BY <1>1, <1>2

-----------------------------------------------------------------------------
(* One registration, and all of them.                                      *)

Once(entries) ==
    \A i, j \in DOMAIN entries : entries[i].module_id = entries[j].module_id => i = j

Registries ==
    {reg \in [entries : Seq(Registrations), full : BOOLEAN] :
        /\ Len(reg.entries) <= MAX_MODULES
        /\ reg.full => Len(reg.entries) = MAX_MODULES
        /\ Once(reg.entries)}

\* The modules of the first k registrations of list are registered, where the
\* list says.
Covers(entries, list, k) ==
    /\ \A j \in 1 .. k : \E i \in DOMAIN entries : entries[i].module_id = list[j].module_id
    /\ \A i \in DOMAIN entries, j \in 1 .. k :
          entries[i].module_id = list[j].module_id => \E l \in 1 .. k : entries[i] = list[l]

\* register_module: the module's entry replaced, or a new one, or a refusal.
Registered(reg, new, r) ==
    /\ \E i \in DOMAIN new.entries : new.entries[i] = r
    /\ \A i \in DOMAIN new.entries :
         \/ new.entries[i] = r
         \/ /\ i \in DOMAIN reg.entries /\ new.entries[i] = reg.entries[i]
            /\ reg.entries[i].module_id # r.module_id
    /\ \A i \in DOMAIN reg.entries :
         i \in DOMAIN new.entries /\ new.entries[i].module_id = reg.entries[i].module_id

LEMMA RegisterCases ==
    ASSUME NEW reg \in Registries, ~reg.full, NEW r \in Registrations
    PROVE  /\ Register(reg, r) \in Registries
           /\ ~Register(reg, r).full => Registered(reg, Register(reg, r), r)
<1> DEFINE new == Register(reg, r)
           e == reg.entries
<1>1. /\ e \in Seq(Registrations) /\ Len(e) \in Nat /\ DOMAIN e = 1 .. Len(e)
      /\ Len(e) <= MAX_MODULES /\ Once(e) /\ MAX_MODULES \in Nat
      /\ reg \in [entries : Seq(Registrations), full : BOOLEAN]
      /\ \A i \in DOMAIN e : e[i] \in Registrations
  BY MountAssumption DEF Registries
<1>2. CASE \E k \in DOMAIN e : e[k].module_id = r.module_id
  <2> DEFINE f == [k \in DOMAIN e |-> IF e[k].module_id = r.module_id THEN r ELSE e[k]]
  <2>1. new = [reg EXCEPT !.entries = f]
    BY <1>2 DEF Register
  <2>2. f \in Seq(Registrations) /\ Len(f) = Len(e) /\ DOMAIN f = DOMAIN e
    BY <1>1
  <2>3. \A i \in DOMAIN e : /\ f[i] = IF e[i].module_id = r.module_id THEN r ELSE e[i]
                            /\ f[i].module_id = e[i].module_id
    OBVIOUS
  <2> HIDE DEF f
  <2>4. new.entries = f /\ ~new.full /\ new \in [entries : Seq(Registrations), full : BOOLEAN]
    BY <1>1, <2>1, <2>2
  <2>5. Once(f)
    BY <1>1, <2>2, <2>3 DEF Once
  <2>6. new \in Registries
    BY <1>1, <2>2, <2>4, <2>5 DEF Registries
  <2> HIDE DEF new, e
  <2>7. \E i \in DOMAIN f : f[i] = r
    BY <1>2, <2>2, <2>3
  <2>8. Registered(reg, new, r)
    BY <2>2, <2>3, <2>4, <2>7 DEF Registered, e
  <2>9. QED
    BY <2>6, <2>8 DEF new
<1>3. CASE ~(\E k \in DOMAIN e : e[k].module_id = r.module_id) /\ Len(e) < MAX_MODULES
  <2> DEFINE f == Append(e, r)
  <2>1. new = [reg EXCEPT !.entries = f]
    BY <1>3 DEF Register
  <2>2. /\ f \in Seq(Registrations) /\ Len(f) = Len(e) + 1 /\ DOMAIN f = 1 .. Len(e) + 1
        /\ \A i \in DOMAIN e : f[i] = e[i]
        /\ f[Len(e) + 1] = r
    BY <1>1
  <2> HIDE DEF f
  <2>3. new.entries = f /\ ~new.full /\ new \in [entries : Seq(Registrations), full : BOOLEAN]
    BY <1>1, <2>1, <2>2
  <2>4. \A i \in DOMAIN f : i \in DOMAIN e \/ i = Len(e) + 1
    BY <1>1, <2>2
  <2>5. DOMAIN e \subseteq DOMAIN f /\ Len(e) + 1 \in DOMAIN f
    BY <1>1, <2>2
  <2>6. Once(f)
    BY <1>1, <1>3, <2>2, <2>4 DEF Once
  <2>7. Len(f) <= MAX_MODULES
    BY <1>1, <1>3, <2>2
  <2>8. new \in Registries
    BY <2>3, <2>6, <2>7 DEF Registries
  <2> HIDE DEF new, e
  <2>9. Registered(reg, new, r)
    BY <1>3, <2>2, <2>3, <2>4, <2>5 DEF Registered, e
  <2>10. QED
    BY <2>8, <2>9 DEF new
<1>4. CASE ~(\E k \in DOMAIN e : e[k].module_id = r.module_id) /\ ~(Len(e) < MAX_MODULES)
  <2>1. new = [reg EXCEPT !.full = TRUE]
    BY <1>4 DEF Register
  <2>2. new.full /\ new.entries = e /\ new \in [entries : Seq(Registrations), full : BOOLEAN]
    BY <1>1, <2>1
  <2>3. Len(e) = MAX_MODULES
    BY <1>1, <1>4
  <2>4. new \in Registries
    BY <1>1, <2>2, <2>3 DEF Registries
  <2>5. QED
    BY <2>2, <2>4
<1>5. QED
  BY <1>2, <1>3, <1>4

\* Once a turn has found the registry full the later ones change nothing; until
\* then every registration so far is in it.
LEMMA RegisterAllResult ==
    ASSUME registry \in Seq(Registrations), Len(registry) <= MAX_MODULES, Once(registry),
           NEW list \in Seq(Registrations)
    PROVE  /\ RegisterAll(list) \in Registries
           /\ ~RegisterAll(list).full => Covers(RegisterAll(list).entries, list, Len(list))
<1>1. Len(list) \in Nat /\ \A k \in 1 .. Len(list) : list[k] \in Registrations
  OBVIOUS
<1>2. PICK g : g = [k \in 0 .. Len(list) |-> Turn(list, g, k)] /\ RegisterAll(list) = g[Len(list)]
  BY <1>1, RegisterAllLoop
<1>3. \A k \in 0 .. Len(list) : g[k] = Turn(list, g, k)
  BY <1>2
<1> DEFINE Good(k) == g[k] \in Registries /\ (~g[k].full => Covers(g[k].entries, list, k))
           S == {k \in Nat : k <= Len(list) => Good(k)}
<1>4. 0 \in S
  <2>1. g[0] = [entries |-> registry, full |-> FALSE]
    <3>1. 0 \in 0 .. Len(list)
      BY <1>1
    <3>2. g[0] = Turn(list, g, 0)
      BY <1>3, <3>1
    <3>3. QED
      BY <3>2, Zenon DEF Turn
  <2>2. g[0] \in Registries
    BY <2>1 DEF Registries
  <2>3. Covers(g[0].entries, list, 0)
    BY DEF Covers
  <2>4. QED
    BY <2>2, <2>3
<1>5. ASSUME NEW k \in Nat, k \in S PROVE k + 1 \in S
  <2> SUFFICES ASSUME k + 1 <= Len(list) PROVE Good(k + 1)
    OBVIOUS
  <2>1. /\ k \in 0 .. Len(list) /\ k + 1 \in 0 .. Len(list) /\ k + 1 \in 1 .. Len(list)
        /\ k + 1 # 0 /\ k + 1 - 1 = k
    BY <1>1
  <2>2. Good(k)
    BY <1>5, <2>1
  <2>3. g[k + 1] = IF g[k].full THEN g[k] ELSE Register(g[k], list[k + 1])
    BY <1>3, <2>1 DEF Turn
  <2>4. CASE g[k].full
    BY <2>2, <2>3, <2>4
  <2>5. CASE ~g[k].full
    <3> DEFINE old == g[k]
               new == g[k + 1]
               r == list[k + 1]
    <3>1. r \in Registrations
      BY <1>1, <2>1
    <3>2. new = Register(old, r) /\ old \in Registries /\ ~old.full /\ Covers(old.entries, list, k)
      BY <2>2, <2>3, <2>5
    <3> HIDE DEF old, new
    <3>3. new \in Registries /\ (~new.full => Registered(old, new, r))
      BY <3>1, <3>2, RegisterCases
    <3>4. \A j \in 1 .. k + 1 : j \in 1 .. k \/ j = k + 1
      OBVIOUS
    <3>5. 1 .. k \subseteq 1 .. k + 1 /\ k + 1 \in 1 .. k + 1
      OBVIOUS
    <3>6. ASSUME ~new.full, NEW j \in 1 .. k + 1
          PROVE  \E i \in DOMAIN new.entries : new.entries[i].module_id = list[j].module_id
      BY <3>2, <3>3, <3>4, <3>6 DEF Covers, Registered
    <3>7. ASSUME ~new.full, NEW i \in DOMAIN new.entries, NEW j \in 1 .. k + 1,
                 new.entries[i].module_id = list[j].module_id
          PROVE  \E l \in 1 .. k + 1 : new.entries[i] = list[l]
      <4>1. CASE new.entries[i] = r
        BY <3>5, <4>1
      <4>2. CASE new.entries[i] # r
        <5>1. /\ i \in DOMAIN old.entries /\ new.entries[i] = old.entries[i]
              /\ old.entries[i].module_id # r.module_id
          BY <3>3, <3>7, <4>2 DEF Registered
        <5>2. j \in 1 .. k
          BY <3>4, <3>7, <5>1
        <5>3. \E l \in 1 .. k : old.entries[i] = list[l]
          BY <3>2, <3>7, <5>1, <5>2 DEF Covers
        <5>4. QED
          BY <3>5, <5>1, <5>3
      <4>3. QED
        BY <4>1, <4>2
    <3>8. ~new.full => Covers(new.entries, list, k + 1)
      BY <3>6, <3>7 DEF Covers
    <3>9. QED
      BY <3>3, <3>8 DEF new
  <2>6. QED
    BY <2>4, <2>5
<1>6. \A k \in Nat : k \in S
  <2> HIDE DEF S
  <2>1. QED
    BY <1>4, <1>5, Induction
<1>7. Good(Len(list))
  BY <1>1, <1>6
<1>8. QED
  BY <1>2, <1>7

-----------------------------------------------------------------------------
(* The packers.                                                            *)

Overlays == [module_id : Modules, code_size : Nat]

LEMMA Aligned ==
    ASSUME NEW n \in Nat
    PROVE  /\ AlignUp(n) \in Nat /\ n <= AlignUp(n) /\ AlignUp(n) <= n + 3
           /\ AlignUp(n) % 4 = 0
BY DEF AlignUp

\* The packing loop, one container after the other.
NextStart(packed, start, g, k) ==
    IF k = 1 THEN AlignUp(start) ELSE AlignUp(g[k - 1] + HEADER_SIZE + packed[k - 1].code_size)

LEMMA StartsExist ==
    ASSUME NEW packed, NEW start, NEW n \in Nat
    PROVE  \E g : g = [k \in 1 .. n |-> NextStart(packed, start, g, k)]
<1> DEFINE S == {m \in Nat : \E g : g = [k \in 1 .. m |-> NextStart(packed, start, g, k)]}
<1>1. 0 \in S
  <2>1. <<>> = [k \in 1 .. 0 |-> NextStart(packed, start, <<>>, k)]
    OBVIOUS
  <2>2. \E g : g = [k \in 1 .. 0 |-> NextStart(packed, start, g, k)]
    BY <2>1
  <2>3. QED
    BY <2>2
<1>2. ASSUME NEW m \in Nat, m \in S PROVE m + 1 \in S
  <2>1. PICK g : g = [k \in 1 .. m |-> NextStart(packed, start, g, k)]
    BY <1>2
  <2> DEFINE h == [k \in 1 .. m + 1 |-> IF k <= m THEN g[k] ELSE NextStart(packed, start, g, m + 1)]
  <2>2. ASSUME NEW k \in 1 .. m + 1 PROVE h[k] = NextStart(packed, start, h, k)
    <3>1. \A j \in 1 .. m : h[j] = g[j]
      OBVIOUS
    <3>2. k # 1 => k - 1 \in 1 .. m /\ h[k - 1] = g[k - 1]
      BY <3>1
    <3>3. NextStart(packed, start, h, k) = NextStart(packed, start, g, k)
      BY <3>2 DEF NextStart
    <3>4. CASE k <= m
      BY <2>1, <3>3, <3>4
    <3>5. CASE ~(k <= m)
      <4>1. k = m + 1
        BY <3>5
      <4>2. QED
        BY <3>3, <3>5, <4>1
    <3>6. QED
      BY <3>4, <3>5
  <2>3. h = [k \in 1 .. m + 1 |-> h[k]]
    OBVIOUS
  <2> HIDE DEF h
  <2>4. h = [k \in 1 .. m + 1 |-> NextStart(packed, start, h, k)]
    BY <2>2, <2>3
  <2>5. \E f : f = [k \in 1 .. m + 1 |-> NextStart(packed, start, f, k)]
    BY <2>4
  <2>6. QED
    BY <2>5
<1>3. \A m \in Nat : m \in S
  <2> HIDE DEF S
  <2>1. QED
    BY <1>1, <1>2, Induction
<1>4. QED
  BY <1>3

LEMMA StartsLoop ==
    ASSUME NEW packed \in Seq(Overlays), NEW start
    PROVE  /\ DOMAIN Starts(packed, start) = 1 .. Len(packed)
           /\ \A k \in 1 .. Len(packed) :
                Starts(packed, start)[k] = NextStart(packed, start, Starts(packed, start), k)
<1> DEFINE g == CHOOSE g : g = [k \in DOMAIN packed |-> NextStart(packed, start, g, k)]
<1>1. DOMAIN packed = 1 .. Len(packed) /\ Len(packed) \in Nat
  OBVIOUS
<1>2. g = [k \in DOMAIN packed |-> NextStart(packed, start, g, k)]
  <2>1. \E h : h = [k \in 1 .. Len(packed) |-> NextStart(packed, start, h, k)]
    BY <1>1, StartsExist
  <2>2. \E h : h = [k \in DOMAIN packed |-> NextStart(packed, start, h, k)]
    BY <1>1, <2>1, Zenon
  <2>3. QED
    BY <2>2
<1>3. Starts(packed, start) = g
  BY DEF Starts, NextStart
<1> HIDE DEF g
<1>4. QED
  BY <1>1, <1>2, <1>3

\* The containers lie one behind the other, on words.
LEMMA StartsOrder ==
    ASSUME NEW packed \in Seq(Overlays), NEW start \in Nat, NEW k \in 1 .. Len(packed)
    PROVE  LET at == Starts(packed, start)
           IN  /\ at[k] \in Nat /\ at[k] % 4 = 0 /\ start <= at[k]
               /\ \A j \in 1 .. Len(packed) :
                    j < k => at[j] + HEADER_SIZE + packed[j].code_size <= at[k]
<1> DEFINE at == Starts(packed, start)
           N == Len(packed)
           Below(i) == \A j \in 1 .. N : j < i => at[j] + HEADER_SIZE + packed[j].code_size <= at[i]
           Good(i) == at[i] \in Nat /\ at[i] % 4 = 0 /\ start <= at[i] /\ Below(i)
           S == {i \in Nat : \A j \in 1 .. N : j <= i => Good(j)}
<1>1. /\ N \in Nat
      /\ \A i \in 1 .. N : packed[i].code_size \in Nat
      /\ \A i \in 1 .. N : at[i] = NextStart(packed, start, at, i)
  <2>1. \A i \in 1 .. N : packed[i] \in Overlays
    OBVIOUS
  <2>2. \A i \in 1 .. N : at[i] = NextStart(packed, start, at, i)
    BY StartsLoop
  <2> HIDE DEF at
  <2>3. QED
    BY <2>1, <2>2 DEF Overlays
<1> HIDE DEF at
<1>2. 0 \in S
  BY <1>1
<1>3. ASSUME NEW i \in Nat, i \in S PROVE i + 1 \in S
  <2>1. SUFFICES ASSUME i + 1 <= N PROVE Good(i + 1)
    <3>1. \A j \in 1 .. N : j <= i + 1 => j <= i \/ (j = i + 1 /\ i + 1 <= N)
      BY <1>1
    <3>2. \A j \in 1 .. N : j <= i => Good(j)
      BY <1>3
    <3> HIDE DEF Good
    <3>3. QED
      BY <2>1, <3>1, <3>2
  <2>2. i + 1 \in 1 .. N
    BY <1>1, <2>1
  <2>3. CASE i = 0
    <3>1. at[1] = AlignUp(start)
      BY <1>1, <2>2, <2>3 DEF NextStart
    <3>2. Below(1)
      BY <1>1
    <3>3. Good(1)
      BY <3>1, <3>2, Aligned
    <3> HIDE DEF Good
    <3>4. QED
      BY <2>3, <3>3
  <2>4. CASE i # 0
    <3>1. i \in 1 .. N /\ i + 1 # 1 /\ i + 1 - 1 = i
      BY <1>1, <2>1, <2>4
    <3>2. Good(i)
      BY <1>3, <3>1
    <3>3. at[i + 1] = AlignUp(at[i] + HEADER_SIZE + packed[i].code_size)
      BY <1>1, <2>2, <3>1 DEF NextStart
    <3>4. at[i] + HEADER_SIZE + packed[i].code_size \in Nat /\ packed[i].code_size \in Nat
      <4>1. at[i] \in Nat
        BY <3>2
      <4>2. packed[i].code_size \in Nat
        BY <1>1, <3>1
      <4>3. \A x, y \in Nat : x + HEADER_SIZE + y \in Nat
        BY DEF HEADER_SIZE
      <4>4. QED
        BY <4>1, <4>2, <4>3
    <3>5. /\ at[i + 1] \in Nat /\ at[i + 1] % 4 = 0
          /\ at[i] + HEADER_SIZE + packed[i].code_size <= at[i + 1]
      <4> DEFINE p == at[i] + HEADER_SIZE + packed[i].code_size
      <4>1. p \in Nat /\ at[i + 1] = AlignUp(p)
        BY <3>3, <3>4
      <4> HIDE DEF p
      <4>2. AlignUp(p) \in Nat /\ p <= AlignUp(p) /\ AlignUp(p) % 4 = 0
        BY <4>1, Aligned
      <4>3. QED
        BY <4>1, <4>2 DEF p
    <3>6. start <= at[i + 1]
      <4>1. at[i] \in Nat /\ start <= at[i] /\ HEADER_SIZE \in Nat
        BY <3>2 DEF HEADER_SIZE
      <4>2. \A a, h, c, b \in Nat : start <= a /\ a + h + c <= b => start <= b
        OBVIOUS
      <4> HIDE DEF Good, S
      <4>3. QED
        BY <3>4, <3>5, <4>1, <4>2
    <3>7. ASSUME NEW j \in 1 .. N, j < i + 1
          PROVE  at[j] + HEADER_SIZE + packed[j].code_size <= at[i + 1]
      <4>1. CASE j = i
        BY <3>5, <4>1
      <4>2. CASE j # i
        <5>1. j < i /\ j <= i
          BY <3>7, <4>2
        <5>2. at[j] + HEADER_SIZE + packed[j].code_size <= at[i]
          BY <3>2, <5>1
        <5>3. at[j] \in Nat /\ packed[j].code_size \in Nat
          BY <1>1, <1>3, <5>1
        <5>4. at[i] \in Nat
          BY <3>2
        <5>5. \A a, b, c, x, y \in Nat :
                 a + HEADER_SIZE + x <= b /\ b + HEADER_SIZE + y <= c => a + HEADER_SIZE + x <= c
          BY DEF HEADER_SIZE
        <5> HIDE DEF Good, Below, S
        <5>6. QED
          BY <3>4, <3>5, <5>2, <5>3, <5>4, <5>5
      <4>3. QED
        BY <4>1, <4>2
    <3>8. QED
      BY <3>5, <3>6, <3>7
  <2>5. QED
    BY <2>3, <2>4
<1>4. \A i \in Nat : i \in S
  <2> HIDE DEF S
  <2>1. QED
    BY <1>2, <1>3, Induction
<1>5. Good(k)
  <2>1. k \in S /\ k <= k
    BY <1>1, <1>4
  <2> HIDE DEF Good
  <2>2. QED
    BY <2>1
<1>6. QED
  BY <1>5 DEF at

\* Every container starts where its overlay's place in the list says.
LEMMA ContainerRecords ==
    ASSUME NEW packed \in Seq(Overlays), NEW damaged, NEW at,
           \A i \in 1 .. Len(packed) : at[i] \in Nat,
           \A i, j \in 1 .. Len(packed) :
              j < i => at[j] + HEADER_SIZE + packed[j].code_size <= at[i]
    PROVE  /\ \A a : a \in DOMAIN Containers(packed, at, damaged)
                  <=> \E k \in 1 .. Len(packed) : a = at[k]
           /\ \A k \in 1 .. Len(packed) :
                Containers(packed, at, damaged)[at[k]] =
                    HeaderRecord(packed[k].module_id, packed[k].code_size, at[k] # damaged)
<1> DEFINE containers == Containers(packed, at, damaged)
           N == Len(packed)
<1>1. /\ N \in Nat /\ DOMAIN packed = 1 .. N
      /\ \A i \in 1 .. N : at[i] \in Nat /\ packed[i].code_size \in Nat
      /\ \A i, j \in 1 .. N : j < i => at[j] + HEADER_SIZE + packed[j].code_size <= at[i]
  <2>1. \A i \in 1 .. N : packed[i] \in Overlays
    OBVIOUS
  <2>2. QED
    BY <2>1 DEF Overlays
<1>2. \A i, j \in 1 .. N : j < i => at[j] < at[i]
  <2>1. \A a, x, b \in Nat : a + HEADER_SIZE + x <= b => a < b
    BY DEF HEADER_SIZE
  <2>2. QED
    BY <1>1, <2>1
<1>3. \A i, j \in 1 .. N : at[i] = at[j] => i = j
  BY <1>1, <1>2
<1>4. DOMAIN containers = {at[k] : k \in 1 .. N}
  BY <1>1 DEF Containers
<1>5. ASSUME NEW k \in 1 .. N
      PROVE  containers[at[k]] =
                HeaderRecord(packed[k].module_id, packed[k].code_size, at[k] # damaged)
  <2> DEFINE c == CHOOSE i \in DOMAIN packed : at[i] = at[k]
  <2>1. c \in 1 .. N /\ at[c] = at[k]
    BY <1>1
  <2>2. c = k
    BY <1>3, <2>1
  <2>3. at[k] \in {at[i] : i \in DOMAIN packed}
    BY <1>1
  <2>4. containers[at[k]] = HeaderRecord(packed[c].module_id, packed[c].code_size, at[k] # damaged)
    BY <2>3 DEF Containers
  <2>5. QED
    BY <2>2, <2>4
<1>6. QED
  BY <1>4, <1>5

\* What is programmed at an address lies there, and nothing else does.
LEMMA PlacedRecords ==
    ASSUME NEW image, NEW layout, Holds(image, layout), image.base \in Nat,
           DOMAIN layout.records \subseteq Nat
    PROVE  /\ DOMAIN image.records = {image.base + r : r \in DOMAIN layout.records}
           /\ \A r \in DOMAIN layout.records :
                image.records[image.base + r] = layout.records[r]
<1> DEFINE b == image.base
           placed == {b + r : r \in DOMAIN layout.records}
<1>1. image.records = [a \in placed |-> layout.records[a - b]]
  BY DEF Holds, Place
<1>2. ASSUME NEW r \in DOMAIN layout.records PROVE image.records[b + r] = layout.records[r]
  <2>1. r \in Nat /\ b \in Nat
    OBVIOUS
  <2>2. PICK a \in placed : a = b + r
    OBVIOUS
  <2>3. a - b = r
    BY <2>1, <2>2
  <2> HIDE DEF b, placed
  <2>4. image.records[a] = layout.records[a - b]
    BY <1>1
  <2>5. QED
    BY <2>2, <2>3, <2>4
<1>3. QED
  BY <1>1, <1>2

\* What an image has before anything is known of its layout.
LEMMA ImageTypes ==
    ASSUME NEW image \in Images
    PROVE  /\ image.base \in Nat /\ image.capacity \in Nat
           /\ image.packed \in Seq(Overlays) /\ Len(image.packed) \in Nat
           /\ DOMAIN image.packed = 1 .. Len(image.packed)
           /\ \A k \in 1 .. Len(image.packed) :
                image.packed[k].module_id \in Modules /\ image.packed[k].code_size \in Nat
           /\ image.packed # <<>> => Len(image.packed) # 0
<1> DEFINE packed == image.packed
<1>1. image.base \in Nat /\ image.capacity \in Nat /\ packed \in Seq(Overlays)
  BY ImagesAssumption DEF Overlays
<1> HIDE DEF packed
<1>2. \A k \in 1 .. Len(packed) : packed[k] \in Overlays
  BY <1>1
<1>3. Len(packed) \in Nat /\ DOMAIN packed = 1 .. Len(packed) /\ (packed # <<>> => Len(packed) # 0)
  BY <1>1
<1>4. QED
  BY <1>1, <1>2, <1>3 DEF packed, Overlays

\* A row of containers.  Where the walk's step from a container leads lies the
\* next container or none: the step ends at most three bytes behind the
\* container, less than a header's size.
LEMMA SequentialRecords ==
    ASSUME NEW image \in Images, NEW damaged, InRow(image.packed, image.at),
           Holds(image, Sequential(image.packed, image.at, damaged))
    PROVE  LET b == image.base
               packed == image.packed
               n == Len(packed)
               at == image.at
               Behind(k) == at[k] + AlignUp(HEADER_SIZE + packed[k].code_size)
           IN  /\ n # 0 /\ at[1] = 0
               /\ \A k \in 1 .. n :
                    /\ at[k] \in Nat /\ b + at[k] \in DOMAIN image.records
                    /\ image.records[b + at[k]] =
                         HeaderRecord(packed[k].module_id, packed[k].code_size, at[k] # damaged)
                    /\ b + at[k] + HEADER_SIZE <= image.capacity
                    /\ b + Behind(k) \in DOMAIN image.records => k < n /\ at[k + 1] = Behind(k)
<1> DEFINE b == image.base
           packed == image.packed
           n == Len(packed)
           at == image.at
           size(k) == packed[k].code_size
           next(k) == at[k] + AlignUp(HEADER_SIZE + size(k))
           layout == Sequential(packed, at, damaged)
<1>1. /\ b \in Nat /\ image.capacity \in Nat /\ packed \in Seq(Overlays) /\ n \in Nat /\ n # 0
      /\ DOMAIN packed = 1 .. n /\ \A k \in 1 .. n : size(k) \in Nat
  BY ImageTypes DEF Holds
<1>2. /\ at[1] = 0
      /\ \A k \in 1 .. n : at[k] \in Nat
      /\ \A j, k \in 1 .. n : j < k => at[j] + HEADER_SIZE + size(j) <= at[k]
  <2>1. /\ at \in [DOMAIN packed -> Nat] /\ at[1] = 0
        /\ \A j, k \in DOMAIN packed : j < k => at[j] + HEADER_SIZE + packed[j].code_size <= at[k]
    BY DEF InRow
  <2> HIDE DEF at, packed, n
  <2>2. QED
    BY <1>1, <2>1
<1>3. /\ layout.records = Containers(packed, at, damaged)
      /\ layout.end = at[n] + HEADER_SIZE + size(n)
  BY DEF Sequential, End
<1>4. /\ \A a : a \in DOMAIN Containers(packed, at, damaged) <=> \E k \in 1 .. n : a = at[k]
      /\ \A k \in 1 .. n : Containers(packed, at, damaged)[at[k]] =
            HeaderRecord(packed[k].module_id, packed[k].code_size, at[k] # damaged)
  <2>1. /\ packed \in Seq(Overlays)
        /\ \A i \in 1 .. Len(packed) : at[i] \in Nat
        /\ \A i, j \in 1 .. Len(packed) :
              j < i => at[j] + HEADER_SIZE + packed[j].code_size <= at[i]
    BY <1>1, <1>2
  <2> HIDE DEF packed, at
  <2>2. QED
    BY <2>1, ContainerRecords
<1>5. Holds(image, layout)
  OBVIOUS
<1> HIDE DEF b, n, at, packed, layout, size
<1>6. \A k \in 1 .. n : HEADER_SIZE + size(k) \in Nat
  BY <1>1 DEF HEADER_SIZE
<1>7. \A a, x, c \in Nat : a + HEADER_SIZE + x <= c => a < c
  BY DEF HEADER_SIZE
<1>8. \A a, x, c, d, cap \in Nat :
          d + (c + HEADER_SIZE + x) <= cap /\ a <= c => d + a + HEADER_SIZE <= cap
  BY DEF HEADER_SIZE
<1>9. \A j, k \in 1 .. n : j < k => at[j] < at[k]
  BY <1>1, <1>2, <1>7
<1>10. /\ \A a : a \in DOMAIN layout.records <=> \E k \in 1 .. n : a = at[k]
       /\ \A k \in 1 .. n : layout.records[at[k]] =
            HeaderRecord(packed[k].module_id, packed[k].code_size, at[k] # damaged)
  BY <1>3, <1>4, Zenon
<1>11. /\ DOMAIN image.records = {b + r : r \in DOMAIN layout.records}
       /\ \A r \in DOMAIN layout.records : image.records[b + r] = layout.records[r]
  <2>1. DOMAIN layout.records \subseteq Nat
    BY <1>2, <1>10
  <2>2. QED
    BY <1>1, <1>5, <2>1, PlacedRecords DEF b
<1>12. DOMAIN image.records = {b + at[k] : k \in 1 .. n}
  BY <1>10, <1>11
<1>13. ASSUME NEW k \in 1 .. n PROVE b + at[k] + HEADER_SIZE <= image.capacity
  <2>1. b + (at[n] + HEADER_SIZE + size(n)) <= image.capacity
    BY <1>3, <1>5 DEF Holds, b
  <2>2. n \in 1 .. n /\ at[n] \in Nat /\ at[k] \in Nat /\ size(n) \in Nat
    BY <1>1, <1>2
  <2>3. k = n \/ k < n
    BY <1>1
  <2>4. at[k] <= at[n]
    BY <1>9, <2>2, <2>3
  <2>5. QED
    BY <1>1, <1>8, <2>1, <2>2, <2>4
<1>14. ASSUME NEW k \in 1 .. n, b + next(k) \in DOMAIN image.records
       PROVE  k < n /\ at[k + 1] = next(k)
  <2> DEFINE step == AlignUp(HEADER_SIZE + size(k))
  <2>1. at[k] \in Nat /\ size(k) \in Nat /\ k \in Nat
    BY <1>1, <1>2
  <2>2. step \in Nat /\ HEADER_SIZE + size(k) <= step /\ step <= HEADER_SIZE + size(k) + 3
    BY <1>6, Aligned
  <2>3. next(k) = at[k] + step
    OBVIOUS
  <2> HIDE DEF step, next
  <2>4. next(k) \in Nat
    BY <2>1, <2>2, <2>3
  <2>5. PICK i \in 1 .. n : b + next(k) = b + at[i]
    BY <1>12, <1>14
  <2>6. at[i] \in Nat /\ size(i) \in Nat /\ i \in Nat
    BY <1>1, <1>2
  <2>7. at[i] = next(k)
    BY <1>1, <2>4, <2>5, <2>6
  <2>8. at[k] < at[i]
    <3>1. \A a, x, s \in Nat : HEADER_SIZE + x <= s => a < a + s
      BY DEF HEADER_SIZE
    <3>2. QED
      BY <2>1, <2>2, <2>3, <2>7, <3>1
  <2>9. k < i
    <3>1. i < k => at[i] < at[k]
      BY <1>9
    <3>2. i # k
      BY <2>1, <2>8
    <3>3. QED
      BY <2>1, <2>6, <2>8, <3>1, <3>2
  <2>10. k + 1 \in 1 .. n /\ k < n
    BY <1>1, <2>1, <2>6, <2>9
  <2>11. at[k + 1] \in Nat /\ size(k + 1) \in Nat /\ at[k] + HEADER_SIZE + size(k) <= at[k + 1]
    BY <1>1, <1>2, <2>1, <2>10
  <2>12. ~(k + 1 < i)
    <3>1. \A a, x, c, y, d, s \in Nat :
             /\ a + HEADER_SIZE + x <= c /\ s <= HEADER_SIZE + x + 3
             /\ d = a + s
             => ~(c + HEADER_SIZE + y <= d)
      BY DEF HEADER_SIZE
    <3>2. k + 1 < i => at[k + 1] + HEADER_SIZE + size(k + 1) <= at[i]
      BY <1>2, <2>10
    <3>3. at[i] = at[k] + step
      BY <2>3, <2>7
    <3>4. QED
      BY <2>1, <2>2, <2>6, <2>11, <3>1, <3>2, <3>3
  <2>13. i = k + 1
    BY <2>1, <2>6, <2>9, <2>12
  <2>14. QED
    BY <2>7, <2>10, <2>13
<1>15. \A k \in 1 .. n : image.records[b + at[k]] =
            HeaderRecord(packed[k].module_id, packed[k].code_size, at[k] # damaged)
  BY <1>10, <1>11
<1>16. \A k \in 1 .. n : at[k] \in Nat /\ b + at[k] \in DOMAIN image.records
  BY <1>2, <1>12
<1>17. QED
  BY <1>1, <1>2, <1>13, <1>14, <1>15, <1>16 DEF b, n, at, packed, size

\* auto_pack's image: the directory header, the index behind it, and behind
\* that the containers, each where its index entry says.
LEMMA DirectoryRecords ==
    ASSUME NEW image \in Images, NEW damaged,
           Holds(image, AutoPack(image.packed, damaged))
    PROVE  LET b == image.base
               packed == image.packed
               n == Len(packed)
               at == Starts(packed, EntryAt(n + 1))
           IN  /\ n # 0
               /\ b \in DOMAIN image.records /\ image.records[b] = DirRecord(n, damaged # 0)
               /\ b + HEADER_SIZE <= image.capacity
               /\ \A k \in 1 .. n :
                    /\ at[k] \in Nat
                    /\ b + EntryAt(k) \in DOMAIN image.records
                    /\ image.records[b + EntryAt(k)] = EntryRecord(packed[k].module_id, at[k])
                    /\ b + EntryAt(k) + DIR_ENTRY_SIZE <= image.capacity
                    /\ b + at[k] \in DOMAIN image.records
                    /\ image.records[b + at[k]] =
                         HeaderRecord(packed[k].module_id, packed[k].code_size, at[k] # damaged)
<1> DEFINE b == image.base
           packed == image.packed
           n == Len(packed)
           start == EntryAt(n + 1)
           at == Starts(packed, start)
           size(k) == packed[k].code_size
           layout == AutoPack(packed, damaged)
           containers == Containers(packed, at, damaged)
           index == {EntryAt(k) : k \in 1 .. n}
<1>1. /\ b \in Nat /\ image.capacity \in Nat /\ packed \in Seq(Overlays) /\ n \in Nat /\ n # 0
      /\ \A k \in 1 .. n : size(k) \in Nat
  BY ImageTypes DEF Holds
<1>2. start \in Nat /\ start = HEADER_SIZE + n * DIR_ENTRY_SIZE /\ HEADER_SIZE <= start
  BY <1>1 DEF EntryAt, HEADER_SIZE, DIR_ENTRY_SIZE
<1> HIDE DEF start, n
<1>3. \A k \in 1 .. n :
        /\ at[k] \in Nat /\ start <= at[k]
        /\ \A j \in 1 .. n : j < k => at[j] + HEADER_SIZE + size(j) <= at[k]
  BY <1>1, <1>2, StartsOrder DEF n
<1>4. /\ layout.records = [a \in {0} \cup index \cup DOMAIN containers |->
            IF a = 0 THEN DirRecord(n, damaged # 0)
            ELSE IF a \in index
                 THEN LET k == CHOOSE k \in 1 .. n : EntryAt(k) = a
                      IN  EntryRecord(packed[k].module_id, at[k])
            ELSE containers[a]]
      /\ layout.end = at[n] + HEADER_SIZE + size(n)
  BY DEF AutoPack, End, start, n
<1>5. /\ \A a : a \in DOMAIN containers <=> \E k \in 1 .. n : a = at[k]
      /\ \A k \in 1 .. n : containers[at[k]] =
            HeaderRecord(packed[k].module_id, packed[k].code_size, at[k] # damaged)
  <2>1. /\ packed \in Seq(Overlays)
        /\ \A i \in 1 .. Len(packed) : at[i] \in Nat
        /\ \A i, j \in 1 .. Len(packed) :
              j < i => at[j] + HEADER_SIZE + packed[j].code_size <= at[i]
    BY <1>1, <1>3 DEF n
  <2> HIDE DEF packed, at
  <2>2. QED
    BY <2>1, ContainerRecords DEF n
<1>6. Holds(image, layout)
  OBVIOUS
<1> HIDE DEF b, at, packed, layout, containers, size
<1>7. \A k \in 1 .. n :
         EntryAt(k) \in Nat /\ EntryAt(k) # 0 /\ EntryAt(k) + DIR_ENTRY_SIZE <= start
  BY <1>1, <1>2 DEF EntryAt, HEADER_SIZE, DIR_ENTRY_SIZE
<1>8. \A j, k \in 1 .. n : EntryAt(j) = EntryAt(k) => j = k
  BY <1>1 DEF EntryAt, HEADER_SIZE, DIR_ENTRY_SIZE
<1>9. \A k \in 1 .. n : at[k] # 0 /\ at[k] \notin index
  <2>1. \A x, y, z \in Nat : x + DIR_ENTRY_SIZE <= y /\ y <= z => x < z
    BY DEF DIR_ENTRY_SIZE
  <2>2. ASSUME NEW k \in 1 .. n PROVE at[k] # 0 /\ at[k] \notin index
    <3>1. ASSUME NEW j \in 1 .. n PROVE EntryAt(j) < at[k]
      BY <1>2, <1>3, <1>7, <2>1
    <3>2. at[k] # 0
      BY <1>2, <1>3 DEF HEADER_SIZE
    <3>3. QED
      BY <1>3, <1>7, <3>1, <3>2
  <2>3. QED
    BY <2>2
<1>10. /\ DOMAIN layout.records = {0} \cup index \cup DOMAIN containers
       /\ DOMAIN layout.records \subseteq Nat
  BY <1>3, <1>4, <1>5, <1>7
<1>11. /\ 0 \in DOMAIN layout.records
       /\ layout.records[0] = DirRecord(n, damaged # 0)
  BY <1>4
<1>12. ASSUME NEW k \in 1 .. n
       PROVE  /\ EntryAt(k) \in DOMAIN layout.records
              /\ layout.records[EntryAt(k)] = EntryRecord(packed[k].module_id, at[k])
  <2> DEFINE c == CHOOSE i \in 1 .. n : EntryAt(i) = EntryAt(k)
  <2>1. c \in 1 .. n /\ EntryAt(c) = EntryAt(k)
    OBVIOUS
  <2>2. c = k
    BY <1>8, <2>1
  <2>3. EntryAt(k) \in index /\ EntryAt(k) # 0
    BY <1>7
  <2>4. layout.records[EntryAt(k)] = EntryRecord(packed[c].module_id, at[c])
    BY <1>4, <2>3
  <2>5. QED
    BY <1>10, <2>2, <2>3, <2>4
<1>13. ASSUME NEW k \in 1 .. n
       PROVE  /\ at[k] \in DOMAIN layout.records
              /\ layout.records[at[k]] =
                   HeaderRecord(packed[k].module_id, packed[k].code_size, at[k] # damaged)
  <2>1. at[k] \in DOMAIN containers
    BY <1>5
  <2>2. layout.records[at[k]] = containers[at[k]]
    BY <1>4, <1>9, <2>1
  <2>3. QED
    BY <1>5, <1>10, <2>1, <2>2
<1>14. /\ DOMAIN image.records = {b + r : r \in DOMAIN layout.records}
       /\ \A r \in DOMAIN layout.records : image.records[b + r] = layout.records[r]
  BY <1>1, <1>6, <1>10, PlacedRecords DEF b
<1>15. b + start <= image.capacity
  <2>1. b + (at[n] + HEADER_SIZE + size(n)) <= image.capacity
    BY <1>4, <1>6 DEF Holds, b
  <2>2. n \in 1 .. n /\ at[n] \in Nat /\ start <= at[n] /\ size(n) \in Nat
    BY <1>1, <1>3
  <2>3. \A x, y, z, c, d \in Nat : x + (y + HEADER_SIZE + z) <= c /\ d <= y => x + d <= c
    BY DEF HEADER_SIZE
  <2>4. QED
    BY <1>1, <1>2, <2>1, <2>2, <2>3
<1>16. b + HEADER_SIZE <= image.capacity
  BY <1>1, <1>2, <1>15 DEF HEADER_SIZE
<1>17. \A k \in 1 .. n : b + EntryAt(k) + DIR_ENTRY_SIZE <= image.capacity
  <2>1. \A x, y, z, c \in Nat : y + DIR_ENTRY_SIZE <= z /\ x + z <= c => x + y + DIR_ENTRY_SIZE <= c
    BY DEF DIR_ENTRY_SIZE
  <2>2. b \in Nat /\ start \in Nat /\ image.capacity \in Nat
    BY <1>1, <1>2
  <2> HIDE DEF start
  <2>3. QED
    BY <1>7, <1>15, <2>1, <2>2
<1>18. b \in DOMAIN image.records /\ image.records[b] = DirRecord(n, damaged # 0)
  <2>1. b + 0 = b
    BY <1>1
  <2>2. QED
    BY <1>11, <1>14, <2>1
<1>19. \A k \in 1 .. n :
         /\ b + EntryAt(k) \in DOMAIN image.records
         /\ image.records[b + EntryAt(k)] = EntryRecord(packed[k].module_id, at[k])
         /\ b + at[k] \in DOMAIN image.records
         /\ image.records[b + at[k]] =
              HeaderRecord(packed[k].module_id, packed[k].code_size, at[k] # damaged)
  BY <1>12, <1>13, <1>14
<1>20. QED
  BY <1>1, <1>3, <1>16, <1>17, <1>18, <1>19 DEF b, n, start, at, packed

-----------------------------------------------------------------------------
(* The invariant: how far a mount has come in the image, and that what it  *)
(* has collected so far are the places of the first overlays.              *)

Directory(image) ==
    LET b == image.base
        n == Len(image.packed)
        at == image.at
    IN  /\ n # 0
        /\ b \in DOMAIN image.records /\ b + HEADER_SIZE <= image.capacity
        /\ image.records[b].kind = "dir" /\ image.records[b].entry_count = n
        /\ \A k \in 1 .. n :
             /\ at[k] \in Nat
             /\ b + EntryAt(k) \in DOMAIN image.records
             /\ image.records[b + EntryAt(k)] = EntryRecord(image.packed[k].module_id, at[k])
             /\ b + EntryAt(k) + DIR_ENTRY_SIZE <= image.capacity
             /\ b + at[k] \in DOMAIN image.records
             /\ image.records[b + at[k]].kind = "header"
             /\ image.records[b + at[k]].module_id = image.packed[k].module_id

\* Where the containers of a row lie, and where the walk's step from container k
\* leads.
Walked(image, k) == image.base + image.at[k]
Behind(image, k) == Walked(image, k) + AlignUp(HEADER_SIZE + image.packed[k].code_size)

Walkable(image) ==
    LET n == Len(image.packed)
    IN  /\ n # 0 /\ Walked(image, 1) = image.base
        /\ \A k \in 1 .. n :
             /\ image.at[k] \in Nat /\ Walked(image, k) \in Nat
             /\ Walked(image, k) \in DOMAIN image.records
             /\ Walked(image, k) + HEADER_SIZE <= image.capacity
             /\ image.records[Walked(image, k)].kind = "header"
             /\ image.records[Walked(image, k)].module_id = image.packed[k].module_id
             /\ image.records[Walked(image, k)].code_size = image.packed[k].code_size
             /\ AlignUp(HEADER_SIZE + image.packed[k].code_size) \in Nat
             /\ Behind(image, k) \in Nat
             /\ Behind(image, k) \in DOMAIN image.records =>
                  k < n /\ Walked(image, k + 1) = Behind(image, k)

IndexRead ==
    LET l == Len(mount.discovered)
    IN  /\ mount.entry_count = Len(flash.packed) /\ l < mount.entry_count /\ l < MAX_MODULES
        /\ mount.offset = flash.base + EntryAt(l + 1)
        /\ \A k \in 1 .. l : mount.discovered[k] =
             [module_id |-> flash.packed[k].module_id, flash_offset |-> flash.at[k]]

WalkedSoFar ==
    LET l == Len(mount.discovered)
    IN  /\ l # 0 /\ l <= Len(flash.packed)
        /\ mount.offset = Behind(flash, l)
        /\ \A k \in 1 .. l :
             /\ mount.discovered[k] =
                  [module_id |-> flash.packed[k].module_id, flash_offset |-> Walked(flash, k)]
             /\ flash.records[Walked(flash, k)].intact
             /\ k < l => Walked(flash, k + 1) = Behind(flash, k)

MountInv ==
    /\ TypeOK /\ flash \in Images /\ Once(registry)
    /\ mount.pc = "first" => mount.offset = flash.base /\ mount.discovered = <<>>
    /\ mount.pc = "entry" => Directory(flash) /\ IndexRead
    /\ mount.pc = "next" => Walkable(flash) /\ WalkedSoFar

LEMMA SequentialWalkable ==
    ASSUME NEW image \in Images, NEW damaged, InRow(image.packed, image.at),
           Holds(image, Sequential(image.packed, image.at, damaged))
    PROVE  Walkable(image)
<1> DEFINE b == image.base
           n == Len(image.packed)
           at == image.at
           step(k) == AlignUp(HEADER_SIZE + image.packed[k].code_size)
<1>1. b \in Nat /\ n \in Nat /\ \A k \in 1 .. n : image.packed[k].code_size \in Nat
  BY ImageTypes
<1>2. /\ n # 0 /\ at[1] = 0
      /\ \A k \in 1 .. n :
           /\ at[k] \in Nat /\ b + at[k] \in DOMAIN image.records
           /\ image.records[b + at[k]] =
                HeaderRecord(image.packed[k].module_id, image.packed[k].code_size, at[k] # damaged)
           /\ b + at[k] + HEADER_SIZE <= image.capacity
           /\ b + (at[k] + step(k)) \in DOMAIN image.records => k < n /\ at[k + 1] = at[k] + step(k)
  BY SequentialRecords
<1>3. \A k \in 1 .. n : step(k) \in Nat
  <2>1. \A k \in 1 .. n : HEADER_SIZE + image.packed[k].code_size \in Nat
    BY <1>1 DEF HEADER_SIZE
  <2>2. QED
    BY <2>1, Aligned
<1>4. \A k \in Nat : Walked(image, k) = b + at[k] /\ Behind(image, k) = b + at[k] + step(k)
  BY DEF Walked, Behind
<1> HIDE DEF b, n, at, step
<1>5. Walked(image, 1) = b
  BY <1>1, <1>2, <1>4
<1>6. ASSUME NEW k \in 1 .. n
      PROVE  /\ Walked(image, k) \in Nat /\ Behind(image, k) \in Nat
             /\ Behind(image, k) = b + (at[k] + step(k))
  BY <1>1, <1>2, <1>3, <1>4
<1>7. ASSUME NEW k \in 1 .. n, Behind(image, k) \in DOMAIN image.records
      PROVE  k < n /\ Walked(image, k + 1) = Behind(image, k)
  <2>1. k < n /\ at[k + 1] = at[k] + step(k)
    BY <1>2, <1>6, <1>7
  <2>2. k + 1 \in Nat
    OBVIOUS
  <2>3. Walked(image, k + 1) = b + (at[k] + step(k))
    BY <1>4, <2>1, <2>2
  <2>4. QED
    BY <1>6, <2>1, <2>3
<1>8. ASSUME NEW k \in 1 .. n
      PROVE  /\ image.records[Walked(image, k)].kind = "header"
             /\ image.records[Walked(image, k)].module_id = image.packed[k].module_id
             /\ image.records[Walked(image, k)].code_size = image.packed[k].code_size
  <2>1. /\ Walked(image, k) = b + at[k]
        /\ image.records[b + at[k]] =
             HeaderRecord(image.packed[k].module_id, image.packed[k].code_size, at[k] # damaged)
    BY <1>2, <1>4
  <2>2. QED
    BY <2>1 DEF HeaderRecord
<1>9. \A k \in 1 .. n : /\ Walked(image, k) \in DOMAIN image.records
                        /\ Walked(image, k) + HEADER_SIZE <= image.capacity
  BY <1>2, <1>4
<1>10. \A k \in 1 .. n : /\ at[k] \in Nat
                         /\ AlignUp(HEADER_SIZE + image.packed[k].code_size) \in Nat
  BY <1>2, <1>3 DEF step
<1>11. QED
  BY <1>2, <1>5, <1>6, <1>7, <1>8, <1>9, <1>10 DEF Walkable, n, b, at

\* Storage without an image, a directory or a row: there is no other.
LEMMA ImageCases ==
    ASSUME NEW image \in Images
    PROVE  \/ DOMAIN image.packed = {} /\ DOMAIN image.records = {}
           \/ Directory(image)
           \/ Walkable(image)
<1>1. CASE image.packed = <<>> /\ DOMAIN image.records = {}
  BY <1>1
<1>2. ASSUME NEW damaged, Holds(image, AutoPack(image.packed, damaged)) PROVE Directory(image)
  <2> DEFINE b == image.base
             n == Len(image.packed)
             at == image.at
  <2>1. /\ n # 0
        /\ b \in DOMAIN image.records /\ image.records[b] = DirRecord(n, damaged # 0)
        /\ b + HEADER_SIZE <= image.capacity
        /\ \A k \in 1 .. n :
             /\ at[k] \in Nat
             /\ b + EntryAt(k) \in DOMAIN image.records
             /\ image.records[b + EntryAt(k)] = EntryRecord(image.packed[k].module_id, at[k])
             /\ b + EntryAt(k) + DIR_ENTRY_SIZE <= image.capacity
             /\ b + at[k] \in DOMAIN image.records
             /\ image.records[b + at[k]] =
                  HeaderRecord(image.packed[k].module_id, image.packed[k].code_size, at[k] # damaged)
    <3>1. image.at = Starts(image.packed, EntryAt(Len(image.packed) + 1))
      BY <1>2 DEF Holds, AutoPack
    <3> DEFINE starts == Starts(image.packed, EntryAt(Len(image.packed) + 1))
    <3>2. /\ n # 0
          /\ b \in DOMAIN image.records /\ image.records[b] = DirRecord(n, damaged # 0)
          /\ b + HEADER_SIZE <= image.capacity
          /\ \A k \in 1 .. n :
               /\ starts[k] \in Nat
               /\ b + EntryAt(k) \in DOMAIN image.records
               /\ image.records[b + EntryAt(k)] = EntryRecord(image.packed[k].module_id, starts[k])
               /\ b + EntryAt(k) + DIR_ENTRY_SIZE <= image.capacity
               /\ b + starts[k] \in DOMAIN image.records
               /\ image.records[b + starts[k]] = HeaderRecord(image.packed[k].module_id,
                     image.packed[k].code_size, starts[k] # damaged)
      BY <1>2, DirectoryRecords
    <3>3. at = starts
      BY <3>1
    <3> HIDE DEF at, starts, b, n
    <3>4. QED
      BY <3>2, <3>3
  <2> HIDE DEF at, b, n
  <2>2. image.records[b].kind = "dir" /\ image.records[b].entry_count = n
    BY <2>1 DEF DirRecord
  <2>3. ASSUME NEW k \in 1 .. n
        PROVE  /\ image.records[b + at[k]].kind = "header"
               /\ image.records[b + at[k]].module_id = image.packed[k].module_id
    <3>1. image.records[b + at[k]] =
            HeaderRecord(image.packed[k].module_id, image.packed[k].code_size, at[k] # damaged)
      BY <2>1
    <3>2. QED
      BY <3>1 DEF HeaderRecord
  <2>4. QED
    BY <2>1, <2>2, <2>3 DEF Directory, at, b, n
<1>3. ASSUME NEW damaged, InRow(image.packed, image.at),
             Holds(image, Sequential(image.packed, image.at, damaged))
      PROVE  Walkable(image)
  BY <1>3, SequentialWalkable
<1>4. \/ image.packed = <<>> /\ DOMAIN image.records = {}
      \/ \E damaged : \/ Holds(image, AutoPack(image.packed, damaged))
                      \/ /\ InRow(image.packed, image.at)
                         /\ Holds(image, Sequential(image.packed, image.at, damaged))
  BY ImagesAssumption
<1>5. QED
  BY <1>1, <1>2, <1>3, <1>4

Places == [pc : {"idle", "first", "entry", "next"}, entry_count : Nat, offset : Nat,
           discovered : Seq(Registrations)]
Results == [status : {"none", "Ok", "Storage", "InvalidMagic", "HeaderChecksumMismatch",
                      "UnsupportedVersion"},
            count : 0 .. MAX_MODULES, walk : {"whole", "cut"}]

LEMMA InvTypes ==
    ASSUME MountInv
    PROVE  /\ registry \in Seq(Registrations) /\ Len(registry) <= MAX_MODULES /\ Once(registry)
           /\ mount \in Places /\ ret \in Results /\ MAX_MODULES \in Nat
           /\ mount.discovered \in Seq(Registrations) /\ Len(mount.discovered) \in Nat
           /\ Len(mount.discovered) <= MAX_MODULES
           /\ flash \in Images /\ flash.base \in Nat /\ Len(flash.packed) \in Nat
           /\ \A k \in 1 .. Len(flash.packed) : flash.packed[k].module_id \in Modules
<1>1. /\ registry \in Seq(Registrations) /\ Len(registry) <= MAX_MODULES /\ Once(registry)
      /\ mount \in Places /\ ret \in Results /\ MAX_MODULES \in Nat
      /\ Len(mount.discovered) <= MAX_MODULES /\ flash \in Images
  BY MountAssumption DEF MountInv, TypeOK, Places, Results
<1>2. mount.discovered \in Seq(Registrations) /\ Len(mount.discovered) \in Nat
  BY <1>1 DEF Places
<1>3. QED
  BY <1>1, <1>2, ImageTypes

\* Where a mount ends, whatever it returns.
LEMMA IdleInv ==
    ASSUME MountInv, mount' = NotMounting, flash' = flash,
           registry' \in Seq(Registrations), Len(registry') <= MAX_MODULES, Once(registry'),
           ret' \in Results
    PROVE  MountInv'
<1>1. /\ mount' \in Places /\ mount'.pc = "idle"
      /\ mount'.discovered = <<>> /\ Len(mount'.discovered) <= MAX_MODULES
  BY MountAssumption DEF NotMounting, Places
<1>2. TypeOK'
  BY <1>1 DEF TypeOK, Places, Results
<1>3. flash' \in Images /\ Once(registry)'
  BY DEF MountInv, Once
<1>4. QED
  BY <1>1, <1>2, <1>3 DEF MountInv

LEMMA ConcludeInv ==
    ASSUME MountInv, NEW list \in Seq(Registrations), Len(list) <= MAX_MODULES,
           NEW walk \in {"whole", "cut"}, Conclude(list, walk)
    PROVE  MountInv'
<1>1. RegisterAll(list) \in Registries
  BY InvTypes, RegisterAllResult
<1>2. /\ registry' = RegisterAll(list).entries /\ flash' = flash /\ mount' = NotMounting
      /\ ret' = IF RegisterAll(list).full THEN [status |-> "Storage", count |-> 0, walk |-> walk]
                ELSE [status |-> "Ok", count |-> Len(list), walk |-> walk]
  BY DEF Conclude
<1>3. registry' \in Seq(Registrations) /\ Len(registry') <= MAX_MODULES /\ Once(registry')
  BY <1>1, <1>2 DEF Registries
<1>4. ret' \in Results
  <2>1. Len(list) \in 0 .. MAX_MODULES /\ 0 \in 0 .. MAX_MODULES
    BY MountAssumption
  <2>2. QED
    BY <1>2, <2>1 DEF Results
<1>5. QED
  BY <1>2, <1>3, <1>4, IdleInv

LEMMA FailInv ==
    ASSUME MountInv,
           NEW status \in {"Storage", "InvalidMagic", "HeaderChecksumMismatch", "UnsupportedVersion"},
           Fail(status)
    PROVE  MountInv'
<1>1. ret' \in Results
  BY MountAssumption DEF Fail, NoResult, Results
<1>2. /\ registry' = registry /\ flash' = flash /\ mount' = NotMounting
  BY DEF Fail
<1>3. registry' \in Seq(Registrations) /\ Len(registry') <= MAX_MODULES /\ Once(registry')
  BY <1>2, InvTypes
<1>4. QED
  BY <1>1, <1>2, <1>3, IdleInv


\* The container the walk has read is the next one of the list.
LEMMA DiscoverInv ==
    ASSUME MountInv, Walkable(flash), NEW k \in 1 .. Len(flash.packed), k <= MAX_MODULES,
           Len(mount.discovered) = k - 1,
           \A j \in 1 .. k - 1 :
             /\ mount.discovered[j] =
                  [module_id |-> flash.packed[j].module_id, flash_offset |-> Walked(flash, j)]
             /\ flash.records[Walked(flash, j)].intact
             /\ Walked(flash, j + 1) = Behind(flash, j),
           NEW a, a = Walked(flash, k), flash.records[a].intact, Discover(a, flash.records[a])
    PROVE  MountInv'
<1> DEFINE header == flash.records[a]
           old == mount.discovered
           r == [module_id |-> header.module_id, flash_offset |-> a]
           new == Append(old, r)
<1>1. /\ mount' = [pc |-> "next", entry_count |-> 0, offset |-> a + NextStep(header),
                   discovered |-> new]
      /\ flash' = flash /\ registry' = registry /\ ret' = ret
  BY DEF Discover, Suspend
<1>2. /\ header.module_id = flash.packed[k].module_id /\ header.module_id \in Modules
      /\ header.code_size = flash.packed[k].code_size /\ a \in Nat
      /\ Behind(flash, k) \in Nat
  BY InvTypes DEF Walkable
<1>3. r \in Registrations /\ old \in Seq(Registrations) /\ k \in Nat
  BY <1>2, InvTypes DEF Registrations
<1>4. a + NextStep(header) = Behind(flash, k)
  BY <1>2 DEF NextStep, Behind
<1> HIDE DEF header, r
<1>5. /\ new \in Seq(Registrations) /\ Len(new) = k /\ new[k] = r
      /\ \A j \in 1 .. k - 1 : new[j] = old[j]
  BY <1>3
<1> HIDE DEF new, old
<1>6. mount' \in Places /\ mount'.pc = "next" /\ mount'.discovered = new
      /\ mount'.offset = Behind(flash, k)
  BY <1>1, <1>2, <1>4, <1>5 DEF Places
<1>7. TypeOK'
  <2>1. ret' \in Results /\ registry' \in Seq(Registrations) /\ Len(registry') <= MAX_MODULES
    BY <1>1, InvTypes
  <2>2. QED
    BY <1>5, <1>6, <2>1 DEF TypeOK, Places, Results
<1>8. ASSUME NEW j \in 1 .. k
      PROVE  new[j] = [module_id |-> flash.packed[j].module_id, flash_offset |-> Walked(flash, j)]
  <2>1. CASE j = k
    BY <1>2, <1>5, <2>1 DEF r
  <2>2. CASE j # k
    <3>1. j \in 1 .. k - 1
      BY <1>3, <2>2
    <3>2. QED
      BY <1>5, <3>1 DEF old
  <2>3. QED
    BY <2>1, <2>2
<1>9. ASSUME NEW j \in 1 .. k
      PROVE  /\ flash.records[Walked(flash, j)].intact
             /\ j < k => Walked(flash, j + 1) = Behind(flash, j)
  <2>1. CASE j = k
    BY <1>3, <2>1 DEF header
  <2>2. CASE j # k
    <3>1. j \in 1 .. k - 1
      BY <1>3, <2>2
    <3>2. QED
      BY <3>1
  <2>3. QED
    BY <2>1, <2>2
<1>10. WalkedSoFar'
  <2>1. k # 0 /\ k <= Len(flash.packed)
    BY InvTypes
  <2>2. QED
    BY <1>1, <1>5, <1>6, <1>8, <1>9, <2>1 DEF WalkedSoFar, Behind, Walked
<1>11. Walkable(flash)' /\ flash' \in Images /\ Once(registry)'
  BY <1>1, InvTypes DEF Walkable, Walked, Behind, Once
<1>12. QED
  BY <1>6, <1>7, <1>10, <1>11 DEF MountInv

-----------------------------------------------------------------------------
(* One step for every action.                                              *)

LEMMA InitInv == ASSUME Init PROVE MountInv
<1>1. /\ registry \in Seq(Registrations) /\ Len(registry) <= MAX_MODULES /\ Once(registry)
  BY MountAssumption DEF Init, Once
<1>2. mount \in Places /\ mount.pc = "idle" /\ Len(mount.discovered) <= MAX_MODULES
  BY MountAssumption DEF Init, NotMounting, Places
<1>3. ret \in Results /\ flash \in Images
  BY MountAssumption DEF Init, NoResult, Results
<1>4. QED
  BY <1>1, <1>2, <1>3 DEF MountInv, TypeOK, Places, Results

LEMMA MountStep == ASSUME MountInv, Mount PROVE MountInv'
<1>1. /\ mount' = [pc |-> "first", entry_count |-> 0, offset |-> flash.base, discovered |-> <<>>]
      /\ flash' = flash /\ registry' = registry /\ ret' = ret
  BY DEF Mount, Suspend
<1>2. /\ mount' \in Places /\ mount'.pc = "first" /\ Len(mount'.discovered) <= MAX_MODULES
      /\ mount'.offset = flash'.base /\ mount'.discovered = <<>>
  BY <1>1, InvTypes DEF Places
<1>3. TypeOK' /\ flash' \in Images /\ Once(registry)'
  BY <1>1, <1>2, InvTypes DEF TypeOK, Places, Results, Once
<1>4. QED
  BY <1>2, <1>3 DEF MountInv

LEMMA RegisterModuleStep ==
    ASSUME MountInv, NEW m \in Modules, NEW o \in Offsets, RegisterModule(m, o)
    PROVE  MountInv'
<1> DEFINE list == <<[module_id |-> m, flash_offset |-> o]>>
<1>1. list \in Seq(Registrations)
  BY MountAssumption DEF Registrations
<1>2. RegisterAll(list) \in Registries
  BY <1>1, InvTypes, RegisterAllResult
<1>3. /\ mount.pc = "idle" /\ registry' = RegisterAll(list).entries
      /\ flash' = flash /\ mount' = mount /\ ret' = ret
  BY DEF RegisterModule
<1>4. registry' \in Seq(Registrations) /\ Len(registry') <= MAX_MODULES /\ Once(registry)'
  BY <1>2, <1>3 DEF Registries, Once
<1>5. TypeOK' /\ flash' \in Images
  BY <1>3, <1>4, InvTypes DEF TypeOK, Places, Results
<1>6. QED
  BY <1>3, <1>4, <1>5 DEF MountInv

LEMMA DropMountStep == ASSUME MountInv, DropMount PROVE MountInv'
<1>1. ret' \in Results
  BY MountAssumption DEF DropMount, NoResult, Results
<1>2. registry' = registry /\ flash' = flash /\ mount' = NotMounting
  BY DEF DropMount
<1>3. registry' \in Seq(Registrations) /\ Len(registry') <= MAX_MODULES /\ Once(registry')
  BY <1>2, InvTypes
<1>4. QED
  BY <1>1, <1>2, <1>3, IdleInv

LEMMA ReadFailsStep == ASSUME MountInv, ReadFails \/ WalkReadFails PROVE MountInv'
<1>1. CASE ReadFails
  BY <1>1, FailInv DEF ReadFails
<1>2. CASE WalkReadFails
  <2>1. Conclude(mount.discovered, "whole") \/ Conclude(mount.discovered, "cut")
    BY <1>2 DEF WalkReadFails
  <2>2. QED
    BY <2>1, InvTypes, ConcludeInv
<1>3. QED
  BY <1>1, <1>2

\* What the first read of a mount can find, by the kind of image.
LEMMA FirstRecord ==
    ASSUME MountInv, mount.pc = "first"
    PROVE  \/ Read(mount.offset).kind \notin {"dir", "header"} /\ DOMAIN flash.packed = {}
           \/ /\ Read(mount.offset).kind = "dir" /\ Directory(flash)
              /\ Read(mount.offset) = flash.records[flash.base]
              /\ flash.base \in DOMAIN flash.records
              /\ Read(mount.offset).entry_count = Len(flash.packed)
           \/ /\ Read(mount.offset).kind = "header" /\ Walkable(flash)
              /\ mount.offset = Walked(flash, 1)
              /\ Read(mount.offset) = flash.records[mount.offset]
              /\ mount.offset \in DOMAIN flash.records
<1>1. mount.offset = flash.base /\ flash \in Images /\ Len(flash.packed) \in Nat
  BY InvTypes DEF MountInv
<1>2. CASE DOMAIN flash.packed = {} /\ DOMAIN flash.records = {}
  BY <1>2 DEF Read, Blank
<1>3. CASE Directory(flash)
  BY <1>1, <1>3 DEF Directory, Read
<1>4. CASE Walkable(flash)
  <2>1. 1 \in 1 .. Len(flash.packed)
    BY <1>1, <1>4 DEF Walkable
  <2>2. /\ Walked(flash, 1) = flash.base
        /\ Walked(flash, 1) \in DOMAIN flash.records
        /\ flash.records[Walked(flash, 1)].kind = "header"
    BY <1>4, <2>1 DEF Walkable
  <2>3. QED
    BY <1>1, <1>4, <2>2 DEF Read
<1>5. QED
  BY <1>1, <1>2, <1>3, <1>4, ImageCases

LEMMA FirstReadStep == ASSUME MountInv, FirstRead PROVE MountInv'
<1> DEFINE record == Read(mount.offset)
           n == Len(flash.packed)
<1>1. /\ mount.pc = "first"
      /\ \/ Fail("HeaderChecksumMismatch") \/ Fail("UnsupportedVersion")
         \/ /\ record.kind = "dir"
            /\ IF record.entry_count = 0 \/ MAX_MODULES = 0 THEN Conclude(<<>>, "whole")
               ELSE Suspend("entry", mount.offset + HEADER_SIZE, record.entry_count, <<>>)
         \/ /\ record.kind = "header"
            /\ \/ Conclude(<<>>, "whole")
               \/ record.intact /\ MAX_MODULES # 0 /\ Discover(mount.offset, record)
         \/ Fail("InvalidMagic")
  BY DEF FirstRead
<1>2. CASE Fail("HeaderChecksumMismatch") \/ Fail("UnsupportedVersion") \/ Fail("InvalidMagic")
  BY <1>2, FailInv
<1>3. CASE Conclude(<<>>, "whole")
  <2>1. <<>> \in Seq(Registrations) /\ Len(<<>>) <= MAX_MODULES
    BY MountAssumption
  <2>2. QED
    BY <1>3, <2>1, ConcludeInv
<1>4. ASSUME record.kind = "dir", record.entry_count # 0, MAX_MODULES # 0,
             Suspend("entry", mount.offset + HEADER_SIZE, record.entry_count, <<>>)
      PROVE  MountInv'
  <2>1. Directory(flash) /\ record.entry_count = n /\ mount.offset = flash.base
    BY <1>1, <1>4, FirstRecord DEF MountInv
  <2>2. /\ mount' = [pc |-> "entry", entry_count |-> n, offset |-> flash.base + HEADER_SIZE,
                     discovered |-> <<>>]
        /\ flash' = flash /\ registry' = registry /\ ret' = ret
    BY <1>4, <2>1 DEF Suspend
  <2>3. EntryAt(1) = HEADER_SIZE
    BY DEF EntryAt, HEADER_SIZE, DIR_ENTRY_SIZE
  <2>4. /\ mount' \in Places /\ mount'.pc = "entry" /\ mount'.discovered = <<>>
        /\ Len(mount'.discovered) = 0 /\ mount'.entry_count = n
        /\ mount'.offset = flash.base + EntryAt(0 + 1)
    BY <2>2, <2>3, InvTypes DEF Places, HEADER_SIZE
  <2>5. TypeOK' /\ flash' \in Images /\ Once(registry)'
    BY <2>2, <2>4, InvTypes DEF TypeOK, Places, Results, Once
  <2>6. IndexRead'
    <3>1. 0 < n /\ 0 < MAX_MODULES
      BY <1>4, <2>1, InvTypes
    <3>2. QED
      BY <2>2, <2>4, <3>1 DEF IndexRead
  <2>7. Directory(flash)'
    BY <2>1, <2>2 DEF Directory
  <2>8. QED
    BY <2>4, <2>5, <2>6, <2>7 DEF MountInv
<1>5. ASSUME record.kind = "header", record.intact, MAX_MODULES # 0, Discover(mount.offset, record)
      PROVE  MountInv'
  <2>1. /\ Walkable(flash) /\ mount.offset = Walked(flash, 1)
        /\ record = flash.records[mount.offset]
    BY <1>1, <1>5, FirstRecord
  <2>2. 1 \in 1 .. n /\ 1 <= MAX_MODULES
    BY <1>5, <2>1, InvTypes DEF Walkable
  <2>3. Len(mount.discovered) = 1 - 1
    BY <1>1 DEF MountInv
  <2>4. \A j \in 1 .. 1 - 1 :
          /\ mount.discovered[j] =
               [module_id |-> flash.packed[j].module_id, flash_offset |-> Walked(flash, j)]
          /\ flash.records[Walked(flash, j)].intact
          /\ Walked(flash, j + 1) = Behind(flash, j)
    OBVIOUS
  <2>5. Discover(mount.offset, flash.records[mount.offset]) /\ flash.records[mount.offset].intact
    BY <1>5, <2>1
  <2>6. QED
    BY <2>1, <2>2, <2>3, <2>4, <2>5, DiscoverInv
<1>6. QED
  BY <1>1, <1>2, <1>3, <1>4, <1>5

\* The entry an index read finds: where the next container of the list lies.
LEMMA NextEntry ==
    ASSUME MountInv, mount.pc = "entry"
    PROVE  LET l == Len(mount.discovered)
           IN  /\ l + 1 \in 1 .. Len(flash.packed) /\ l + 1 <= MAX_MODULES
               /\ Read(mount.offset).module_id = flash.packed[l + 1].module_id
               /\ Read(mount.offset).flash_offset = flash.at[l + 1]
               /\ flash.at[l + 1] \in Nat
<1> DEFINE l == Len(mount.discovered)
<1>1. Directory(flash) /\ l \in Nat /\ l < Len(flash.packed) /\ l < MAX_MODULES
      /\ mount.offset = flash.base + EntryAt(l + 1) /\ Len(flash.packed) \in Nat /\ MAX_MODULES \in Nat
  BY InvTypes DEF MountInv, IndexRead
<1> HIDE DEF l
<1>2. l + 1 \in 1 .. Len(flash.packed) /\ l + 1 <= MAX_MODULES
  BY <1>1
<1>3. /\ mount.offset \in DOMAIN flash.records
      /\ flash.records[mount.offset] =
           EntryRecord(flash.packed[l + 1].module_id, flash.at[l + 1])
      /\ flash.at[l + 1] \in Nat
  BY <1>1, <1>2 DEF Directory
<1>4. QED
  BY <1>2, <1>3 DEF Read, EntryRecord, l

\* What EntryRead has then collected.
LEMMA EntryCollected ==
    ASSUME MountInv, mount.pc = "entry", NEW r,
           r = [module_id |-> Read(mount.offset).module_id,
                flash_offset |-> Read(mount.offset).flash_offset]
    PROVE  /\ Append(mount.discovered, r) \in Seq(Registrations)
           /\ Len(Append(mount.discovered, r)) = Len(mount.discovered) + 1
           /\ Len(mount.discovered) + 1 \in 1 .. Len(flash.packed)
           /\ Len(mount.discovered) + 1 <= MAX_MODULES
           /\ \A k \in 1 .. Len(mount.discovered) + 1 : Append(mount.discovered, r)[k] =
                [module_id |-> flash.packed[k].module_id, flash_offset |-> flash.at[k]]
<1> DEFINE old == mount.discovered
           l == Len(old)
           new == Append(old, r)
<1>1. /\ l + 1 \in 1 .. Len(flash.packed) /\ l + 1 <= MAX_MODULES
      /\ r = [module_id |-> flash.packed[l + 1].module_id, flash_offset |-> flash.at[l + 1]]
      /\ flash.at[l + 1] \in Nat
  BY NextEntry
<1>2. r \in Registrations /\ old \in Seq(Registrations) /\ l \in Nat
  BY <1>1, InvTypes DEF Registrations
<1>3. \A k \in 1 .. l : old[k] =
          [module_id |-> flash.packed[k].module_id, flash_offset |-> flash.at[k]]
  BY DEF MountInv, IndexRead
<1> HIDE DEF old
<1>4. /\ new \in Seq(Registrations) /\ Len(new) = l + 1 /\ new[l + 1] = r
      /\ \A k \in 1 .. l : new[k] = old[k]
  BY <1>2
<1> HIDE DEF new, l
<1>5. \A k \in 1 .. l + 1 : k \in 1 .. l \/ k = l + 1
  BY <1>2
<1>6. \A k \in 1 .. l + 1 : new[k] =
          [module_id |-> flash.packed[k].module_id, flash_offset |-> flash.at[k]]
  BY <1>1, <1>3, <1>4, <1>5
<1>7. QED
  BY <1>1, <1>4, <1>6 DEF new, l, old

LEMMA EntryReadStep == ASSUME MountInv, EntryRead PROVE MountInv'
<1> DEFINE r == [module_id |-> Read(mount.offset).module_id,
                 flash_offset |-> Read(mount.offset).flash_offset]
           old == mount.discovered
           l == Len(old)
           new == Append(old, r)
<1>1. /\ mount.pc = "entry"
      /\ IF Len(new) = mount.entry_count \/ Len(new) = MAX_MODULES THEN Conclude(new, "whole")
         ELSE Suspend("entry", mount.offset + DIR_ENTRY_SIZE, mount.entry_count, new)
  BY DEF EntryRead
<1>2. /\ new \in Seq(Registrations) /\ Len(new) = l + 1
      /\ l + 1 \in 1 .. Len(flash.packed) /\ l + 1 <= MAX_MODULES
      /\ \A k \in 1 .. l + 1 : new[k] =
           [module_id |-> flash.packed[k].module_id, flash_offset |-> flash.at[k]]
  BY <1>1, EntryCollected
<1> HIDE DEF r, new, l
<1>3. CASE Conclude(new, "whole")
  BY <1>2, <1>3, ConcludeInv
<1>4. ASSUME Len(new) # mount.entry_count, Len(new) # MAX_MODULES,
             Suspend("entry", mount.offset + DIR_ENTRY_SIZE, mount.entry_count, new)
      PROVE  MountInv'
  <2>1. /\ mount' = [pc |-> "entry", entry_count |-> mount.entry_count,
                     offset |-> mount.offset + DIR_ENTRY_SIZE, discovered |-> new]
        /\ flash' = flash /\ registry' = registry /\ ret' = ret
    BY <1>4 DEF Suspend
  <2>2. /\ Directory(flash) /\ mount.entry_count = Len(flash.packed)
        /\ mount.offset = flash.base + EntryAt(l + 1)
    BY <1>1 DEF MountInv, IndexRead, l
  <2>3. l \in Nat /\ flash.base \in Nat /\ MAX_MODULES \in Nat /\ Len(flash.packed) \in Nat
    BY InvTypes DEF l
  <2>4. EntryAt(l + 1) + DIR_ENTRY_SIZE = EntryAt(l + 1 + 1) /\ EntryAt(l + 1) \in Nat
        /\ EntryAt(l + 1 + 1) \in Nat
    BY <2>3 DEF EntryAt, HEADER_SIZE, DIR_ENTRY_SIZE
  <2>5. mount.offset + DIR_ENTRY_SIZE = flash.base + EntryAt(l + 1 + 1)
    BY <2>2, <2>3, <2>4 DEF DIR_ENTRY_SIZE
  <2>6. /\ mount' \in Places /\ mount'.pc = "entry" /\ mount'.discovered = new
        /\ mount'.entry_count = Len(flash.packed)
        /\ mount'.offset = flash.base + EntryAt(l + 1 + 1)
    BY <1>2, <2>1, <2>2, <2>3, <2>4, <2>5 DEF Places
  <2>7. TypeOK' /\ flash' \in Images /\ Once(registry)'
    BY <1>2, <2>1, <2>6, InvTypes DEF TypeOK, Places, Results, Once
  <2>8. l + 1 < Len(flash.packed) /\ l + 1 < MAX_MODULES
    BY <1>2, <1>4, <2>2, <2>3
  <2>9. IndexRead'
    BY <1>2, <2>1, <2>6, <2>8 DEF IndexRead
  <2>10. Directory(flash)'
    BY <2>1, <2>2 DEF Directory
  <2>11. QED
    BY <2>6, <2>7, <2>9, <2>10 DEF MountInv
<1>5. QED
  BY <1>1, <1>3, <1>4

\* Where the walk looks behind container l lies the next one, or nothing that
\* reads as a container.
LEMMA NextContainer ==
    ASSUME MountInv, mount.pc = "next"
    PROVE  LET l == Len(mount.discovered)
               found == l < Len(flash.packed) /\ Walked(flash, l + 1) = mount.offset
           IN  /\ Walkable(flash) /\ l \in Nat /\ l # 0 /\ l <= Len(flash.packed)
               /\ mount.offset = Behind(flash, l)
               /\ ~found => Read(mount.offset) = Blank
               /\ found =>
                    /\ l + 1 \in 1 .. Len(flash.packed)
                    /\ Readable(mount.offset, HEADER_SIZE)
                    /\ mount.offset \in DOMAIN flash.records
                    /\ Read(mount.offset) = flash.records[mount.offset]
                    /\ Read(mount.offset).kind = "header"
<1> DEFINE l == Len(mount.discovered)
           n == Len(flash.packed)
<1>1. /\ Walkable(flash) /\ l \in Nat /\ l # 0 /\ l <= n /\ n \in Nat
      /\ mount.offset = Behind(flash, l)
  BY InvTypes DEF MountInv, WalkedSoFar
<1> HIDE DEF l
<1>2. l \in 1 .. n
  BY <1>1
<1>3. mount.offset \in DOMAIN flash.records => l < n /\ Walked(flash, l + 1) = mount.offset
  BY <1>1, <1>2 DEF Walkable
<1>4. ASSUME l < n, Walked(flash, l + 1) = mount.offset
      PROVE  /\ l + 1 \in 1 .. n
             /\ Readable(mount.offset, HEADER_SIZE)
             /\ mount.offset \in DOMAIN flash.records
             /\ Read(mount.offset) = flash.records[mount.offset]
             /\ Read(mount.offset).kind = "header"
  <2>1. l + 1 \in 1 .. n
    BY <1>1, <1>4
  <2>2. /\ Walked(flash, l + 1) \in DOMAIN flash.records
        /\ Walked(flash, l + 1) + HEADER_SIZE <= flash.capacity
        /\ flash.records[Walked(flash, l + 1)].kind = "header"
    BY <1>1, <2>1 DEF Walkable
  <2>3. QED
    BY <1>4, <2>1, <2>2 DEF Read, Readable
<1>5. ~(l < n /\ Walked(flash, l + 1) = mount.offset) => Read(mount.offset) = Blank
  BY <1>3 DEF Read
<1>6. QED
  BY <1>1, <1>4, <1>5 DEF l

LEMMA NextReadStep == ASSUME MountInv, NextRead PROVE MountInv'
<1> DEFINE record == Read(mount.offset)
           l == Len(mount.discovered)
<1>1. /\ mount.pc = "next"
      /\ \/ /\ record.kind = "header" /\ l < MAX_MODULES /\ record.intact
            /\ Discover(mount.offset, record)
         \/ Conclude(mount.discovered, "whole")
  BY DEF NextRead
<1>2. CASE Conclude(mount.discovered, "whole")
  BY <1>2, InvTypes, ConcludeInv
<1>3. ASSUME record.kind = "header", l < MAX_MODULES, record.intact, Discover(mount.offset, record)
      PROVE  MountInv'
  <2>1. l < Len(flash.packed) /\ Walked(flash, l + 1) = mount.offset
    BY <1>1, <1>3, NextContainer DEF Blank
  <2>2. /\ Walkable(flash) /\ l \in Nat /\ l + 1 \in 1 .. Len(flash.packed)
        /\ mount.offset = Walked(flash, l + 1) /\ mount.offset = Behind(flash, l)
        /\ record = flash.records[mount.offset]
    BY <1>1, <2>1, NextContainer
  <2>3. l + 1 <= MAX_MODULES /\ l = l + 1 - 1 /\ l + 1 - 1 = l
    BY <1>3, <2>2, InvTypes
  <2>4. \A j \in 1 .. l :
          /\ mount.discovered[j] =
               [module_id |-> flash.packed[j].module_id, flash_offset |-> Walked(flash, j)]
          /\ flash.records[Walked(flash, j)].intact
          /\ Walked(flash, j + 1) = Behind(flash, j)
    <3>1. \A j \in 1 .. l :
            /\ mount.discovered[j] =
                 [module_id |-> flash.packed[j].module_id, flash_offset |-> Walked(flash, j)]
            /\ flash.records[Walked(flash, j)].intact
            /\ j < l => Walked(flash, j + 1) = Behind(flash, j)
      BY <1>1 DEF MountInv, WalkedSoFar
    <3>2. \A j \in 1 .. l : j < l \/ j = l
      BY <2>2
    <3>3. Walked(flash, l + 1) = Behind(flash, l)
      BY <2>2
    <3>4. QED
      BY <3>1, <3>2, <3>3
  <2>5. Discover(mount.offset, flash.records[mount.offset]) /\ flash.records[mount.offset].intact
    BY <1>3, <2>2
  <2>6. PICK k \in 1 .. Len(flash.packed) : k = l + 1
    BY <2>2
  <2>7. k - 1 = l
    BY <2>3, <2>6
  <2>8. QED
    BY <2>2, <2>3, <2>4, <2>5, <2>6, <2>7, DiscoverInv
<1>4. QED
  BY <1>1, <1>2, <1>3

THEOREM MountInvariant == Spec => []MountInv
<1>1. Init => MountInv
  BY InitInv
<1>2. MountInv /\ [Next]_vars => MountInv'
  <2>1. SUFFICES ASSUME MountInv, [Next]_vars PROVE MountInv'
    OBVIOUS
  <2>2. CASE UNCHANGED vars
    <3>1. flash' = flash /\ registry' = registry /\ mount' = mount /\ ret' = ret
      BY <2>2 DEF vars
    <3>2. TypeOK' /\ flash' \in Images /\ Once(registry')
      BY <2>1, <3>1 DEF MountInv, TypeOK
    <3>3. (IndexRead' <=> IndexRead) /\ (WalkedSoFar' <=> WalkedSoFar)
      BY <3>1 DEF IndexRead, WalkedSoFar
    <3>4. QED
      BY <2>1, <3>1, <3>2, <3>3 DEF MountInv
  <2>3. CASE Next
    BY <2>1, <2>3, MountStep, FirstReadStep, EntryReadStep, NextReadStep, ReadFailsStep,
       DropMountStep, RegisterModuleStep DEF Next
  <2>4. QED
    BY <2>1, <2>2, <2>3
<1>3. QED
  BY <1>1, <1>2, PTL DEF Spec

-----------------------------------------------------------------------------
(* What follows from the invariant.                                        *)

\* The state of a mount and of the registry is typed, and the registry never
\* holds more than MAX_MODULES registrations.
THEOREM MountTypeOK == Spec => []TypeOK
<1>1. MountInv => TypeOK
  BY DEF MountInv
<1>2. QED
  BY <1>1, MountInvariant, PTL

\* However registrations from directories, walks and callers interleave, a
\* module has one entry.
THEOREM MountRegisteredOnce == Spec => []RegisteredOnce
<1>1. MountInv => RegisteredOnce
  BY DEF MountInv, Once, RegisteredOnce
<1>2. QED
  BY <1>1, MountInvariant, PTL

\* A mount that ends without success has registered nothing, or has found the
\* registry full.
THEOREM MountFailureKeeps == Spec => FailedMountKeepsRegistry
<1>1. ASSUME MountInv, [Next]_vars, Ends, ret'.status # "Ok"
      PROVE  registry' = registry \/ Len(registry') = MAX_MODULES
  <2>1. ASSUME NEW list \in Seq(Registrations), NEW walk, Conclude(list, walk)
        PROVE  Len(registry') = MAX_MODULES
    <3>1. RegisterAll(list) \in Registries
      BY <1>1, InvTypes, RegisterAllResult
    <3>2. RegisterAll(list).full /\ registry' = RegisterAll(list).entries
      BY <1>1, <2>1 DEF Conclude
    <3>3. QED
      BY <3>1, <3>2 DEF Registries
  <2>2. mount.discovered \in Seq(Registrations) /\ <<>> \in Seq(Registrations)
    BY <1>1, InvTypes
  <2>3. CASE FirstRead
    <3>1. \/ Fail("HeaderChecksumMismatch") \/ Fail("UnsupportedVersion") \/ Fail("InvalidMagic")
          \/ Conclude(<<>>, "whole") \/ mount'.pc # "idle"
      BY <2>3 DEF FirstRead, Discover, Suspend
    <3>2. QED
      BY <1>1, <2>1, <2>2, <3>1 DEF Fail, Ends
  <2>4. CASE EntryRead
    <3> DEFINE r == [module_id |-> Read(mount.offset).module_id,
                     flash_offset |-> Read(mount.offset).flash_offset]
               new == Append(mount.discovered, r)
    <3>1. mount.pc = "entry" /\ (Conclude(new, "whole") \/ mount'.pc # "idle")
      BY <2>4 DEF EntryRead, Suspend
    <3>2. new \in Seq(Registrations)
      BY <1>1, <3>1, EntryCollected
    <3> HIDE DEF new
    <3>3. QED
      BY <1>1, <2>1, <3>1, <3>2 DEF Ends
  <2>5. CASE NextRead
    <3>1. Conclude(mount.discovered, "whole") \/ mount'.pc # "idle"
      BY <2>5 DEF NextRead, Discover, Suspend
    <3>2. QED
      BY <1>1, <2>1, <2>2, <3>1 DEF Ends
  <2>6. CASE ReadFails \/ WalkReadFails \/ DropMount
    BY <1>1, <2>1, <2>2, <2>6 DEF ReadFails, WalkReadFails, DropMount, Fail
  <2>7. CASE Mount \/ (\E m \in Modules, o \in Offsets : RegisterModule(m, o)) \/ UNCHANGED vars
    BY <1>1, <2>7 DEF Mount, RegisterModule, Ends, vars
  <2>8. QED
    BY <1>1, <2>3, <2>4, <2>5, <2>6, <2>7 DEF Next
<1>2. QED
  BY <1>1, MountInvariant, PTL DEF Spec, FailedMountKeepsRegistry

\* What find_offset gives of a registry in which a module has an entry.
LEMMA FindOffsetEntry ==
    ASSUME NEW entries \in Seq(Registrations), NEW m,
           \E i \in DOMAIN entries : entries[i].module_id = m
    PROVE  \E i \in DOMAIN entries :
             entries[i].module_id = m /\ FindOffset(entries, m) = entries[i].flash_offset
<1> DEFINE found == {i \in DOMAIN entries : entries[i].module_id = m}
           c == CHOOSE i \in found : \A j \in found : i <= j
<1>1. found # {} /\ found \in SUBSET Nat
  OBVIOUS
<1>2. \E i \in found : \A j \in found : i <= j
  <2> HIDE DEF found
  <2>1. QED
    BY <1>1, Least
<1>3. c \in found
  BY <1>2
<1>4. FindOffset(entries, m) = entries[c].flash_offset
  BY <1>1 DEF FindOffset
<1> HIDE DEF c
<1>5. QED
  BY <1>3, <1>4

\* A list of places that are containers, with a place for the module: once it is
\* registered, the module is located.
Containing(list) ==
    \A l \in 1 .. Len(list) :
        /\ Read(list[l].flash_offset).kind = "header"
        /\ Read(list[l].flash_offset).module_id = list[l].module_id

LEMMA LocatedAfter ==
    ASSUME MountInv, NEW list \in Seq(Registrations), NEW walk, Conclude(list, walk),
           ret'.status = "Ok",
           Containing(list), NEW k \in 1 .. Len(list)
    PROVE  Located(registry', list[k].module_id)
<1> DEFINE m == list[k].module_id
           e == registry'
<1>1. /\ RegisterAll(list) \in Registries
      /\ ~RegisterAll(list).full => Covers(RegisterAll(list).entries, list, Len(list))
  BY InvTypes, RegisterAllResult
<1>2. ~RegisterAll(list).full /\ e = RegisterAll(list).entries
  BY DEF Conclude
<1>3. e \in Seq(Registrations) /\ Covers(e, list, Len(list))
  BY <1>1, <1>2 DEF Registries
<1> HIDE DEF e
<1>4. \E i \in DOMAIN e : e[i].module_id = m
  BY <1>3 DEF Covers
<1>5. PICK i \in DOMAIN e : e[i].module_id = m /\ FindOffset(e, m) = e[i].flash_offset
  BY <1>3, <1>4, FindOffsetEntry
<1>6. PICK l \in 1 .. Len(list) : e[i] = list[l]
  BY <1>3, <1>5 DEF Covers
<1>7. list[l] \in Registrations
  OBVIOUS
<1>8. FindOffset(e, m) = list[l].flash_offset /\ FindOffset(e, m) \in Nat /\ list[l].module_id = m
  BY <1>5, <1>6, <1>7 DEF Registrations
<1>9. FindOffset(e, m) # None
  BY <1>8, MountAssumption
<1>10. QED
  BY <1>8, <1>9 DEF Located, Containing, e

\* The containers a walk has collected are containers the walk reaches.
LEMMA WalkedReached ==
    ASSUME MountInv, mount.pc = "next", NEW k \in 1 .. Len(mount.discovered)
    PROVE  WalkReaches(k)
<1> DEFINE l == Len(mount.discovered)
           step(j) == AlignUp(HEADER_SIZE + flash.packed[j].code_size)
<1>1. /\ Walkable(flash) /\ l \in Nat /\ l <= Len(flash.packed) /\ flash.base \in Nat
      /\ Len(flash.packed) \in Nat
      /\ \A j \in 1 .. l : /\ flash.records[Walked(flash, j)].intact
                           /\ j < l => Walked(flash, j + 1) = Behind(flash, j)
  BY InvTypes DEF MountInv, WalkedSoFar
<1>2. k \in 1 .. l
  OBVIOUS
<1> HIDE DEF l, step
<1>3. ASSUME NEW j \in 1 .. k
      PROVE  /\ Read(flash.base + flash.at[j]).intact
             /\ j < k => flash.at[j + 1] = flash.at[j] + step(j)
  <2>1. j \in 1 .. l /\ j \in 1 .. Len(flash.packed) /\ (j < k => j < l)
    BY <1>1, <1>2
  <2>2. Read(Walked(flash, j)) = flash.records[Walked(flash, j)]
    BY <1>1, <2>1 DEF Walkable, Read
  <2>3. Read(flash.base + flash.at[j]).intact
    BY <1>1, <2>1, <2>2 DEF Walked
  <2>4. ASSUME j < k PROVE flash.at[j + 1] = flash.at[j] + step(j)
    <3>1. j + 1 \in 1 .. Len(flash.packed)
      BY <1>1, <2>1, <2>4
    <3>2. flash.at[j] \in Nat /\ flash.at[j + 1] \in Nat /\ step(j) \in Nat
      BY <1>1, <2>1, <3>1 DEF Walkable, step
    <3>3. flash.base + flash.at[j + 1] = flash.base + flash.at[j] + step(j)
      BY <1>1, <2>1, <2>4 DEF Walked, Behind, step
    <3> DEFINE x == flash.at[j + 1]
               y == flash.at[j]
               s == step(j)
               b == flash.base
    <3>4. b \in Nat /\ x \in Nat /\ y \in Nat /\ s \in Nat /\ b + x = b + y + s
      BY <1>1, <3>2, <3>3
    <3> HIDE DEF x, y, s, b
    <3>5. x = y + s
      BY <3>4
    <3>6. QED
      BY <3>5 DEF x, y, s
  <2>5. QED
    BY <2>3, <2>4
<1>4. QED
  BY <1>3 DEF WalkReaches, step

\* Where mount ends with Ok from a walk that has stopped before a container it
\* would have reached, a read error has cut the walk.
LEMMA UnlessCut ==
    ASSUME MountInv, mount.pc = "next", NextRead \/ WalkReadFails, mount'.pc = "idle",
           NEW k \in 1 .. Len(flash.packed), Reached(k)
    PROVE  k <= Len(mount.discovered) \/ Conclude(mount.discovered, "cut")
<1> DEFINE l == Len(mount.discovered)
<1>1. /\ Walkable(flash) /\ l \in Nat /\ l # 0 /\ l <= Len(flash.packed)
      /\ mount.offset = Behind(flash, l) /\ Len(flash.packed) \in Nat /\ MAX_MODULES \in Nat
      /\ flash.base \in Nat
  BY NextContainer, InvTypes
<1> SUFFICES ASSUME ~(k <= l) PROVE Conclude(mount.discovered, "cut")
  OBVIOUS
<1>2. l < k /\ l < MAX_MODULES /\ l < Len(flash.packed) /\ l \in 1 .. k /\ l + 1 \in 1 .. k
      /\ l \in 1 .. Len(flash.packed) /\ 1 \in 1 .. Len(flash.packed)
  <2>1. k <= MAX_MODULES /\ k \in Nat
    BY DEF Reached
  <2> HIDE DEF l
  <2>2. QED
    BY <1>1, <2>1
<1> HIDE DEF l
<1>3. WalkReaches(k)
  <2>1. Walked(flash, 1) = flash.base /\ flash.base \in DOMAIN flash.records
        /\ flash.records[flash.base].kind = "header"
    BY <1>1, <1>2 DEF Walkable
  <2>2. Read(flash.base).kind # "dir"
    BY <2>1 DEF Read
  <2>3. QED
    BY <2>2 DEF Reached
<1>4. /\ flash.at[l + 1] = flash.at[l] + AlignUp(HEADER_SIZE + flash.packed[l].code_size)
      /\ Read(flash.base + flash.at[l + 1]).intact
  BY <1>2, <1>3 DEF WalkReaches
<1>5. Walked(flash, l + 1) = mount.offset
  <2> DEFINE step == AlignUp(HEADER_SIZE + flash.packed[l].code_size)
  <2>1. flash.at[l] \in Nat /\ step \in Nat
    BY <1>1, <1>2 DEF Walkable
  <2>2. mount.offset = flash.base + flash.at[l] + step
    BY <1>1 DEF Behind, Walked
  <2>3. Walked(flash, l + 1) = flash.base + (flash.at[l] + step)
    BY <1>4 DEF Walked
  <2> HIDE DEF step
  <2>4. QED
    BY <1>1, <2>1, <2>2, <2>3
<1>6. /\ Readable(mount.offset, HEADER_SIZE) /\ Read(mount.offset).kind = "header"
      /\ Read(mount.offset).intact
  <2>1. Readable(mount.offset, HEADER_SIZE) /\ Read(mount.offset).kind = "header"
    BY <1>2, <1>5, NextContainer DEF l
  <2>2. QED
    BY <1>4, <1>5, <2>1 DEF Walked
<1>7. CASE NextRead
  BY <1>2, <1>6, <1>7 DEF NextRead, Discover, Suspend, l
<1>8. CASE WalkReadFails
  BY <1>6, <1>8 DEF WalkReadFails
<1>9. QED
  BY <1>7, <1>8

\* What an Ok of mount means, for every image, every list of overlays with their
\* sizes and addresses, whatever is damaged, fails, or was registered before: the
\* first count overlays, and no overlay it comes to is missing from these unless
\* a read error cut the walk.
THEOREM MountFindsReached == Spec => ReachedModulesFound
<1> DEFINE Result ==
        /\ ret'.count <= Len(flash.packed)
        /\ \A k \in DOMAIN flash.packed :
              /\ k <= ret'.count =>
                    /\ Reached(k)
                    /\ OffsetsResolve => Located(registry', flash.packed[k].module_id)
              /\ Reached(k) => k <= ret'.count \/ ret'.walk = "cut"
<1>1. ASSUME MountInv, [Next]_vars, Ends, ret'.status = "Ok"
      PROVE  Result
  <2>1. /\ flash \in Images /\ DOMAIN flash.packed = 1 .. Len(flash.packed)
        /\ MAX_MODULES \in Nat /\ Len(flash.packed) \in Nat /\ flash.base \in Nat
    BY <1>1, InvTypes, ImageTypes
  <2>2. ASSUME NEW list \in Seq(Registrations), NEW walk, Conclude(list, walk),
               Len(list) <= Len(flash.packed),
               OffsetsResolve => Containing(list),
               \A k \in 1 .. Len(list) :
                  Reached(k) /\ list[k].module_id = flash.packed[k].module_id,
               \A k \in 1 .. Len(flash.packed) : Reached(k) => k <= Len(list) \/ walk = "cut"
        PROVE  Result
    <3>1. ret'.count = Len(list) /\ ret'.walk = walk
      BY <1>1, <2>2 DEF Conclude
    <3>2. ASSUME NEW k \in DOMAIN flash.packed, k <= ret'.count
          PROVE  /\ Reached(k)
                 /\ OffsetsResolve => Located(registry', flash.packed[k].module_id)
      <4>1. k \in 1 .. Len(list)
        BY <2>1, <3>1, <3>2
      <4>2. Containing(list) => Located(registry', list[k].module_id)
        BY <1>1, <2>2, <4>1, LocatedAfter
      <4>3. QED
        BY <2>2, <4>1, <4>2
    <3>3. QED
      BY <2>1, <2>2, <3>1, <3>2
  <2> HIDE DEF Result
  <2>3. CASE FirstRead
    <3> DEFINE record == Read(mount.offset)
    <3>1. mount.pc = "first" /\ mount.offset = flash.base /\ mount'.pc = "idle"
      BY <1>1, <2>3 DEF FirstRead, Ends, MountInv
    <3>2. /\ Conclude(<<>>, "whole")
          /\ \/ record.kind = "dir" /\ (record.entry_count = 0 \/ MAX_MODULES = 0)
             \/ record.kind = "header" /\ (~record.intact \/ MAX_MODULES = 0)
      BY <1>1, <2>3, <3>1 DEF FirstRead, Fail, Discover, Suspend, NoResult
    <3>3. ASSUME NEW k \in 1 .. Len(flash.packed) PROVE ~Reached(k)
      <4>1. CASE MAX_MODULES = 0
        BY <4>1 DEF Reached
      <4>2. CASE record.kind = "dir" /\ record.entry_count = 0
        BY <1>1, <2>1, <3>1, <4>2, FirstRecord
      <4>3. CASE record.kind = "header" /\ ~record.intact
        <5>1. mount.offset = flash.base + flash.at[1]
          BY <1>1, <3>1, <4>3, FirstRecord DEF Walked
        <5>2. 1 \in 1 .. k
          OBVIOUS
        <5>3. ~WalkReaches(k)
          BY <4>3, <5>1, <5>2 DEF WalkReaches
        <5>4. Read(flash.base).kind # "dir"
          BY <3>1, <4>3
        <5>5. QED
          BY <5>3, <5>4 DEF Reached
      <4>4. QED
        BY <3>2, <4>1, <4>2, <4>3
    <3>4. PICK list : list = <<>>
      OBVIOUS
    <3>5. /\ list \in Seq(Registrations) /\ Len(list) = 0 /\ Len(list) <= Len(flash.packed)
          /\ 1 .. Len(list) = {} /\ Conclude(list, "whole")
      BY <2>1, <3>2, <3>4
    <3>6. Containing(list)
      BY <3>5 DEF Containing
    <3>7. QED
      BY <2>2, <3>3, <3>5, <3>6
  <2>4. CASE EntryRead
    <3> DEFINE r == [module_id |-> Read(mount.offset).module_id,
                     flash_offset |-> Read(mount.offset).flash_offset]
               new == Append(mount.discovered, r)
    <3>1. /\ mount.pc = "entry" /\ Conclude(new, "whole")
          /\ Len(new) = mount.entry_count \/ Len(new) = MAX_MODULES
      BY <1>1, <2>4 DEF EntryRead, Suspend, Ends
    <3>2. /\ new \in Seq(Registrations) /\ Len(new) \in 1 .. Len(flash.packed)
          /\ Len(new) <= MAX_MODULES
          /\ \A j \in 1 .. Len(new) : new[j] =
               [module_id |-> flash.packed[j].module_id, flash_offset |-> flash.at[j]]
      BY <1>1, <3>1, EntryCollected
    <3> HIDE DEF new
    <3>3. Directory(flash) /\ mount.entry_count = Len(flash.packed)
      BY <1>1, <2>1, <3>1 DEF MountInv, IndexRead
    <3>4. Read(flash.base).kind = "dir"
      BY <3>3 DEF Directory, Read
    <3>5. \A j \in 1 .. Len(new) :
             new[j].module_id = flash.packed[j].module_id /\ new[j].flash_offset = flash.at[j]
      <4>1. ASSUME NEW j \in 1 .. Len(new)
            PROVE  new[j].module_id = flash.packed[j].module_id /\ new[j].flash_offset = flash.at[j]
        <5>1. new[j] = [module_id |-> flash.packed[j].module_id, flash_offset |-> flash.at[j]]
          BY <3>2
        <5>2. QED
          BY <5>1
      <4>2. QED
        BY <4>1
    <3>6. ASSUME OffsetsResolve, NEW j \in 1 .. Len(new)
          PROVE  /\ Read(new[j].flash_offset).kind = "header"
                 /\ Read(new[j].flash_offset).module_id = new[j].module_id
      <4>1. j \in 1 .. Len(flash.packed) /\ flash.base = 0
        BY <2>1, <3>2, <3>4, <3>6 DEF OffsetsResolve
      <4>2. /\ flash.at[j] \in Nat /\ flash.base + flash.at[j] \in DOMAIN flash.records
            /\ flash.records[flash.base + flash.at[j]].kind = "header"
            /\ flash.records[flash.base + flash.at[j]].module_id = flash.packed[j].module_id
        BY <3>3, <4>1 DEF Directory
      <4>3. flash.base + flash.at[j] = flash.at[j]
        BY <4>1, <4>2
      <4>4. Read(flash.at[j]) = flash.records[flash.at[j]]
        BY <4>2, <4>3 DEF Read
      <4>5. QED
        BY <3>5, <4>2, <4>3, <4>4
    <3>7. OffsetsResolve => Containing(new)
      BY <3>6 DEF Containing
    <3>8. \A k \in 1 .. Len(new) : Reached(k)
      BY <2>1, <3>2, <3>4 DEF Reached
    <3>9. \A k \in 1 .. Len(flash.packed) : Reached(k) => k <= Len(new)
      BY <2>1, <3>1, <3>2, <3>3 DEF Reached
    <3>10. QED
      BY <2>1, <2>2, <3>1, <3>2, <3>5, <3>7, <3>8, <3>9
  <2>5. CASE NextRead \/ WalkReadFails
    <3> DEFINE list == mount.discovered
               l == Len(list)
    <3>1. /\ mount.pc = "next" /\ mount'.pc = "idle"
          /\ Conclude(list, "whole") \/ Conclude(list, "cut")
      BY <1>1, <2>5 DEF NextRead, WalkReadFails, Discover, Suspend, Ends
    <3>2. /\ Walkable(flash) /\ list \in Seq(Registrations) /\ l \in Nat /\ l <= Len(flash.packed)
          /\ l <= MAX_MODULES
          /\ \A j \in 1 .. l : list[j] =
               [module_id |-> flash.packed[j].module_id, flash_offset |-> Walked(flash, j)]
      BY <1>1, <3>1, InvTypes DEF MountInv, WalkedSoFar
    <3>3. \A k \in 1 .. l : WalkReaches(k)
      BY <1>1, <3>1, WalkedReached
    <3>4. \A k \in 1 .. Len(flash.packed) : Reached(k) => k <= l \/ Conclude(list, "cut")
      BY <1>1, <2>5, <3>1, UnlessCut
    <3> HIDE DEF list, l
    <3>5. \A k \in 1 .. l : Reached(k)
      BY <2>1, <3>2, <3>3 DEF Reached
    <3>6. ASSUME NEW j \in 1 .. l
          PROVE  /\ list[j].module_id = flash.packed[j].module_id
                 /\ list[j].flash_offset = Walked(flash, j)
      <4>1. list[j] = [module_id |-> flash.packed[j].module_id, flash_offset |-> Walked(flash, j)]
        BY <3>2
      <4>2. QED
        BY <4>1
    <3>7. ASSUME NEW j \in 1 .. l
          PROVE  /\ Read(list[j].flash_offset).kind = "header"
                 /\ Read(list[j].flash_offset).module_id = list[j].module_id
      <4>1. j \in 1 .. Len(flash.packed)
        BY <2>1, <3>2
      <4>2. /\ Walked(flash, j) \in DOMAIN flash.records
            /\ flash.records[Walked(flash, j)].kind = "header"
            /\ flash.records[Walked(flash, j)].module_id = flash.packed[j].module_id
        BY <3>2, <4>1 DEF Walkable
      <4>3. QED
        BY <3>6, <4>2 DEF Read
    <3>8. Containing(list)
      BY <3>7 DEF Containing, l
    <3>9. CASE Conclude(list, "cut")
      BY <2>1, <2>2, <3>2, <3>5, <3>6, <3>8, <3>9 DEF l
    <3>10. CASE Conclude(list, "whole") /\ ~Conclude(list, "cut")
      BY <2>1, <2>2, <3>2, <3>4, <3>5, <3>6, <3>8, <3>10 DEF l
    <3>11. QED
      BY <3>1, <3>9, <3>10
  <2>6. CASE ReadFails \/ DropMount
    BY <1>1, <2>6 DEF ReadFails, DropMount, Fail, NoResult
  <2>7. CASE Mount \/ (\E m \in Modules, o \in Offsets : RegisterModule(m, o)) \/ UNCHANGED vars
    BY <1>1, <2>7 DEF Mount, RegisterModule, Ends, vars
  <2>8. QED
    BY <1>1, <2>3, <2>4, <2>5, <2>6, <2>7 DEF Next
<1>2. MountInv /\ [Next]_vars => [Ends /\ ret'.status = "Ok" => Result]_vars
  BY <1>1
<1>3. QED
  BY <1>2, MountInvariant, PTL DEF Spec, ReachedModulesFound

=============================================================================
