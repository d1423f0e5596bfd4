--------------------------- MODULE MCOverlayManager ---------------------------
(* Three modules competing for two slots of different sizes, and every     *)
(* kind of container a read can meet.                                      *)
EXTENDS OverlayManager

CONSTANTS c1, m1, m2, m3, p1, p2, p3, junk

MCModules == {m1, m2, m3}
MCPayloads == {p1, p2, p3, junk}

MCCodeOf == [m \in MCModules |->
    IF m = m1 THEN {p1} ELSE IF m = m2 THEN {p2} ELSE {p3}]

MCCapacity == [i \in 0 .. SLOTS - 1 |-> IF i = 0 THEN 64 ELSE 128]
MCExecAddr == [i \in 0 .. SLOTS - 1 |-> 4 * i]

Container(status, m, size, entry, crc, code) ==
    [header |-> [status |-> status, module_id |-> m, code_size |-> size,
                 entry_offset |-> entry, payload_crc32 |-> crc],
     payload |-> code]

Good1 == Container("Ok", m1, 64, 0, p1, p1)
Good2 == Container("Ok", m2, 64, 2, p2, p2)
Good3 == Container("Ok", m3, 64, 4, p3, p3)
Corrupt2 == Container("Ok", m2, 64, 2, p2, junk)
TooLarge3 == Container("Ok", m3, 128, 0, p3, p3)
OddEntry3 == Container("Ok", m3, 64, 3, p3, p3)
Blank == Container("InvalidMagic", m1, 0, 0, junk, junk)

\* One place in storage that other owners of the bus keep rewriting; a rewrite
\* between the two reads of a load pairs any header with any payload.
MCRewrittenContainers == {Good1, Good2, Good3}
MCRewrittenImages == {<<Good1>>}

\* A good container per module, a damaged one, and one for every other reason
\* to refuse a load.
MCFixedImages == {<<Good1, Good2, Good3, Corrupt2, TooLarge3, OddEntry3, Blank>>}
MCFixedContainers == {Good1, Good2, Good3, Corrupt2, TooLarge3, OddEntry3, Blank}

\* Calls read the slot table and change only icache and ret, which the cache
\* abstraction does not look at: its run leaves them out.
NoCalls == \A c \in Callers : ret[c].ran = None

=============================================================================
