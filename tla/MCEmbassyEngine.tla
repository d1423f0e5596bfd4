---------------------------- MODULE MCEmbassyEngine ----------------------------
(* Tasks on one engine, and what storage and the registry hold for them.    *)
EXTENDS EmbassyEngine

CONSTANTS c1, c2, m1, m2, m3, p1, p2, p3, junk

MCPayloads == {p1, p2, p3, junk}
MCCodeOf == [m \in Modules |-> IF m = m1 THEN {p1} ELSE IF m = m2 THEN {p2} ELSE {p3}]
MCCapacity == [i \in 0 .. SLOTS - 1 |-> 64]
MCExecAddr == [i \in 0 .. SLOTS - 1 |-> 64 * i]

Container(m, crc, code) ==
    [header |-> [status |-> "Ok", module_id |-> m, code_size |-> 64,
                 entry_offset |-> 0, payload_crc32 |-> crc],
     payload |-> code]

Good1 == Container(m1, p1, p1)
Good2 == Container(m2, p2, p2)

\* One place in storage, rewritten by other owners of the bus, that two modules
\* are registered at; the third is not registered.
MCSharedContainers == {Good1, Good2}
MCSharedImages == {<<Good1>>}
MCSharedRegistry == [m \in Modules |-> IF m = m3 THEN None ELSE 1]

=============================================================================
