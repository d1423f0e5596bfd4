----------------------------- MODULE OverlayCache -----------------------------
(***************************************************************************)
(* What the overlay manager promises, without slots, indices, headers or   *)
(* awaits: a cache of module code with pins and least-recently-used        *)
(* replacement.  OverlayManager implements it (CacheSpec there).           *)
(*                                                                         *)
(* The one weakness of the promise is Spoil: a load that breaks off may    *)
(* leave the module it was about to replace cached with indeterminate code. *)
(***************************************************************************)
CONSTANTS Modules, Payloads, CodeOf, Absent, Torn

VARIABLES
    content,   \* module -> the code a call to it finds, or Absent
    pinned,    \* the cached modules that are pinned
    older,     \* <<a, b>>: both are cached and a was used before b
    room       \* a module can be added without replacing another

cacheVars == <<content, pinned, older, room>>

Cached == {m \in Modules : content[m] # Absent}

\* The module least-recently-used replacement takes.
Oldest(v) ==
    /\ v \in Cached \ pinned
    /\ \A w \in Cached \ pinned : w # v => <<v, w>> \in older

Without(m) == {p \in older : p[1] # m /\ p[2] # m}

\* m becomes the most recently used of the modules in rest.
UsedAfter(m, order, rest) == order \cup {<<a, m>> : a \in rest \ {m}}

Init ==
    /\ content = [m \in Modules |-> Absent]
    /\ pinned = {}
    /\ older = {}
    /\ room = TRUE

Hit(m) ==
    /\ m \in Cached
    /\ older' = UsedAfter(m, Without(m), Cached)
    /\ UNCHANGED <<content, pinned, room>>

\* Only verified code is ever installed.
LoadIntoRoom(m) ==
    /\ m \notin Cached
    /\ room
    /\ \E code \in CodeOf[m] : content' = [content EXCEPT ![m] = code]
    /\ older' = UsedAfter(m, older, Cached)
    /\ room' \in BOOLEAN
    /\ UNCHANGED pinned

LoadOver(m, v) ==
    /\ m \notin Cached
    /\ ~room
    /\ Oldest(v)
    /\ \E code \in CodeOf[m] : content' = [content EXCEPT ![m] = code, ![v] = Absent]
    /\ older' = UsedAfter(m, Without(v), Cached \ {v})
    /\ UNCHANGED <<pinned, room>>

\* A payload that fails verification costs the module it overwrote.
Discard(v) ==
    /\ ~room
    /\ Oldest(v)
    /\ content' = [content EXCEPT ![v] = Absent]
    /\ older' = Without(v)
    /\ room' = TRUE
    /\ UNCHANGED pinned

Spoil(v) ==
    /\ ~room
    /\ Oldest(v)
    /\ content' = [content EXCEPT ![v] = Torn]
    /\ UNCHANGED <<pinned, older, room>>

\* An explicit evict ignores the pin; a pinned slot it empties is no room.
EvictModule(m) ==
    /\ m \in Cached
    /\ content' = [content EXCEPT ![m] = Absent]
    /\ older' = Without(m)
    /\ pinned' = pinned \ {m}
    /\ room' = (room \/ m \notin pinned)

Pin(m) == m \in Cached /\ pinned' = pinned \cup {m} /\ UNCHANGED <<content, older, room>>
Unpin(m) == m \in pinned /\ pinned' = pinned \ {m} /\ UNCHANGED <<content, older, room>>

\* Pinning and unpinning a place that holds no module only moves room.
PinRoom == room /\ room' = FALSE /\ UNCHANGED <<content, pinned, older>>
UnpinRoom == ~room /\ room' = TRUE /\ UNCHANGED <<content, pinned, older>>

Next ==
    \/ \E m \in Modules :
          \/ Hit(m)
          \/ LoadIntoRoom(m)
          \/ \E v \in Modules : LoadOver(m, v)
          \/ EvictModule(m)
          \/ Pin(m)
          \/ Unpin(m)
    \/ \E v \in Modules : Discard(v) \/ Spoil(v)
    \/ PinRoom
    \/ UnpinRoom

Spec == Init /\ [][Next]_cacheVars

=============================================================================
