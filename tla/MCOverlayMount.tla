---------------------------- MODULE MCOverlayMount ----------------------------
(* Images of one to three overlays whose sizes are around the alignment,    *)
(* in both layouts, on a chip that ends with the image or a header later.   *)
EXTENDS OverlayMount

MCSizes == {4, 5, 7}
MCLists ==
    UNION {[1 .. n -> [module_id : Modules, code_size : MCSizes]] : n \in 1 .. 2}
    \cup [1 .. 3 -> [module_id : Modules, code_size : {4, 5}]]

MCDirectory(base) == {Place(AutoPack(l, None), base, s) : l \in MCLists, s \in {0, 32}}

\* Files of pack_overlay as they are, and padded by the integrator.
MCLayouts(l) == {Concatenated(l), Starts(l, 0)}
MCSequential(base) ==
    UNION {{Place(Sequential(l, at, None), base, s) : at \in MCLayouts(l), s \in {0, 32}}
           : l \in MCLists}

\* Two overlays, one record of the image damaged, and storage without an image.
MCPairs == [1 .. 2 -> [module_id : Modules, code_size : {5}]]
MCDamaged ==
    UNION {LET a == AutoPack(l, None)
               at == Starts(l, 0)
               s == Sequential(l, at, None)
           IN  {Place(AutoPack(l, d), 0, 0) : d \in DOMAIN a.records}
               \cup {Place(Sequential(l, at, d), 0, 32) : d \in DOMAIN s.records}
           : l \in MCPairs}
MCErased == {[packed |-> <<>>, at |-> <<>>, base |-> b, capacity |-> 64, records |-> <<>>] : b \in {0, 64}}

\* Directories and rows, at the start of storage and elsewhere.
MCImages == MCDirectory(0) \cup MCDirectory(4096) \cup MCSequential(0) \cup MCSequential(4096)
            \cup MCDamaged \cup MCErased

\* A directory in a partition that does not begin the chip.
MCPartition == MCDirectory(4096)

=============================================================================
