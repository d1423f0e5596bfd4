------------------------------ MODULE MCVfsReader ------------------------------
(* Directories of up to three files with sizes around the alignment, an image *)
(* that overflows asset_count, damaged and half-updated partitions.           *)
EXTENDS VfsReader

MCLists == {<<>>} \cup {<<n>> : n \in {0, 4}} \cup {<<m, n>> : m \in {0, 1, 5}, n \in {1, 4}}
           \cup {<<1, 5, 2>>, <<4, 0, 3>>}
MCMany == {<<1, 1, 1, 1>>, <<1, 1, 1, 1, 1>>}

MCOld == Place(<<5, 1>>, 0, 64)
MCNew == Place(<<1, 5>>, 0, 64)

\* The superblock and index of one image over the data of another, the index
\* alone, an entry that is damaged, and superblocks mount must refuse.
MCTorn == {
    Patched(MCOld, [a \in {0, EntryAt(1), EntryAt(2)} |-> MCNew.cells[a]]),
    Patched(MCOld, [a \in {EntryAt(2)} |-> Entry(1, 250, 5)]),
    Patched(MCOld, [a \in {0} |-> Header(<<1, 1, 1>>, VFS_VERSION, TRUE)]),
    Patched(MCOld, [a \in {0} |-> Header(<<5, 1>>, 2, TRUE)]),
    Patched(MCOld, [a \in {0} |-> Header(<<5, 1>>, VFS_VERSION, FALSE)])}
MCErased == [files |-> <<>>, base |-> 0, complete |-> FALSE, capacity |-> 32, cells |-> <<>>]

MCUpdates == {MCOld, MCNew, Place(<<1>>, 0, 64), MCErased} \cup MCTorn
MCImages == {Place(l, b, 0) : l \in MCLists, b \in {0, 64}}
            \cup {Place(l, 0, 0) : l \in MCMany} \cup MCUpdates

MCRequests ==
    [op : {"asset_len"}, asset_id : 1 .. 4, offset : {0}, len : {0}]
    \cup [op : {"stream_chunk"}, asset_id : 1 .. 4, offset : {0, 1, 3, 5}, len : {0, 2, 8}]
    \cup [op : {"read_asset"}, asset_id : 1 .. 4, offset : {0}, len : {0, 4, 8}]

MCStrays == {Entry(0, 0, 0), Entry(1, 200, 7)}

=============================================================================
