------------------------------ MODULE AssetStore ------------------------------
(***************************************************************************)
(* What the reader of a VFS partition promises: a fixed list of byte       *)
(* strings, asked for by number, one request at a time.  Nothing is said   *)
(* of a superblock, an index or addresses.                                 *)
(*                                                                         *)
(* A store nobody vouches for (the partition was written since it was      *)
(* mounted, or holds no complete image) is Unknown and answers anything.   *)
(***************************************************************************)
EXTENDS Naturals, Sequences

CONSTANTS
    Byte,       \* what one byte may be
    Requests,   \* [op, asset_id, offset, len]: what callers ask, and into how large a buffer
    None,
    Unknown

VARIABLES
    assets,     \* the contents of asset 1, 2, ..., or Unknown
    asked,      \* the request under way, or None
    answer      \* what the last request returned; nothing while one is asked

storeVars == <<assets, asked, answer>>

Answer(status, count, bytes) == [status |-> status, count |-> count, bytes |-> bytes]
Refusal(status, required) == Answer(status, required, <<>>)
\* What a request may end with; the rest of VfsError is about mounting.
Statuses == {"Ok", "AssetNotFound", "BufferTooSmall", "Storage"}
Answers == [status : Statuses, count : Nat, bytes : Seq(Byte)]
Stores == {Unknown} \cup Seq(Seq(Byte))

\* The end of a chunk of at most len bytes from offset in an asset of size bytes.
ChunkEnd(offset, len, size) == IF offset + len < size THEN offset + len ELSE size
Chunk(asset, offset, len) == SubSeq(asset, offset + 1, ChunkEnd(offset, len, Len(asset)))

Promised(r) ==
    IF r.asset_id \notin DOMAIN assets THEN Refusal("AssetNotFound", 0)
    ELSE LET asset == assets[r.asset_id]
             chunk == Chunk(asset, r.offset, r.len)
         IN  CASE r.op = "asset_len" -> Answer("Ok", Len(asset), <<>>)
               [] r.op = "stream_chunk" -> Answer("Ok", Len(chunk), chunk)
               [] r.op = "read_asset" ->
                    IF r.len < Len(asset) THEN Refusal("BufferTooSmall", Len(asset))
                    ELSE Answer("Ok", Len(asset), asset)

StoreInit ==
    /\ assets = Unknown
    /\ asked = None
    /\ answer = Refusal("none", 0)

Ask(r) ==
    /\ asked = None
    /\ asked' = r
    /\ answer' = Refusal("none", 0)
    /\ UNCHANGED assets

\* A request ends with what is promised or with an error of the medium.
Reply(r) ==
    /\ asked \in {None, r}
    /\ asked' = None
    /\ \/ assets # Unknown /\ answer' \in {Promised(r), Refusal("Storage", 0)}
       \/ assets = Unknown /\ answer' \in Answers
    /\ UNCHANGED assets

\* The caller drops its request.
Cancel ==
    /\ asked' = None
    /\ UNCHANGED <<assets, answer>>

\* A mount, between requests; a writer, at any time.
Learn ==
    /\ asked = None
    /\ assets' \in Stores
    /\ UNCHANGED <<asked, answer>>
Forget ==
    /\ assets' = Unknown
    /\ UNCHANGED <<asked, answer>>

StoreNext ==
    \/ \E r \in Requests : Ask(r) \/ Reply(r)
    \/ Cancel \/ Learn \/ Forget

StoreSpec == StoreInit /\ [][StoreNext]_storeVars

=============================================================================
