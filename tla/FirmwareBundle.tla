---------------------------- MODULE FirmwareBundle ----------------------------
(***************************************************************************)
(* The dual-flash bundle (.fwbundle): a header and two images, written by  *)
(* overlay-packer or by flash_dual.py, read by BundleHeader::from_bytes.   *)
(*                                                                         *)
(* Bytes are counted, not stored.  A CRC-32 is what it is computed over:   *)
(* how many bytes of the header on, and what its own field held meanwhile  *)
(* if that lies among them.  Two CRCs are equal when these are.            *)
(***************************************************************************)
EXTENDS Naturals

CONSTANTS
    Sizes,      \* lengths of the images
    None

\* BundleHeader is repr(C, align(4)): magic, version, flags, target_chip, six
\* words about the images, and header_crc32.  No field needs padding.
CRC_FIELD == 4 + 2 + 2 + 16 + 6 * 4
SIZE == CRC_FIELD + 4

\* What BundleHeader's checksum is taken over, and what flash_dual.py's is.
RustSpan == 60
PythonSpan == CRC_FIELD

Crc(span, field) == [span |-> span, field |-> IF span > CRC_FIELD THEN field ELSE None]

VARIABLES
    bundle,     \* the file: its length and the checksum in its header, or None
    packer,     \* how the last packer ended
    parser      \* how the last from_bytes ended

vars == <<bundle, packer, parser>>

Init ==
    /\ bundle = None
    /\ packer = "none"
    /\ parser = "none"

Write(internal, external, crc) ==
    /\ bundle' = [length |-> SIZE + internal + external, crc |-> crc]
    /\ packer' = "written"
    /\ UNCHANGED parser

\* overlay-packer bundle.  The checksum is taken over a slice of to_bytes(), an
\* array of SIZE bytes, while its own field is still 0.
PackBundle(internal, external) ==
    IF RustSpan > SIZE THEN packer' = "panic" /\ UNCHANGED <<bundle, parser>>
    ELSE Write(internal, external, Crc(RustSpan, "zero"))

\* flash_dual.py pack, also part of its auto-run.
PackFirmwareBundle(internal, external) ==
    Write(internal, external, Crc(PythonSpan, "zero"))

\* from_bytes on the first length bytes of the bundle.
FromBytes(length) ==
    /\ bundle # None
    /\ length <= bundle.length
    /\ parser' = IF length < SIZE THEN "Storage"
                 ELSE IF length < RustSpan THEN "panic"
                 ELSE IF bundle.crc # Crc(RustSpan, "stored") THEN "HeaderChecksumMismatch"
                 ELSE "Ok"
    /\ UNCHANGED <<bundle, packer>>

Next ==
    \/ \E i, e \in Sizes : PackBundle(i, e) \/ PackFirmwareBundle(i, e)
    \/ FromBytes(CRC_FIELD)
    \/ \E i, e \in Sizes : FromBytes(SIZE + i + e)

Spec == Init /\ [][Next]_vars

-----------------------------------------------------------------------------

\* "Create a unified dual-flash firmware bundle (.fwbundle)" (README): both tools
\* write a bundle, and from_bytes accepts a bundle that either of them wrote,
\* unless it is handed less than the header.
PackedBundleParses ==
    /\ packer # "panic"
    /\ parser \in {"none", "Ok", "Storage"}

=============================================================================
