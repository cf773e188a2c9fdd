-------------------------------- MODULE MCFAST ------------------------------
(***************************************************************************)
(* FAST with 2 keys per page (CACHE_LINE_SIZE 16 and a 4-byte T, scaled    *)
(* down from 128 and 8): MCFAST.cfg builds every strictly increasing array *)
(* of 1 to 11 keys from 0..12, giving trees of 1 to 3 internal layers with *)
(* full and partial pages, padded internal pages and keys at every page    *)
(* boundary, and looks up every key from 0 to 12.  T::MAX is scaled to    *)
(* 12, so the largest key may equal the key padding.                      *)
(* MCFASTCast.cfg casts offsets to 3 bits instead of 32, so the offset 8  *)
(* of a third leaf page wraps around (up to 9 keys from 0..10).           *)
(***************************************************************************)
EXTENDS FAST

=============================================================================
