------------------------------- MODULE MCSlab -------------------------------
(* Model checking of Slab: bytes of two bits, words of two bytes, pages of  *)
(* sixteen bytes give small chunks of 2 bytes (8 to a page, 2 of them the   *)
(* bitmap), exact ones of 4 and big ones of 8.                              *)
EXTENDS Slab

\* Every kind of slab on up to two pages; on three pages the big chunks and the
\* runs of pages, which bring out slot lists of several pages and split runs.
MCSizes == [k \in 0..MaxPages |-> {7, 9, 17} \cup (IF k < 3 THEN {2, 4} ELSE {})]
=============================================================================
