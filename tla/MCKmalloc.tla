----------------------------- MODULE MCKmalloc ------------------------------
(***************************************************************************)
(* A heap of a few units with two-byte headers and alignment, so that      *)
(* rounding, the smallest split and the size of the whole heap all occur.  *)
(***************************************************************************)
EXTENDS Kmalloc, TLC
CONSTANTS p1, p2
MCTwo == {p1, p2}
\* 0; odd and even sizes; the largest that fits; one more; near 2^w.
MCSizes == {0, 1, 2, 3, 5, HeapSize - Hdr, HeapSize - Hdr + 1, WordSize - 1}
MCSymmetry == Permutations({p1, p2})
=============================================================================
