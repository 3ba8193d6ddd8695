--------------------------- MODULE MCProcessWatch ---------------------------
(* Small instances of ProcessWatch for TLC: interchangeable PIDs.           *)
EXTENDS ProcessWatch, TLC

CONSTANTS p1, p2

Symmetry == Permutations({p1, p2})
=============================================================================
