--------------------------- MODULE MCCrashReport ---------------------------
(* Small instances of CrashReport for TLC.                                  *)
EXTENDS CrashReport, TLC

CONSTANTS h1, h2

Symmetry == Permutations(Hangs)
=============================================================================
