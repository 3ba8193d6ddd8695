-------------------------- MODULE MCCollectorGroup --------------------------
(* Small instances of CollectorGroup for TLC.                               *)
EXTENDS CollectorGroup, TLC
=============================================================================
