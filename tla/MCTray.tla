------------------------------- MODULE MCTray -------------------------------
(* Small instances of Tray for TLC.                                         *)
EXTENDS Tray, TLC
=============================================================================
