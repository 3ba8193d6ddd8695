----------------------------- MODULE MCEventLog -----------------------------
(* Small instances of EventLog for TLC: two events, one of them bookmarked.  *)
EXTENDS EventLog

CONSTANTS e1, e2
=============================================================================
