-------------------------- MODULE MCRecordPipeline --------------------------
(* Small instances of RecordPipeline for TLC.                               *)
EXTENDS RecordPipeline, TLC

CONSTANTS c1, c2, session

MCCollectors == {c1, c2}
MCFollowing == {c2}
=============================================================================
