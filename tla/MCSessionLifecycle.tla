------------------------- MODULE MCSessionLifecycle -------------------------
(* Small instances of SessionLifecycle for TLC.                             *)
EXTENDS SessionLifecycle, TLC

CONSTANTS s1, s2, s3, t1, t2

MCTwo == {s1, s2}
MCThree == {s1, s2, s3}
MCOneStamp == {t1}
MCTwoStamps == {t1, t2}
=============================================================================
