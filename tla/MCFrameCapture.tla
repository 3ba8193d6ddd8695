--------------------------- MODULE MCFrameCapture ---------------------------
(* Small instances of FrameCapture for TLC.                                  *)
EXTENDS FrameCapture
=============================================================================
