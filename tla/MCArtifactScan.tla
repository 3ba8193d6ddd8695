--------------------------- MODULE MCArtifactScan ---------------------------
(* Small instances of ArtifactScan for TLC: a root with a file and two      *)
(* folders, one of them the session's own; the file in the other one is as  *)
(* deep as a walk goes.                                                     *)
EXTENDS ArtifactScan, TLC

CONSTANTS root, crashes, session, top, dump, own

MCDirs == {root, crashes, session}
MCFiles == {top, dump, own}
MCParent == crashes :> root @@ session :> root
            @@ top :> root @@ dump :> crashes @@ own :> session
=============================================================================
