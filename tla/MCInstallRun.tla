---------------------------- MODULE MCInstallRun ----------------------------
(* Two launchers that find their instance lock in one directory, for TLC. *)
EXTENDS InstallRun, TLC

CONSTANTS l1, l2, tmp

OneRoot == (l1 :> tmp) @@ (l2 :> tmp)
=============================================================================
