--------------------------- MODULE MCTouchInput ----------------------------
(***************************************************************************)
(* Instances of TouchInput for TLC.                                        *)
(***************************************************************************)
EXTENDS TouchInput
=============================================================================
