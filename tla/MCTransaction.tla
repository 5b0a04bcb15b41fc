--------------------------- MODULE MCTransaction ---------------------------
(***************************************************************************)
(* Transaction for TLC: two commit paths, so that one can be installed     *)
(* while the other still waits, and small bounds on what goes wrong.       *)
(***************************************************************************)
EXTENDS Transaction
=============================================================================
