----------------------------- MODULE MCLauncher -----------------------------
(* Swordigo.sh with exit statuses as they are, for TLC. *)
EXTENDS Launcher

MCCodes   == {0, 1, 139, 143}    \* ends, fails, crashes, dies of TERM
MCSignals == {129, 130, 143}
=============================================================================
