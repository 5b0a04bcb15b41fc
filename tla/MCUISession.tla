----------------------------- MODULE MCUISession -----------------------------
(***************************************************************************)
(* Instances of UISession for TLC. Settings that mean the same are taken   *)
(* once: the kind of a path that is no candidate is never asked for, and   *)
(* whether SharedTmp is private or sticky makes no difference to Trusted.  *)
(***************************************************************************)
EXTENDS UISession

TakenOnce(c) ==
  /\ \A p \in Paths \ {c.xdg, c.tmpdir, SharedTmp} : c.kind[p] = "unsafe"
  /\ c.kind[SharedTmp] # "private"

MCInit == Init /\ TakenOnce(cfg)
MCSpec == MCInit /\ [][Next]_vars /\ Fairness
=============================================================================
