-------------------------- MODULE MCPthreadBridge --------------------------
(***************************************************************************)
(* Instances of PthreadBridge for TLC.                                     *)
(***************************************************************************)
EXTENDS PthreadBridge

CONSTANTS t1, t2, o1, a, b

TwoThreads   == {t1, t2}
TwoMutexes   == {1, 2}
OneOnce      == {o1}
TwoObjects   == {a, b}
=============================================================================
