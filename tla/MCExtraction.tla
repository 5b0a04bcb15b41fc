----------------------------- MODULE MCExtraction -----------------------------
(***************************************************************************)
(* Instances of Extraction for TLC.                                        *)
(***************************************************************************)
EXTENDS Extraction

CONSTANTS p, q, r

\* p and q differ in a loose file of one size, r is another build.
MCFingerprint == [x \in {p, q, r} |-> IF x = r THEN r ELSE p]
\* Hook 1 makes file 3, hook 2 and hook 3 change item 2 in place.
MCTarget == <<3, 2, 2>>
MCChecked == <<TRUE, TRUE, FALSE>>
=============================================================================
