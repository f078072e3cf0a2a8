----------------------------- MODULE MCYfsCache -----------------------------
(* Small instances of YfsCache for TLC.  The two contents an inode or a cell  *)
(* can have are interchangeable.                                              *)
EXTENDS YfsCache, TLC

CONSTANTS v1, v2

OneVal == {v1}
TwoVals == {v1, v2}
Symmetry == Permutations(TwoVals)
=============================================================================
