----------------------------- MODULE MCYfsQueue -----------------------------
(* An instance of YfsQueue for TLC: two keys to most buckets.                 *)
EXTENDS YfsQueue

CONSTANTS a1, a2, a3, a4
=============================================================================
