------------------------------- MODULE YfsLru -------------------------------
(* What the queue and the hash table of a cache of yfs.c are for: they keep   *)
(* the numbers that were asked for last, in the order of their last use.      *)
EXTENDS Naturals, Sequences, SequencesExt

CONSTANTS Keys, Capacity

VARIABLE recent         \* least recently used first

Init == recent = << >>

Hit(x) ==
  \E k \in DOMAIN recent : recent[k] = x /\ recent' = Append(RemoveAt(recent, k), x)

Miss(x) ==
  /\ x \notin ToSet(recent)
  /\ recent' = Append(IF Len(recent) = Capacity THEN Tail(recent) ELSE recent, x)

Get(x) == Hit(x) \/ Miss(x)

Next == \E x \in Keys : Get(x)

Spec == Init /\ [][Next]_recent
=============================================================================
