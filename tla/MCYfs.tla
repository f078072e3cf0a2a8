------------------------------- MODULE MCYfs -------------------------------
(* Instances of Yfs and YfsClaims for TLC: few paths, over two names.         *)
EXTENDS YfsClaims, TLC

CONSTANTS p1, p2, abc, xyz

Rel(parts) == [abs |-> FALSE, parts |-> parts]
Abs(parts) == [abs |-> TRUE, parts |-> parts]

OneName == {abc}
TwoNames == {abc, xyz}
FlatPaths == {Rel(<<n>>) : n \in TwoNames}
OnePath == {Rel(<<abc>>)}
CwdPaths == FlatPaths \cup {Rel(<<"..">>)}
DeepPaths == {Abs(<<n>>) : n \in TwoNames} \cup {Abs(<<n, m>>) : n, m \in TwoNames}

Extreme == {0, 1, INT_MAX}

AllPaths == DeepPaths \cup FlatPaths

Symmetry == Permutations(Procs) \cup Permutations(Names)

AllPromises ==
  {"live", "kind", "plain", "straight", "idle", "space", "direct", "buffer"}
BigFile == (AllPromises \ {"direct", "buffer"}) \cup {"stay"}
NoRestart == AllPromises \cup {"stay"}
NotIdle == AllPromises \ {"idle"}
=============================================================================
