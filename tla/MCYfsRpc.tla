------------------------------ MODULE MCYfsRpc ------------------------------
(* An instance of YfsRpc for TLC: one file, read and written as a whole.  The *)
(* server lets ChDir go to it, and a process that did finds nothing there.    *)
EXTENDS YfsRpc

CONSTANTS p1, p2, abc

TheFile == [abs |-> TRUE, parts |-> <<abc>>]
FileHere == [abs |-> FALSE, parts |-> <<abc>>]
OneName == {abc}
TwoPaths == {TheFile, FileHere}

(* Without Unlink and RmDir no inode is given out twice, and none is missing. *)
FewRequests ==
  {[op |-> "CREATE", path |-> TheFile], [op |-> "OPEN", path |-> FileHere],
   [op |-> "STAT", path |-> FileHere], [op |-> "CHDIR", path |-> TheFile],
   [op |-> "SYNC"], [op |-> "SHUTDOWN"]}
  \cup {[op |-> op, fd |-> fd, size |-> n] : op \in {"READ", "WRITE"}, fd \in Slots, n \in Sizes}
  \cup {[op |-> "SEEK", fd |-> fd, offset |-> offset, whence |-> "SEEK_SET"] :
          fd \in Slots, offset \in Offsets}
=============================================================================
