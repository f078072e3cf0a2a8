------------------------------ MODULE YfsClaims ------------------------------
(* What the tests and the comments of the repository say of the file server,  *)
(* and the server does not do.  Each is what a call would do in the state     *)
(* that is reached, or a property of Yfs without one of its promises.         *)
EXTENDS Yfs

(* s/mkdir_rmdir.c:83-84, 109-110: RmDir of a directory that does not exist,  *)
(* or not any more, is an error.                                              *)
RmDirMissingFails ==
  \A p \in Procs, path \in Paths :
    Target(p, path) = 0 => RemoveDir(fs, path, cwd[p]).ret = ERROR

(* s/read_write_seek_stat.c:104-109: what was skipped and never written reads *)
(* as zeros.                                                                  *)
GapsAreZero ==
  \A i \in InUse : fs.inode[i].type = INODE_REGULAR =>
    \A k \in 0 .. fs.inode[i].size - 1 :
      LET b == NthBlock(fs, i, k \div UNITS)
      IN  b # 0 => fs.cell[b][k % UNITS] \in {[inum |-> i, name |-> Junk], EmptyCell}
=============================================================================
