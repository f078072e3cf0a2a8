----------------------------- MODULE MCYfsPaths -----------------------------
(* An instance of YfsPaths for TLC: short texts of one letter, dots and       *)
(* slashes.                                                                   *)
EXTENDS YfsPaths

OneLetter == {"a", "."}
TwoLong == {"a", "aa", ".a", "a."}
TwoSpelled ==
  [name \in TwoLong \cup {"", ".", ".."} |->
     CASE name = "a"  -> <<"a">>      [] name = "aa" -> <<"a", "a">>
       [] name = ".a" -> <<".", "a">> [] name = "a." -> <<"a", ".">>
       [] name = "."  -> <<".">>      [] name = ".." -> <<".", ".">>
       [] name = ""   -> << >>]
=============================================================================
