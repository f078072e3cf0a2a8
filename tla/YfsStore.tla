------------------------------ MODULE YfsStore ------------------------------
(* What the two-level cache of yfs.c promises the request handlers: a store    *)
(* of objects (the inodes and the cells of the data blocks).                   *)
(*                                                                             *)
(* A value travels from  mem  (what a handler reads) through  staged  (the     *)
(* copy in the block that contains the object) to  saved  (the disk).  It      *)
(* only travels forward, at moments the handlers cannot see, and Sync does     *)
(* not return before all of it has arrived.                                    *)
EXTENDS Naturals

CONSTANTS Objects,      \* what a handler reads and writes
          Val           \* the values an object can hold

VARIABLES mem,          \* the current value of every object
          staged,       \* its value in the containing block
          saved,        \* its value on the disk
          syncing       \* a Sync or Shutdown request is being served

vars == <<mem, staged, saved, syncing>>

Init ==
  /\ saved \in [Objects -> Val]
  /\ mem = saved
  /\ staged = saved
  /\ syncing = FALSE

(* A handler stores into one object through a pointer it holds.  A cell of a  *)
(* data block has no copy of its own, so its containing block changes with it. *)
Store(o, v) ==
  /\ ~syncing
  /\ mem' = [mem EXCEPT ![o] = v]
  /\ \/ staged' = staged
     \/ staged' = [staged EXCEPT ![o] = v]
  /\ UNCHANGED <<saved, syncing>>

(* A fetch evicts, or Sync proceeds: any set of objects moves forward.        *)
WriteBack ==
  /\ staged' \in [Objects -> Val]
  /\ saved' \in [Objects -> Val]
  /\ \A o \in Objects : /\ staged'[o] \in {staged[o], mem[o]}
                        /\ saved'[o] \in {saved[o], staged[o], staged'[o]}
  /\ UNCHANGED <<mem, syncing>>

SyncBegin ==
  /\ ~syncing
  /\ syncing' = TRUE
  /\ UNCHANGED <<mem, staged, saved>>

(* Sync returns only when the disk holds every current value.                 *)
SyncEnd ==
  /\ syncing
  /\ saved = mem
  /\ syncing' = FALSE
  /\ UNCHANGED <<mem, staged, saved>>

(* The server process ends, with or without Sync, and is started again: what  *)
(* it knows is what the disk holds.                                           *)
Restart ==
  /\ mem' = saved
  /\ staged' = saved
  /\ syncing' = FALSE
  /\ UNCHANGED saved

Next ==
  \/ \E o \in Objects, v \in Val : Store(o, v)
  \/ WriteBack
  \/ SyncBegin
  \/ SyncEnd
  \/ Restart

Spec == Init /\ [][Next]_vars
=============================================================================
