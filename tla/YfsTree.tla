------------------------------ MODULE YfsTree ------------------------------
(* What programs may rely on: a tree of directories with files in it, and for *)
(* each process its open files and its current directory.  There are no       *)
(* blocks, no places of entries in a directory and no free lists.             *)
(*                                                                             *)
(* The calls are those of iolib.c.  A call that fails changes nothing.  RmDir *)
(* may refuse an empty directory.  An inode number that once was a file is    *)
(* never given out again, that of a removed directory may be.                 *)
EXTENDS Integers, Sequences, SequencesExt

CONSTANTS
  Names, Paths, Sizes, Procs, Slots, NULL,
  Inodes, ROOTINODE

(* A tree is a record                                                         *)
(*   entry   [directory -> [name -> inode, NULL for none]]                    *)
(*   up      the parent of each directory, NULL for other inodes              *)
(*   size    the length of each file, NULL for other inodes                   *)
VARIABLES tree, fds, cwd
vars == <<tree, fds, cwd>>

Empty == [name \in Names |-> NULL]
IsDir(t, i) == t.up[i] # NULL
IsFile(t, i) == t.size[i] # NULL
Fresh(t) == {i \in Inodes \ {0} : ~IsDir(t, i) /\ ~IsFile(t, i)}

NoFiles == [p \in Procs |-> [fd \in Slots |-> NULL]]
AtRoot == [p \in Procs |-> ROOTINODE]

Init ==
  /\ tree = [entry |-> [i \in Inodes |-> Empty],
             up    |-> [i \in Inodes |-> IF i = ROOTINODE THEN ROOTINODE ELSE NULL],
             size  |-> [i \in Inodes |-> NULL]]
  /\ fds = NoFiles /\ cwd = AtRoot

-----------------------------------------------------------------------------
(* Path names.  "/" alone names nothing, and a slash at the end neither.       *)

From(path, cur) == IF path.abs THEN ROOTINODE ELSE cur

Walk(t, parts, start) ==
  LET Enter(i, part) ==
        IF i = NULL \/ ~IsDir(t, i) THEN NULL
        ELSE CASE part = "."     -> i
               [] part = ".."    -> t.up[i]
               [] part \in Names -> t.entry[i][part]
               [] OTHER         -> NULL
  IN  FoldLeft(Enter, start, parts)

Lookup(t, path, cur) ==
  IF path.parts = << >> THEN NULL ELSE Walk(t, path.parts, From(path, cur))

(* The directory a new name goes into, NULL if there is none.                 *)
Dir(t, path, cur) ==
  LET d == Walk(t, Front(path.parts), From(path, cur))
  IN  IF path.parts # << >> /\ d # NULL /\ IsDir(t, d) THEN d ELSE NULL

Name(path) == Last(path.parts)
At(t, path, cur) ==
  LET d == Dir(t, path, cur)
  IN  IF d = NULL \/ Name(path) \notin Names THEN NULL ELSE t.entry[d][Name(path)]
Named(t, path, cur, i) == [t.entry EXCEPT ![Dir(t, path, cur)][Name(path)] = i]
CanName(t, path, cur) == Dir(t, path, cur) # NULL /\ Name(path) \in Names

-----------------------------------------------------------------------------
(* Open files *)

(* The lowest free slot, if there is one.                                     *)
OpenIn(p, i) ==
  \/ /\ \A fd \in Slots : fds[p][fd] # NULL
     /\ fds' = fds
  \/ \E fd \in Slots :
       /\ fds[p][fd] = NULL
       /\ \A low \in Slots : low < fd => fds[p][low] # NULL
       /\ fds' = [fds EXCEPT ![p][fd] = [i_num |-> i, pos |-> 0]]

Open(p, path) ==
  /\ cwd' = cwd
  /\ LET i == Lookup(tree, path, cwd[p]) IN i # NULL /\ OpenIn(p, i)
  /\ tree' = tree

Close(p, fd) ==
  /\ cwd' = cwd
  /\ fds' = [fds EXCEPT ![p][fd] = NULL]
  /\ tree' = tree

Move(p, fd, pos) == fds' = [fds EXCEPT ![p][fd].pos = pos]

(* An open file is read at most up to its end.                                *)
Read(p, fd, n) ==
  /\ cwd' = cwd /\ fds[p][fd] # NULL
  /\ LET size == tree.size[fds[p][fd].i_num]
         pos == fds[p][fd].pos
     IN  size # NULL /\ Move(p, fd, IF pos + n < size THEN pos + n ELSE size)
  /\ tree' = tree

Write(p, fd, n) ==
  /\ cwd' = cwd /\ fds[p][fd] # NULL
  /\ Move(p, fd, fds[p][fd].pos + n)
  /\ LET i == fds[p][fd].i_num
         end == fds[p][fd].pos + n
     IN  /\ tree.size[i] # NULL /\ n > 0
         /\ tree' = [tree EXCEPT !.size[i] = IF end > @ THEN end ELSE @]

(* Anywhere in a file, and never past its end.                                *)
Seek(p, fd) ==
  /\ cwd' = cwd /\ fds[p][fd] # NULL
  /\ LET size == tree.size[fds[p][fd].i_num]
     IN  size # NULL /\ \E to \in 0 .. size : Move(p, fd, to)
  /\ tree' = tree

(* A directory has no length here: a read or a seek may go anywhere in it.    *)
InDir(p, fd) ==
  /\ cwd' = cwd /\ fds[p][fd] # NULL /\ fds'[p][fd] # NULL
  /\ Move(p, fd, fds'[p][fd].pos)
  /\ tree.size[fds[p][fd].i_num] = NULL
  /\ tree' = tree

-----------------------------------------------------------------------------
(* Names *)

(* The file of that name is emptied, or a new one is made, and it is opened.  *)
Create(p, path) ==
  /\ cwd' = cwd
  /\ LET t == tree
         old == At(t, path, cwd[p])
     IN  /\ CanName(t, path, cwd[p])
         /\ \E i \in IF old = NULL THEN Fresh(t) ELSE {old} :
              /\ ~IsDir(t, i)
              /\ OpenIn(p, i)
              /\ tree' = [t EXCEPT !.entry = Named(t, path, cwd[p], i), !.size[i] = 0]

(* A relative new name starts at the root when the old one is absolute.       *)
Link(p, old, new) ==
  /\ cwd' = cwd /\ fds' = fds
  /\ LET t == tree
         i == Lookup(t, old, cwd[p])
         cur == From(old, cwd[p])
     IN  /\ i # NULL /\ ~IsDir(t, i)
         /\ CanName(t, new, cur) /\ At(t, new, cur) = NULL
         /\ tree' = [t EXCEPT !.entry = Named(t, new, cur, i)]

(* The file is emptied with its last name.                                    *)
Unlink(p, path) ==
  /\ cwd' = cwd /\ fds' = fds
  /\ LET t == tree
         i == At(t, path, cwd[p])
         less == Named(t, path, cwd[p], NULL)
         linked == \E d \in Inodes, name \in Names : less[d][name] = i
     IN  /\ i # NULL /\ ~IsDir(t, i)
         /\ tree' = [t EXCEPT !.entry = less, !.size[i] = IF linked THEN @ ELSE 0]

MkDir(p, path) ==
  /\ cwd' = cwd /\ fds' = fds
  /\ LET t == tree
         d == Dir(t, path, cwd[p])
     IN  /\ CanName(t, path, cwd[p]) /\ At(t, path, cwd[p]) = NULL
         /\ \E i \in Fresh(t) :
              tree' = [t EXCEPT !.entry = Named(t, path, cwd[p], i), !.up[i] = d]

(* Only an empty directory goes away, and nobody is in it.                    *)
RmDir(p, path) ==
  /\ cwd' = cwd /\ fds' = fds
  /\ LET t == tree
         i == At(t, path, cwd[p])
     IN  /\ i # NULL /\ IsDir(t, i) /\ t.entry[i] = Empty
         /\ \A q \in Procs : cwd[q] # i
         /\ tree' = [t EXCEPT !.entry = Named(t, path, cwd[p], NULL), !.up[i] = NULL]

(* The current directory can be a file; no relative path leads anywhere then. *)
ChDir(p, path) ==
  /\ fds' = fds
  /\ LET i == Lookup(tree, path, cwd[p])
     IN  i # NULL /\ cwd' = [cwd EXCEPT ![p] = i]
  /\ tree' = tree

(* A new server on the same disk and new processes find the same tree.        *)
Restart == fds' = NoFiles /\ cwd' = AtRoot /\ tree' = tree

(* Create of a file that is empty already is an Open.                         *)
ChangesTree ==
  /\ tree' # tree
  /\ \/ \E p \in Procs, path \in Paths :
          Create(p, path) \/ Unlink(p, path) \/ MkDir(p, path) \/ RmDir(p, path)
     \/ \E p \in Procs, old, new \in Paths : Link(p, old, new)

Next ==
  \/ \E p \in Procs, fd \in Slots :
       \/ Close(p, fd) \/ Seek(p, fd) \/ InDir(p, fd)
       \/ \E n \in Sizes : Read(p, fd, n) \/ Write(p, fd, n)
  \/ \E p \in Procs, path \in Paths : Open(p, path) \/ ChDir(p, path)
  \/ ChangesTree
  \/ Restart

Spec == Init /\ [][Next]_vars
=============================================================================
