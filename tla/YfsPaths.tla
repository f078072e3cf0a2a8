------------------------------ MODULE YfsPaths ------------------------------
(* Path names as what they are, text.  YfsFiles has them as sequences of      *)
(* names; here yfs.c looks for slashes and compares characters, on the texts  *)
(* a process may send, in file systems made by creating what they name.       *)
EXTENDS YfsHandlers

CONSTANTS
  Chars,                \* what names are spelled with: "." is one of them
  Spelling,             \* the characters of each name a directory entry can have
  DIRNAMELEN,
  MAXPATHNAMELEN,
  NUL

ASSUME PathsAssumption ==
  /\ DIRNAMELEN \in Nat /\ DIRNAMELEN >= 2 /\ MAXPATHNAMELEN \in Nat
  /\ NUL \notin Chars /\ "/" \notin Chars
  /\ DOMAIN Spelling = Names \cup {"", ".", ".."}
  /\ Range(Spelling) = UNION {[1 .. n -> Chars] : n \in 0 .. DIRNAMELEN}

VARIABLES fs, cur, text
vars == <<fs, cur, text>>

-----------------------------------------------------------------------------
(* Texts *)

CharAt(t, k) == IF k <= Len(t) THEN t[k] ELSE NUL

(* What is left from the first position on that is not in S.                  *)
From(t, S) == LET rest == {k \in 1 .. Len(t) : k \notin S}
              IN  IF rest = {} THEN << >> ELSE SubSeq(t, Min(rest), Len(t))
Leading(t, C) == {k \in 1 .. Len(t) : \A j \in 1 .. k : t[j] \in C}

(* The loop of handle_open, handle_stat, update_path_i and get_super_dir;     *)
(* adj_path_i, for handle_link, takes one slash away.                         *)
Stripped(t) == From(t, Leading(t, {"/"}))
AdjPath(t) == IF CharAt(t, 1) = "/" THEN Tail(t) ELSE t
StartOf(t, i) == IF CharAt(t, 1) = "/" THEN ROOTINODE ELSE i

(* Fault: one slash is all there is between two parts.                        *)
NextPartOne(t) == LET rest == From(t, Leading(t, Chars))
                  IN  IF rest = << >> THEN rest ELSE Tail(rest)

(* get_next_path_part                                                         *)
NextPart(t) == Stripped(From(t, Leading(t, Chars)))

(* Fault: a name is compared to its end.                                      *)
IsNameWhole(t, name) ==
  LET part == SubSeq(t, 1, Cardinality(Leading(t, Chars)))
  IN  part = Spelling[name]

(* The comparison in get_dir_entry.  It ends where the part of the path and   *)
(* the name both do, at a difference, or after DIRNAMELEN characters.         *)
IsName(t, name) ==
  LET Ends(k) == CharAt(t, k) \in {"/", NUL} /\ CharAt(Spelling[name], k) = NUL
      Differs(k) == CharAt(t, k) # CharAt(Spelling[name], k)
  IN  \A k \in 1 .. DIRNAMELEN : Differs(k) => \E j \in 1 .. k : Ends(j)

(* The first entry of directory i for which get_dir_entry stops.              *)
EntriesNamed(i, t) == {k \in Places(fs, i) : IsName(t, CellAt(fs, i, k).name)}
InumOf(i, t) ==
  IF EntriesNamed(i, t) = {} THEN 0 ELSE CellAt(fs, i, Min(EntriesNamed(i, t))).inum

(* get_path_i_num: one part, and the rest from where it leads.                *)
GetPathINum[t \in Seq(Chars \cup {"/"}), i \in Inodes] ==
  IF ~IsDir(fs, i) THEN 0
  ELSE IF NextPart(t) = << >> THEN InumOf(i, t)
  ELSE GetPathINum[NextPart(t), InumOf(i, t)]

(* Fault: the first slash is taken for the last.                              *)
LastSlashFirst(t) == LET slashes == {k \in 1 .. Len(t) : t[k] = "/"}
                     IN  IF slashes = {} THEN 0 ELSE Min(slashes)

LastSlash(t) == LET slashes == {k \in 1 .. Len(t) : t[k] = "/"}
                IN  IF slashes = {} THEN 0 ELSE Max(slashes)

(* get_super_dir: the directory, and the text it finds the file name in.      *)
GetSuperDir(t, i) ==
  LET rest == Stripped(t)
      d == GetPathINum[SubSeq(rest, 1, LastSlash(rest) - 1), StartOf(t, i)]
  IN  IF LastSlash(rest) = 0 THEN StartOf(t, i) ELSE IF d = 0 THEN ERROR ELSE d
FilePart(t) == LET rest == Stripped(t) IN SubSeq(rest, LastSlash(rest) + 1, Len(rest))

(* get_path_len, with which the library turns texts down, and                 *)
(* isPathnameValid, which handle_create asks.                                 *)
Sendable(t) == t # << >> /\ Len(t) < MAXPATHNAMELEN
IsPathnameValid(t) == Len(t) < MAXPATHNAMELEN /\ CharAt(t, Len(t)) # "/"

-----------------------------------------------------------------------------
(* What a text means: the names between slashes, each for its first           *)
(* DIRNAMELEN characters.  Slashes at the end are nothing when a file is      *)
(* looked up, and are followed by the empty name when one is made.            *)

Cut(chars) == SubSeq(chars, 1, Min({Len(chars), DIRNAMELEN}))
NameOf(chars) == CHOOSE name \in DOMAIN Spelling :
                   Spelling[name] = Cut(chars)

PathOf(t) ==
  LET In(k) == k \in 1 .. Len(t) /\ t[k] # "/"
      firsts == SetToSortSeq({k \in 1 .. Len(t) : In(k) /\ ~In(k - 1)}, <)
      lasts  == SetToSortSeq({k \in 1 .. Len(t) : In(k) /\ ~In(k + 1)}, <)
  IN  [abs   |-> CharAt(t, 1) = "/",
       parts |-> [n \in DOMAIN firsts |-> NameOf(SubSeq(t, firsts[n], lasts[n]))]]

PathTo(t) ==
  LET path == PathOf(t)
  IN  IF CharAt(t, Len(t)) = "/" /\ path.parts # << >>
      THEN [path EXCEPT !.parts = Append(@, "")] ELSE path

-----------------------------------------------------------------------------
(* A process types a path name and uses it.                                   *)

Init == fs = Boot(MkYfs) /\ cur = ROOTINODE /\ text = << >>

Type(c) == Len(text) < MAXPATHNAMELEN /\ text' = Append(text, c) /\ UNCHANGED <<fs, cur>>

(* Only files are created and unlinked, the first while there are inodes and  *)
(* the second when they exist.                                                *)
FreeInode == fs.i_head # << >>
Target == Resolve(fs, PathTo(text), cur)

Create ==
  /\ Sendable(text) /\ FreeInode /\ ~IsDir(fs, Target)
  /\ IsPathnameValid(text)
  /\ fs' = CreateFile(fs, PathTo(text), cur, ERROR).fs
  /\ text' = << >> /\ UNCHANGED cur

(* handle_mkdir copies a name that is too long over the next entries, and it  *)
(* does not test whether there is a directory: these are left out.            *)
MkDir ==
  /\ Sendable(text) /\ FreeInode
  /\ Len(FilePart(text)) <= DIRNAMELEN
  /\ SuperDir(fs, PathTo(text), cur) # ERROR
  /\ IsDir(fs, SuperDir(fs, PathTo(text), cur))
  /\ fs' = MakeDir(fs, PathTo(text), cur).fs
  /\ text' = << >> /\ UNCHANGED cur

Unlink ==
  /\ Sendable(text) /\ Target # 0 /\ ~IsDir(fs, Target)
  /\ fs' = UnlinkFile(fs, PathTo(text), cur).fs
  /\ text' = << >> /\ UNCHANGED cur

ChDir ==
  /\ Sendable(text)
  /\ LET i == LookUp(fs, PathOf(text), cur) IN cur' = IF i = ERROR THEN cur ELSE i
  /\ text' = << >> /\ UNCHANGED fs

(* The library turns down what is too long.                                   *)
Refused == text # << >> /\ ~Sendable(text) /\ text' = << >> /\ UNCHANGED <<fs, cur>>

Next == (\E c \in Chars \cup {"/"} : Type(c)) \/ Create \/ MkDir \/ Unlink \/ ChDir \/ Refused

Spec == Init /\ [][Next]_vars

-----------------------------------------------------------------------------
(* Properties *)

(* The server finds in the text what the text means: repeated slashes, a      *)
(* slash at the end, dots and long names make no difference.  (To handle_link *)
(* two slashes at the beginning do.)                                          *)
LookUpAgrees ==
  LET found == Resolve(fs, PathOf(text), cur)
  IN  Sendable(text) =>
        /\ GetPathINum[Stripped(text), StartOf(text, cur)] = found
        /\ CharAt(text, 2) # "/" => GetPathINum[AdjPath(text), StartOf(text, cur)] = found

(* Nor for the directory and the name of what is made or removed, and the     *)
(* entry of that name is the one get_dir_entry stops at.                      *)
ParentAgrees ==
  Sendable(text) =>
    LET d == GetSuperDir(text, cur)
        name == FileName(PathTo(text))
    IN  /\ d = SuperDir(fs, PathTo(text), cur)
        /\ Spelling[name] = Cut(FilePart(text))
        /\ d # ERROR => EntriesNamed(d, FilePart(text)) = Matching(fs, d, name)

(* The same text that a file was created with leads to it afterwards, also    *)
(* when the directory could only hold the beginning of its name.              *)
CreatedIsFound ==
  [][LET made == CreateFile(fs, PathTo(text), cur, ERROR)
     IN  Create /\ made.ret > 0 =>
           \A t \in {Stripped(text)}, i \in {StartOf(text, cur)} : GetPathINum'[t, i] = made.ret
    ]_vars
=============================================================================
