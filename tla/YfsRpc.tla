------------------------------- MODULE YfsRpc -------------------------------
(* How a library call of iolib.c travels to the server of yfs.c and back: the *)
(* process is blocked in Send, the server takes requests one by one, each     *)
(* from Receive to Reply.  Yfs has every call as one step; here the requests  *)
(* of other processes come in between.                                        *)
(*                                                                             *)
(* Send, Receive and Reply are the kernel's.  It holds the requests of blocked *)
(* processes and lets Receive take any of them.  Send fails when there is no  *)
(* server, also when it goes away while the process waits.                    *)
EXTENDS Yfs

CONSTANT Requests       \* what processes ask for: records with an operation op

ASSUME RequestsAssumption ==
  \A m \in Requests :
    CASE m.op \in {"OPEN", "CREATE", "UNLINK", "MKDIR", "RMDIR", "CHDIR", "STAT"} -> m.path \in Paths
      [] m.op = "LINK" -> m.path \in Paths /\ m.new \in Paths
      [] m.op \in {"READ", "WRITE"} -> m.fd \in Slots /\ m.size \in Sizes
      [] m.op = "SEEK" -> /\ m.fd \in Slots /\ m.offset \in Offsets
                          /\ m.whence \in {"SEEK_SET", "SEEK_CUR", "SEEK_END"}
      [] OTHER -> m.op \in {"SYNC", "SHUTDOWN"}

VARIABLES
  request,              \* the message each process is blocked on, or NULL
  answer,               \* what its Send has come back with, if it has: <<code>>
  at,                   \* where the main loop is: receive, handle, reply or exit
  client,               \* whose request it serves, or NULL
  ret                   \* its answer

server == <<at, client, ret>>
rpc == <<request, answer, server>>
all == <<fs, fds, cwd, rpc>>

Waiting(p) == request[p] # NULL /\ answer[p] = << >>

(* The next state of the main loop.                                           *)
Loop(where, who, what) == at' = where /\ client' = who /\ ret' = what

RpcInit ==
  /\ Init
  /\ request = [p \in Procs |-> NULL]
  /\ answer = [p \in Procs |-> << >>]
  /\ at = "receive" /\ client = NULL /\ ret = 0

-----------------------------------------------------------------------------
(* The process *)

OnFile(m) == m.op \in {"READ", "WRITE", "SEEK"}

(* What the library tests before it sends anything.                           *)
Sendable(p, m) ==
  OnFile(m) => fds[p][m.fd] # NULL /\ (m.op = "SEEK" => fds[p][m.fd].i_num > 0)

(* The message has the inode and the position of the open file, or the        *)
(* current directory, as they are now.                                        *)
Send(p, m) ==
  /\ request[p] = NULL /\ Sendable(p, m)
  /\ request' = [request EXCEPT ![p] =
       [call |-> m, cur |-> cwd[p], file |-> IF OnFile(m) THEN fds[p][m.fd] ELSE NULL]]
  /\ UNCHANGED <<fs, fds, cwd, answer, server>>

(* What the answer r to the call m does to the open files and the current     *)
(* directory of a process.                                                    *)
FilesAfter(m, r, files) ==
  LET free == {fd \in Slots : files[fd] = NULL}
  IN  IF r = ERROR THEN files
      ELSE CASE m.op \in {"OPEN", "CREATE"} /\ free # {}
                  -> [files EXCEPT ![Min(free)] = [i_num |-> r, pos |-> 0]]
             [] m.op \in {"READ", "WRITE"} -> [files EXCEPT ![m.fd].pos = @ + r]
             [] m.op = "SEEK" -> [files EXCEPT ![m.fd].pos = r]
             [] OTHER -> files

CwdAfter(m, r, cur) == IF m.op = "CHDIR" /\ r # ERROR THEN r ELSE cur

Return(p) ==
  /\ answer[p] # << >>
  /\ fds' = [fds EXCEPT ![p] = FilesAfter(request[p].call, answer[p][1], @)]
  /\ cwd' = [cwd EXCEPT ![p] = CwdAfter(request[p].call, answer[p][1], @)]
  /\ request' = [request EXCEPT ![p] = NULL]
  /\ answer' = [answer EXCEPT ![p] = << >>]
  /\ UNCHANGED <<fs, server>>

(* Close asks nobody.                                                         *)
CloseFile(p, fd) == request[p] = NULL /\ Close(p, fd) /\ UNCHANGED rpc

-----------------------------------------------------------------------------
(* The server *)

Receive(p) ==
  /\ Up /\ at = "receive" /\ Waiting(p)
  /\ Loop("handle", p, 0)
  /\ UNCHANGED <<fs, fds, cwd, request, answer>>

Same(n) == [fs |-> fs, ret |-> n]

(* What the handlers may do with a message q.  The buffer of a read, a write  *)
(* or a Stat may be memory that the process does not have.                    *)
Results(q) ==
  LET m == q.call
      bogus == Kept("buffer", FALSE)    \* that memory is not ruled out
  IN  CASE m.op \in {"OPEN", "CHDIR"} -> {Same(LookUp(fs, m.path, q.cur))}
        [] m.op = "CREATE" -> {CreateFile(fs, m.path, q.cur, ERROR)}
        [] m.op = "READ"   -> LET n == ReadFile(fs, q.file.i_num, q.file.pos, m.size)
                              IN  {Same(n)} \cup IF bogus /\ n > 0 THEN {Same(ERROR)} ELSE {}
        [] m.op = "WRITE"  -> {WriteFile(fs, q.file.i_num, q.file.pos, m.size, valid) :
                                 valid \in (IF bogus THEN 0 ELSE m.size) .. m.size}
        [] m.op = "SEEK"   -> {Same(SeekFile(fs, q.file.i_num, m.offset, m.whence,
                                             q.file.pos))}
        [] m.op = "LINK"   -> {LinkFile(fs, m.path, m.new, q.cur)}
        [] m.op = "UNLINK" -> {UnlinkFile(fs, m.path, q.cur)}
        [] m.op = "MKDIR"  -> {MakeDir(fs, m.path, q.cur)}
        [] m.op = "RMDIR"  -> {RemoveDir(fs, m.path, q.cur)}
        [] m.op = "STAT"   -> IF LookUp(fs, m.path, q.cur) = ERROR THEN {Same(ERROR)}
                              ELSE {Same(0), Same(ERROR)}
        [] m.op = "SYNC"   -> {Same(0)}

Handle ==
  /\ Up /\ at = "handle"
  /\ request[client].call.op # "SHUTDOWN"
  /\ \E r \in Results(request[client]) : fs' = r.fs /\ Loop("reply", client, r.ret)
  /\ UNCHANGED <<fds, cwd, request, answer>>

(* Fault: the answer goes to a process that has asked, whichever.             *)
ReplyToAny ==
  /\ Up /\ at = "reply"
  /\ \E p \in Procs : Waiting(p) /\ answer' = [answer EXCEPT ![p] = <<ret>>]
  /\ Loop("receive", NULL, 0)
  /\ UNCHANGED <<fs, fds, cwd, request>>

(* Fault: errors are not answered.                                            *)
ReplyUnlessError ==
  /\ Up /\ at = "reply"
  /\ answer' = IF ret = ERROR THEN answer
               ELSE [answer EXCEPT ![client] = <<ret>>]
  /\ Loop("receive", NULL, 0)
  /\ UNCHANGED <<fs, fds, cwd, request>>

Reply ==
  /\ Up /\ at = "reply"
  /\ answer' = [answer EXCEPT ![client] = <<ret>>]
  /\ Loop("receive", NULL, 0)
  /\ UNCHANGED <<fs, fds, cwd, request>>

(* Fault: the handler saves everything and goes on.                           *)
ExitForgotten ==
  /\ Up
  /\ \/ at = "handle" /\ request[client].call.op = "SHUTDOWN"
     \/ at = "receive" /\ \A p \in Procs : request[p] = NULL
  /\ Loop("receive", NULL, 0)
  /\ UNCHANGED <<fs, fds, cwd, request, answer>>

(* handle_shutdown saves everything and exits: there is no reply.  It is      *)
(* called for the request, and when Receive fails, for want of processes that *)
(* could send anything.                                                       *)
Exit ==
  /\ Up
  /\ \/ at = "handle" /\ request[client].call.op = "SHUTDOWN"
     \/ at = "receive" /\ \A p \in Procs : request[p] = NULL
  /\ Loop("exit", NULL, 0)
  /\ UNCHANGED <<fs, fds, cwd, request, answer>>

(* The kernel's part of that.                                                 *)
SendFails(p) ==
  /\ at = "exit" /\ Waiting(p)
  /\ answer' = [answer EXCEPT ![p] = <<ERROR>>]
  /\ UNCHANGED <<fs, fds, cwd, request, server>>

-----------------------------------------------------------------------------

RpcNext ==
  \/ \E p \in Procs, m \in Requests : Send(p, m)
  \/ \E p \in Procs, fd \in Slots : CloseFile(p, fd)
  \/ \E p \in Procs : Return(p) \/ Receive(p) \/ SendFails(p)
  \/ Handle
  \/ Reply
  \/ Exit

(* The server goes on where it can, but no process needs to ask for anything, *)
(* and no Receive needs to fail.  Processes that wait are all taken in the    *)
(* end: Receive does not pass one of them over for ever.                      *)
Serve == Up /\ at \in {"handle", "reply"} /\ at' \in {"receive", "reply", "exit"} \ {at}

Fairness ==
  /\ WF_at(Serve)
  /\ \A p \in Procs : SF_at(Receive(p)) /\ WF_answer(Return(p)) /\ WF_answer(SendFails(p))

RpcSpec == RpcInit /\ [][RpcNext]_all /\ Fairness

-----------------------------------------------------------------------------
(* Properties *)

(* A call takes effect once, at one moment between Send and its return, for   *)
(* the caller as for the others: Yfs, where it is a single step, is what      *)
(* programs see.  An answer under way is seen as taken.                       *)
Result == [p \in Procs |-> IF at = "reply" /\ client = p THEN <<ret>> ELSE answer[p]]

Calls == INSTANCE Yfs WITH
  fds <- [p \in Procs |-> IF Result[p] = << >> THEN fds[p]
                          ELSE FilesAfter(request[p].call, Result[p][1], fds[p])],
  cwd <- [p \in Procs |-> IF Result[p] = << >> THEN cwd[p]
                          ELSE CwdAfter(request[p].call, Result[p][1], cwd[p])]

ImplementsCalls ==
  Calls!Init /\ [][UNCHANGED Calls!vars \/ Calls!Next]_Calls!vars

(* Every call returns: the main loop answers every request, also one that     *)
(* fails, and when it exits nobody stays blocked.                             *)
CallsReturn == \A p \in Procs : (request[p] # NULL) ~> (request[p] = NULL \/ fs.bad)

(* Shutdown, once asked for, is not put off for ever by other requests.       *)
ShutdownEnds ==
  (\E p \in Procs : request[p] # NULL /\ request[p].call.op = "SHUTDOWN")
    ~> (at = "exit" \/ fs.bad)
=============================================================================
