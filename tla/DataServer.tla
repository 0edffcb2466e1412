----------------------------- MODULE DataServer -----------------------------
(***************************************************************************)
(* The data server of a dnode (src/src/dnode/data_server.cpp): a thread    *)
(* accepts connections and starts a thread for each of them, which reads   *)
(* one request, sends one chunk of one file or a refusal, and ends.        *)
(*                                                                         *)
(* All threads of the process, the RPC thread among them, share one table  *)
(* of descriptors.  A descriptor is a number: accept, open and socket give *)
(* out the lowest one that is free, and close frees whatever has the       *)
(* number by then.  After a refusal the number is closed twice.            *)
(*                                                                         *)
(* A requester makes one connection, and the thread that serves it has its *)
(* name.  Its chunk is ChunkLen pieces, as send and recv cut it; <<c, k>>  *)
(* is the k-th piece of the chunk that c asked for.                        *)
(***************************************************************************)
EXTENDS Naturals, Sequences, FiniteSets

CONSTANTS
  Requesters,  \* the connections, and the threads that serve them
  None,        \* no requester, no descriptor, nothing
  Junk,        \* bytes of no chunk, a request of nobody
  RpcThread,   \* the other thread that opens and closes descriptors
  NumFds,      \* the descriptors left when the servers listen
  ChunkLen,    \* the length of a chunk, in pieces
  ResLen,      \* the length of a file_data_res_struct, in pieces
  Refused,     \* the requesters whose chunk is not there
  MayVanish,   \* the requesters that may die
  MayNotStart, \* those whose thread pthread_create may fail to start: none of
               \* the threads is joined or detached
  MaxOpens     \* bound: descriptors the RPC thread opens

Fds == 0 .. NumFds - 1

\* The names are distinct, and the number of a descriptor is not one of them.
ASSUME RequestersAssumption ==
  /\ IsFiniteSet(Requesters)
  /\ None \notin Requesters /\ Junk \notin Requesters \cup {None}
  /\ RpcThread \notin Requesters \cup {None, Junk}
  /\ "refusal" \notin Requesters
  /\ None \notin Fds
\* A chunk and a refusal are not empty.
ASSUME LengthsAssumption ==
  /\ NumFds \in Nat /\ MaxOpens \in Nat
  /\ ChunkLen \in Nat \ {0} /\ ResLen \in Nat \ {0}

VARIABLES
  process,        \* is the dnode's process "up" or "down"?
  backlog,        \* connections that are not accepted yet, oldest first
  fd_table,       \* descriptor -> what it stands for
  thread_args,    \* thread_args->sockfd of each thread
  pc,             \* where each thread stands
  file_data_req,  \* whose request each thread has read
  read_fd,        \* its descriptor of the file
  chunk_data,     \* whose chunk it has read
  bytes_sent,     \* how much of it is sent
  requester,      \* where each requester stands
  request,        \* has its request arrived, and nobody read it?
  received,       \* what it was sent
  rpc_fd,         \* the descriptor the RPC thread works with
  rpc_opens,      \* how many it has opened
  harmed          \* history: has a thread closed what is not its own?

rpcVars == <<rpc_fd, rpc_opens>>
threadVars == <<pc, file_data_req, read_fd, chunk_data, bytes_sent>>
serverVars == <<process, backlog, thread_args>>
requesterVars == <<requester, request, received>>
vars == <<serverVars, fd_table, threadVars, requesterVars, rpcVars, harmed>>

\* What a descriptor stands for: a connection, named after its requester, a
\* file a thread has opened, positioned at somebody's chunk, or what the RPC
\* thread uses.  The owner is who has to close it.
Free == [kind |-> "free", owner |-> None, chunk |-> None]
Conn(c) == [kind |-> "conn", owner |-> c, chunk |-> None]
File(t, c) == [kind |-> "file", owner |-> t, chunk |-> c]
OfRpc == [kind |-> "rpc", owner |-> RpcThread, chunk |-> None]

Init ==
  /\ process = "up" /\ backlog = <<>>
  /\ fd_table = [f \in Fds |-> Free]
  /\ thread_args = [t \in Requesters |-> None]
  /\ pc = [t \in Requesters |-> "none"]
  /\ file_data_req = [t \in Requesters |-> None]
  /\ read_fd = [t \in Requesters |-> None]
  /\ chunk_data = [t \in Requesters |-> None]
  /\ bytes_sent = [t \in Requesters |-> 0]
  /\ requester = [c \in Requesters |-> "off"]
  /\ request = [c \in Requesters |-> FALSE]
  /\ received = [c \in Requesters |-> <<>>]
  /\ rpc_fd = None /\ rpc_opens = 0
  /\ harmed = FALSE

-----------------------------------------------------------------------------
(* The table of descriptors.                                               *)

FreeFds == {f \in Fds : fd_table[f] = Free}
Full == FreeFds = {}

\* accept, open and socket take the lowest number.
Lowest(f) == f \in FreeFds /\ \A g \in FreeFds : f <= g
Open(f, object) ==
  /\ Lowest(f)
  /\ fd_table' = [fd_table EXCEPT ![f] = object]

\* close frees the number, whoever it belongs to; on a free one it only fails.
Close(t, f) ==
  /\ fd_table' = [fd_table EXCEPT ![f] = Free]
  /\ harmed' = (harmed \/ fd_table[f].owner \notin {t, None})

\* Everything is closed when the process ends.
Exit ==
  /\ process' = "down"
  /\ fd_table' = [f \in Fds |-> Free]

-----------------------------------------------------------------------------
(* Requesters: connect and send the request, receive, disconnect.  What    *)
(* they do after the process has ended is left out.                        *)

MoveRequester(c, from, to) ==
  /\ process = "up" /\ requester[c] = from
  /\ requester' = [requester EXCEPT ![c] = to]

Ask(c) ==
  /\ MoveRequester(c, "off", "asked")
  /\ backlog' = Append(backlog, c)
  /\ request' = [request EXCEPT ![c] = TRUE]
  /\ UNCHANGED <<process, thread_args, fd_table, threadVars, received, rpcVars,
                 harmed>>

\* recv_full has got as many bytes as were asked for, whatever they are.
RecvDone(c) ==
  /\ MoveRequester(c, "asked", "done")
  /\ Len(received[c]) >= ChunkLen
  /\ UNCHANGED <<serverVars, fd_table, threadVars, request, received, rpcVars,
                 harmed>>

\* The server closes c's connection too early: recv_full fails or does not
\* return.
RecvCut(c) ==
  /\ MoveRequester(c, "asked", "cut")
  /\ Len(received[c]) < ChunkLen
  /\ \A i \in DOMAIN backlog : backlog[i] # c
  /\ \A f \in Fds : fd_table[f] # Conn(c)
  /\ UNCHANGED <<serverVars, fd_table, threadVars, request, received, rpcVars,
                 harmed>>

\* A requester dies, perhaps before its request is on its way.
Vanish(c) ==
  /\ c \in MayVanish
  /\ MoveRequester(c, "asked", "gone")
  /\ \E sent \in {FALSE, request[c]} : request' = [request EXCEPT ![c] = sent]
  /\ UNCHANGED <<serverVars, fd_table, threadVars, received, rpcVars, harmed>>

-----------------------------------------------------------------------------
(* The accepting thread: handle_data_server.                               *)

SharedArgs(c, f) ==       \* mutant: one dt_thread_args_struct for all threads
  [t \in Requesters |-> IF t = c \/ pc[t] # "none" THEN f ELSE None]
NewArgs(c, f) == [thread_args EXCEPT ![c] = f]

\* Every thread gets arguments of its own.  A thread that cannot be started
\* leaves its connection open, and nobody serves it.
Accept(f) ==
  /\ process = "up" /\ backlog # <<>>
  /\ LET c == Head(backlog) IN
       /\ Open(f, Conn(c))
       /\ thread_args' = NewArgs(c, f)
       /\ \/ pc' = [pc EXCEPT ![c] = "recv"]
          \/ c \in MayNotStart /\ pc' = [pc EXCEPT ![c] = "unserved"]
  /\ backlog' = Tail(backlog)
  /\ UNCHANGED <<process, file_data_req, read_fd, chunk_data, bytes_sent,
                 requesterVars, rpcVars, harmed>>

\* With no descriptor left accept fails, and the process exits.
AcceptFails ==
  /\ process = "up" /\ backlog # <<>> /\ Full
  /\ Exit
  /\ UNCHANGED <<backlog, thread_args, threadVars, requesterVars,
                 rpcVars, harmed>>

-----------------------------------------------------------------------------
(* A thread: socket_handler_threaded and handle_data_transfer.             *)

SockFd(t) == thread_args[t]
Sock(t) == fd_table[SockFd(t)]

Goto(t, from, to) ==
  /\ process = "up" /\ pc[t] = from
  /\ pc' = [pc EXCEPT ![t] = to]

\* The request is there, and received.
TakeRequest(t) ==
  /\ Goto(t, "recv", "check")
  /\ Sock(t).kind = "conn" /\ request[Sock(t).owner]
  /\ request' = [request EXCEPT ![Sock(t).owner] = FALSE]
  /\ file_data_req' = [file_data_req EXCEPT ![t] = Sock(t).owner]
  /\ UNCHANGED <<serverVars, fd_table, read_fd, chunk_data, bytes_sent,
                 requester, received, rpcVars, harmed>>

Left(c) == requester[c] \in {"done", "cut", "gone"}

\* The requester has left without a request: recv_full does not return.
SpinForRequest(t) ==
  /\ Goto(t, "recv", "spin")
  /\ Sock(t).kind = "conn" /\ ~request[Sock(t).owner]
  /\ Left(Sock(t).owner)
  /\ UNCHANGED <<serverVars, fd_table, file_data_req, read_fd, chunk_data,
                 bytes_sent, requesterVars, rpcVars, harmed>>

\* The descriptor is no connection any more: recv_full fails, nobody looks, and
\* the request is what an earlier one has left on the stack, or nonsense.
RecvFails(t) ==
  /\ Goto(t, "recv", "check")
  /\ Sock(t).kind # "conn"
  /\ \E r \in Requesters \cup {Junk} :
       file_data_req' = [file_data_req EXCEPT ![t] = r]
  /\ UNCHANGED <<serverVars, fd_table, read_fd, chunk_data, bytes_sent,
                 requesterVars, rpcVars, harmed>>

\* Bytes that t sends on its descriptor arrive where the number leads.  What is
\* sent to a requester that has left is lost.
Deliver(t, bytes) ==
  LET c == Sock(t).owner IN
    received' = IF Sock(t).kind = "conn" /\ ~Left(c)
                THEN [received EXCEPT ![c] = @ \o bytes]
                ELSE received

RefusalBytes == [k \in 1 .. ResLen |-> <<"refusal", k>>]

CloseSock(t) == Close(t, SockFd(t))

\* The file is too short for the chunk, does not exist, or cannot be opened:
\* handle_data_transfer answers so, and closes the connection ...
Refuse(t) ==
  /\ Goto(t, "check", "close")
  /\ file_data_req[t] \in Refused \cup {Junk} \/ Full
  /\ Deliver(t, RefusalBytes)
  /\ CloseSock(t)
  /\ UNCHANGED <<serverVars, file_data_req, read_fd, chunk_data, bytes_sent,
                 requester, request, rpcVars>>

\* ... and its caller does so in every case.
CloseConn(t) ==
  /\ Goto(t, "close", "exit")
  /\ CloseSock(t)
  /\ UNCHANGED <<serverVars, file_data_req, read_fd, chunk_data, bytes_sent,
                 requesterVars, rpcVars>>

OpenFile(t, f) ==
  /\ Goto(t, "check", "read")
  /\ file_data_req[t] \notin Refused \cup {Junk}
  /\ Open(f, File(t, file_data_req[t]))
  /\ read_fd' = [read_fd EXCEPT ![t] = f]
  /\ UNCHANGED <<serverVars, file_data_req, chunk_data, bytes_sent,
                 requesterVars, rpcVars, harmed>>

\* lseek and fread_full.  A file that somebody has read from is not where it was
\* positioned; from anything that is no file, nothing is read and the buffer
\* stays as malloc gave it.  From a connection nothing ever comes, or only the
\* request that is waiting there, and fread_full does not return.
ReadChunk(t) ==
  LET f == read_fd[t]
      kind == fd_table[f].kind
      c == fd_table[f].owner
  IN
    /\ Goto(t, "read", IF kind = "conn" THEN "spin" ELSE "send")
    /\ chunk_data' =
         [chunk_data EXCEPT ![t] = IF kind = "file" THEN fd_table[f].chunk
                                   ELSE IF kind = "conn" THEN @ ELSE Junk]
    /\ fd_table' = IF kind = "file" THEN [fd_table EXCEPT ![f] = File(c, Junk)]
                                    ELSE fd_table
    /\ request' = IF kind = "conn" THEN [request EXCEPT ![c] = FALSE]
                                   ELSE request
    /\ UNCHANGED <<serverVars, file_data_req, read_fd, bytes_sent, requester,
                   received, rpcVars, harmed>>

RestartedPiece(t) ==      \* mutant: send_full sends the buffer's beginning again
  <<chunk_data[t], 1>>
Piece(t) == <<chunk_data[t], bytes_sent[t] + 1>>

UnsentOrLast(t) ==        \* mutant: one pass too many
  bytes_sent[t] <= ChunkLen
Unsent(t) == bytes_sent[t] < ChunkLen

\* One pass of send_full.
SendPiece(t) ==
  /\ Goto(t, "send", "send")
  /\ Unsent(t) /\ Sock(t).kind \in {"conn", "rpc"}
  /\ Deliver(t, <<Piece(t)>>)
  /\ bytes_sent' = [bytes_sent EXCEPT ![t] = @ + 1]
  /\ UNCHANGED <<serverVars, fd_table, file_data_req, read_fd, chunk_data,
                 requester, request, rpcVars, harmed>>

\* A send to a requester that has left fails, as it does on what is no
\* connection; nobody looks.
SendFails(t) ==
  \/ Sock(t).kind \in {"free", "file"}
  \/ Sock(t).kind = "conn" /\ Left(Sock(t).owner)

\* Or, if it is not the first one, it raises SIGPIPE, and the process ends.
SendKills(t) ==
  /\ process = "up" /\ pc[t] = "send"
  /\ Unsent(t) /\ bytes_sent[t] > 0
  /\ Sock(t).kind = "conn" /\ Left(Sock(t).owner)
  /\ Exit
  /\ UNCHANGED <<backlog, thread_args, threadVars, requesterVars, rpcVars,
                 harmed>>

FileLeftOpen(t) ==        \* mutant: no close(read_fd)
  UNCHANGED <<fd_table, harmed>>
SockInstead(t) ==         \* mutant: close(peer_sockfd) for close(read_fd)
  Close(t, SockFd(t))
CloseReadFd(t) == Close(t, read_fd[t])

CloseFile(t) ==
  /\ Goto(t, "send", "close")
  /\ ~Unsent(t) \/ SendFails(t)
  /\ CloseReadFd(t)
  /\ UNCHANGED <<serverVars, file_data_req, read_fd, chunk_data, bytes_sent,
                 requesterVars, rpcVars>>

ThreadStep(t) ==
  \/ TakeRequest(t) \/ SpinForRequest(t) \/ RecvFails(t)
  \/ Refuse(t) \/ CloseConn(t)
  \/ \E f \in Fds : OpenFile(t, f)
  \/ ReadChunk(t)
  \/ SendPiece(t) \/ SendKills(t) \/ CloseFile(t)

-----------------------------------------------------------------------------
(* The RPC thread, as far as it opens and closes descriptors.              *)

RpcOpen(f) ==
  /\ process = "up" /\ rpc_fd = None /\ rpc_opens < MaxOpens
  /\ Open(f, OfRpc)
  /\ rpc_fd' = f /\ rpc_opens' = rpc_opens + 1
  /\ UNCHANGED <<serverVars, threadVars, requesterVars, harmed>>

\* connect_to_server fails: the socket is not closed, and its number is lost.
ConnectFails(f) ==
  /\ process = "up" /\ rpc_fd = None /\ rpc_opens < MaxOpens
  /\ Open(f, OfRpc)
  /\ rpc_opens' = rpc_opens + 1
  /\ UNCHANGED <<serverVars, threadVars, requesterVars, rpc_fd, harmed>>

\* What it writes goes where the number leads: to its file or socket, or to a
\* requester.
RpcWrite ==
  /\ process = "up" /\ rpc_fd # None
  /\ fd_table[rpc_fd].kind = "conn"
  /\ LET c == fd_table[rpc_fd].owner IN
       /\ requester[c] = "asked" /\ Len(received[c]) < ChunkLen
       /\ received' = [received EXCEPT ![c] = Append(@, <<Junk, Len(@) + 1>>)]
  /\ UNCHANGED <<serverVars, fd_table, threadVars, requester, request, rpcVars,
                 harmed>>

RpcClose ==
  /\ process = "up" /\ rpc_fd # None
  /\ Close(RpcThread, rpc_fd)
  /\ rpc_fd' = None
  /\ UNCHANGED <<serverVars, threadVars, requesterVars, rpc_opens>>

-----------------------------------------------------------------------------
(* The specification.                                                      *)

RequesterStep(c) == RecvDone(c) \/ RecvCut(c)
AcceptStep == (\E f \in Fds : Accept(f)) \/ AcceptFails

Next ==
  \/ AcceptStep
  \/ \E t \in Requesters : ThreadStep(t)
  \/ \E c \in Requesters : Ask(c) \/ RequesterStep(c) \/ Vanish(c)
  \/ \E f \in Fds : RpcOpen(f) \/ ConnectFails(f)
  \/ RpcWrite \/ RpcClose

Spec == Init /\ [][Next]_vars

\* The scheduler runs the threads, and a requester takes what it is sent.
\* Nobody need ask or die, and the RPC thread may keep what it has.
Fairness ==
  /\ WF_vars(AcceptStep)
  /\ \A t \in Requesters : WF_vars(ThreadStep(t)) /\ WF_vars(RequesterStep(t))

FairSpec == Spec /\ Fairness

-----------------------------------------------------------------------------
(* Safety.                                                                 *)

Objects ==
  {Free, OfRpc} \cup {Conn(c) : c \in Requesters}
    \cup {File(t, c) : t \in Requesters, c \in Requesters \cup {Junk}}

Bytes == (Requesters \cup {None, Junk, "refusal"}) \X Nat

\* Every variable keeps to its range; a number is given to a thread only for a
\* connection that was accepted (data_server.cpp:101-107, 134-153).
DataTypeOK ==
  /\ process \in {"up", "down"}
  /\ backlog \in Seq(Requesters)
  /\ fd_table \in [Fds -> Objects]
  /\ thread_args \in [Requesters -> Fds \cup {None}]
  /\ pc \in [Requesters -> {"none", "recv", "unserved", "check", "read",
                            "send", "close", "spin", "exit"}]
  /\ file_data_req \in [Requesters -> Requesters \cup {None, Junk}]
  /\ read_fd \in [Requesters -> Fds \cup {None}]
  /\ chunk_data \in [Requesters -> Requesters \cup {None, Junk}]
  /\ bytes_sent \in [Requesters -> 0 .. ChunkLen]
  /\ requester \in [Requesters -> {"off", "asked", "done", "cut", "gone"}]
  /\ request \in [Requesters -> BOOLEAN]
  /\ received \in [Requesters -> Seq(Bytes)]
  /\ rpc_fd \in Fds \cup {None} /\ rpc_opens \in 0 .. MaxOpens
  /\ harmed \in BOOLEAN
  /\ \A t \in Requesters : thread_args[t] = None <=> pc[t] = "none"

\* A thread that has ended, or is about to, without having opened a file has
\* refused its request.
HasRefused(t) ==
  pc[t] \in {"close", "exit"} /\ read_fd[t] = None

\* Somebody's descriptor is closed by somebody else only after a refusal: no
\* other sequence of opens and closes of any threads ends with a number in the
\* wrong hands (data_server.cpp:61, 79, 96, 106).
HarmNeedsRefusal == harmed => \E t \in Requesters : HasRefused(t)

\* A connection or a file is open only as long as a thread is there that will
\* close it, has failed to start, or waits for ever.
NothingLeftOpen ==
  \A f \in Fds : ~harmed /\ fd_table[f].kind \in {"conn", "file"} =>
    LET t == fd_table[f].owner IN
      /\ pc[t] \notin {"none", "exit"}
      /\ f = IF fd_table[f].kind = "conn" THEN SockFd(t) ELSE read_fd[t]

\* The threads that have a connection to close, and those that have a file.
UnderWay == {t \in Requesters : pc[t] \notin {"none", "exit"}}
Sending == {t \in Requesters : pc[t] \in {"read", "send"}}

\* The process ends only because a requester died in the middle of its chunk, or
\* because the transfers that are under way and the RPC thread have taken every
\* descriptor.
EndsForAReason ==
  process = "down" =>
    \/ harmed \/ \E c \in Requesters : requester[c] = "gone"
    \/ Cardinality(UnderWay) + Cardinality(Sending) + rpc_opens >= NumFds

\* However a transfer ends, it gives back what it has opened, and so the server
\* does not die of the number of transfers it has served: only of those it is
\* serving, of what the RPC thread leaks, or of a requester's death
\* (data_server.cpp:90, 96, 106, 134-151; net.cpp:104-108).
DescriptorsAccountedFor == NothingLeftOpen /\ EndsForAReason

\* Each requester has what DataService promises: pieces of its own chunk, in
\* their order, or a refusal, until a foreign descriptor is closed
\* (data_server.cpp:33-98; the comment at 86).
Stage == [c \in Requesters |-> IF requester[c] \in {"off", "asked", "done"}
                                THEN requester[c] ELSE "left"]

Service == INSTANCE DataService
             WITH stage <- Stage, answer <- received, Refusal <- RefusalBytes
ServiceSpec == Service!Spec

\* What is sent on a connection is a part of the chunk that was asked for on it,
\* or a refusal: "send the entire requested chunk" (data_server.cpp:86).
AnswersBelong ==
  \A c \in Requesters :
    received[c] = RefusalBytes \/ \A k \in DOMAIN received[c] : received[c][k] = <<c, k>>

-----------------------------------------------------------------------------
(* Liveness, under FairSpec.                                               *)

\* Who has asked gets the chunk, or is refused, or a foreign descriptor was closed:
\* no number of transfers at the same time keeps one of them from its end.  It
\* takes a descriptor for everybody, threads that start and requesters that do not
\* die (data_server.cpp:33-107, 134-153).
AskedAreServed ==
  \A c \in Requesters :
    requester[c] = "asked" ~> requester[c] = "done" \/ HasRefused(c) \/ harmed
=============================================================================
