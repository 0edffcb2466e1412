-------------------------- MODULE DataServerProofs --------------------------
(***************************************************************************)
(* What DataServer guarantees for any number of requesters, descriptors    *)
(* and pieces of a chunk, and whoever dies or is refused.                  *)
(***************************************************************************)
EXTENDS DataServer, SequenceTheorems, FiniteSetTheorems,
        FunctionTheorems, TLAPS

-----------------------------------------------------------------------------
(* The inductive invariant.                                                *)

\* What a thread knows because of where it stands, harmed or not.
PlacesMatch ==
  \A t \in Requesters :
    /\ pc[t] = "check" => file_data_req[t] # None
    /\ pc[t] \in {"read", "send"} => read_fd[t] # None
    /\ pc[t] \in {"none", "recv", "unserved", "check"} => read_fd[t] = None

Typed == DataTypeOK /\ PlacesMatch

\* Who has asked is either waiting to be accepted, once, or has a thread.
BacklogWaits ==
  /\ \A i \in DOMAIN backlog :
       pc[backlog[i]] = "none" /\ requester[backlog[i]] # "off"
  /\ \A i, j \in DOMAIN backlog : backlog[i] = backlog[j] => i = j
  /\ \A t \in Requesters : requester[t] = "off" => pc[t] = "none"

\* The threads whose connection is open: all but those that have refused.
HoldsConn(t) ==
  \/ pc[t] \in {"recv", "unserved", "check", "read", "send", "spin"}
  \/ pc[t] = "close" /\ read_fd[t] # None

ConnHeld(t) == HoldsConn(t) => Sock(t) = Conn(t)

FileHeld(t) ==
  pc[t] \in {"read", "send"} =>
    /\ fd_table[read_fd[t]].kind = "file" /\ fd_table[read_fd[t]].owner = t
    /\ pc[t] = "read" => fd_table[read_fd[t]].chunk = t

\* What a thread works with is its own.
OwnWork(t) ==
  /\ pc[t] \in {"check", "read", "send"} => file_data_req[t] = t
  /\ pc[t] = "send" => chunk_data[t] = t

\* As long as nobody has closed what is not his, everybody has what he opened.
Owned ==
  process = "up" /\ ~harmed =>
    /\ \A t \in Requesters : ConnHeld(t) /\ FileHeld(t) /\ OwnWork(t)
    /\ rpc_fd # None => fd_table[rpc_fd] = OfRpc

\* The first n pieces of a chunk.
Prefix(t, n) == [k \in 1 .. n |-> <<t, k>>]

\* Until it starts to send, a thread has sent nothing; then a requester that is
\* still there has received as much as the thread has counted.
Received ==
  ~harmed => \A t \in Requesters :
    /\ pc[t] \in {"none", "recv", "unserved", "check", "read"} =>
         received[t] = <<>> /\ bytes_sent[t] = 0
    /\ pc[t] = "send" =>
         received[t] = Prefix(t, bytes_sent[t]) \/ Left(t)

DownIsFree == process = "down" => \A f \in Fds : fd_table[f] = Free

\* Whatever is open has an owner that will close it.
Accounted ==
  \A f \in Fds : ~harmed =>
    LET t == fd_table[f].owner IN
      /\ fd_table[f].kind = "conn" =>
           pc[t] \notin {"none", "exit"} /\ f = SockFd(t)
      /\ fd_table[f].kind = "file" =>
           pc[t] \in {"read", "send"} /\ f = read_fd[t]

\* A requester that is content has all its pieces, or a refusal; one that was cut
\* off has no connection.
Leaving ==
  ~harmed => \A t \in Requesters :
    /\ requester[t] = "done" =>
         /\ pc[t] \notin {"none", "recv", "unserved", "check", "read"}
         /\ pc[t] = "send" => bytes_sent[t] = ChunkLen
    /\ requester[t] = "cut" =>
         ~HoldsConn(t) /\ \A i \in DOMAIN backlog : backlog[i] # t

\* The RPC thread has no more descriptors than it has opened.
RpcFds == {f \in Fds : fd_table[f] = OfRpc}
RpcFdsCounted == Cardinality(RpcFds) <= rpc_opens

IInv ==
  /\ Typed /\ BacklogWaits
  /\ Owned /\ Received /\ Accounted /\ DownIsFree
  /\ HarmNeedsRefusal
  /\ Leaving /\ RpcFdsCounted /\ EndsForAReason

-----------------------------------------------------------------------------
(* Objects of the table.                                                   *)

\* Everything that is opened is an object.
LEMMA ObjectsExist ==
  /\ Free \in Objects /\ OfRpc \in Objects
  /\ \A c \in Requesters : Conn(c) \in Objects
  /\ \A t \in Requesters, c \in Requesters \cup {Junk} : File(t, c) \in Objects
BY DEF Objects

\* What the kind of an object says about the rest of it.
LEMMA ObjectKinds ==
  ASSUME NEW o \in Objects
  PROVE  /\ o.kind \in {"free", "conn", "file", "rpc"}
         /\ o.kind = "conn" => o.owner \in Requesters /\ o = Conn(o.owner)
         /\ o.kind = "file" =>
              o.owner \in Requesters /\ o.chunk \in Requesters \cup {Junk}
         /\ o.kind = "rpc" => o = OfRpc
         /\ o.kind = "free" => o = Free
BY DEF Objects, Free, OfRpc, Conn, File

\* Nobody owns what is free.
LEMMA FreeObject == Free.kind = "free" /\ Free.owner = None
BY DEF Free

-----------------------------------------------------------------------------
(* Types.                                                                  *)

\* Nothing is open and nobody has started.
LEMMA TypedInit == Init => Typed
<1> SUFFICES ASSUME Init PROVE Typed
  OBVIOUS
<1>1. backlog \in Seq(Requesters) /\ fd_table \in [Fds -> Objects]
  BY ObjectsExist DEF Init
<1>2. /\ bytes_sent \in [Requesters -> 0 .. ChunkLen] /\ rpc_opens \in 0 .. MaxOpens
      /\ received \in [Requesters -> Seq(Bytes)]
  BY LengthsAssumption, EmptySeq DEF Init
<1>3. QED
  BY <1>1, <1>2 DEF Init, Typed, DataTypeOK, PlacesMatch

\* What a connection that is accepted changes: its thread had not started.
AcceptEffect(c, f) ==
  /\ c = backlog[1] /\ pc[c] = "none" /\ requester[c] # "off"
  /\ backlog # <<>> /\ backlog' = Tail(backlog) /\ process = "up"
  /\ fd_table[f] = Free /\ fd_table' = [fd_table EXCEPT ![f] = Conn(c)]
  /\ thread_args' = [thread_args EXCEPT ![c] = f]
  /\ \/ pc' = [pc EXCEPT ![c] = "recv"]
     \/ pc' = [pc EXCEPT ![c] = "unserved"]
  /\ UNCHANGED <<process, file_data_req, read_fd, chunk_data, bytes_sent,
                 requester, request, received, rpc_fd, rpc_opens, harmed>>

\* The oldest connection of the backlog is the one that is accepted.
LEMMA AcceptChanges ==
  ASSUME Typed, BacklogWaits, NEW f \in Fds, Accept(f)
  PROVE  \E c \in Requesters : AcceptEffect(c, f)
<1> DEFINE c == Head(backlog)
<1>1. backlog \in Seq(Requesters) /\ backlog # <<>>
  BY DEF Typed, DataTypeOK, Accept
<1>2. c \in Requesters /\ c = backlog[1] /\ 1 \in DOMAIN backlog
  BY <1>1, EmptySeq, LenProperties, HeadTailProperties
<1>3. pc[c] = "none" /\ requester[c] # "off"
  BY <1>2 DEF BacklogWaits
<1>4. AcceptEffect(c, f)
  BY <1>1, <1>2, <1>3
  DEF AcceptEffect, Accept, Open, Lowest, FreeFds, NewArgs, rpcVars,
      requesterVars
<1>5. QED
  BY <1>2, <1>4

\* A refusal is a sequence of bytes, and is not empty.
LEMMA RefusalIsSeq ==
  /\ RefusalBytes \in Seq(Bytes) /\ Len(RefusalBytes) = ResLen
  /\ RefusalBytes # <<>> /\ RefusalBytes[1] = <<"refusal", 1>>
<1>1. \A k \in 1 .. ResLen : <<"refusal", k>> \in Bytes
  BY LengthsAssumption DEF Bytes
<1>2. RefusalBytes \in Seq(Bytes)
  BY <1>1, LengthsAssumption DEF RefusalBytes
<1>3. Len(RefusalBytes) = ResLen /\ RefusalBytes[1] = <<"refusal", 1>>
  BY <1>2, LengthsAssumption DEF RefusalBytes
<1>4. QED
  BY <1>2, <1>3, LengthsAssumption, EmptySeq

\* What is sent arrives at one requester, if at all.
LEMMA DeliverTyped ==
  ASSUME Typed, NEW t \in Requesters, pc[t] # "none",
         NEW bytes \in Seq(Bytes), Deliver(t, bytes)
  PROVE  received' \in [Requesters -> Seq(Bytes)]
<1>1. thread_args[t] \in Fds /\ received \in [Requesters -> Seq(Bytes)]
  BY DEF Typed, DataTypeOK
<1>2. CASE Sock(t).kind = "conn" /\ ~Left(Sock(t).owner)
  <2>1. Sock(t).owner \in Requesters
    BY <1>1, <1>2, ObjectKinds DEF Typed, DataTypeOK, Sock, SockFd
  <2>2. received[Sock(t).owner] \o bytes \in Seq(Bytes)
    BY <1>1, <2>1, ConcatProperties
  <2>3. QED
    BY <1>1, <1>2, <2>1, <2>2 DEF Deliver
<1>3. QED
  BY <1>1, <1>2 DEF Deliver

\* One step per action.
LEMMA TypedNext ==
  ASSUME Typed, BacklogWaits, [Next]_vars
  PROVE  Typed'
<1> USE RequestersAssumption, LengthsAssumption, ObjectsExist
    DEF Typed, DataTypeOK, PlacesMatch, Goto, MoveRequester, Close, Exit, Open,
        Sock, SockFd, rpcVars, threadVars, serverVars, requesterVars
<1>1. ASSUME NEW f \in Fds, Accept(f) PROVE Typed'
  <2>1. PICK c \in Requesters : AcceptEffect(c, f)
    BY <1>1, AcceptChanges
  <2>2. backlog' \in Seq(Requesters)
    BY <2>1, HeadTailProperties DEF AcceptEffect
  <2>3. UNCHANGED <<process, file_data_req, read_fd, chunk_data, bytes_sent,
                    requester, request, received, rpc_fd, rpc_opens, harmed>>
    BY <2>1 DEF AcceptEffect
  <2>4. /\ fd_table' \in [Fds -> Objects]
        /\ thread_args' \in [Requesters -> Fds \cup {None}]
    BY <2>1 DEF AcceptEffect
  <2>5. /\ pc' \in [Requesters -> {"none", "recv", "unserved", "check", "read",
                                   "send", "close", "spin", "exit"}]
        /\ \A t \in Requesters : thread_args'[t] = None <=> pc'[t] = "none"
    <3>1. thread_args'[c] # None /\ pc'[c] # "none"
      BY <2>1 DEF AcceptEffect
    <3>2. \A t \in Requesters \ {c} :
            thread_args'[t] = thread_args[t] /\ pc'[t] = pc[t]
      BY <2>1 DEF AcceptEffect
    <3>3. pc' \in [Requesters -> {"none", "recv", "unserved", "check", "read",
                                  "send", "close", "spin", "exit"}]
      BY <2>1 DEF AcceptEffect
    <3>4. QED
      BY <3>1, <3>2, <3>3
  <2>6. DataTypeOK'
    BY <2>2, <2>3, <2>4, <2>5
  <2>7. PlacesMatch'
    BY <2>1, <2>3 DEF AcceptEffect
  <2>8. QED
    BY <2>6, <2>7
<1>2. CASE AcceptFails
  BY <1>2 DEF AcceptFails
<1>3. ASSUME NEW t \in Requesters, TakeRequest(t) PROVE Typed'
  BY <1>3, ObjectKinds DEF TakeRequest
<1>4. ASSUME NEW t \in Requesters, SpinForRequest(t) PROVE Typed'
  BY <1>4 DEF SpinForRequest
<1>5. ASSUME NEW t \in Requesters, RecvFails(t) PROVE Typed'
  BY <1>5 DEF RecvFails
<1>6. ASSUME NEW t \in Requesters, Refuse(t) PROVE Typed'
  <2>1. RefusalBytes \in Seq(Bytes)
    BY RefusalIsSeq
  <2>2. received' \in [Requesters -> Seq(Bytes)]
    BY <1>6, <2>1, DeliverTyped DEF Refuse
  <2>3. QED
    BY <1>6, <2>2 DEF Refuse, CloseSock
<1>7. ASSUME NEW t \in Requesters, CloseConn(t) PROVE Typed'
  BY <1>7 DEF CloseConn, CloseSock
<1>8. ASSUME NEW t \in Requesters, NEW f \in Fds, OpenFile(t, f) PROVE Typed'
  BY <1>8 DEF OpenFile
<1>9. ASSUME NEW t \in Requesters, ReadChunk(t) PROVE Typed'
  BY <1>9, ObjectKinds DEF ReadChunk
<1>10. ASSUME NEW t \in Requesters, SendPiece(t) PROVE Typed'
  <2>1. bytes_sent'[t] \in 0 .. ChunkLen
    BY <1>10 DEF SendPiece, Unsent
  <2>2. <<Piece(t)>> \in Seq(Bytes)
    BY DEF Piece, Bytes
  <2>3. received' \in [Requesters -> Seq(Bytes)]
    BY <1>10, <2>2, DeliverTyped DEF SendPiece
  <2>4. QED
    BY <1>10, <2>1, <2>3 DEF SendPiece
<1>11. ASSUME NEW t \in Requesters, SendKills(t) PROVE Typed'
  BY <1>11 DEF SendKills
<1>12. ASSUME NEW t \in Requesters, CloseFile(t) PROVE Typed'
  BY <1>12 DEF CloseFile, CloseReadFd
<1>13. ASSUME NEW c \in Requesters, Ask(c) PROVE Typed'
  BY <1>13 DEF Ask
<1>14. ASSUME NEW c \in Requesters, RequesterStep(c) \/ Vanish(c) PROVE Typed'
  <2>1. CASE RecvDone(c)
    BY <2>1 DEF RecvDone
  <2>2. CASE RecvCut(c)
    BY <2>2 DEF RecvCut
  <2>3. CASE Vanish(c)
    <3>1. request' \in [Requesters -> BOOLEAN]
      BY <2>3 DEF Vanish
    <3>2. QED
      BY <2>3, <3>1 DEF Vanish
  <2>4. QED
    BY <1>14, <2>1, <2>2, <2>3 DEF RequesterStep
<1>15. ASSUME NEW f \in Fds, RpcOpen(f) \/ ConnectFails(f) PROVE Typed'
  <2>1. rpc_opens' \in 0 .. MaxOpens
    BY <1>15 DEF RpcOpen, ConnectFails
  <2>2. CASE RpcOpen(f)
    BY <2>1, <2>2 DEF RpcOpen
  <2>3. CASE ConnectFails(f)
    BY <2>1, <2>3 DEF ConnectFails
  <2>4. QED
    BY <1>15, <2>2, <2>3
<1>16. CASE RpcWrite \/ RpcClose
  <2>1. CASE RpcWrite
    <3>1. PICK c \in Requesters :
            received' = [received EXCEPT ![c] = Append(@, <<Junk, Len(@) + 1>>)]
      BY <2>1, ObjectKinds DEF RpcWrite
    <3>2. received[c] \in Seq(Bytes) /\ <<Junk, Len(received[c]) + 1>> \in Bytes
      BY LenProperties DEF Bytes
    <3>3. received' \in [Requesters -> Seq(Bytes)]
      BY <3>1, <3>2
    <3>4. QED
      BY <2>1, <3>3 DEF RpcWrite
  <2>2. CASE RpcClose
    BY <2>2 DEF RpcClose
  <2>3. QED
    BY <1>16, <2>1, <2>2
<1>17. CASE UNCHANGED vars
  BY <1>17 DEF vars
<1>18. QED
  BY <1>1, <1>2, <1>3, <1>4, <1>5, <1>6, <1>7, <1>8, <1>9, <1>10, <1>11, <1>12,
     <1>13, <1>14, <1>15, <1>16, <1>17 DEF Next, AcceptStep, ThreadStep

-----------------------------------------------------------------------------
(* Who waits to be accepted.                                               *)

\* A thread's step does not start or forget a thread, nor touch the backlog.
LEMMA ThreadStepStarts ==
  ASSUME Typed, NEW t \in Requesters, ThreadStep(t)
  PROVE  /\ UNCHANGED <<backlog, thread_args, requester>>
         /\ process = "up" /\ pc[t] # "none" /\ pc'[t] # "none"
         /\ \A u \in Requesters \ {t} : pc'[u] = pc[u]
<1> USE DEF Typed, DataTypeOK, Goto, serverVars, requesterVars, threadVars
<1>1. CASE TakeRequest(t) \/ SpinForRequest(t) \/ RecvFails(t)
  BY <1>1 DEF TakeRequest, SpinForRequest, RecvFails
<1>2. CASE Refuse(t) \/ CloseConn(t) \/ CloseFile(t)
  BY <1>2 DEF Refuse, CloseConn, CloseFile
<1>3. CASE \E f \in Fds : OpenFile(t, f)
  BY <1>3 DEF OpenFile
<1>4. CASE ReadChunk(t)
  BY <1>4 DEF ReadChunk
<1>5. CASE SendPiece(t)
  BY <1>5 DEF SendPiece
<1>6. CASE SendKills(t)
  <2>1. pc' = [pc EXCEPT ![t] = "send"]
    BY <1>6 DEF SendKills
  <2>2. QED
    BY <1>6, <2>1 DEF SendKills
<1>7. QED
  BY <1>1, <1>2, <1>3, <1>4, <1>5, <1>6 DEF ThreadStep

\* A connection waits once, and is accepted once.
LEMMA BacklogNext ==
  ASSUME Typed, BacklogWaits, [Next]_vars
  PROVE  BacklogWaits'
<1> USE DEF BacklogWaits
<1>1. backlog \in Seq(Requesters)
  BY DEF Typed, DataTypeOK
<1>2. \A i \in DOMAIN backlog : backlog[i] \in Requesters
  BY <1>1, ElementOfSeq, LenProperties
<1>3. ASSUME NEW f \in Fds, Accept(f) PROVE BacklogWaits'
  <2>1. PICK c \in Requesters : AcceptEffect(c, f)
    BY <1>3, AcceptChanges
  <2>2. \A i \in DOMAIN backlog' :
          i + 1 \in DOMAIN backlog /\ backlog'[i] = backlog[i + 1] /\ i \in Nat /\ i > 0
    BY <1>1, <2>1, HeadTailProperties, LenProperties DEF AcceptEffect
  <2>3. 1 \in DOMAIN backlog
    BY <1>1, <2>1, EmptySeq, LenProperties DEF AcceptEffect
  <2>4. \A i \in DOMAIN backlog' : backlog'[i] # c /\ backlog'[i] \in Requesters
    BY <1>2, <2>1, <2>2, <2>3 DEF AcceptEffect
  <2>5. QED
    BY <1>1, <2>1, <2>2, <2>4 DEF AcceptEffect, Typed, DataTypeOK
<1>4. ASSUME NEW t \in Requesters, ThreadStep(t) PROVE BacklogWaits'
  BY <1>1, <1>2, <1>4, ThreadStepStarts
<1>5. ASSUME NEW c \in Requesters, Ask(c) PROVE BacklogWaits'
  <2>1. /\ requester[c] = "off" /\ pc[c] = "none" /\ pc' = pc
        /\ requester' = [requester EXCEPT ![c] = "asked"]
        /\ backlog' = Append(backlog, c)
    BY <1>5 DEF Ask, MoveRequester, threadVars
  <2>2. Len(backlog') = Len(backlog) + 1 /\ Len(backlog) \in Nat
    BY <1>1, <2>1, LenProperties
  <2>3. DOMAIN backlog' = 1 .. Len(backlog) + 1 /\ DOMAIN backlog = 1 .. Len(backlog)
    BY <1>1, <2>1, <2>2, LenProperties
  <2>4. \A i \in DOMAIN backlog' :
          backlog'[i] = IF i \in DOMAIN backlog THEN backlog[i] ELSE c
    BY <1>1, <2>1, <2>2, <2>3
  <2>5. \A i \in DOMAIN backlog : backlog[i] # c
    BY <2>1
  <2>6. QED
    BY <1>2, <2>1, <2>2, <2>3, <2>4, <2>5 DEF Typed, DataTypeOK
<1>6. ASSUME NEW c \in Requesters, RequesterStep(c) \/ Vanish(c)
      PROVE  BacklogWaits'
  <2>1. /\ UNCHANGED <<backlog, pc>>
        /\ requester[c] = "asked"
        /\ requester'[c] # "off"
        /\ \A u \in Requesters \ {c} : requester'[u] = requester[u]
    BY <1>6 DEF RequesterStep, RecvDone, RecvCut, Vanish, MoveRequester,
                serverVars, threadVars, Typed, DataTypeOK
  <2>2. QED
    BY <1>2, <2>1
<1>7. CASE UNCHANGED <<backlog, pc, requester>>
  BY <1>7
<1>8. QED
  <2>1. AcceptFails => UNCHANGED <<backlog, pc, requester>>
    BY DEF AcceptFails, threadVars, requesterVars
  <2>2. \A f \in Fds : RpcOpen(f) \/ ConnectFails(f) =>
          UNCHANGED <<backlog, pc, requester>>
    BY DEF RpcOpen, ConnectFails, serverVars, threadVars, requesterVars
  <2>3. RpcWrite \/ RpcClose => UNCHANGED <<backlog, pc, requester>>
    BY DEF RpcWrite, RpcClose, serverVars, threadVars, requesterVars
  <2>4. UNCHANGED vars => UNCHANGED <<backlog, pc, requester>>
    BY DEF vars, serverVars, threadVars, requesterVars
  <2>5. QED
    BY <1>3, <1>4, <1>5, <1>6, <1>7, <2>1, <2>2, <2>3, <2>4 DEF Next, AcceptStep

-----------------------------------------------------------------------------
(* Everybody has what he opened.                                           *)

\* A step changes at most one descriptor, which is t's or free.
TableStep(t) ==
  \/ UNCHANGED fd_table
  \/ \E f \in Fds, o \in Objects :
       /\ fd_table[f].owner \in {t, None}
       /\ fd_table' = [fd_table EXCEPT ![f] = o]

LocalsKept(u) ==
  /\ pc'[u] = pc[u] /\ thread_args'[u] = thread_args[u]
  /\ read_fd'[u] = read_fd[u] /\ file_data_req'[u] = file_data_req[u]
  /\ chunk_data'[u] = chunk_data[u]

\* What t does to its own descriptors concerns no other thread.
LEMMA OthersKeepTheirs ==
  ASSUME Typed, Owned, process = "up", ~harmed, NEW t, TableStep(t),
         NEW u \in Requesters, u # t, LocalsKept(u)
  PROVE  ConnHeld(u)' /\ FileHeld(u)' /\ OwnWork(u)'
<1>1. ConnHeld(u) /\ FileHeld(u) /\ OwnWork(u)
  BY DEF Owned
<1>2. /\ HoldsConn(u) => thread_args[u] \in Fds
      /\ pc[u] \in {"read", "send"} => read_fd[u] \in Fds
  BY DEF Typed, DataTypeOK, PlacesMatch, HoldsConn
<1>3. \A f \in Fds : fd_table[f].owner = u => fd_table'[f] = fd_table[f]
  BY RequestersAssumption DEF Typed, DataTypeOK, TableStep
<1>4. ConnHeld(u)'
  BY <1>1, <1>2, <1>3 DEF LocalsKept, ConnHeld, HoldsConn, Sock, SockFd, Conn
<1>5. FileHeld(u)' /\ OwnWork(u)'
  BY <1>1, <1>2, <1>3 DEF LocalsKept, FileHeld, OwnWork
<1>6. QED
  BY <1>4, <1>5

\* What a thread does to its own descriptors does not concern the RPC thread.
LEMMA RpcKeepsIts ==
  ASSUME Typed, Owned, process = "up", ~harmed,
         NEW t \in Requesters, TableStep(t), UNCHANGED rpc_fd, rpc_fd # None
  PROVE  fd_table'[rpc_fd'] = OfRpc
<1>1. rpc_fd \in Fds /\ fd_table[rpc_fd] = OfRpc
  BY DEF Typed, DataTypeOK, Owned
<1>2. OfRpc.owner \notin {t, None}
  BY RequestersAssumption DEF OfRpc
<1>3. QED
  BY <1>1, <1>2 DEF TableStep, Typed, DataTypeOK

\* The descriptors of one thread differ.
LEMMA SockIsNotFile ==
  ASSUME NEW t \in Requesters, ConnHeld(t), FileHeld(t), pc[t] \in {"read", "send"}
  PROVE  thread_args[t] # read_fd[t]
BY DEF ConnHeld, HoldsConn, FileHeld, Sock, SockFd, Conn

\* What a thread knows of its own descriptors before its step.
LEMMA OwnBefore ==
  ASSUME Typed, Owned, process = "up", ~harmed, NEW t \in Requesters
  PROVE  /\ ConnHeld(t) /\ FileHeld(t) /\ OwnWork(t)
         /\ HoldsConn(t) => thread_args[t] \in Fds /\ Sock(t) = Conn(t)
         /\ pc[t] \in {"read", "send"} =>
              read_fd[t] \in Fds /\ thread_args[t] # read_fd[t]
<1>1. ConnHeld(t) /\ FileHeld(t) /\ OwnWork(t)
  BY DEF Owned
<1>2. HoldsConn(t) => thread_args[t] \in Fds
  BY DEF Typed, DataTypeOK, HoldsConn
<1>3. pc[t] \in {"read", "send"} => read_fd[t] \in Fds
  BY DEF Typed, DataTypeOK, PlacesMatch
<1>4. pc[t] \in {"read", "send"} => thread_args[t] # read_fd[t]
  BY <1>1, SockIsNotFile
<1>5. QED
  BY <1>1, <1>2, <1>3, <1>4 DEF ConnHeld

\* Once somebody has closed what is not his, that remains so.
LEMMA HarmStays == ASSUME Typed, [Next]_vars PROVE harmed => harmed'
<1> USE DEF Close, vars
<1>1. \A t \in Requesters : ThreadStep(t) => (harmed => harmed')
  BY DEF ThreadStep, TakeRequest, SpinForRequest, RecvFails, Refuse, CloseConn,
         OpenFile, ReadChunk, SendPiece, SendKills, CloseFile, CloseSock,
         CloseReadFd
<1>2. AcceptStep => (harmed => harmed')
  BY DEF AcceptStep, Accept, AcceptFails
<1>3. \A c \in Requesters : Ask(c) \/ RequesterStep(c) \/ Vanish(c)
                              => (harmed => harmed')
  BY DEF Ask, RequesterStep, RecvDone, RecvCut, Vanish
<1>4. \A f \in Fds : RpcOpen(f) \/ ConnectFails(f) => (harmed => harmed')
  BY DEF RpcOpen, ConnectFails
<1>5. RpcWrite \/ RpcClose => (harmed => harmed')
  BY DEF RpcWrite, RpcClose
<1>6. QED
  BY <1>1, <1>2, <1>3, <1>4, <1>5 DEF Next

\* A step of a thread that harms nobody changes its own things ...
LEMMA ThreadStepFrame ==
  ASSUME Typed, Owned, NEW t \in Requesters, ThreadStep(t), ~harmed, ~harmed'
  PROVE  /\ TableStep(t) \/ process' = "down"
         /\ UNCHANGED rpc_fd
         /\ \A u \in Requesters \ {t} : LocalsKept(u)
<1> USE DEF Typed, DataTypeOK, PlacesMatch, Goto, serverVars, requesterVars,
            threadVars, rpcVars, LocalsKept, TableStep
<1>1. process = "up"
  BY ThreadStepStarts
<1>2. CASE TakeRequest(t) \/ SpinForRequest(t) \/ RecvFails(t)
  BY <1>2 DEF TakeRequest, SpinForRequest, RecvFails
<1>3. CASE Refuse(t) \/ CloseConn(t)
  <2>1. thread_args[t] \in Fds
    BY <1>3 DEF Refuse, CloseConn
  <2>2. fd_table[thread_args[t]].owner \in {t, None}
    BY <1>3 DEF Refuse, CloseConn, CloseSock, Close, SockFd
  <2>3. fd_table' = [fd_table EXCEPT ![thread_args[t]] = Free]
    BY <1>3 DEF Refuse, CloseConn, CloseSock, Close, SockFd
  <2>4. QED
    BY <1>3, <2>1, <2>2, <2>3, ObjectsExist DEF Refuse, CloseConn
<1>4. ASSUME NEW f \in Fds, OpenFile(t, f) PROVE TableStep(t)
  <2>1. fd_table[f] = Free /\ pc[t] = "check"
        /\ fd_table' = [fd_table EXCEPT ![f] = File(t, file_data_req[t])]
    BY <1>4 DEF OpenFile, Open, Lowest, FreeFds
  <2>2. file_data_req[t] \in Requesters
    BY <1>4, <2>1 DEF OpenFile
  <2>3. QED
    BY <2>1, <2>2, ObjectsExist, FreeObject
<1>5. CASE \E f \in Fds : OpenFile(t, f)
  BY <1>4, <1>5 DEF OpenFile
<1>6. CASE ReadChunk(t)
  <2>1. read_fd[t] \in Fds /\ fd_table[read_fd[t]].kind = "file"
        /\ fd_table[read_fd[t]].owner = t
    BY <1>1, <1>6, OwnBefore DEF ReadChunk, FileHeld
  <2>2. fd_table' = [fd_table EXCEPT ![read_fd[t]] = File(t, Junk)]
    BY <1>6, <2>1 DEF ReadChunk
  <2>3. TableStep(t)
    BY <2>1, <2>2, ObjectsExist
  <2>4. rpc_fd' = rpc_fd /\ \A u \in Requesters \ {t} : LocalsKept(u)
    BY <1>6 DEF ReadChunk
  <2>5. QED
    BY <2>3, <2>4
<1>7. CASE SendPiece(t) \/ SendKills(t)
  BY <1>7 DEF SendPiece, SendKills, Exit
<1>8. CASE CloseFile(t)
  <2>1. read_fd[t] \in Fds
    BY <1>8 DEF CloseFile
  <2>2. fd_table[read_fd[t]].owner \in {t, None}
    BY <1>8 DEF CloseFile, CloseReadFd, Close
  <2>3. fd_table' = [fd_table EXCEPT ![read_fd[t]] = Free]
    BY <1>8 DEF CloseFile, CloseReadFd, Close
  <2>4. QED
    BY <1>8, <2>1, <2>2, <2>3, ObjectsExist DEF CloseFile
<1>9. QED
  BY <1>2, <1>3, <1>5, <1>6, <1>7, <1>8 DEF ThreadStep

\* ... and it keeps what it has to keep of them.
LEMMA ThreadStepOwn ==
  ASSUME Typed, Owned, NEW t \in Requesters, ThreadStep(t),
         process' = "up", ~harmed, ~harmed'
  PROVE  ConnHeld(t)' /\ FileHeld(t)' /\ OwnWork(t)'
<1> USE DEF Typed, DataTypeOK, PlacesMatch, Goto, serverVars,
            ConnHeld, HoldsConn, FileHeld, OwnWork, Sock, SockFd
<1>1. process = "up"
  BY ThreadStepStarts
<1>2. /\ ConnHeld(t) /\ FileHeld(t) /\ OwnWork(t)
      /\ HoldsConn(t) => thread_args[t] \in Fds /\ Sock(t) = Conn(t)
      /\ pc[t] \in {"read", "send"} =>
           read_fd[t] \in Fds /\ thread_args[t] # read_fd[t]
  BY <1>1, OwnBefore
<1>3. Conn(t).kind = "conn" /\ Conn(t).owner = t
  BY DEF Conn
<1>4. CASE TakeRequest(t)
  BY <1>2, <1>3, <1>4 DEF TakeRequest
<1>5. CASE SpinForRequest(t)
  BY <1>2, <1>5 DEF SpinForRequest
<1>6. CASE RecvFails(t)
  BY <1>2, <1>3, <1>6 DEF RecvFails
<1>7. CASE Refuse(t)
  BY <1>7 DEF Refuse
<1>8. CASE CloseConn(t)
  BY <1>8 DEF CloseConn
<1>9. ASSUME NEW f \in Fds, OpenFile(t, f)
      PROVE  ConnHeld(t)' /\ FileHeld(t)' /\ OwnWork(t)'
  <2>1. thread_args[t] # f
    BY <1>2, <1>3, <1>9 DEF OpenFile, Open, Lowest, FreeFds, Free
  <2>2. File(t, t).kind = "file" /\ File(t, t).owner = t /\ File(t, t).chunk = t
    BY DEF File
  <2>3. QED
    BY <1>2, <1>9, <2>1, <2>2 DEF OpenFile, Open
<1>10. CASE ReadChunk(t)
  <2>1. fd_table' = [fd_table EXCEPT ![read_fd[t]] = File(t, Junk)]
    BY <1>2, <1>10 DEF ReadChunk
  <2>2. File(t, Junk).kind = "file" /\ File(t, Junk).owner = t
    BY DEF File
  <2>3. chunk_data'[t] = t /\ pc'[t] = "send"
    BY <1>2, <1>10 DEF ReadChunk
  <2>4. QED
    BY <1>2, <1>10, <2>1, <2>2, <2>3 DEF ReadChunk
<1>11. CASE SendPiece(t)
  BY <1>2, <1>11 DEF SendPiece
<1>12. CASE SendKills(t)
  BY <1>12 DEF SendKills, Exit
<1>13. CASE CloseFile(t)
  BY <1>2, <1>13 DEF CloseFile, CloseReadFd, Close
<1>14. QED
  BY <1>4, <1>5, <1>6, <1>7, <1>8, <1>9, <1>10, <1>11, <1>12, <1>13
  DEF ThreadStep

\* A step that harms nobody leaves everybody what he has opened.
LEMMA OwnedNext ==
  ASSUME Typed, BacklogWaits, Owned, [Next]_vars
  PROVE  Owned'
<1> SUFFICES ASSUME process' = "up", ~harmed' PROVE Owned'
  BY DEF Owned
<1>1. ~harmed
  BY HarmStays
<1>2. ASSUME NEW t \in Requesters, ThreadStep(t) PROVE Owned'
  <2>1. process = "up"
    BY <1>2, ThreadStepStarts
  <2>2. /\ TableStep(t) /\ UNCHANGED rpc_fd
        /\ \A u \in Requesters \ {t} : LocalsKept(u)
    BY <1>1, <1>2, ThreadStepFrame
  <2>3. \A u \in Requesters : ConnHeld(u)' /\ FileHeld(u)' /\ OwnWork(u)'
    BY <1>1, <1>2, <2>1, <2>2, OthersKeepTheirs, ThreadStepOwn
  <2>4. rpc_fd' # None => fd_table'[rpc_fd'] = OfRpc
    BY <1>1, <2>1, <2>2, RpcKeepsIts
  <2>5. QED
    BY <2>3, <2>4 DEF Owned
<1>3. ASSUME NEW f \in Fds, Accept(f) PROVE Owned'
  <2>1. PICK c \in Requesters : AcceptEffect(c, f)
    BY <1>3, AcceptChanges
  <2>2. process = "up" /\ TableStep(c)
    BY <2>1, ObjectsExist, FreeObject DEF AcceptEffect, TableStep
  <2>3. \A u \in Requesters \ {c} : LocalsKept(u)
    BY <2>1 DEF AcceptEffect, LocalsKept, Typed, DataTypeOK
  <2>4. ConnHeld(c)' /\ FileHeld(c)' /\ OwnWork(c)'
    BY <2>1 DEF AcceptEffect, ConnHeld, FileHeld, OwnWork, HoldsConn, Sock,
                SockFd, Typed, DataTypeOK
  <2>5. rpc_fd' # None => fd_table'[rpc_fd'] = OfRpc
    BY <1>1, <2>1, <2>2, RpcKeepsIts DEF AcceptEffect
  <2>6. QED
    BY <1>1, <2>2, <2>3, <2>4, <2>5, OthersKeepTheirs DEF Owned
<1>4. CASE /\ \A u \in Requesters : LocalsKept(u)
           /\ process = "up" /\ TableStep(RpcThread)
           /\ rpc_fd' # None => fd_table'[rpc_fd'] = OfRpc
  BY <1>1, <1>4, RequestersAssumption, OthersKeepTheirs DEF Owned
<1>5. CASE AcceptFails
  BY <1>5 DEF AcceptFails, Exit
<1>6. ASSUME NEW c \in Requesters, Ask(c) \/ RequesterStep(c) \/ Vanish(c)
      PROVE  Owned'
  <2>1. UNCHANGED <<process, fd_table, thread_args, threadVars, rpc_fd>>
    BY <1>6 DEF Ask, RequesterStep, RecvDone, RecvCut, Vanish, serverVars,
                rpcVars
  <2>2. process = "up" /\ (rpc_fd # None => fd_table[rpc_fd] = OfRpc)
    BY <1>1, <2>1 DEF Owned
  <2>3. QED
    BY <1>4, <2>1, <2>2 DEF LocalsKept, TableStep, threadVars
<1>7. ASSUME NEW f \in Fds, RpcOpen(f) \/ ConnectFails(f) PROVE Owned'
  <2>1. /\ process = "up" /\ rpc_fd = None /\ fd_table[f] = Free
        /\ fd_table' = [fd_table EXCEPT ![f] = OfRpc]
        /\ rpc_fd' \in {f, None}
        /\ UNCHANGED <<thread_args, threadVars>>
    BY <1>7 DEF RpcOpen, ConnectFails, Open, Lowest, FreeFds, serverVars
  <2>2. TableStep(RpcThread)
    BY <2>1, ObjectsExist, FreeObject DEF TableStep
  <2>3. rpc_fd' # None => fd_table'[rpc_fd'] = OfRpc
    BY <2>1 DEF Typed, DataTypeOK
  <2>4. QED
    BY <1>4, <2>1, <2>2, <2>3 DEF LocalsKept, threadVars
<1>8. CASE RpcWrite \/ RpcClose
  <2>1. UNCHANGED <<thread_args, threadVars>> /\ process = "up" /\ rpc_fd # None
    BY <1>8 DEF RpcWrite, RpcClose, serverVars
  <2>2. rpc_fd \in Fds /\ fd_table[rpc_fd] = OfRpc /\ OfRpc.kind = "rpc"
        /\ OfRpc.owner = RpcThread
    BY <1>1, <2>1 DEF Typed, DataTypeOK, Owned, OfRpc
  <2>3. CASE RpcClose
    <3>1. fd_table' = [fd_table EXCEPT ![rpc_fd] = Free] /\ rpc_fd' = None
      BY <2>3 DEF RpcClose, Close
    <3>2. TableStep(RpcThread)
      BY <2>2, <3>1, ObjectsExist DEF TableStep
    <3>3. QED
      BY <1>4, <2>1, <3>1, <3>2 DEF LocalsKept, threadVars
  <2>4. QED
    BY <1>8, <2>2, <2>3 DEF RpcWrite
<1>9. CASE UNCHANGED vars
  <2>1. UNCHANGED <<process, fd_table, thread_args, threadVars, rpc_fd>>
    BY <1>9 DEF vars, serverVars, rpcVars
  <2>2. process = "up" /\ (rpc_fd # None => fd_table[rpc_fd] = OfRpc)
    BY <1>1, <2>1 DEF Owned
  <2>3. QED
    BY <1>4, <2>1, <2>2 DEF LocalsKept, TableStep, threadVars
<1>10. QED
  BY <1>2, <1>3, <1>5, <1>6, <1>7, <1>8, <1>9 DEF Next, AcceptStep

-----------------------------------------------------------------------------
(* What has been received.                                                 *)

\* Sending one element appends it.
LEMMA ConcatOne ==
  ASSUME NEW S, NEW s \in Seq(S), NEW e \in S
  PROVE  s \o <<e>> = Append(s, e)
<1>1. <<e>> \in Seq(S) /\ Len(<<e>>) = 1 /\ <<e>>[1] = e
  OBVIOUS
<1>2. /\ s \o <<e>> \in Seq(S) /\ Len(s \o <<e>>) = Len(s) + 1
      /\ \A i \in 1 .. Len(s) + 1 :
           (s \o <<e>>)[i] = IF i <= Len(s) THEN s[i] ELSE <<e>>[i - Len(s)]
  BY <1>1, ConcatProperties
<1>3. /\ Append(s, e) \in Seq(S) /\ Len(Append(s, e)) = Len(s) + 1
      /\ Len(s) \in Nat
      /\ \A i \in 1 .. Len(s) + 1 :
           Append(s, e)[i] = IF i <= Len(s) THEN s[i] ELSE e
  BY LenProperties
<1>4. \A i \in 1 .. Len(s) + 1 : (s \o <<e>>)[i] = Append(s, e)[i]
  BY <1>1, <1>2, <1>3
<1>5. QED
  BY <1>2, <1>3, <1>4, SeqEqual

\* One piece more.
LEMMA PrefixNext ==
  ASSUME NEW t, NEW n \in Nat
  PROVE  /\ Prefix(t, n) \o << <<t, n + 1>> >> = Prefix(t, n + 1)
         /\ Append(Prefix(t, n), <<t, n + 1>>) = Prefix(t, n + 1)
         /\ Len(Prefix(t, n)) = n
<1> DEFINE S == {<<t, k>> : k \in Nat}
           p(m) == Prefix(t, m)
           e == <<t, n + 1>>
<1>1. \A m \in Nat : /\ p(m) \in Seq(S) /\ Len(p(m)) = m
                     /\ \A k \in 1 .. m : p(m)[k] = <<t, k>>
  BY DEF Prefix
<1>2. e \in S
  OBVIOUS
<1>3. e = <<t, n + 1>>
  OBVIOUS
<1> HIDE DEF S, p, e
<1>4. p(n) \o <<e>> = Append(p(n), e)
  BY <1>1, <1>2, ConcatOne
<1>5. /\ Append(p(n), e) \in Seq(S) /\ Len(Append(p(n), e)) = n + 1
      /\ \A k \in 1 .. n + 1 : Append(p(n), e)[k] = IF k <= n THEN p(n)[k] ELSE e
  BY <1>1, <1>2
<1>6. /\ p(n + 1) \in Seq(S) /\ Len(p(n + 1)) = n + 1
      /\ \A k \in 1 .. n + 1 : p(n + 1)[k] = Append(p(n), e)[k]
  <2>1. /\ p(n + 1) \in Seq(S) /\ Len(p(n + 1)) = n + 1
        /\ \A k \in 1 .. n + 1 : p(n + 1)[k] = <<t, k>>
    <3>1. n + 1 \in Nat
      OBVIOUS
    <3>2. QED
      BY <1>1, <3>1, Zenon
  <2>2. \A k \in 1 .. n + 1 : Append(p(n), e)[k] = <<t, k>>
    <3>1. \A k \in 1 .. n : p(n)[k] = <<t, k>>
      BY <1>1
    <3>2. \A k \in 1 .. n + 1 : ~(k <= n) => k = n + 1
      OBVIOUS
    <3>3. QED
      BY <1>3, <1>5, <3>1, <3>2
  <2>3. QED
    BY <2>1, <2>2
<1>7. Append(p(n), e) = p(n + 1)
  BY <1>5, <1>6, SeqEqual
<1>8. QED
  BY <1>1, <1>4, <1>7 DEF p, e

\* What a thread sends reaches its own requester, or nobody.
LEMMA DeliverOwn ==
  ASSUME Typed, Owned, process = "up", ~harmed,
         NEW t \in Requesters, HoldsConn(t), NEW bytes, Deliver(t, bytes)
  PROVE  received' = IF Left(t) THEN received
                     ELSE [received EXCEPT ![t] = @ \o bytes]
<1>1. Sock(t) = Conn(t)
  BY OwnBefore
<1>2. Sock(t).kind = "conn" /\ Sock(t).owner = t
  BY <1>1 DEF Conn
<1>3. QED
  BY <1>2 DEF Deliver

\* A thread's step but for SendPiece and Refuse sends nothing.
LEMMA ThreadStepSends ==
  ASSUME NEW t \in Requesters, ThreadStep(t)
  PROVE  /\ UNCHANGED requester
         /\ SendPiece(t) \/ UNCHANGED bytes_sent
         /\ SendPiece(t) \/ Refuse(t) \/ UNCHANGED received
BY DEF ThreadStep, TakeRequest, SpinForRequest, RecvFails, Refuse, CloseConn,
       OpenFile, ReadChunk, SendPiece, SendKills, CloseFile, requesterVars,
       threadVars

\* What a thread has counted and what its requester has received agree.
LEMMA ReceivedNext ==
  ASSUME Typed, BacklogWaits, Owned, Received, [Next]_vars
  PROVE  Received'
<1> SUFFICES ASSUME ~harmed' PROVE Received'
  BY DEF Received
<1> DEFINE R(t) ==
      /\ pc[t] \in {"none", "recv", "unserved", "check", "read"} =>
           received[t] = <<>> /\ bytes_sent[t] = 0
      /\ pc[t] = "send" => received[t] = Prefix(t, bytes_sent[t]) \/ Left(t)
<1>1. ~harmed /\ \A t \in Requesters : R(t)
  BY HarmStays DEF Received
<1>2. /\ bytes_sent \in [Requesters -> Nat]
      /\ received \in [Requesters -> Seq(Bytes)]
  BY LengthsAssumption DEF Typed, DataTypeOK
<1>3. ASSUME NEW t \in Requesters, ThreadStep(t) PROVE Received'
  <2>1. /\ process = "up" /\ \A u \in Requesters \ {t} : pc'[u] = pc[u]
        /\ UNCHANGED requester
    BY <1>3, ThreadStepStarts
  <2>2. CASE SendPiece(t)
    <3>1. pc[t] = "send" /\ pc'[t] = "send" /\ HoldsConn(t)
      BY <2>2 DEF SendPiece, Goto, HoldsConn, Typed, DataTypeOK
    <3>2. chunk_data[t] = t
      BY <1>1, <2>1, <3>1, OwnBefore DEF OwnWork
    <3>3. received' = IF Left(t) THEN received
                      ELSE [received EXCEPT ![t] = @ \o << <<t, bytes_sent[t] + 1>> >>]
      BY <1>1, <2>1, <2>2, <3>1, <3>2, DeliverOwn DEF SendPiece, Piece
    <3>4. bytes_sent' = [bytes_sent EXCEPT ![t] = @ + 1]
      BY <2>2 DEF SendPiece
    <3>5. R(t)'
      <4>1. CASE Left(t)
        BY <2>1, <3>1, <4>1 DEF Left
      <4>2. CASE ~Left(t)
        <5>1. received[t] = Prefix(t, bytes_sent[t])
          BY <1>1, <3>1, <4>2
        <5>2. received'[t] = Prefix(t, bytes_sent[t] + 1)
          BY <1>2, <3>3, <4>2, <5>1, PrefixNext
        <5>3. QED
          BY <1>2, <3>1, <3>4, <5>2
      <4>3. QED
        BY <4>1, <4>2
    <3>6. \A u \in Requesters \ {t} : R(u)'
      BY <1>1, <1>2, <2>1, <3>3, <3>4 DEF Left
    <3>7. QED
      BY <3>5, <3>6 DEF Received
  <2>3. CASE Refuse(t)
    <3>1. pc[t] = "check" /\ pc'[t] = "close" /\ HoldsConn(t)
      BY <2>3 DEF Refuse, Goto, HoldsConn, Typed, DataTypeOK
    <3>2. received' = IF Left(t) THEN received
                      ELSE [received EXCEPT ![t] = @ \o RefusalBytes]
      BY <1>1, <2>1, <2>3, <3>1, DeliverOwn DEF Refuse
    <3>3. UNCHANGED bytes_sent
      BY <2>3 DEF Refuse
    <3>4. \A u \in Requesters \ {t} : R(u)'
      BY <1>1, <1>2, <2>1, <3>2, <3>3 DEF Left
    <3>5. QED
      BY <3>1, <3>4 DEF Received
  <2>4. CASE UNCHANGED <<received, bytes_sent>>
    <3>1. \A u \in Requesters \ {t} : R(u)'
      BY <1>1, <2>1, <2>4 DEF Left
    <3>2. /\ pc'[t] \in {"none", "recv", "unserved", "check", "read"} =>
               pc[t] \in {"none", "recv", "unserved", "check", "read"}
          /\ pc'[t] = "send" => pc[t] \in {"read", "send"}
      BY <1>3 DEF ThreadStep, TakeRequest, SpinForRequest, RecvFails, Refuse,
                  CloseConn, OpenFile, ReadChunk, SendPiece, SendKills,
                  CloseFile, Goto, threadVars, Typed, DataTypeOK
    <3>3. pc'[t] = "send" /\ pc[t] = "read" =>
            received'[t] = Prefix(t, bytes_sent'[t])
      <4>1. Prefix(t, 0) = <<>>
        BY DEF Prefix
      <4>2. QED
        BY <1>1, <2>4, <4>1
    <3>4. R(t)'
      BY <1>1, <2>1, <2>4, <3>2, <3>3 DEF Left
    <3>5. QED
      BY <3>1, <3>4 DEF Received
  <2>5. QED
    BY <1>3, <2>2, <2>3, <2>4, ThreadStepSends
<1>4. ASSUME NEW f \in Fds, Accept(f) PROVE Received'
  <2>1. PICK c \in Requesters : AcceptEffect(c, f)
    BY <1>4, AcceptChanges
  <2>2. \A u \in Requesters : R(u)'
    BY <1>1, <2>1 DEF AcceptEffect, Left, Typed, DataTypeOK
  <2>3. QED
    BY <2>2 DEF Received
<1>5. ASSUME NEW c \in Requesters, Ask(c) \/ RequesterStep(c) \/ Vanish(c)
      PROVE  Received'
  <2>1. UNCHANGED <<pc, bytes_sent, received>>
    BY <1>5 DEF Ask, RequesterStep, RecvDone, RecvCut, Vanish, threadVars
  <2>2. \A u \in Requesters : Left(u) => Left(u)'
    BY <1>5 DEF Ask, RequesterStep, RecvDone, RecvCut, Vanish, MoveRequester,
                Left, Typed, DataTypeOK
  <2>3. \A u \in Requesters : R(u)'
    BY <1>1, <2>1, <2>2
  <2>4. QED
    BY <2>3 DEF Received
<1>6. CASE UNCHANGED <<pc, bytes_sent, received, requester>>
  <2>1. \A u \in Requesters : R(u)'
    BY <1>1, <1>6 DEF Left
  <2>2. QED
    BY <2>1 DEF Received
<1>7. CASE AcceptFails
  BY <1>6, <1>7 DEF AcceptFails, threadVars, requesterVars
<1>8. ASSUME NEW f \in Fds, RpcOpen(f) \/ ConnectFails(f) PROVE Received'
  BY <1>6, <1>8 DEF RpcOpen, ConnectFails, threadVars, requesterVars
<1>9. CASE RpcWrite
  BY <1>1, <1>9 DEF RpcWrite, Owned, OfRpc
<1>10. CASE RpcClose
  BY <1>6, <1>10 DEF RpcClose, threadVars, requesterVars
<1>11. CASE UNCHANGED vars
  BY <1>6, <1>11 DEF vars, threadVars, requesterVars
<1>12. QED
  BY <1>3, <1>4, <1>5, <1>7, <1>8, <1>9, <1>10, <1>11 DEF Next, AcceptStep

-----------------------------------------------------------------------------
(* Everything that is open has an owner.                                   *)

\* There are two ways in which the process ends.
LEMMA TwoEnds ==
  ASSUME [Next]_vars, process' = "down"
  PROVE  AcceptFails \/ (\E t \in Requesters : SendKills(t)) \/ UNCHANGED vars
<1>1. \A t \in Requesters : ThreadStep(t) => SendKills(t)
  BY DEF ThreadStep, TakeRequest, SpinForRequest, RecvFails, Refuse,
         CloseConn, OpenFile, ReadChunk, SendPiece, CloseFile, Goto, serverVars
<1>2. \A c \in Requesters : ~(Ask(c) \/ RequesterStep(c) \/ Vanish(c))
  BY DEF Ask, RequesterStep, RecvDone, RecvCut, Vanish, MoveRequester, serverVars
<1>3. AcceptStep => AcceptFails
  BY DEF AcceptStep, Accept
<1>4. \A f \in Fds : ~(RpcOpen(f) \/ ConnectFails(f))
  BY DEF RpcOpen, ConnectFails, serverVars
<1>5. ~(RpcWrite \/ RpcClose)
  BY DEF RpcWrite, RpcClose, serverVars
<1>6. QED
  BY <1>1, <1>2, <1>3, <1>4, <1>5 DEF Next

\* Both close everything, and nothing happens afterwards.
LEMMA DownNext ==
  ASSUME Typed, DownIsFree, [Next]_vars
  PROVE  DownIsFree'
<1>1. CASE AcceptFails
  BY <1>1 DEF AcceptFails, Exit, DownIsFree
<1>2. CASE \E t \in Requesters : SendKills(t)
  BY <1>2 DEF SendKills, Exit, DownIsFree
<1>3. CASE UNCHANGED vars
  BY <1>3 DEF vars, serverVars, DownIsFree
<1>4. QED
  BY <1>1, <1>2, <1>3, TwoEnds DEF DownIsFree

\* One descriptor is accounted for.
FdAccounted(g) ==
  LET t == fd_table[g].owner IN
    /\ fd_table[g].kind = "conn" =>
         pc[t] \notin {"none", "exit"} /\ g = thread_args[t]
    /\ fd_table[g].kind = "file" =>
         pc[t] \in {"read", "send"} /\ g = read_fd[t]

\* Descriptors that stay what they are, of threads that stay where they are.
LEMMA AccountKept ==
  ASSUME NEW g \in Fds, FdAccounted(g), fd_table'[g] = fd_table[g],
         fd_table[g].kind \in {"conn", "file"} => LocalsKept(fd_table[g].owner)
  PROVE  FdAccounted(g)'
BY DEF FdAccounted, LocalsKept

\* A free descriptor, or one of the RPC thread, needs no thread.
LEMMA FreeAccounted ==
  ASSUME NEW g \in Fds, fd_table'[g] = Free \/ fd_table'[g] = OfRpc
  PROVE  FdAccounted(g)'
BY FreeObject DEF FdAccounted, OfRpc

\* A thread that moves on has closed what it had to close before.
LEMMA ThreadStepAccounts ==
  ASSUME Typed, Owned, \A g \in Fds : FdAccounted(g), NEW t \in Requesters,
         ThreadStep(t), ~harmed, ~harmed', NEW g \in Fds
  PROVE  FdAccounted(g)'
<1> USE DEF Typed, DataTypeOK, PlacesMatch, Goto, serverVars, threadVars
<1>1. process = "up" /\ \A u \in Requesters \ {t} : LocalsKept(u)
  BY ThreadStepStarts, ThreadStepFrame
<1>2. /\ ConnHeld(t) /\ FileHeld(t) /\ OwnWork(t)
      /\ HoldsConn(t) => thread_args[t] \in Fds /\ Sock(t) = Conn(t)
      /\ pc[t] \in {"read", "send"} =>
           read_fd[t] \in Fds /\ thread_args[t] # read_fd[t]
  BY <1>1, OwnBefore
<1>3. FdAccounted(g) /\ (fd_table[g].kind \in {"conn", "file"} =>
                            fd_table[g].owner \in Requesters)
  BY ObjectKinds
<1>4. CASE fd_table'[g] = fd_table[g] /\ fd_table[g].owner # t
  BY <1>1, <1>3, <1>4, AccountKept
<1>5. CASE fd_table'[g] = Free
  BY <1>5, FreeAccounted
<1>6. CASE TakeRequest(t) \/ SpinForRequest(t) \/ RecvFails(t) \/ SendPiece(t)
  <2>1. /\ UNCHANGED <<fd_table, thread_args, read_fd>>
        /\ pc[t] = "recv" \/ (pc[t] = "send" /\ pc'[t] = "send")
        /\ pc'[t] \in {"check", "spin", "send"}
    BY <1>6 DEF TakeRequest, SpinForRequest, RecvFails, SendPiece
  <2>2. CASE fd_table[g].owner = t
    BY <1>3, <2>1, <2>2 DEF FdAccounted
  <2>3. QED
    BY <1>4, <2>1, <2>2
<1>7. CASE SendKills(t)
  BY <1>5, <1>7 DEF SendKills, Exit
<1>8. CASE Refuse(t) \/ CloseConn(t)
  <2>1. /\ fd_table' = [fd_table EXCEPT ![thread_args[t]] = Free]
        /\ pc[t] \in {"check", "close"} /\ thread_args[t] \in Fds
    BY <1>8 DEF Refuse, CloseConn, CloseSock, Close, SockFd
  <2>2. CASE g # thread_args[t]
    <3>1. fd_table'[g] = fd_table[g]
      BY <2>1, <2>2
    <3>2. fd_table[g].kind \in {"conn", "file"} => fd_table[g].owner # t
      BY <1>3, <2>1, <2>2 DEF FdAccounted
    <3>3. QED
      BY <1>1, <1>3, <3>1, <3>2, AccountKept
  <2>3. QED
    BY <1>5, <2>1, <2>2
<1>9. ASSUME NEW f \in Fds, OpenFile(t, f) PROVE FdAccounted(g)'
  <2>1. /\ fd_table' = [fd_table EXCEPT ![f] = File(t, file_data_req[t])]
        /\ read_fd' = [read_fd EXCEPT ![t] = f] /\ pc[t] = "check"
        /\ pc' = [pc EXCEPT ![t] = "read"] /\ UNCHANGED thread_args
    BY <1>9 DEF OpenFile, Open
  <2>2. CASE g = f
    <3>1. fd_table'[g] = File(t, file_data_req[t])
      BY <2>1, <2>2
    <3>2. fd_table'[g].kind = "file" /\ fd_table'[g].owner = t
      BY <3>1 DEF File
    <3>3. QED
      BY <2>1, <2>2, <3>2 DEF FdAccounted
  <2>3. CASE g # f
    <3>1. fd_table'[g] = fd_table[g]
      BY <2>1, <2>3
    <3>2. CASE fd_table[g].kind = "conn" /\ fd_table[g].owner = t
      BY <1>3, <2>1, <3>1, <3>2 DEF FdAccounted
    <3>3. CASE fd_table[g].kind = "file"
      BY <1>1, <1>3, <2>1, <3>1, <3>3, AccountKept DEF FdAccounted
    <3>4. QED
      BY <1>1, <1>3, <3>1, <3>2, <3>3, AccountKept DEF FdAccounted
  <2>4. QED
    BY <2>2, <2>3
<1>10. CASE ReadChunk(t)
  <2>1. /\ fd_table' = [fd_table EXCEPT ![read_fd[t]] = File(t, Junk)]
        /\ pc' = [pc EXCEPT ![t] = "send"] /\ read_fd[t] \in Fds
        /\ UNCHANGED <<thread_args, read_fd>>
    BY <1>2, <1>10 DEF ReadChunk, FileHeld
  <2>2. CASE g = read_fd[t]
    <3>1. fd_table'[g] = File(t, Junk)
      BY <2>1, <2>2
    <3>2. fd_table'[g].kind = "file" /\ fd_table'[g].owner = t
      BY <3>1 DEF File
    <3>3. QED
      BY <2>1, <2>2, <3>2 DEF FdAccounted
  <2>3. CASE g # read_fd[t]
    <3>1. fd_table'[g] = fd_table[g]
      BY <2>1, <2>3
    <3>2. QED
      BY <1>3, <2>1, <3>1 DEF FdAccounted
  <2>4. QED
    BY <2>2, <2>3
<1>11. CASE CloseFile(t)
  <2>1. /\ fd_table' = [fd_table EXCEPT ![read_fd[t]] = Free]
        /\ pc[t] = "send" /\ pc' = [pc EXCEPT ![t] = "close"]
        /\ read_fd[t] \in Fds /\ UNCHANGED <<thread_args, read_fd>>
    BY <1>2, <1>11 DEF CloseFile, CloseReadFd, Close
  <2>2. CASE g # read_fd[t]
    <3>1. fd_table'[g] = fd_table[g]
      BY <2>1, <2>2
    <3>2. fd_table[g].kind = "file" => fd_table[g].owner # t
      BY <1>3, <2>2 DEF FdAccounted
    <3>3. QED
      BY <1>3, <2>1, <3>1, <3>2 DEF FdAccounted
  <2>3. QED
    BY <1>5, <2>1, <2>2
<1>12. QED
  BY <1>6, <1>7, <1>8, <1>9, <1>10, <1>11 DEF ThreadStep

\* Nothing that is opened is forgotten.
LEMMA AccountedNext ==
  ASSUME Typed, BacklogWaits, Owned, Accounted, [Next]_vars
  PROVE  Accounted'
<1> SUFFICES ASSUME ~harmed', NEW g \in Fds PROVE FdAccounted(g)'
  BY DEF Accounted, FdAccounted, SockFd
<1>1. ~harmed /\ \A h \in Fds : FdAccounted(h)
  BY HarmStays DEF Accounted, FdAccounted, SockFd
<1>2. CASE fd_table'[g] = fd_table[g] /\ UNCHANGED <<pc, thread_args, read_fd>>
  BY <1>1, <1>2 DEF FdAccounted
<1>3. ASSUME NEW t \in Requesters, ThreadStep(t) PROVE FdAccounted(g)'
  BY <1>1, <1>3, ThreadStepAccounts
<1>4. ASSUME NEW f \in Fds, Accept(f) PROVE FdAccounted(g)'
  <2>1. PICK c \in Requesters : AcceptEffect(c, f)
    BY <1>4, AcceptChanges
  <2>2. CASE g = f
    <3>1. fd_table'[g] = Conn(c)
      BY <2>1, <2>2 DEF AcceptEffect, Typed, DataTypeOK
    <3>2. fd_table'[g].kind = "conn" /\ fd_table'[g].owner = c
      BY <3>1 DEF Conn
    <3>3. QED
      BY <2>1, <2>2, <3>2 DEF FdAccounted, AcceptEffect, Typed, DataTypeOK
  <2>3. CASE g # f
    <3>1. fd_table'[g] = fd_table[g]
      BY <2>1, <2>3 DEF AcceptEffect, Typed, DataTypeOK
    <3>2. fd_table[g].kind \in {"conn", "file"} =>
            fd_table[g].owner \in Requesters \ {c}
      <4>1. fd_table[g] \in Objects /\ pc[c] = "none" /\ FdAccounted(g)
        BY <1>1, <2>1 DEF AcceptEffect, Typed, DataTypeOK
      <4>2. QED
        BY <4>1, ObjectKinds DEF FdAccounted
    <3>3. \A u \in Requesters \ {c} : LocalsKept(u)
      BY <2>1 DEF AcceptEffect, LocalsKept, Typed, DataTypeOK
    <3>4. QED
      BY <1>1, <3>1, <3>2, <3>3, AccountKept
  <2>4. QED
    BY <2>2, <2>3
<1>5. CASE AcceptFails
  BY <1>5, FreeAccounted DEF AcceptFails, Exit
<1>6. ASSUME NEW c \in Requesters, Ask(c) \/ RequesterStep(c) \/ Vanish(c)
      PROVE  FdAccounted(g)'
  BY <1>2, <1>6 DEF Ask, RequesterStep, RecvDone, RecvCut, Vanish, serverVars,
                    threadVars
<1>7. ASSUME NEW f \in Fds, RpcOpen(f) \/ ConnectFails(f)
      PROVE  FdAccounted(g)'
  <2>1. /\ fd_table' = [fd_table EXCEPT ![f] = OfRpc]
        /\ UNCHANGED <<pc, thread_args, read_fd>>
    BY <1>7 DEF RpcOpen, ConnectFails, Open, serverVars, threadVars
  <2>2. fd_table'[g] = OfRpc \/ fd_table'[g] = fd_table[g]
    BY <2>1 DEF Typed, DataTypeOK
  <2>3. QED
    BY <1>2, <2>1, <2>2, FreeAccounted
<1>8. CASE RpcWrite
  BY <1>2, <1>8 DEF RpcWrite, serverVars, threadVars
<1>9. CASE RpcClose
  <2>1. /\ fd_table' = [fd_table EXCEPT ![rpc_fd] = Free]
        /\ UNCHANGED <<pc, thread_args, read_fd>>
    BY <1>9 DEF RpcClose, Close, serverVars, threadVars
  <2>2. fd_table'[g] = Free \/ fd_table'[g] = fd_table[g]
    BY <2>1 DEF Typed, DataTypeOK
  <2>3. QED
    BY <1>2, <2>1, <2>2, FreeAccounted
<1>10. CASE UNCHANGED vars
  BY <1>2, <1>10 DEF vars, serverVars, threadVars
<1>11. QED
  BY <1>3, <1>4, <1>5, <1>6, <1>7, <1>8, <1>9, <1>10 DEF Next, AcceptStep

-----------------------------------------------------------------------------
(* Harm.                                                                   *)

\* A refusal is never forgotten.
LEMMA RefusalStays ==
  ASSUME Typed, BacklogWaits, [Next]_vars, NEW t \in Requesters, HasRefused(t)
  PROVE  HasRefused(t)'
<1> USE DEF Typed, DataTypeOK, HasRefused
<1>1. CASE UNCHANGED threadVars
  BY <1>1 DEF threadVars
<1>2. ASSUME NEW u \in Requesters, ThreadStep(u) PROVE HasRefused(t)'
  <2>1. CASE OpenFile(u, read_fd'[u])
    BY <2>1 DEF OpenFile, Goto
  <2>2. CASE UNCHANGED read_fd
    BY <1>2, <2>2 DEF ThreadStep, TakeRequest, SpinForRequest, RecvFails,
                      Refuse, CloseConn, OpenFile, ReadChunk, SendPiece,
                      SendKills, CloseFile, Goto, threadVars
  <2>3. QED
    BY <1>2, <2>1, <2>2 DEF ThreadStep, TakeRequest, SpinForRequest, RecvFails,
                      Refuse, CloseConn, OpenFile, ReadChunk, SendPiece,
                      SendKills, CloseFile, threadVars
<1>3. ASSUME NEW f \in Fds, Accept(f) PROVE HasRefused(t)'
  <2>1. PICK c \in Requesters : AcceptEffect(c, f)
    BY <1>3, AcceptChanges
  <2>2. QED
    BY <2>1 DEF AcceptEffect
<1>4. QED
  <2>1. AcceptFails => UNCHANGED threadVars
    BY DEF AcceptFails
  <2>2. \A c \in Requesters :
          Ask(c) \/ RequesterStep(c) \/ Vanish(c) => UNCHANGED threadVars
    BY DEF Ask, RequesterStep, RecvDone, RecvCut, Vanish
  <2>3. \A f \in Fds : RpcOpen(f) \/ ConnectFails(f) => UNCHANGED threadVars
    BY DEF RpcOpen, ConnectFails
  <2>4. RpcWrite \/ RpcClose => UNCHANGED threadVars
    BY DEF RpcWrite, RpcClose
  <2>5. UNCHANGED vars => UNCHANGED threadVars
    BY DEF vars
  <2>6. QED
    BY <1>1, <1>2, <1>3, <2>1, <2>2, <2>3, <2>4, <2>5 DEF Next, AcceptStep

\* The step that harms somebody is the second close of a refused connection.
LEMMA HarmByRefusal ==
  ASSUME Typed, Owned, [Next]_vars, ~harmed, harmed'
  PROVE  \E t \in Requesters : CloseConn(t) /\ HasRefused(t)'
<1> USE DEF Typed, DataTypeOK, PlacesMatch, Goto
<1>1. ASSUME NEW t \in Requesters, CloseConn(t)
      PROVE  CloseConn(t) /\ HasRefused(t)'
  <2>1. pc[t] = "close" /\ pc'[t] = "exit" /\ UNCHANGED read_fd /\ process = "up"
        /\ Sock(t).owner \notin {t, None}
    BY <1>1 DEF CloseConn, CloseSock, Close, Sock
  <2>2. ~HoldsConn(t)
    BY <2>1, OwnBefore DEF Conn
  <2>3. QED
    BY <1>1, <2>1, <2>2 DEF HoldsConn, HasRefused
<1>2. ASSUME NEW t \in Requesters, Refuse(t) PROVE FALSE
  <2>1. HoldsConn(t) /\ process = "up" /\ Sock(t).owner \notin {t, None}
    BY <1>2 DEF Refuse, CloseSock, Close, Sock, HoldsConn
  <2>2. QED
    BY <2>1, OwnBefore DEF Conn
<1>3. ASSUME NEW t \in Requesters, CloseFile(t) PROVE FALSE
  <2>1. pc[t] = "send" /\ process = "up"
        /\ fd_table[read_fd[t]].owner \notin {t, None}
    BY <1>3 DEF CloseFile, CloseReadFd, Close
  <2>2. QED
    BY <2>1, OwnBefore DEF FileHeld
<1>4. CASE RpcClose
  BY <1>4 DEF RpcClose, Close, Owned, OfRpc
<1>5. CASE UNCHANGED harmed
  BY <1>5
<1>6. QED
  <2>1. AcceptStep => UNCHANGED harmed
    BY DEF AcceptStep, Accept, AcceptFails
  <2>2. \A c \in Requesters :
          Ask(c) \/ RequesterStep(c) \/ Vanish(c) => UNCHANGED harmed
    BY DEF Ask, RequesterStep, RecvDone, RecvCut, Vanish
  <2>3. \A f \in Fds : RpcOpen(f) \/ ConnectFails(f) => UNCHANGED harmed
    BY DEF RpcOpen, ConnectFails
  <2>4. RpcWrite \/ UNCHANGED vars => UNCHANGED harmed
    BY DEF RpcWrite, vars
  <2>5. \A t \in Requesters : ThreadStep(t) =>
          CloseConn(t) \/ Refuse(t) \/ CloseFile(t) \/ UNCHANGED harmed
    BY DEF ThreadStep, TakeRequest, SpinForRequest, RecvFails, OpenFile,
           ReadChunk, SendPiece, SendKills
  <2>6. QED
    BY <1>1, <1>2, <1>3, <1>4, <1>5, <2>1, <2>2, <2>3, <2>4, <2>5 DEF Next

\* Harm is preceded by a refusal, whose trace stays.
LEMMA HarmNext ==
  ASSUME Typed, BacklogWaits, Owned, HarmNeedsRefusal, [Next]_vars
  PROVE  HarmNeedsRefusal'
<1> SUFFICES ASSUME harmed' PROVE \E t \in Requesters : HasRefused(t)'
  BY DEF HarmNeedsRefusal
<1>1. CASE harmed
  BY <1>1, RefusalStays DEF HarmNeedsRefusal
<1>2. CASE ~harmed
  BY <1>2, HarmByRefusal
<1>3. QED
  BY <1>1, <1>2

-----------------------------------------------------------------------------
(* Who leaves, and when.                                                   *)

\* A thread without a connection does not get one back.
LEMMA ConnStaysClosed ==
  ASSUME Typed, NEW t \in Requesters, ThreadStep(t), ~HoldsConn(t)
  PROVE  ~HoldsConn(t)'
<1>1. pc[t] \in {"close", "exit"} /\ (pc[t] = "close" => read_fd[t] = None)
  BY ThreadStepStarts DEF HoldsConn, Typed, DataTypeOK
<1>2. CloseConn(t)
  BY <1>1 DEF ThreadStep, TakeRequest, SpinForRequest, RecvFails, Refuse,
              OpenFile, ReadChunk, SendPiece, SendKills, CloseFile, Goto
<1>3. pc'[t] = "exit"
  BY <1>2 DEF CloseConn, Goto, Typed, DataTypeOK
<1>4. QED
  BY <1>3 DEF HoldsConn

\* A requester that leaves in peace has left no thread in the middle of its chunk.
LEMMA LeavingNext ==
  ASSUME Typed, BacklogWaits, Owned, Received, Leaving, [Next]_vars
  PROVE  Leaving'
<1> SUFFICES ASSUME ~harmed' PROVE Leaving'
  BY DEF Leaving
<1> DEFINE Done(t) == requester[t] = "done" =>
             /\ pc[t] \notin {"none", "recv", "unserved", "check", "read"}
             /\ pc[t] = "send" => bytes_sent[t] = ChunkLen
           Cut(t) == requester[t] = "cut" =>
             ~HoldsConn(t) /\ \A i \in DOMAIN backlog : backlog[i] # t
<1>1. ~harmed /\ \A t \in Requesters : Done(t) /\ Cut(t)
  BY HarmStays DEF Leaving
<1>2. ASSUME NEW t \in Requesters, UNCHANGED <<requester, backlog>>,
             pc'[t] = pc[t], bytes_sent'[t] = bytes_sent[t], read_fd'[t] = read_fd[t]
      PROVE  Done(t)' /\ Cut(t)'
  BY <1>1, <1>2 DEF HoldsConn
<1>3. ASSUME NEW t \in Requesters, ThreadStep(t) PROVE Leaving'
  <2>1. /\ UNCHANGED <<requester, backlog>>
        /\ \A u \in Requesters \ {t} :
             /\ pc'[u] = pc[u] /\ bytes_sent'[u] = bytes_sent[u]
             /\ read_fd'[u] = read_fd[u]
    <3>1. \A u \in Requesters \ {t} : bytes_sent'[u] = bytes_sent[u]
      BY <1>3, ThreadStepSends DEF SendPiece, Typed, DataTypeOK
    <3>2. QED
      BY <1>1, <1>3, <3>1, ThreadStepStarts, ThreadStepFrame DEF LocalsKept
  <2>2. Cut(t)'
    BY <1>1, <1>3, <2>1, ConnStaysClosed
  <2>3. Done(t)'
    <3>1. SUFFICES ASSUME requester[t] = "done" PROVE Done(t)'
      BY <2>1
    <3>2. ~SendPiece(t)
      BY <1>1, <3>1, LengthsAssumption DEF SendPiece, Goto, Unsent
    <3>3. /\ pc'[t] \notin {"none", "recv", "unserved", "check", "read"}
          /\ pc'[t] = "send" => pc[t] = "send"
      BY <1>1, <1>3, <3>1
      DEF ThreadStep, TakeRequest, SpinForRequest, RecvFails, Refuse, CloseConn,
          OpenFile, ReadChunk, SendPiece, SendKills, CloseFile, Goto, threadVars,
          Typed, DataTypeOK
    <3>4. QED
      BY <1>1, <1>3, <3>1, <3>2, <3>3, ThreadStepSends
  <2>4. QED
    BY <1>2, <2>1, <2>2, <2>3 DEF Leaving
<1>4. ASSUME NEW f \in Fds, Accept(f) PROVE Leaving'
  <2>1. PICK c \in Requesters : AcceptEffect(c, f)
    BY <1>4, AcceptChanges
  <2>2. backlog \in Seq(Requesters) /\ backlog # <<>> /\ backlog' = Tail(backlog)
        /\ c = backlog[1]
    BY <2>1 DEF AcceptEffect, Typed, DataTypeOK
  <2>3. \A i \in DOMAIN backlog' :
          i + 1 \in DOMAIN backlog /\ backlog'[i] = backlog[i + 1]
    BY <2>2, HeadTailProperties, LenProperties
  <2>4. 1 \in DOMAIN backlog
    BY <2>2, EmptySeq, LenProperties
  <2>5. requester[c] \notin {"done", "cut"}
    BY <1>1, <2>1, <2>2, <2>4 DEF AcceptEffect
  <2>6. \A u \in Requesters \ {c} : pc'[u] = pc[u]
    BY <2>1 DEF AcceptEffect, Typed, DataTypeOK
  <2>7. UNCHANGED <<requester, bytes_sent, read_fd>>
    BY <2>1 DEF AcceptEffect
  <2>8. \A u \in Requesters : Done(u)' /\ Cut(u)'
    BY <1>1, <2>3, <2>5, <2>6, <2>7 DEF HoldsConn
  <2>9. QED
    BY <2>8 DEF Leaving
<1>5. ASSUME NEW c \in Requesters, Ask(c) PROVE Leaving'
  <2>1. /\ requester' = [requester EXCEPT ![c] = "asked"]
        /\ backlog' = Append(backlog, c) /\ requester[c] = "off"
        /\ UNCHANGED <<pc, bytes_sent, read_fd>>
    BY <1>5 DEF Ask, MoveRequester, threadVars
  <2>2. /\ requester'[c] = "asked"
        /\ \A u \in Requesters \ {c} : requester'[u] = requester[u]
    BY <2>1 DEF Typed, DataTypeOK
  <2>3. \A i \in DOMAIN backlog' :
          \/ i \in DOMAIN backlog /\ backlog'[i] = backlog[i]
          \/ backlog'[i] = c
    BY <2>1 DEF Typed, DataTypeOK
  <2>4. \A u \in Requesters : Done(u)' /\ Cut(u)'
    BY <1>1, <2>1, <2>2, <2>3 DEF HoldsConn
  <2>5. QED
    BY <2>4 DEF Leaving
<1>6. ASSUME NEW c \in Requesters, RequesterStep(c) \/ Vanish(c) PROVE Leaving'
  <2>1. UNCHANGED <<backlog, pc, bytes_sent, read_fd>>
    BY <1>6 DEF RequesterStep, RecvDone, RecvCut, Vanish, serverVars, threadVars
  <2>2. \A u \in Requesters \ {c} : requester'[u] = requester[u]
    BY <1>6 DEF RequesterStep, RecvDone, RecvCut, Vanish, MoveRequester, Typed,
                DataTypeOK
  <2>3. CASE RecvDone(c)
    <3>1. requester'[c] = "done" /\ Len(received[c]) >= ChunkLen /\ ~Left(c)
      BY <2>3 DEF RecvDone, MoveRequester, Left, Typed, DataTypeOK
    <3>2. received[c] # <<>>
      BY <3>1, LengthsAssumption, EmptySeq
    <3>3. pc[c] \notin {"none", "recv", "unserved", "check", "read"}
      BY <1>1, <3>2 DEF Received
    <3>4. pc[c] = "send" => bytes_sent[c] = ChunkLen
      <4>1. bytes_sent[c] \in 0 .. ChunkLen
        BY DEF Typed, DataTypeOK
      <4>2. pc[c] = "send" => Len(received[c]) = bytes_sent[c]
        <5>1. pc[c] = "send" => received[c] = Prefix(c, bytes_sent[c])
          BY <1>1, <3>1 DEF Received
        <5>2. bytes_sent[c] \in Nat
          BY <4>1, LengthsAssumption
        <5>3. QED
          BY <5>1, <5>2, PrefixNext
      <4>3. QED
        BY <3>1, <4>1, <4>2, LengthsAssumption
    <3>5. QED
      BY <1>1, <2>1, <2>2, <3>1, <3>3, <3>4 DEF Leaving, HoldsConn
  <2>4. CASE RecvCut(c)
    <3>1. requester'[c] = "cut" /\ process = "up"
          /\ \A i \in DOMAIN backlog : backlog[i] # c
      BY <2>4 DEF RecvCut, MoveRequester, Typed, DataTypeOK
    <3>2. ~HoldsConn(c)
      BY <1>1, <2>4, <3>1, OwnBefore DEF RecvCut, Sock, SockFd
    <3>3. QED
      BY <1>1, <2>1, <2>2, <3>1, <3>2 DEF Leaving, HoldsConn
  <2>5. CASE Vanish(c)
    <3>1. requester'[c] = "gone"
      BY <2>5 DEF Vanish, MoveRequester, Typed, DataTypeOK
    <3>2. QED
      BY <1>1, <2>1, <2>2, <3>1 DEF Leaving, HoldsConn
  <2>6. QED
    BY <1>6, <2>3, <2>4, <2>5 DEF RequesterStep
<1>7. CASE UNCHANGED <<requester, backlog, pc, bytes_sent, read_fd>>
  BY <1>2, <1>7 DEF Leaving
<1>8. QED
  <2>1. AcceptFails => UNCHANGED <<requester, backlog, pc, bytes_sent, read_fd>>
    BY DEF AcceptFails, threadVars, requesterVars
  <2>2. \A f \in Fds : RpcOpen(f) \/ ConnectFails(f) =>
          UNCHANGED <<requester, backlog, pc, bytes_sent, read_fd>>
    BY DEF RpcOpen, ConnectFails, serverVars, threadVars, requesterVars
  <2>3. RpcWrite \/ RpcClose =>
          UNCHANGED <<requester, backlog, pc, bytes_sent, read_fd>>
    BY DEF RpcWrite, RpcClose, serverVars, threadVars, requesterVars
  <2>4. UNCHANGED vars => UNCHANGED <<requester, backlog, pc, bytes_sent, read_fd>>
    BY DEF vars, serverVars, threadVars, requesterVars
  <2>5. QED
    BY <1>3, <1>4, <1>5, <1>6, <1>7, <2>1, <2>2, <2>3, <2>4 DEF Next, AcceptStep

-----------------------------------------------------------------------------
(* How many descriptors there are.                                         *)

\* There are NumFds descriptors.
LEMMA FdsFinite ==
  /\ IsFiniteSet(Fds) /\ Cardinality(Fds) = NumFds
  /\ \A S \in SUBSET Fds : IsFiniteSet(S) /\ Cardinality(S) \in Nat
<1>1. IsFiniteSet(Fds) /\ Cardinality(Fds) = NumFds
  <2>1. 0 \in Int /\ NumFds - 1 \in Int
    BY LengthsAssumption
  <2>2. /\ IsFiniteSet(0 .. NumFds - 1)
        /\ Cardinality(0 .. NumFds - 1) =
             IF 0 > NumFds - 1 THEN 0 ELSE (NumFds - 1) - 0 + 1
    BY <2>1, FS_Interval
  <2>3. QED
    BY <2>2, LengthsAssumption DEF Fds
<1>2. QED
  BY <1>1, FS_Subset, FS_CardinalityType

\* At first the RPC thread has no descriptor.
LEMMA RpcFdsInit == Init => RpcFdsCounted
<1> SUFFICES ASSUME Init PROVE RpcFdsCounted
  OBVIOUS
<1>1. RpcFds = {}
  BY FreeObject DEF Init, RpcFds, OfRpc
<1>2. QED
  BY <1>1, FS_EmptySet DEF Init, RpcFdsCounted

\* Only the RPC thread opens descriptors of the RPC thread.
LEMMA RpcFdsNotBy ==
  ASSUME Typed, BacklogWaits, NEW g \in Fds, fd_table'[g] = OfRpc,
         AcceptStep \/ (\E t \in Requesters : ThreadStep(t)) \/ RpcClose
  PROVE  fd_table[g] = OfRpc
<1> USE DEF Typed, DataTypeOK
<1>1. OfRpc.kind = "rpc" /\ OfRpc # Free
  BY FreeObject DEF OfRpc
<1>2. \A t, c : File(t, c) # OfRpc /\ Conn(t) # OfRpc
  BY DEF File, Conn, OfRpc
<1>3. \A f : \A t : Close(t, f) => fd_table[g] = OfRpc
  BY <1>1 DEF Close
<1>4. ASSUME NEW f \in Fds, NEW o, Open(f, o), o # OfRpc
      PROVE  fd_table[g] = OfRpc
  BY <1>4 DEF Open
<1>5. Exit => fd_table[g] = OfRpc
  BY <1>1 DEF Exit
<1>6. UNCHANGED fd_table => fd_table[g] = OfRpc
  OBVIOUS
<1>7. AcceptStep => fd_table[g] = OfRpc
  BY <1>2, <1>4, <1>5 DEF AcceptStep, Accept, AcceptFails
<1>8. RpcClose => fd_table[g] = OfRpc
  BY <1>3 DEF RpcClose
<1>9. ASSUME NEW t \in Requesters, ThreadStep(t) PROVE fd_table[g] = OfRpc
  <2>1. CASE ReadChunk(t)
    BY <1>2, <1>6, <2>1 DEF ReadChunk
  <2>2. CASE \E f \in Fds : OpenFile(t, f)
    BY <1>2, <1>4, <2>2 DEF OpenFile
  <2>3. CASE Refuse(t) \/ CloseConn(t) \/ CloseFile(t)
    BY <1>3, <2>3 DEF Refuse, CloseConn, CloseFile, CloseSock, CloseReadFd
  <2>4. QED
    BY <1>5, <1>6, <1>9, <2>1, <2>2, <2>3
    DEF ThreadStep, TakeRequest, SpinForRequest, RecvFails, SendPiece, SendKills
<1>10. QED
  BY <1>7, <1>8, <1>9

\* Each descriptor of the RPC thread has been counted when it was opened.
LEMMA RpcFdsNext ==
  ASSUME Typed, BacklogWaits, RpcFdsCounted, [Next]_vars
  PROVE  RpcFdsCounted'
<1>1. /\ IsFiniteSet(RpcFds) /\ Cardinality(RpcFds) \in Nat
      /\ IsFiniteSet(RpcFds') /\ Cardinality(RpcFds') \in Nat
      /\ rpc_opens \in Nat
  BY FdsFinite, LengthsAssumption DEF RpcFds, Typed, DataTypeOK
<1>2. CASE RpcFds' \subseteq RpcFds /\ UNCHANGED rpc_opens
  <2>1. Cardinality(RpcFds') <= Cardinality(RpcFds)
    BY <1>1, <1>2, FS_Subset
  <2>2. QED
    BY <1>1, <1>2, <2>1 DEF RpcFdsCounted
<1>3. ASSUME NEW f \in Fds, RpcOpen(f) \/ ConnectFails(f) PROVE RpcFdsCounted'
  <2>1. /\ fd_table' = [fd_table EXCEPT ![f] = OfRpc]
        /\ rpc_opens' = rpc_opens + 1
    BY <1>3 DEF RpcOpen, ConnectFails, Open
  <2>2. RpcFds' \subseteq RpcFds \cup {f}
    BY <2>1 DEF RpcFds, Typed, DataTypeOK
  <2>3. /\ IsFiniteSet(RpcFds \cup {f})
        /\ Cardinality(RpcFds \cup {f}) <= Cardinality(RpcFds) + 1
        /\ Cardinality(RpcFds \cup {f}) \in Nat
    <3>1. /\ IsFiniteSet(RpcFds \cup {f})
          /\ Cardinality(RpcFds \cup {f}) =
               IF f \in RpcFds THEN Cardinality(RpcFds) ELSE Cardinality(RpcFds) + 1
      BY <1>1, FS_AddElement
    <3>2. QED
      BY <1>1, <3>1
  <2>4. Cardinality(RpcFds') <= Cardinality(RpcFds \cup {f})
    BY <2>2, <2>3, FS_Subset
  <2>5. QED
    BY <1>1, <2>1, <2>3, <2>4 DEF RpcFdsCounted
<1>4. CASE AcceptStep \/ (\E t \in Requesters : ThreadStep(t)) \/ RpcClose
  <2>1. RpcFds' \subseteq RpcFds
    BY <1>4, RpcFdsNotBy DEF RpcFds
  <2>2. UNCHANGED rpc_opens
    BY <1>4 DEF AcceptStep, Accept, AcceptFails, ThreadStep, TakeRequest,
      SpinForRequest, RecvFails, Refuse, CloseConn, OpenFile, ReadChunk,
      SendPiece, SendKills, CloseFile, RpcClose, rpcVars
  <2>3. QED
    BY <1>2, <2>1, <2>2
<1>5. CASE UNCHANGED <<fd_table, rpc_opens>>
  BY <1>2, <1>5 DEF RpcFds
<1>6. QED
  <2>1. \A c \in Requesters : Ask(c) \/ RequesterStep(c) \/ Vanish(c) =>
          UNCHANGED <<fd_table, rpc_opens>>
    BY DEF Ask, RequesterStep, RecvDone, RecvCut, Vanish, rpcVars
  <2>2. RpcWrite \/ UNCHANGED vars => UNCHANGED <<fd_table, rpc_opens>>
    BY DEF RpcWrite, vars, rpcVars
  <2>3. QED
    BY <1>3, <1>4, <1>5, <2>1, <2>2 DEF Next

ConnFds == {f \in Fds : fd_table[f].kind = "conn"}
FileFds == {f \in Fds : fd_table[f].kind = "file"}

\* Each connection has a thread that is under way, each file one that sends.
LEMMA OwnersAreMany ==
  ASSUME Typed, Accounted, ~harmed
  PROVE  /\ Cardinality(ConnFds) <= Cardinality(UnderWay)
         /\ Cardinality(FileFds) <= Cardinality(Sending)
         /\ Cardinality(UnderWay) \in Nat /\ Cardinality(Sending) \in Nat
<1>1. /\ IsFiniteSet(UnderWay) /\ IsFiniteSet(Sending)
      /\ Cardinality(UnderWay) \in Nat /\ Cardinality(Sending) \in Nat
  BY RequestersAssumption, FS_Subset, FS_CardinalityType DEF UnderWay, Sending
<1>2. \A f \in Fds : FdAccounted(f) /\ fd_table[f] \in Objects
  BY DEF Accounted, FdAccounted, SockFd, Typed, DataTypeOK
<1> DEFINE own(S) == [f \in S |-> fd_table[f].owner]
<1>3. Cardinality(ConnFds) <= Cardinality(UnderWay)
  <2>1. own(ConnFds) \in [ConnFds -> UnderWay]
    BY <1>2, ObjectKinds DEF ConnFds, UnderWay, FdAccounted
  <2>2. \A f, g \in ConnFds : own(ConnFds)[f] = own(ConnFds)[g] => f = g
    BY <1>2 DEF ConnFds, FdAccounted
  <2>3. own(ConnFds) \in Injection(ConnFds, UnderWay)
    BY <2>1, <2>2, Fun_IsInj
  <2>4. QED
    BY <1>1, <2>3, FS_Injection
<1>4. Cardinality(FileFds) <= Cardinality(Sending)
  <2>1. own(FileFds) \in [FileFds -> Sending]
    BY <1>2, ObjectKinds DEF FileFds, Sending, FdAccounted
  <2>2. \A f, g \in FileFds : own(FileFds)[f] = own(FileFds)[g] => f = g
    BY <1>2 DEF FileFds, FdAccounted
  <2>3. own(FileFds) \in Injection(FileFds, Sending)
    BY <2>1, <2>2, Fun_IsInj
  <2>4. QED
    BY <1>1, <2>3, FS_Injection
<1>5. QED
  BY <1>1, <1>3, <1>4

\* With no descriptor left, all of them are in use.
LEMMA FullMeansMany ==
  ASSUME Typed, Accounted, RpcFdsCounted, ~harmed, Full
  PROVE  Cardinality(UnderWay) + Cardinality(Sending) + rpc_opens >= NumFds
<1>1. /\ IsFiniteSet(ConnFds) /\ IsFiniteSet(FileFds) /\ IsFiniteSet(RpcFds)
      /\ Cardinality(ConnFds) \in Nat /\ Cardinality(FileFds) \in Nat
      /\ Cardinality(RpcFds) \in Nat
  BY FdsFinite DEF ConnFds, FileFds, RpcFds
<1>2. Fds = (ConnFds \cup FileFds) \cup RpcFds
  BY ObjectKinds DEF Full, FreeFds, ConnFds, FileFds, RpcFds, Typed, DataTypeOK
<1>3. ASSUME NEW S, NEW T, IsFiniteSet(S), IsFiniteSet(T)
      PROVE  /\ IsFiniteSet(S \cup T)
             /\ Cardinality(S \cup T) \in Nat
             /\ Cardinality(S \cup T) <= Cardinality(S) + Cardinality(T)
  <2>1. /\ IsFiniteSet(S \cup T) /\ IsFiniteSet(S \cap T)
        /\ Cardinality(S \cup T) =
             Cardinality(S) + Cardinality(T) - Cardinality(S \cap T)
    BY <1>3, FS_Union, FS_Intersection
  <2>2. /\ Cardinality(S \cap T) \in Nat /\ Cardinality(S \cup T) \in Nat
        /\ Cardinality(S) \in Nat /\ Cardinality(T) \in Nat
    BY <1>3, <2>1, FS_CardinalityType
  <2>3. QED
    BY <2>1, <2>2
<1>4. /\ IsFiniteSet(ConnFds \cup FileFds)
      /\ Cardinality(ConnFds \cup FileFds) \in Nat
      /\ Cardinality(ConnFds \cup FileFds)
           <= Cardinality(ConnFds) + Cardinality(FileFds)
  BY <1>1, <1>3
<1>5. NumFds <= Cardinality(ConnFds \cup FileFds) + Cardinality(RpcFds)
  BY <1>1, <1>2, <1>3, <1>4, FdsFinite
<1>6. rpc_opens \in Nat
  BY LengthsAssumption DEF Typed, DataTypeOK
<1>7. QED
  BY <1>1, <1>4, <1>5, <1>6, OwnersAreMany, LengthsAssumption DEF RpcFdsCounted

\* The two ways to end have their reasons.
LEMMA EndNext ==
  ASSUME Typed, Owned, Accounted, Leaving, RpcFdsCounted, EndsForAReason,
         [Next]_vars
  PROVE  EndsForAReason'
<1>1. SUFFICES ASSUME process' = "down" PROVE EndsForAReason'
  BY DEF EndsForAReason
<1>2. CASE AcceptFails
  <2>1. UNCHANGED <<pc, rpc_opens, harmed>> /\ Full
    BY <1>2 DEF AcceptFails, threadVars, rpcVars
  <2>2. CASE ~harmed
    BY <2>1, <2>2, FullMeansMany DEF EndsForAReason, UnderWay, Sending
  <2>3. QED
    BY <2>1, <2>2 DEF EndsForAReason
<1>3. ASSUME NEW t \in Requesters, SendKills(t) PROVE EndsForAReason'
  <2>1. /\ process = "up" /\ pc[t] = "send" /\ bytes_sent[t] < ChunkLen
        /\ Left(Sock(t).owner) /\ UNCHANGED <<requester, harmed>>
    BY <1>3 DEF SendKills, Unsent, requesterVars
  <2>2. CASE ~harmed
    <3>1. HoldsConn(t)
      BY <2>1 DEF HoldsConn
    <3>2. Left(t)
      BY <2>1, <2>2, <3>1, OwnBefore DEF Conn
    <3>3. requester[t] = "gone"
      BY <2>1, <2>2, <3>1, <3>2, LengthsAssumption DEF Leaving, Left
    <3>4. QED
      BY <2>1, <3>3 DEF EndsForAReason
  <2>3. QED
    BY <2>1, <2>2 DEF EndsForAReason
<1>4. CASE UNCHANGED vars
  BY <1>4 DEF vars, serverVars, threadVars, requesterVars, rpcVars,
              EndsForAReason, UnderWay, Sending
<1>5. QED
  BY <1>1, <1>2, <1>3, <1>4, TwoEnds

-----------------------------------------------------------------------------
(* The invariant holds.                                                    *)

\* The three facts about IInv: it holds at first, ...
LEMMA IInvInit == Init => IInv
<1> SUFFICES ASSUME Init PROVE IInv
  OBVIOUS
<1>1. Typed
  BY TypedInit
<1>2. BacklogWaits /\ DownIsFree /\ HarmNeedsRefusal /\ Received
  BY DEF Init, BacklogWaits, DownIsFree, HarmNeedsRefusal, Received
<1>3. Owned
  BY DEF Init, Owned, ConnHeld, HoldsConn, FileHeld, OwnWork
<1>4. Accounted
  BY FreeObject DEF Init, Accounted
<1>5. Leaving /\ EndsForAReason
  BY DEF Init, Leaving, EndsForAReason
<1>6. RpcFdsCounted
  BY RpcFdsInit
<1>7. QED
  BY <1>1, <1>2, <1>3, <1>4, <1>5, <1>6 DEF IInv

\* ... every step preserves it, ...
LEMMA IInvNext == IInv /\ [Next]_vars => IInv'
BY TypedNext, BacklogNext, OwnedNext, ReceivedNext, DownNext, AccountedNext,
   HarmNext, LeavingNext, RpcFdsNext, EndNext DEF IInv

\* ... and so it is an invariant of the data server (data_server.cpp:24-157).
THEOREM IInvHolds == Spec => []IInv
BY IInvInit, IInvNext, PTL DEF Spec

-----------------------------------------------------------------------------
(* What follows from it.                                                   *)

\* Every variable keeps to its range, however many transfers there are.
THEOREM DataTypeCorrect == Spec => []DataTypeOK
<1>1. IInv => DataTypeOK
  BY DEF IInv, Typed
<1>2. QED
  BY <1>1, IInvHolds, PTL

\* No sequence of opens and closes, by any number of threads, ends with one
\* thread closing what another one has open, unless a request was refused
\* (data_server.cpp:61, 79, 96, 106).
THEOREM OnlyRefusalHarms == Spec => []HarmNeedsRefusal
<1>1. IInv => HarmNeedsRefusal
  BY DEF IInv
<1>2. QED
  BY <1>1, IInvHolds, PTL

\* However a transfer ends, it gives back what it has opened, and the process
\* ends only because a requester died in the middle of its chunk or because the
\* transfers that are under way and the RPC thread have every descriptor
\* (data_server.cpp:90, 96, 106, 134-151).
THEOREM DescriptorsAreAccountedFor == Spec => []DescriptorsAccountedFor
<1>1. IInv => DescriptorsAccountedFor
  <2>1. ASSUME IInv, ~harmed, NEW f \in Fds, fd_table[f].kind \in {"conn", "file"}
        PROVE  LET t == fd_table[f].owner IN
                 /\ pc[t] \notin {"none", "exit"}
                 /\ f = IF fd_table[f].kind = "conn" THEN SockFd(t) ELSE read_fd[t]
    BY <2>1 DEF IInv, Accounted
  <2>2. IInv => NothingLeftOpen
    BY <2>1 DEF NothingLeftOpen
  <2>3. QED
    BY <2>2 DEF IInv, DescriptorsAccountedFor
<1>2. QED
  BY <1>1, IInvHolds, PTL

-----------------------------------------------------------------------------
(* The refinement.                                                         *)

\* At first nobody has asked or received anything.
LEMMA ServiceInit == Init => Service!Init
BY DEF Init, Service!Init, Stage

\* A step that changes neither where a requester stands nor what it has.
LEMMA ServiceStutter ==
  ASSUME UNCHANGED <<requester, received, harmed>>
  PROVE  UNCHANGED Service!serviceVars
BY DEF Service!serviceVars, Stage

\* A requester's step is one of the service.
LEMMA ServiceRequester ==
  ASSUME Typed, NEW c \in Requesters, Ask(c) \/ RequesterStep(c) \/ Vanish(c)
  PROVE  Service!Next
<1> USE DEF Typed, DataTypeOK, MoveRequester, Stage, Service!Move
<1>1. CASE Ask(c)
  <2>1. Service!Ask(c)
    BY <1>1 DEF Ask, Service!Ask
  <2>2. QED
    BY <2>1 DEF Service!Next
<1>2. CASE RecvDone(c)
  <2>1. Service!Finish(c)
    BY <1>2 DEF RecvDone, Service!Finish
  <2>2. QED
    BY <2>1 DEF Service!Next
<1>3. CASE RecvCut(c) \/ Vanish(c)
  <2>1. Service!GiveUp(c)
    BY <1>3 DEF RecvCut, Vanish, Service!GiveUp
  <2>2. QED
    BY <2>1 DEF Service!Next
<1>4. QED
  BY <1>1, <1>2, <1>3 DEF RequesterStep

\* Who is sent something, and has not left, has asked.
LEMMA ServedHaveAsked ==
  ASSUME Typed, BacklogWaits, NEW t \in Requesters, pc[t] # "none", ~Left(t)
  PROVE  requester[t] = "asked" /\ Stage[t] = "asked"
BY DEF Typed, DataTypeOK, BacklogWaits, Left, Stage

\* A refusal is no part of a chunk.
LEMMA PrefixIsNoRefusal ==
  ASSUME NEW t \in Requesters, NEW n \in Nat
  PROVE  Prefix(t, n) # RefusalBytes
<1>1. SUFFICES ASSUME Prefix(t, n) = RefusalBytes PROVE FALSE
  OBVIOUS
<1>2. n = ResLen
  BY <1>1, PrefixNext, RefusalIsSeq
<1>3. Prefix(t, n)[1] = <<t, 1>>
  BY <1>2, LengthsAssumption DEF Prefix
<1>4. <<t, 1>> = <<"refusal", 1>>
  BY <1>1, <1>3, RefusalIsSeq
<1>5. QED
  BY <1>4, RequestersAssumption

\* What a thread sends is what the service may send next.
LEMMA ServiceThread ==
  ASSUME IInv, NEW t \in Requesters, ThreadStep(t), ~harmed, ~harmed'
  PROVE  Service!Next \/ UNCHANGED Service!serviceVars
<1>1. /\ process = "up" /\ pc[t] # "none" /\ UNCHANGED <<requester, harmed>>
  <2>1. process = "up" /\ pc[t] # "none" /\ UNCHANGED requester
    BY ThreadStepStarts DEF IInv
  <2>2. [Next]_vars
    BY DEF Next
  <2>3. harmed' = harmed
    BY <2>2, TypedNext DEF IInv, Typed, DataTypeOK
  <2>4. QED
    BY <2>1, <2>3
<1>2. /\ bytes_sent \in [Requesters -> Nat]
      /\ received \in [Requesters -> Seq(Bytes)]
  BY LengthsAssumption DEF IInv, Typed, DataTypeOK
<1>3. UNCHANGED Stage
  BY <1>1 DEF Stage
<1>4. CASE Left(t) \/ UNCHANGED received
  <2>1. UNCHANGED received
    BY <1>1, <1>4, DeliverOwn, ThreadStepSends
    DEF IInv, SendPiece, Refuse, Goto, HoldsConn
  <2>2. QED
    BY <1>1, <2>1, ServiceStutter
<1>5. CASE SendPiece(t) /\ ~Left(t)
  <2>1. pc[t] = "send" /\ HoldsConn(t) /\ bytes_sent[t] < ChunkLen
    BY <1>5 DEF SendPiece, Goto, HoldsConn, Unsent
  <2>2. chunk_data[t] = t
    BY <1>1, <2>1, OwnBefore DEF IInv, OwnWork
  <2>3. received[t] = Prefix(t, bytes_sent[t])
    BY <1>5, <2>1 DEF IInv, Received
  <2>4. received' = [received EXCEPT ![t] = @ \o << <<t, bytes_sent[t] + 1>> >>]
    BY <1>1, <1>5, <2>1, <2>2, DeliverOwn DEF IInv, SendPiece, Piece
  <2>5. /\ Len(received[t]) = bytes_sent[t]
        /\ received[t] \o << <<t, bytes_sent[t] + 1>> >>
             = Append(received[t], <<t, Len(received[t]) + 1>>)
        /\ received[t] # RefusalBytes
    <3>1. bytes_sent[t] \in Nat
      BY <1>2
    <3>2. Len(received[t]) = bytes_sent[t] /\ received[t] # RefusalBytes
      BY <2>3, <3>1, PrefixNext, PrefixIsNoRefusal
    <3>3. received[t] \o << <<t, bytes_sent[t] + 1>> >>
             = Append(received[t], <<t, bytes_sent[t] + 1>>)
      BY <2>3, <3>1, PrefixNext
    <3>4. QED
      BY <3>2, <3>3
  <2>6. Stage[t] = "asked"
    BY <1>1, <1>5, ServedHaveAsked DEF IInv
  <2>7. Service!SendNext(t)
    BY <1>1, <1>2, <1>3, <2>1, <2>4, <2>5, <2>6 DEF Service!SendNext
  <2>8. QED
    BY <2>7 DEF Service!Next
<1>6. CASE Refuse(t) /\ ~Left(t)
  <2>1. pc[t] = "check" /\ HoldsConn(t)
    BY <1>6 DEF Refuse, Goto, HoldsConn
  <2>2. received[t] = <<>>
    BY <2>1 DEF IInv, Received
  <2>3. received' = [received EXCEPT ![t] = @ \o RefusalBytes]
    BY <1>1, <1>6, <2>1, DeliverOwn DEF IInv, Refuse
  <2>4. received[t] \o RefusalBytes = RefusalBytes
    BY <2>2, RefusalIsSeq, ConcatEmptySeq
  <2>5. Stage[t] = "asked"
    BY <1>1, <1>6, ServedHaveAsked DEF IInv
  <2>6. Service!SendRefusal(t)
    BY <1>1, <1>2, <1>3, <2>2, <2>3, <2>4, <2>5 DEF Service!SendRefusal
  <2>7. QED
    BY <2>6 DEF Service!Next
<1>7. QED
  BY <1>4, <1>5, <1>6, ThreadStepSends

\* Every step is a step of the service, or none.
LEMMA ServiceNext ==
  ASSUME IInv, [Next]_vars
  PROVE  [Service!Next]_(Service!serviceVars)
<1>1. CASE harmed
  BY <1>1, HarmStays DEF IInv, Service!Next
<1>2. CASE ~harmed /\ harmed'
  <2>1. PICK t \in Requesters : CloseConn(t)
    BY <1>2, HarmByRefusal DEF IInv
  <2>2. UNCHANGED <<requester, received>>
    BY <2>1 DEF CloseConn, requesterVars
  <2>3. Service!Harm
    BY <1>2, <2>2 DEF Service!Harm, Stage, IInv, Typed, DataTypeOK
  <2>4. QED
    BY <2>3 DEF Service!Next
<1>3. CASE ~harmed /\ ~harmed'
  <2>1. CASE UNCHANGED <<requester, received>>
    <3>1. harmed' = harmed
      BY <1>3, TypedNext DEF IInv, Typed, DataTypeOK
    <3>2. QED
      BY <2>1, <3>1, ServiceStutter
  <2>2. ASSUME NEW t \in Requesters, ThreadStep(t)
        PROVE  [Service!Next]_(Service!serviceVars)
    BY <1>3, <2>2, ServiceThread
  <2>3. ASSUME NEW c \in Requesters, Ask(c) \/ RequesterStep(c) \/ Vanish(c)
        PROVE  [Service!Next]_(Service!serviceVars)
    BY <2>3, ServiceRequester DEF IInv
  <2>4. AcceptStep => UNCHANGED <<requester, received>>
    BY DEF AcceptStep, Accept, AcceptFails, requesterVars
  <2>5. \A f \in Fds : RpcOpen(f) \/ ConnectFails(f) =>
          UNCHANGED <<requester, received>>
    BY DEF RpcOpen, ConnectFails, requesterVars
  <2>6. ~RpcWrite
    BY <1>3 DEF RpcWrite, IInv, Owned, OfRpc
  <2>7. RpcClose \/ UNCHANGED vars => UNCHANGED <<requester, received>>
    BY DEF RpcClose, vars, requesterVars
  <2>8. QED
    BY <2>1, <2>2, <2>3, <2>4, <2>5, <2>6, <2>7 DEF Next
<1>4. QED
  BY <1>1, <1>2, <1>3

\* The data server implements DataService: until somebody's descriptor is closed
\* by somebody else, each requester is sent pieces of its own chunk, in their
\* order and none twice, or one refusal (data_server.cpp:33-107).
THEOREM ImplementsService == Spec => ServiceSpec
<1>1. Init => Service!Init
  BY ServiceInit
<1>2. IInv /\ [Next]_vars => [Service!Next]_(Service!serviceVars)
  BY ServiceNext
<1>3. QED
  BY <1>1, <1>2, IInvHolds, PTL DEF Spec, ServiceSpec, Service!Spec
=============================================================================
