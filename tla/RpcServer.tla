----------------------------- MODULE RpcServer -----------------------------
(***************************************************************************)
(* The RPC clients (src/src/rpc.cpp), the loop that serves them            *)
(* (handle_rpc_server) and the upload in detail (handle_file_upload): the  *)
(* size is asked for, the file is read, hashed and copied chunk by chunk,  *)
(* and the hub is told its size and the hashes of its chunks.              *)
(*                                                                         *)
(* Users write their files as they like, in the middle of a copy too.  The *)
(* copy goes into the directory that the data server serves, in place and  *)
(* without truncation.  A download is only what it does to this thread and *)
(* this directory; ChunkDownload and Dfs have the rest of it.              *)
(*                                                                         *)
(* A file is a sequence of bytes.  compute_hash sees whole words only, and *)
(* tells any two sequences of words apart: its collisions are Hub's.       *)
(***************************************************************************)
EXTENDS Integers, Sequences, SequencesExt, FiniteSets

CONSTANTS
  Clients,     \* the runs of the RPC client's program
  None,        \* no client, no file, no descriptor, nothing
  Request,     \* client -> [op, path], from its command line
  Paths,       \* the files there may be
  OutPath,     \* path -> where its copy goes: files_dir and its last component
  AtFirst,     \* path -> its content at first, or None
  Written,     \* what users write to their files, and other dnodes send
  JunkByte,    \* a byte of memory that nobody has written
  JunkSizes,   \* what stat leaves of the size of a file that does not exist
  ChunkSize,   \* FILE_CHUNK_SIZE
  WordSize,    \* the bytes that compute_hash takes at once
  IntLimit,    \* 2^31
  MayDie,      \* the clients that may die
  MayStop,     \* may the dnode's process be killed?
  MayHang,     \* may a download not return?
  DiskMayFill, \* may a write fail?
  MaxEdits     \* bound: how often users write to files

ASSUME SizesAssumption ==
  /\ WordSize \in Nat \ {0} /\ IntLimit \in Nat \ {0} /\ MaxEdits \in Nat
  /\ ChunkSize \in Nat \ {0} /\ ChunkSize % WordSize = 0
ASSUME RequestAssumption ==
  /\ Request \in [Clients -> [op : {"upload", "download"}, path : Paths]]
  /\ OutPath \in [Paths -> Paths]
  /\ \A p \in Paths : OutPath[OutPath[p]] = OutPath[p]
  /\ \A c \in Clients :
       Request[c].op = "download" => OutPath[Request[c].path] = Request[c].path

Bytes == (UNION {Range(s) : s \in Written}) \cup {JunkByte}
           \cup (UNION {Range(AtFirst[p]) : p \in {q \in Paths : AtFirst[q] # None}})
Ints == -IntLimit .. IntLimit - 1

ASSUME NoneAssumption == None \notin Clients \cup Nat \cup Seq(Bytes)
ASSUME FilesAssumption ==
  /\ AtFirst \in [Paths -> Seq(Bytes) \cup {None}] /\ Written \subseteq Seq(Bytes)
  /\ JunkSizes \subseteq Ints

VARIABLES
  disk,         \* path -> its bytes, or None
  edits,        \* how often users have written
  client,       \* where each client stands
  process,      \* is the dnode's process "up" or "down"?
  backlog,      \* connections that are not accepted yet, oldest first
  pc,           \* where the RPC thread stands
  served,       \* whose connection newsockfd is
  file_size,    \* the size of the file, from get_file_size
  read_at,      \* the position of read_fd; None if it could not be opened
  write_at,     \* the position of write_fd
  chunk_buffer, \* what has been read of the current chunk
  chunk_hashes, \* chunk_hash_list, as far as it is filled
  announced,    \* what this dnode has told the hub last of each file it has
  original      \* history: the bytes of the file that is uploaded, unless it
                \* was missing or somebody has written to it since

clientVars == <<client, backlog>>
threadVars == <<pc, served>>
copyVars == <<file_size, read_at, write_at, chunk_buffer, chunk_hashes>>
vars == <<disk, edits, clientVars, process, threadVars, copyVars, announced,
          original>>

Init ==
  /\ disk = AtFirst /\ edits = 0
  /\ client = [c \in Clients |-> "off"]
  /\ process = "up" /\ backlog = <<>>
  /\ pc = "accept" /\ served = None
  /\ file_size = 0 /\ read_at = None /\ write_at = 0
  /\ chunk_buffer = <<>> /\ chunk_hashes = <<>>
  /\ announced = [p \in Paths |-> None]
  /\ original = None

-----------------------------------------------------------------------------
(* Users.                                                                  *)

UserFiles == {p \in Paths : OutPath[p] # p}
Source == IF served = None THEN None ELSE Request[served].path
Target == IF served = None THEN None ELSE OutPath[Source]

Edit(p, s) ==
  /\ edits < MaxEdits /\ disk[p] # s
  /\ disk' = [disk EXCEPT ![p] = s]
  /\ edits' = edits + 1
  /\ original' = IF p = Source THEN None ELSE original
  /\ UNCHANGED <<clientVars, process, threadVars, copyVars, announced>>

-----------------------------------------------------------------------------
(* The client: main of rpc.cpp.                                            *)

MoveClient(c, from, to) ==
  /\ client[c] = from
  /\ client' = [client EXCEPT ![c] = to]

\* It connects and sends the request, or dies before all of it is sent.
Ask(c) ==
  /\ process = "up"
  /\ \/ MoveClient(c, "off", "asked")
     \/ c \in MayDie /\ MoveClient(c, "off", "broken")
  /\ backlog' = Append(backlog, c)
  /\ UNCHANGED <<disk, edits, process, threadVars, copyVars, announced,
                 original>>

\* Without a dnode nothing is sent or received, nobody looks, and rpc_res is
\* printed as it was in memory.
AskNobody(c) ==
  /\ process = "down"
  /\ MoveClient(c, "off", "misled")
  /\ UNCHANGED <<disk, edits, backlog, process, threadVars, copyVars, announced,
                 original>>

\* It dies while it waits for its answer.
Die(c) ==
  /\ c \in MayDie /\ MoveClient(c, "asked", "gone")
  /\ UNCHANGED <<disk, edits, backlog, process, threadVars, copyVars, announced,
                 original>>

-----------------------------------------------------------------------------
(* The accepting loop: handle_rpc_server.                                  *)

Goto(from, to) ==
  /\ process = "up" /\ pc = from
  /\ pc' = to

Accept ==
  /\ Goto("accept", "recv")
  /\ backlog # <<>>
  /\ served' = Head(backlog) /\ backlog' = Tail(backlog)
  /\ UNCHANGED <<disk, edits, client, process, copyVars, announced, original>>

\* The rest of the request never comes, and recv_full does not return.
SpinForRequest ==
  /\ Goto("recv", "spin")
  /\ client[served] = "broken"
  /\ UNCHANGED <<disk, edits, clientVars, process, served, copyVars, announced,
                 original>>

TakeDownload ==
  /\ Goto("recv", "fetch")
  /\ client[served] # "broken" /\ Request[served].op = "download"
  /\ UNCHANGED <<disk, edits, clientVars, process, served, copyVars, announced,
                 original>>

-----------------------------------------------------------------------------
(* Sizes and chunks, as handle_file_upload has them and, of the size that   *)
(* was announced, multi_threaded_download.                                 *)

\* The size as an int.
AsInt(n) == ((n + IntLimit) % (2 * IntLimit)) - IntLimit

\* C's division rounds towards zero: a negative size has no chunk that is read.
CompleteChunks(size) == IF size < 0 THEN 0 ELSE size \div ChunkSize
PartialSize(size) == IF size < 0 THEN 0 ELSE size % ChunkSize

CompleteOnly(size) == CompleteChunks(size)   \* mutant: without num_chunks += 1
NumChunks(size) ==
  CompleteChunks(size) + (IF PartialSize(size) > 0 THEN 1 ELSE 0)

Offset(i) == i * ChunkSize
WholeChunk(size, i) == ChunkSize             \* mutant: no shorter last chunk
ChunkLen(size, i) ==
  IF i < CompleteChunks(size) THEN ChunkSize ELSE PartialSize(size)

\* compute_hash leaves out what is no whole word.
Hash(bytes) == SubSeq(bytes, 1, Len(bytes) - (Len(bytes) % WordSize))

-----------------------------------------------------------------------------
(* Upload: handle_file_upload.                                             *)

Truncated(old) == <<>>    \* mutant: open with O_TRUNC
Opened(old) == IF old = None THEN <<>> ELSE old

\* The handler begins, and get_file_size asks stat.
TakeUpload ==
  LET old == disk[Source] IN
    /\ Goto("recv", "open")
    /\ client[served] # "broken" /\ Request[served].op = "upload"
    /\ \/ old # None /\ file_size' = AsInt(Len(old))
       \/ old = None /\ file_size' \in JunkSizes
    /\ original' = old
    /\ read_at' = None /\ write_at' = 0 /\ chunk_buffer' = <<>> /\ chunk_hashes' = <<>>
    /\ UNCHANGED <<disk, edits, clientVars, process, served, announced>>

\* The two calls of open.
OpenFiles ==
  /\ Goto("open", "copy")
  /\ read_at' = IF disk[Source] = None THEN None ELSE 0
  /\ disk' = [disk EXCEPT ![Target] = Opened(@)]
  /\ UNCHANGED <<edits, clientVars, process, served, file_size, write_at,
                 chunk_buffer, chunk_hashes, announced, original>>

Chunk == Len(chunk_hashes)    \* i
Wanted == ChunkLen(file_size, Chunk) - Len(chunk_buffer)
Copying == pc = "copy" /\ Chunk < NumChunks(file_size)
Left == Len(disk[Source]) - read_at

\* One pass of fread_full.
ReadPass(n) ==
  /\ Goto("copy", "copy")
  /\ Copying /\ Wanted > 0
  /\ read_at # None /\ n <= Wanted /\ n <= Left
  /\ chunk_buffer' = chunk_buffer \o SubSeq(disk[Source], read_at + 1, read_at + n)
  /\ read_at' = read_at + n
  /\ UNCHANGED <<disk, edits, clientVars, process, served, file_size,
                 write_at, chunk_hashes, announced, original>>

\* read returns 0 at the end of the file, and fread_full does not return.
ReadSpins ==
  /\ Goto("copy", "spin")
  /\ Copying /\ Wanted > 0
  /\ read_at # None /\ Left <= 0
  /\ UNCHANGED <<disk, edits, clientVars, process, served, copyVars, announced,
                 original>>

\* Without a descriptor fread_full fails, nobody looks, and the buffer is what
\* was on the stack.
ReadFails ==
  /\ Goto("copy", "copy")
  /\ Copying /\ Wanted > 0 /\ read_at = None
  /\ chunk_buffer' = [k \in 1 .. Wanted |-> JunkByte]
  /\ UNCHANGED <<disk, edits, clientVars, process, served, file_size, read_at,
                 write_at, chunk_hashes, announced, original>>

Appended(old, at, bytes) ==   \* mutant: open with O_APPEND
  old \o bytes
Overwritten(old, at, bytes) ==
  [k \in 1 .. (IF Len(old) > at + Len(bytes) THEN Len(old) ELSE at + Len(bytes)) |->
     IF k \in at + 1 .. at + Len(bytes) THEN bytes[k - at] ELSE old[k]]

\* The chunk is complete: it is hashed, and written from the same buffer.  Nobody
\* looks whether it could be written.
HashAndWrite ==
  /\ Goto("copy", "copy")
  /\ Copying /\ Wanted = 0
  /\ chunk_hashes' = Append(chunk_hashes, Hash(chunk_buffer))
  /\ \/ /\ disk' = [disk EXCEPT ![Target] = Overwritten(@, write_at, chunk_buffer)]
        /\ write_at' = write_at + Len(chunk_buffer)
     \/ DiskMayFill /\ UNCHANGED <<disk, write_at>>
  /\ chunk_buffer' = <<>>
  /\ UNCHANGED <<edits, clientVars, process, served, file_size, read_at,
                 announced, original>>

\* The hub is told, or nobody is when there is no hub; Dfs tells them apart.  The
\* buffer and the list of hashes end with the handler.
Announce ==
  /\ Goto("copy", "reply")
  /\ ~Copying
  /\ announced' =
       [announced EXCEPT ![Target] = [size |-> file_size, index |-> chunk_hashes]]
  /\ chunk_buffer' = <<>> /\ chunk_hashes' = <<>>
  /\ UNCHANGED <<disk, edits, clientVars, process, served, file_size, read_at,
                 write_at, original>>

-----------------------------------------------------------------------------
(* Download: handle_file_download, as far as it keeps this thread busy and *)
(* writes to this directory.  Whatever it has told the hub is not about a  *)
(* copy of this thread's.                                                  *)

Fetch(s) ==
  /\ Goto("fetch", "reply")
  /\ disk' = [disk EXCEPT ![Target] = Overwritten(Opened(@), 0, s)]
  /\ announced' = [announced EXCEPT ![Target] = None]
  /\ UNCHANGED <<edits, clientVars, process, served, copyVars, original>>

FetchHangs ==
  /\ MayHang /\ Goto("fetch", "spin")
  /\ UNCHANGED <<disk, edits, clientVars, process, served, copyVars, announced,
                 original>>

-----------------------------------------------------------------------------
(* The answer, and the next request.                                       *)

ToEarlier(c) ==           \* mutant: no answer for a file without chunks
  IF c = served /\ NumChunks(file_size) > 0 THEN "success" ELSE client[c]
Answered(c) ==
  IF c = served /\ client[c] = "asked" THEN "success" ELSE client[c]

Reply ==
  /\ Goto("reply", "accept")
  /\ client' = [c \in Clients |-> Answered(c)]
  /\ served' = None
  /\ UNCHANGED <<disk, edits, backlog, process, copyVars, announced, original>>

Stop ==
  /\ MayStop /\ process = "up"
  /\ process' = "down"
  /\ UNCHANGED <<disk, edits, clientVars, threadVars, copyVars, announced,
                 original>>

-----------------------------------------------------------------------------
(* The specification.                                                      *)

ServerStep ==
  \/ Accept \/ SpinForRequest \/ TakeDownload \/ TakeUpload \/ OpenFiles
  \/ \E n \in 1 .. ChunkSize : ReadPass(n)
  \/ ReadSpins \/ ReadFails \/ HashAndWrite \/ Announce
  \/ \E s \in Written : Fetch(s)
  \/ FetchHangs \/ Reply

Next ==
  \/ ServerStep
  \/ \E c \in Clients : Ask(c) \/ AskNobody(c) \/ Die(c)
  \/ \E p \in UserFiles, s \in Written : Edit(p, s)
  \/ Stop

Spec == Init /\ [][Next]_vars

\* The scheduler runs the RPC thread.  Clients and users act as they like.
FairSpec == Spec /\ WF_vars(ServerStep)

-----------------------------------------------------------------------------
(* Safety.                                                                 *)

\* Every variable keeps to its range, the buffer to the chunk it is for, and the
\* list of hashes to the number of chunks (rpc_server.cpp:34, 46-57).
RpcTypeOK ==
  /\ \A p \in Paths : disk[p] # None => disk[p] \in Seq(Bytes)
  /\ edits \in 0 .. MaxEdits
  /\ client \in [Clients -> {"off", "asked", "broken", "success", "misled", "gone"}]
  /\ process \in {"up", "down"} /\ backlog \in Seq(Clients)
  /\ pc \in {"accept", "recv", "open", "copy", "fetch", "reply", "spin"}
  /\ served \in Clients \cup {None} /\ (served = None <=> pc = "accept")
  /\ file_size \in Ints
  /\ read_at \in {None, 0} \cup 0 .. file_size /\ write_at \in {0} \cup 0 .. file_size
  /\ Len(chunk_buffer) <= ChunkLen(file_size, Chunk)
  /\ Chunk <= NumChunks(file_size)
  /\ \A p \in Paths : announced[p] # None =>
       /\ announced[p].size \in Ints
       /\ Len(announced[p].index) = NumChunks(announced[p].size)

\* The chunks of p that an upload has written and not announced: it is under way,
\* or it was broken off by a thread that spins or a process that was killed.
Rewritten(p) == IF Target = p THEN 0 .. Chunk - 1 ELSE {}

\* However users write to their files, a copy is what the hub was told of it last:
\* each chunk a downloader will ask for lies inside the file and has the hash of the
\* index, but for the chunks of an upload that is under way or was broken off.  That
\* one harms no other chunk and never makes the copy shorter; the chunks it has
\* written stay as they are, under the old index (rpc_server.cpp:71-97, 115-128 and
\* 347-357).
IndexDescribesCopy ==
  \A p \in Paths : announced[p] # None =>
    LET size == announced[p].size IN
      /\ size <= Len(disk[p])
      /\ \A i \in (0 .. NumChunks(size) - 1) \ Rewritten(p) :
           Hash(SubSeq(disk[p], Offset(i) + 1, Offset(i) + ChunkLen(size, i)))
             = announced[p].index[i + 1]

\* Who is told of a success has uploaded the whole of the file, unless it was not
\* there or was written to meanwhile (rpc_server.cpp:36-143, rpc.cpp:71-72).
SuccessMeansStored ==
  pc = "reply" /\ Request[served].op = "upload" /\ original # None =>
    /\ announced[Target].size = Len(original)
    /\ Len(disk[Target]) >= Len(original)
    /\ SubSeq(disk[Target], 1, Len(original)) = original

\* The RPC thread stops for ever only in a download, for a client that died, or
\* for a file that was written to while it was copied: not even for one that is
\* copied to itself (fs.cpp:25-32, net.cpp:176-185, rpc_server.cpp:61-62).
SpinForAReason ==
  pc = "spin" => \/ client[served] = "broken" \/ Request[served].op = "download"
                 \/ original = None

-----------------------------------------------------------------------------
(* Liveness, under FairSpec.                                               *)

\* Who has asked is answered in the end, after those before it, or the RPC thread
\* spins or the process is down by then (rpc_server.cpp:599-628).
AskedAreAnswered ==
  \A c \in Clients :
    client[c] = "asked" ~> \/ client[c] \in {"success", "gone"}
                           \/ pc = "spin" \/ process = "down"
=============================================================================
