--------------------------- MODULE ChunkDownload ---------------------------
(***************************************************************************)
(* The multi-threaded download of one file (src/src/dnode/rpc_server.cpp,  *)
(* multi_threaded_download and download_thread_handler) and the report     *)
(* that handle_file_download sends when it is over.                        *)
(*                                                                         *)
(* DOWNLOAD_THREADS threads share the list of chunks, the list of source   *)
(* dnodes and the counters of what is downloaded, each under a mutex of    *)
(* its own.  A critical section that takes one mutex and waits for nothing *)
(* inside is one action; the two sections that take a second mutex while   *)
(* they hold a first one are split at every acquisition.                   *)
(*                                                                         *)
(* Chunks and sources are numbered from 0, as in chunks_list and           *)
(* src_dnodes_list.  A slot of download_buffer remembers which chunk's     *)
(* bytes it holds; lengths stay exact.  The sources are the environment:   *)
(* constants say what each of them may do.                                 *)
(***************************************************************************)
EXTENDS Integers, FiniteSets

CONSTANTS
  Threads,     \* tid[0 .. DOWNLOAD_THREADS-1]
  NoThread,    \* the holder of a free mutex
  NumPeers,    \* num_peer_nodes: the length of the hub's list of sources
  FileSize,    \* file_size, as the hub told it
  ChunkSize,   \* FILE_CHUNK_SIZE
  Window,      \* DOWNLOADABLE_CHUNKS: chunks that fit download_buffer
  ResSize,     \* sizeof(file_data_res_struct), the body of a refusal
  MaxServed,   \* 1000000, where min_chunks_served starts
  MayRefuse,   \* the sources that may refuse a connection (down)
  MayBreak,    \* the sources that may die during a transfer
  Serves,      \* <<p, c>>: the copy of source p is long enough for chunk c
  Stale        \* <<p, c>>: what p holds at c is not what the index describes

Peers == 0 .. NumPeers - 1

\* num_chunks: the complete chunks, and one more for a partial tail.
PartialChunkSize == FileSize % ChunkSize
NumChunks ==
  FileSize \div ChunkSize + (IF PartialChunkSize > 0 THEN 1 ELSE 0)
Chunks == 0 .. NumChunks - 1

WholeSize(c) == ChunkSize      \* mutant: a partial tail counts as whole

\* chunks_list[c].size
Size(c) ==
  IF PartialChunkSize > 0 /\ c = NumChunks - 1 THEN PartialChunkSize
                                               ELSE ChunkSize

\* The chunks a round of the loop is for.  num_chunks_downloaded is 0 when the
\* loop is entered and the break at its end leaves it after one round, so
\* current_chunk_index is never anything but 0.
CurrentChunkIndex == 0
MaxChunkIndex ==
  IF CurrentChunkIndex + Window < NumChunks THEN CurrentChunkIndex + Window
                                            ELSE NumChunks
WindowChunks == CurrentChunkIndex .. MaxChunkIndex - 1

SharedSlot(c) == 0             \* mutant: every chunk at the same place

\* Where a chunk is put in download_buffer, counted in chunks.
Slot(c) == c - CurrentChunkIndex
Slots == 0 .. Window - 1

None == -1    \* chunk_index and min_dnode_index before a search
Junk == -1    \* a slot that holds the bytes of no chunk

Mutexes == {"chunks_list", "num_chunks", "src_dnodes"}

ASSUME ThreadsAssumption ==
  /\ Threads # {} /\ NoThread \notin Threads
  /\ Threads \cap {"free", "done", "lost"} = {}
ASSUME SizesAssumption ==
  /\ FileSize \in Nat /\ ChunkSize \in Nat \ {0} /\ Window \in Nat \ {0}
  /\ NumPeers \in Nat /\ ResSize \in Nat
  /\ MaxServed \in Nat /\ Window < MaxServed

VARIABLES
  main,                    \* where multi_threaded_download stands
  pc,                      \* where each thread stands
  chunk_index,             \* the chunk each thread works on
  min_dnode_index,         \* the source each thread asks
  lock,                    \* the holder of each mutex
  is_downloading,          \* chunks_list[c].is_downloading
  is_downloaded,           \* chunks_list[c].is_downloaded
  is_online,               \* src_dnodes_list[p].is_online
  chunks_served,           \* src_dnodes_list[p].chunks_served
  num_chunks_downloaded,
  num_bytes_downloaded,
  download_buffer,         \* slot -> the chunk whose bytes it holds
  bytes_written            \* length of the file written to files_dir

locals == <<chunk_index, min_dnode_index>>
chunks_list == <<is_downloading, is_downloaded>>
src_dnodes_list == <<is_online, chunks_served>>
counters == <<num_chunks_downloaded, num_bytes_downloaded>>
shared == <<chunks_list, src_dnodes_list, counters, download_buffer>>
vars == <<main, pc, locals, lock, shared, bytes_written>>

Init ==
  /\ main = "loop"
  /\ pc = [t \in Threads |-> "idle"]
  /\ chunk_index = [t \in Threads |-> None]
  /\ min_dnode_index = [t \in Threads |-> None]
  /\ lock = [m \in Mutexes |-> NoThread]
  /\ is_downloading = [c \in Chunks |-> FALSE]
  /\ is_downloaded = [c \in Chunks |-> FALSE]
  /\ is_online = [p \in Peers |-> TRUE]
  /\ chunks_served = [p \in Peers |-> 0]
  /\ num_chunks_downloaded = 0
  /\ num_bytes_downloaded = 0
  /\ download_buffer = [s \in Slots |-> Junk]
  /\ bytes_written = 0

-----------------------------------------------------------------------------
(* A thread: download_thread_handler.                                      *)

Goto(t, from, to) ==
  /\ pc[t] = from
  /\ pc' = [pc EXCEPT ![t] = to]
  /\ UNCHANGED <<main, bytes_written>>

\* The locals of one pass of the loop are gone when the next one begins.
DropLocals(t) ==
  /\ chunk_index' = [chunk_index EXCEPT ![t] = None]
  /\ min_dnode_index' = [min_dnode_index EXCEPT ![t] = None]

NeverHeld(m) == TRUE                        \* mutant: a mutex keeps nobody out
IsFree(m) == lock[m] = NoThread
Acquire(t, m) == IsFree(m) /\ lock' = [lock EXCEPT ![m] = t]
IsFirst(i, S) == i \in S /\ \A j \in S : i <= j

\* Stop when every chunk of the window is downloaded.
CheckCount(t) ==
  /\ Goto(t, "check",
          IF num_chunks_downloaded >= MaxChunkIndex THEN "exit" ELSE "take")
  /\ IsFree("num_chunks")
  /\ UNCHANGED <<locals, lock, shared>>

UnfetchedChunks == {c \in WindowChunks : ~is_downloaded[c]}  \* mutant

FreeChunks ==
  {c \in WindowChunks : ~is_downloaded[c] /\ ~is_downloading[c]}

\* Take the first chunk that is neither downloaded nor being downloaded.
TakeChunk(t) ==
  /\ Goto(t, "take", "pick")
  /\ IsFree("chunks_list")
  /\ \E c \in FreeChunks :
       /\ IsFirst(c, FreeChunks)
       /\ chunk_index' = [chunk_index EXCEPT ![t] = c]
       /\ is_downloading' = [is_downloading EXCEPT ![c] = TRUE]
  /\ UNCHANGED <<min_dnode_index, lock, is_downloaded, src_dnodes_list,
                 counters, download_buffer>>

\* No such chunk: the thread is over.
NoChunkLeft(t) ==
  /\ Goto(t, "take", "exit")
  /\ IsFree("chunks_list")
  /\ FreeChunks = {}
  /\ UNCHANGED <<locals, lock, shared>>

IdlePeers == {p \in Peers : is_online[p] /\ chunks_served[p] < 1}   \* mutant

OnlinePeers == {p \in Peers : is_online[p] /\ chunks_served[p] < MaxServed}

\* Take a source.  A candidate is kept only while min_dnode_index is still -1,
\* so the first online source is taken, however many chunks it served.
PickPeer(t) ==
  /\ Goto(t, "pick", "connect")
  /\ IsFree("src_dnodes")
  /\ \E p \in OnlinePeers :
       /\ IsFirst(p, OnlinePeers)
       /\ min_dnode_index' = [min_dnode_index EXCEPT ![t] = p]
  /\ UNCHANGED <<chunk_index, lock, shared>>

\* No source left: `continue`, and the chunk stays marked is_downloading.
NoPeerLeft(t) ==
  /\ Goto(t, "pick", "check")
  /\ IsFree("src_dnodes")
  /\ OnlinePeers = {}
  /\ DropLocals(t)
  /\ UNCHANGED <<lock, shared>>

\* connect_to_server succeeds and the chunk is asked for, or it fails.
Connect(t) ==
  /\ Goto(t, "connect", "recv")
  /\ UNCHANGED <<locals, lock, shared>>

ConnectFails(t) ==
  /\ Goto(t, "connect", "refused")
  /\ min_dnode_index[t] \in MayRefuse
  /\ UNCHANGED <<locals, lock, shared>>

\* After a refused connection the mutex of the sources is taken first ...
LockPeersOfRefused(t) ==
  /\ Goto(t, "refused", "refused_src")
  /\ Acquire(t, "src_dnodes")
  /\ UNCHANGED <<locals, shared>>

StillMarked(c) == is_downloading     \* mutant: the chunk is not handed back
Unmarked(c) == [is_downloading EXCEPT ![c] = FALSE]

\* ... and that of the chunks second.  The chunk is handed back, the source is
\* offline for the rest of the download, and both mutexes are released.
MarkRefused(t) ==
  /\ Goto(t, "refused_src", "check")
  /\ IsFree("chunks_list")
  /\ is_downloading' = Unmarked(chunk_index[t])
  /\ is_online' = [is_online EXCEPT ![min_dnode_index[t]] = FALSE]
  /\ lock' = [lock EXCEPT !["src_dnodes"] = NoThread]
  /\ DropLocals(t)
  /\ UNCHANGED <<is_downloaded, chunks_served, counters, download_buffer>>

Asked(t) == <<min_dnode_index[t], chunk_index[t]>>

\* What recv_full leaves in the chunk's slot, and whether it returns at all:
\* on a closed connection recv returns 0, which it counts as progress, for ever.
Receive(t, bytes, next) ==
  /\ Goto(t, "recv", next)
  /\ download_buffer' =
       [download_buffer EXCEPT ![Slot(chunk_index[t])] = bytes]
  /\ UNCHANGED <<locals, lock, chunks_list, src_dnodes_list, counters>>

\* The chunk arrives as the source holds it.  Its hash is assigned, not
\* compared, to the one of the index, and both outcomes only print.
RecvChunk(t) ==
  /\ Asked(t) \in Serves
  /\ Receive(t, IF Asked(t) \in Stale THEN Junk ELSE chunk_index[t],
                "received")

\* The copy of the source is too short: it answers a file_data_res_struct and
\* closes.  That answer is enough to fill a chunk that is no longer than it.
RecvRefusal(t) ==
  /\ Asked(t) \notin Serves
  /\ Receive(t, Junk,
             IF Size(chunk_index[t]) <= ResSize THEN "received" ELSE "spin")

\* The source dies: recv_full returns -1 on a reset connection, which nobody
\* looks at, and does not return on a closed one.
RecvBroken(t) ==
  /\ min_dnode_index[t] \in MayBreak
  /\ \E next \in {"received", "spin"} : Receive(t, Junk, next)

Spin(t) == pc[t] = "spin" /\ UNCHANGED vars

\* The update takes the three mutexes in the order chunks, count, sources.
LockChunks(t) ==
  /\ Goto(t, "received", "received_chunks")
  /\ Acquire(t, "chunks_list")
  /\ UNCHANGED <<locals, shared>>

LockCount(t) ==
  /\ Goto(t, "received_chunks", "received_count")
  /\ Acquire(t, "num_chunks")
  /\ UNCHANGED <<locals, shared>>

\* With the third one taken the chunk is downloaded and credited to its source.
MarkDownloaded(t) ==
  /\ Goto(t, "received_count", "advance")
  /\ Acquire(t, "src_dnodes")
  /\ is_downloaded' = [is_downloaded EXCEPT ![chunk_index[t]] = TRUE]
  /\ chunks_served' = [chunks_served EXCEPT ![min_dnode_index[t]] = @ + 1]
  /\ UNCHANGED <<locals, is_downloading, is_online, counters,
                 download_buffer>>

BelowMax == num_chunks_downloaded < MaxChunkIndex   \* mutant: CanAdvance
                                                    \* skips the chunk's flag
CanAdvance ==
  /\ num_chunks_downloaded < MaxChunkIndex
  /\ is_downloaded[num_chunks_downloaded]

\* One pass of the loop that moves the counters over the downloaded prefix ...
Advance(t) ==
  /\ Goto(t, "advance", "advance")
  /\ CanAdvance
  /\ num_bytes_downloaded' =
       num_bytes_downloaded + Size(num_chunks_downloaded)
  /\ num_chunks_downloaded' = num_chunks_downloaded + 1
  /\ UNCHANGED <<locals, lock, chunks_list, src_dnodes_list,
                 download_buffer>>

CountKept == [lock EXCEPT !["chunks_list"] = NoThread,  \* mutant: one is kept
                          !["src_dnodes"] = NoThread]
AllReleased == [m \in Mutexes |-> NoThread]

\* ... and its end, where the three mutexes are released.
Release(t) ==
  /\ Goto(t, "advance", "check")
  /\ ~CanAdvance
  /\ DropLocals(t)
  /\ lock' = AllReleased
  /\ UNCHANGED shared

ThreadStep(t) ==
  \/ CheckCount(t) \/ TakeChunk(t) \/ NoChunkLeft(t)
  \/ PickPeer(t) \/ NoPeerLeft(t) \/ Connect(t) \/ ConnectFails(t)
  \/ LockPeersOfRefused(t) \/ MarkRefused(t)
  \/ RecvChunk(t) \/ RecvRefusal(t) \/ RecvBroken(t) \/ Spin(t)
  \/ LockChunks(t) \/ LockCount(t) \/ MarkDownloaded(t)
  \/ Advance(t) \/ Release(t)

-----------------------------------------------------------------------------
(* The main thread: the loop of multi_threaded_download, and the end of    *)
(* handle_file_download.                                                   *)

MainGoto(from, to) ==
  /\ main = from
  /\ main' = to
  /\ UNCHANGED <<locals, lock, shared>>

\* The condition of the loop: an empty file has no chunks, and no thread is
\* spawned for it.
EnterLoop ==
  /\ IF num_chunks_downloaded < NumChunks
     THEN /\ MainGoto("loop", "join")
          /\ pc' = [t \in Threads |-> "check"]
     ELSE /\ MainGoto("loop", "report")
          /\ UNCHANGED pc
  /\ UNCHANGED bytes_written

\* How much of download_buffer goes to the file.
BufferSize == ChunkSize * Window
WholeBuffer == BufferSize      \* mutant: the tail of the buffer goes along
BufferEndOffset ==
  IF num_chunks_downloaded = NumChunks
  THEN num_bytes_downloaded % BufferSize
  ELSE BufferSize

\* The threads are joined, the buffer is written, and `break` ends the loop.
WriteBuffer ==
  /\ \A t \in Threads : pc[t] = "exit"
  /\ MainGoto("join", "report")
  /\ bytes_written' = bytes_written + BufferEndOffset
  /\ UNCHANGED pc

\* The hub is told that this dnode is a source, the RPC client of a success.
Report ==
  /\ MainGoto("report", "reported")
  /\ UNCHANGED <<pc, bytes_written>>

\* handle_file_download has returned.
Terminated == main = "reported" /\ UNCHANGED vars

Next ==
  \/ \E t \in Threads : ThreadStep(t)
  \/ EnterLoop
  \/ WriteBuffer
  \/ Report
  \/ Terminated

Spec == Init /\ [][Next]_vars

\* The scheduler runs every thread and the main thread.  No thread enters a
\* critical section infinitely often, so none can keep another one from a
\* mutex for ever, and weak fairness is enough.
Fairness ==
  /\ \A t \in Threads : WF_vars(ThreadStep(t))
  /\ WF_vars(EnterLoop \/ WriteBuffer \/ Report)

FairSpec == Spec /\ Fairness

-----------------------------------------------------------------------------
(* Type correctness.                                                       *)

PCs == {"idle", "check", "take", "pick", "connect", "refused", "refused_src",
        "recv", "spin", "received", "received_chunks", "received_count",
        "advance", "exit"}

\* Every variable keeps to its range: the threads' indices stay inside the
\* lists they index and the counters inside the file (rpc_server.cpp:149-309).
TypeOK ==
  /\ main \in {"loop", "join", "report", "reported"}
  /\ pc \in [Threads -> PCs]
  /\ chunk_index \in [Threads -> WindowChunks \cup {None}]
  /\ min_dnode_index \in [Threads -> Peers \cup {None}]
  /\ lock \in [Mutexes -> Threads \cup {NoThread}]
  /\ is_downloading \in [Chunks -> BOOLEAN]
  /\ is_downloaded \in [Chunks -> BOOLEAN]
  /\ is_online \in [Peers -> BOOLEAN]
  /\ chunks_served \in [Peers -> Nat]
  /\ num_chunks_downloaded \in 0 .. MaxChunkIndex
  /\ num_bytes_downloaded \in 0 .. FileSize
  /\ download_buffer \in [Slots -> WindowChunks \cup {Junk}]
  /\ bytes_written \in 0 .. BufferSize

-----------------------------------------------------------------------------
(* Safety.                                                                 *)

\* The steps at which a thread holds a chunk it has yet to download, and those
\* at which it has chosen a source for it.
Fetching == {"connect", "refused", "refused_src", "recv", "spin", "received",
             "received_chunks", "received_count"}
Working(t) == pc[t] \in Fetching \cup {"pick"}
HeldBy(t, c) == Working(t) /\ chunk_index[t] = c

\* The steps at which a thread holds each mutex.
HoldsSources == {"refused_src", "advance"}
HoldsChunks == {"received_chunks", "received_count", "advance"}
HoldsCount == {"received_count", "advance"}

\* The code's bookkeeping of a mutex agrees with where the threads stand, so
\* that two threads are never inside sections of the same mutex.
LockDiscipline ==
  \A t \in Threads :
    /\ lock["src_dnodes"] = t <=> pc[t] \in HoldsSources
    /\ lock["chunks_list"] = t <=> pc[t] \in HoldsChunks
    /\ lock["num_chunks"] = t <=> pc[t] \in HoldsCount

\* No two threads fetch the same chunk into the same place of the buffer, and
\* none fetches a chunk that is downloaded already, although a chunk's flags
\* are read and set in four critical sections (rpc_server.cpp:187-204, 238-243,
\* 286-291).
ChunkExclusive ==
  \A t \in Threads : Working(t) =>
    /\ ~is_downloaded[chunk_index[t]]
    /\ \A u \in Threads : HeldBy(u, chunk_index[t]) => u = t

\* The counter of downloaded chunks is the length of the longest downloaded
\* prefix whenever no thread is moving it, in whatever order the chunks arrive
\* (rpc_server.cpp:293-301).
CountIsPrefix ==
  /\ \A c \in WindowChunks : c < num_chunks_downloaded => is_downloaded[c]
  /\ (\A t \in Threads : pc[t] # "advance") => ~CanAdvance

\* The two counters agree: the bytes are those of the counted chunks, the
\* partial tail included (rpc_server.cpp:294-297, 355-357).
BytesMatchCount ==
  num_bytes_downloaded = IF num_chunks_downloaded = NumChunks
                         THEN FileSize
                         ELSE num_chunks_downloaded * ChunkSize

\* Chunks arrive in any order and four threads move the counters, but these only
\* ever cover what was downloaded without a gap, to the byte
\* (rpc_server.cpp:293-304, 355-357).
CountersCoverPrefix == CountIsPrefix /\ BytesMatchCount

\* One element for each chunk that a source was credited with.
Credits == UNION {{p} \X (1 .. chunks_served[p]) : p \in Peers}

\* The credits of the sources are as many as the downloaded chunks: none is
\* credited twice, to whichever source it was asked from (rpc_server.cpp:290-291).
CreditMatches ==
  Cardinality(Credits) = Cardinality({c \in Chunks : is_downloaded[c]})

\* A downloaded chunk stays downloaded and its bytes in the buffer are not
\* touched again, although every thread writes the buffer without a lock
\* (rpc_server.cpp:265, 290).
DownloadedStable ==
  [][\A c \in WindowChunks : is_downloaded[c] =>
       /\ is_downloaded'[c]
       /\ download_buffer'[Slot(c)] = download_buffer[Slot(c)]]_vars

\* A chunk that is marked as being downloaded has a thread that downloads it,
\* unless no source is left: a refused connection never strands a chunk while
\* another source could serve it (rpc_server.cpp:222-225, 238-243).
NoStrandedChunk ==
  \A c \in WindowChunks :
    is_downloading[c] /\ ~is_downloaded[c] /\ (\A t \in Threads : ~HeldBy(t, c))
      => \A p \in Peers : ~is_online[p]

AllExited == main = "join" /\ \A t \in Threads : pc[t] = "exit"

\* The threads are joined with chunks of the window missing only when every
\* source turned out to be offline, although a thread ends as soon as it finds
\* no chunk to take and another one may hand its chunk back after that
\* (rpc_server.cpp:199-203, 240).
CompleteUnlessPeersGone ==
  AllExited => \/ num_chunks_downloaded = MaxChunkIndex
               \/ \A p \in Peers : ~is_online[p]

\* A thread that waits for the chunks while it holds the sources, and one that
\* waits for the sources while it holds the chunks (rpc_server.cpp:238-239 and
\* 286-288).
InvertedLocks ==
  \E t, u \in Threads :
    pc[t] = "refused_src" /\ pc[u] \in {"received_chunks", "received_count"}

\* Once two threads hold the mutexes of chunks and sources in opposite orders
\* neither ever lets go (rpc_server.cpp:238-239, 286-288).
InvertedForGood == [][InvertedLocks => InvertedLocks']_vars

\* What "verified" should mean: a chunk that is marked as downloaded is what
\* the index describes (rpc_server.cpp:269-280).
ChunkVerified ==
  \A c \in WindowChunks : is_downloaded[c] => download_buffer[Slot(c)] = c

HoldsFile ==
  /\ bytes_written = FileSize
  /\ \A c \in Chunks : download_buffer[Slot(c)] = c

\* A dnode that reports to the hub that it is a source of the file has written
\* all of the file and nothing else (rpc_server.cpp:548-561).
AckMeansSource == main = "reported" => HoldsFile

-----------------------------------------------------------------------------
(* What the invariants above rest on: the inductive invariant of the proofs. *)

\* The indices of a thread that works on a chunk point into the lists.
IndicesInRange ==
  \A t \in Threads :
    /\ Working(t) => chunk_index[t] \in WindowChunks
    /\ pc[t] \in Fetching => min_dnode_index[t] \in Peers

\* A chunk that is held or downloaded is marked as being downloaded; the mark
\* of a downloaded chunk is never taken away.
ChunksMarked ==
  /\ \A t \in Threads : Working(t) => is_downloading[chunk_index[t]]
  /\ \A c \in WindowChunks : is_downloaded[c] => is_downloading[c]

\* No source can have served as many chunks as would hide it from the search
\* for the least loaded one.
Downloaded == {c \in WindowChunks : is_downloaded[c]}
CreditBounded == \A p \in Peers : chunks_served[p] <= Cardinality(Downloaded)

\* The threads run between EnterLoop and WriteBuffer only.
ThreadsRunInJoin ==
  /\ main = "loop" => /\ \A t \in Threads : pc[t] = "idle"
                      /\ num_chunks_downloaded = 0 /\ bytes_written = 0
  /\ main = "join" => /\ \A t \in Threads : pc[t] # "idle"
                      /\ bytes_written = 0
  /\ main \in {"report", "reported"} =>
       \A t \in Threads : pc[t] \in {"idle", "exit"}

\* Whoever hands a chunk back goes on to look for one.
FreeChunkHasThread ==
  main = "join" /\ FreeChunks # {} => \E t \in Threads : pc[t] # "exit"

IInv ==
  /\ TypeOK
  /\ BytesMatchCount
  /\ LockDiscipline
  /\ IndicesInRange
  /\ ChunksMarked
  /\ ChunkExclusive
  /\ CountIsPrefix
  /\ CreditBounded
  /\ NoStrandedChunk
  /\ ThreadsRunInJoin
  /\ FreeChunkHasThread

-----------------------------------------------------------------------------
(* Liveness, all under FairSpec.                                           *)

\* A download comes to its end with the file complete.
DownloadCompletes == <>(main = "reported" /\ HoldsFile)

\* The only things that stop a download are a transfer that never ends and the
\* inverted order of the two mutexes (rpc_server.cpp:238-239, 286-288).
EndsOrInverts ==
  <>(main = "reported" \/ InvertedLocks \/ \E t \in Threads : pc[t] = "spin")

\* A chunk whose source refused the connection is downloaded in the end
\* (rpc_server.cpp:237-245).
RefusedChunkIsRetried ==
  \A t \in Threads, c \in WindowChunks :
    pc[t] = "refused" /\ chunk_index[t] = c ~> is_downloaded[c]

\* A transfer that never ends costs the chunk it was for and the thread it runs
\* in, and no other chunk as long as a thread and a source are left and no mutex
\* is held for ever (net.cpp:173-188).
SpinCostsOneChunk ==
  <>(\/ \A t \in Threads : pc[t] = "spin"
     \/ InvertedLocks \/ \A p \in Peers : ~is_online[p]
     \/ \A c \in WindowChunks :
          is_downloaded[c] \/ \E t \in Threads : pc[t] = "spin" /\ HeldBy(t, c))

-----------------------------------------------------------------------------
(* The download implements a pool of chunks.                               *)

Owner(c) ==
  IF is_downloaded[c] THEN "done"
  ELSE IF ~is_downloading[c] THEN "free"
  ELSE IF \E t \in Threads : HeldBy(t, c)
       THEN CHOOSE t \in Threads : HeldBy(t, c)
       ELSE "lost"

Pool == INSTANCE ChunkPool WITH
  Chunks <- WindowChunks,
  Free <- "free", Done <- "done", Lost <- "lost",
  owner <- [c \in WindowChunks |-> Owner(c)],
  supply <- \E p \in Peers : is_online[p]

\* The locks, the flags and the three places where a thread gives a chunk up
\* amount to a pool: claimed by one thread at a time, handed back or completed,
\* and abandoned only when no source is left.
PoolSpec == Pool!Spec
=============================================================================
