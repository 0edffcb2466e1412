------------------------ MODULE ChunkDownloadProofs ------------------------
(***************************************************************************)
(* What ChunkDownload guarantees for any number of threads, sources,       *)
(* chunks and slots.                                                       *)
(***************************************************************************)
EXTENDS ChunkDownload, FiniteSetTheorems, TLAPS

-----------------------------------------------------------------------------
(* Sizes.                                                                  *)

\* The whole chunks and the tail make up the file.
LEMMA FileIsChunks ==
  /\ PartialChunkSize \in 0 .. ChunkSize - 1
  /\ FileSize \div ChunkSize \in Nat
  /\ FileSize = (FileSize \div ChunkSize) * ChunkSize + PartialChunkSize
BY SizesAssumption DEF PartialChunkSize

\* Multiplication by a natural number is monotonic.
LEMMA TimesMonotonic ==
  ASSUME NEW a \in Nat, NEW b \in Nat, NEW k \in Nat, a <= b
  PROVE  a * k <= b * k
OBVIOUS

\* The window is an initial segment of the chunks and fits the buffer.
LEMMA WindowSizes ==
  /\ NumChunks \in Nat
  /\ MaxChunkIndex \in Nat
  /\ MaxChunkIndex <= NumChunks
  /\ MaxChunkIndex <= Window
  /\ MaxChunkIndex = NumChunks \/ MaxChunkIndex = Window
<1>1. NumChunks \in Nat
  BY FileIsChunks, SizesAssumption DEF NumChunks
<1>2. QED
  BY <1>1, SizesAssumption DEF MaxChunkIndex, CurrentChunkIndex

\* Chunks of the window are chunks of the file, each with a slot.
LEMMA WindowChunksFit ==
  /\ WindowChunks \subseteq Chunks
  /\ \A c \in WindowChunks : c \in Nat /\ Slot(c) = c /\ Slot(c) \in Slots
BY WindowSizes, SizesAssumption
DEF WindowChunks, CurrentChunkIndex, Chunks, Slot, Slots

\* The bytes of the first n chunks.
BytesOf(n) == IF n = NumChunks THEN FileSize ELSE n * ChunkSize

\* The first chunks are never more than the file.
LEMMA BytesOfBounded ==
  ASSUME NEW n \in 0 .. NumChunks
  PROVE  BytesOf(n) \in 0 .. FileSize
<1>1. CASE n = NumChunks
  BY <1>1, SizesAssumption DEF BytesOf
<1>2. CASE n # NumChunks
  <2>1. n \in Nat /\ n <= FileSize \div ChunkSize
    BY <1>2, FileIsChunks, WindowSizes DEF NumChunks
  <2>2. n * ChunkSize <= (FileSize \div ChunkSize) * ChunkSize
    BY <2>1, FileIsChunks, TimesMonotonic, SizesAssumption
  <2>3. n * ChunkSize \in Nat /\ (FileSize \div ChunkSize) * ChunkSize \in Nat
    BY <2>1, FileIsChunks, SizesAssumption
  <2>4. n * ChunkSize <= FileSize
    BY <2>2, <2>3, FileIsChunks, SizesAssumption
  <2>5. QED
    BY <1>2, <2>3, <2>4, SizesAssumption DEF BytesOf
<1>3. QED
  BY <1>1, <1>2

\* One more chunk adds its size.
LEMMA BytesOfNext ==
  ASSUME NEW n \in 0 .. NumChunks - 1
  PROVE  BytesOf(n) + Size(n) = BytesOf(n + 1)
<1> DEFINE q == FileSize \div ChunkSize
<1>1. n \in Nat /\ n # NumChunks /\ BytesOf(n) = n * ChunkSize
  BY WindowSizes DEF BytesOf
<1>2. (n + 1) * ChunkSize = n * ChunkSize + ChunkSize
  BY <1>1, SizesAssumption
<1>3. CASE n + 1 # NumChunks
  <2>1. Size(n) = ChunkSize /\ BytesOf(n + 1) = (n + 1) * ChunkSize
    BY <1>1, <1>3, WindowSizes DEF Size, BytesOf
  <2>2. QED
    BY <1>1, <1>2, <2>1
<1>4. CASE n + 1 = NumChunks /\ PartialChunkSize > 0
  <2>1. n = q /\ Size(n) = PartialChunkSize /\ BytesOf(n + 1) = FileSize
    BY <1>1, <1>4, FileIsChunks, WindowSizes DEF Size, BytesOf, NumChunks
  <2>2. QED
    BY <1>1, <2>1, FileIsChunks
<1>5. CASE n + 1 = NumChunks /\ ~(PartialChunkSize > 0)
  <2>1. PartialChunkSize = 0 /\ n + 1 = q
    BY <1>1, <1>5, FileIsChunks, WindowSizes DEF NumChunks
  <2>2. Size(n) = ChunkSize /\ BytesOf(n + 1) = FileSize
    BY <1>5 DEF Size, BytesOf
  <2>3. FileSize = (n + 1) * ChunkSize + 0
    BY <2>1, FileIsChunks
  <2>4. QED
    BY <1>1, <1>2, <2>2, <2>3, SizesAssumption
<1>6. QED
  BY <1>3, <1>4, <1>5

-----------------------------------------------------------------------------
(* Types and the two counters.                                             *)

NothingWritten == main \in {"loop", "join"} => bytes_written = 0

Typed == TypeOK /\ BytesMatchCount /\ NothingWritten

USE DEF BytesMatchCount, NothingWritten

\* The lists as they are initialized are well typed and the counters agree at 0.
LEMMA TypedInit == Init => Typed
<1> SUFFICES ASSUME Init PROVE Typed
  OBVIOUS
<1>1. BytesOf(0) = 0
  <2>1. CASE NumChunks = 0
    <3>1. FileSize \div ChunkSize = 0 /\ PartialChunkSize = 0
      BY <2>1, FileIsChunks DEF NumChunks
    <3>2. FileSize = 0 * ChunkSize + 0
      BY <3>1, FileIsChunks
    <3>3. QED
      BY <2>1, <3>2, SizesAssumption DEF BytesOf
  <2>2. CASE NumChunks # 0
    BY <2>2, SizesAssumption DEF BytesOf
  <2>3. QED
    BY <2>1, <2>2
<1>2. BufferSize \in Nat
  BY SizesAssumption DEF BufferSize
<1>3. QED
  BY <1>1, <1>2, WindowSizes, SizesAssumption, ThreadsAssumption
  DEF Init, Typed, TypeOK, BytesOf, PCs

\* A step of a thread other than Advance leaves the counters alone.
LEMMA TypedThreadStep ==
  ASSUME Typed, NEW t \in Threads, ThreadStep(t)
  PROVE  Typed'
<1> USE DEF Typed, TypeOK, Goto, DropLocals, PCs, locals, shared, chunks_list,
            src_dnodes_list, counters, Acquire
<1>1. CASE CheckCount(t)
  BY <1>1 DEF CheckCount
<1>2. CASE TakeChunk(t)
  BY <1>2 DEF TakeChunk, FreeChunks
<1>3. CASE NoChunkLeft(t)
  BY <1>3 DEF NoChunkLeft
<1>4. CASE PickPeer(t)
  BY <1>4 DEF PickPeer, OnlinePeers
<1>5. CASE NoPeerLeft(t)
  BY <1>5 DEF NoPeerLeft
<1>6. CASE Connect(t)
  BY <1>6 DEF Connect
<1>7. CASE ConnectFails(t)
  BY <1>7 DEF ConnectFails
<1>8. CASE LockPeersOfRefused(t)
  BY <1>8 DEF LockPeersOfRefused
<1>9. CASE MarkRefused(t)
  BY <1>9 DEF MarkRefused, Unmarked
<1>10. CASE RecvChunk(t)
  BY <1>10 DEF RecvChunk, Receive, None, Junk
<1>11. CASE RecvRefusal(t)
  BY <1>11 DEF RecvRefusal, Receive
<1>12. CASE RecvBroken(t)
  BY <1>12 DEF RecvBroken, Receive
<1>13. CASE Spin(t)
  BY <1>13 DEF Spin, vars
<1>14. CASE LockChunks(t)
  BY <1>14 DEF LockChunks
<1>15. CASE LockCount(t)
  BY <1>15 DEF LockCount
<1>16. CASE MarkDownloaded(t)
  <2>1. chunks_served' \in [Peers -> Nat]
    <3>1. chunks_served' = [p \in Peers |-> IF p = min_dnode_index[t]
                                            THEN chunks_served[p] + 1
                                            ELSE chunks_served[p]]
      BY <1>16 DEF MarkDownloaded
    <3>2. \A p \in Peers : chunks_served[p] \in Nat /\ chunks_served[p] + 1 \in Nat
      OBVIOUS
    <3>3. QED
      BY <3>1, <3>2
  <2>2. is_downloaded' \in [Chunks -> BOOLEAN]
    BY <1>16 DEF MarkDownloaded
  <2>3. lock' \in [Mutexes -> Threads \cup {NoThread}]
    BY <1>16 DEF MarkDownloaded
  <2>4. QED
    BY <1>16, <2>1, <2>2, <2>3 DEF MarkDownloaded
<1>17. CASE Advance(t)
  <2>1. num_chunks_downloaded \in 0 .. NumChunks - 1
    BY <1>17, WindowSizes DEF Advance, CanAdvance
  <2>2. num_bytes_downloaded' = BytesOf(num_chunks_downloaded + 1)
    BY <1>17, <2>1, BytesOfNext DEF Advance, BytesOf
  <2>3. num_chunks_downloaded + 1 \in 0 .. NumChunks
    BY <2>1, WindowSizes
  <2>4. num_bytes_downloaded' \in 0 .. FileSize
    BY <2>2, <2>3, BytesOfBounded
  <2>5. num_chunks_downloaded' \in 0 .. MaxChunkIndex
    BY <1>17, WindowSizes DEF Advance, CanAdvance
  <2>6. BytesMatchCount'
    BY <1>17, <2>2 DEF Advance, BytesOf
  <2>7. QED
    BY <1>17, <2>4, <2>5, <2>6 DEF Advance
<1>18. CASE Release(t)
  BY <1>18 DEF Release, AllReleased
<1>19. QED
  BY <1>1, <1>2, <1>3, <1>4, <1>5, <1>6, <1>7, <1>8, <1>9, <1>10, <1>11, <1>12,
     <1>13, <1>14, <1>15, <1>16, <1>17, <1>18 DEF ThreadStep

\* No step leads out of the types or makes the counters disagree.
LEMMA TypedNext == Typed /\ [Next]_vars => Typed'
<1> SUFFICES ASSUME Typed, [Next]_vars PROVE Typed'
  OBVIOUS
<1> USE DEF Typed, TypeOK, MainGoto, locals, shared, chunks_list,
            src_dnodes_list, counters
<1>1. CASE \E t \in Threads : ThreadStep(t)
  BY <1>1, TypedThreadStep DEF Typed
<1>2. CASE EnterLoop
  BY <1>2 DEF EnterLoop, PCs
<1>3. CASE WriteBuffer
  <2>1. BufferSize \in Nat \ {0}
    BY SizesAssumption DEF BufferSize
  <2>2. BufferEndOffset \in 0 .. BufferSize
    BY <2>1, SizesAssumption DEF BufferEndOffset
  <2>3. bytes_written' \in 0 .. BufferSize
    BY <1>3, <2>1, <2>2 DEF WriteBuffer
  <2>4. QED
    BY <1>3, <2>3 DEF WriteBuffer
<1>4. CASE Report
  BY <1>4 DEF Report
<1>5. CASE Terminated \/ UNCHANGED vars
  BY <1>5 DEF Terminated, vars
<1>6. QED
  BY <1>1, <1>2, <1>3, <1>4, <1>5 DEF Next

\* No index leaves its list and no counter its range (rpc_server.cpp:149-445).
THEOREM TypeCorrect == Spec => []TypeOK
<1>1. Typed => TypeOK
  BY DEF Typed
<1>2. QED
  BY TypedInit, TypedNext, <1>1, PTL DEF Spec

-----------------------------------------------------------------------------
(* Which thread holds which mutex, and when threads run.                   *)

\* A thread's step changes its own program counter only.
LEMMA LockThreadStep ==
  ASSUME Typed, LockDiscipline, NEW t \in Threads, ThreadStep(t)
  PROVE  LockDiscipline'
<1> USE ThreadsAssumption
    DEF Typed, TypeOK, LockDiscipline, Goto, Acquire, IsFree, locals, shared,
        HoldsSources, HoldsChunks, HoldsCount, Mutexes
<1>1. CASE CheckCount(t)
  BY <1>1 DEF CheckCount
<1>2. CASE TakeChunk(t)
  BY <1>2 DEF TakeChunk
<1>3. CASE NoChunkLeft(t)
  BY <1>3 DEF NoChunkLeft
<1>4. CASE PickPeer(t)
  BY <1>4 DEF PickPeer
<1>5. CASE NoPeerLeft(t)
  BY <1>5 DEF NoPeerLeft
<1>6. CASE Connect(t)
  BY <1>6 DEF Connect
<1>7. CASE ConnectFails(t)
  BY <1>7 DEF ConnectFails
<1>8. CASE LockPeersOfRefused(t)
  BY <1>8 DEF LockPeersOfRefused
<1>9. CASE MarkRefused(t)
  BY <1>9 DEF MarkRefused
<1>10. CASE RecvChunk(t)
  BY <1>10 DEF RecvChunk, Receive
<1>11. CASE RecvRefusal(t)
  BY <1>11 DEF RecvRefusal, Receive
<1>12. CASE RecvBroken(t)
  BY <1>12 DEF RecvBroken, Receive
<1>13. CASE Spin(t)
  BY <1>13 DEF Spin, vars
<1>14. CASE LockChunks(t)
  BY <1>14 DEF LockChunks
<1>15. CASE LockCount(t)
  BY <1>15 DEF LockCount
<1>16. CASE MarkDownloaded(t)
  BY <1>16 DEF MarkDownloaded
<1>17. CASE Advance(t)
  BY <1>17 DEF Advance
<1>18. CASE Release(t)
  BY <1>18 DEF Release, AllReleased
<1>19. QED
  BY <1>1, <1>2, <1>3, <1>4, <1>5, <1>6, <1>7, <1>8, <1>9, <1>10, <1>11, <1>12,
     <1>13, <1>14, <1>15, <1>16, <1>17, <1>18 DEF ThreadStep

\* Whatever step a thread takes, it was not idle and had not exited, it does
\* not become idle, and no other thread and not the main thread moves.
LEMMA ThreadStepMoves ==
  ASSUME Typed, NEW t \in Threads, ThreadStep(t)
  PROVE  /\ pc[t] \notin {"idle", "exit"} /\ pc'[t] # "idle"
         /\ \A u \in Threads : u # t => pc'[u] = pc[u]
         /\ UNCHANGED <<main, bytes_written>>
BY DEF Typed, TypeOK, ThreadStep, CheckCount, TakeChunk, NoChunkLeft, PickPeer,
  NoPeerLeft, Connect, ConnectFails, LockPeersOfRefused, MarkRefused, RecvChunk,
  RecvRefusal, RecvBroken, Receive, Spin, LockChunks, LockCount, MarkDownloaded,
  Advance, Release, Goto, vars, PCs

Phased == LockDiscipline /\ ThreadsRunInJoin

\* Before the loop is entered no thread runs and no mutex is taken.
LEMMA PhasedInit == Init => Phased
BY ThreadsAssumption
DEF Init, Phased, LockDiscipline, ThreadsRunInJoin, Mutexes, HoldsSources,
    HoldsChunks, HoldsCount

\* The mutexes keep to what the threads' positions say, and the threads run
\* between their creation and their join only.
LEMMA PhasedNext == Typed /\ Phased /\ [Next]_vars => Phased'
<1> SUFFICES ASSUME Typed, Phased, [Next]_vars PROVE Phased'
  OBVIOUS
<1> USE DEF Phased, ThreadsRunInJoin
<1>1. ASSUME NEW t \in Threads, ThreadStep(t) PROVE Phased'
  <2>1. LockDiscipline'
    BY <1>1, LockThreadStep
  <2>2. ThreadsRunInJoin'
    <3>1. main = "join"
      BY <1>1, ThreadStepMoves DEF Typed, TypeOK
    <3>2. QED
      BY <1>1, <3>1, ThreadStepMoves
  <2>3. QED
    BY <2>1, <2>2
<1> USE DEF MainGoto, locals, shared, counters, LockDiscipline, HoldsSources,
            HoldsChunks, HoldsCount
<1>2. CASE EnterLoop
  BY <1>2 DEF EnterLoop
<1>3. CASE WriteBuffer
  BY <1>3 DEF WriteBuffer
<1>4. CASE Report
  BY <1>4 DEF Report
<1>5. CASE Terminated \/ UNCHANGED vars
  BY <1>5 DEF Terminated, vars
<1>6. QED
  BY <1>1, <1>2, <1>3, <1>4, <1>5 DEF Next

-----------------------------------------------------------------------------
(* Who works on which chunk.                                               *)

Held == IndicesInRange /\ ChunksMarked /\ ChunkExclusive

\* No chunk is held at the beginning.
LEMMA HeldInit == Init => Held
BY WindowChunksFit
DEF Init, Held, IndicesInRange, ChunksMarked, ChunkExclusive, Working, Fetching

\* A thread's step keeps the indices in range, the marks of the held chunks and
\* the exclusive hold on them.
LEMMA HeldThreadStep ==
  ASSUME Typed, Held, NEW t \in Threads, ThreadStep(t)
  PROVE  Held'
<1> USE WindowChunksFit
    DEF Typed, TypeOK, Held, IndicesInRange, ChunksMarked, ChunkExclusive,
        HeldBy, Working, Fetching, Goto, DropLocals, locals, shared,
        chunks_list, src_dnodes_list
<1>1. CASE CheckCount(t)
  BY <1>1 DEF CheckCount
<1>2. CASE TakeChunk(t)
  BY <1>2 DEF TakeChunk, FreeChunks
<1>3. CASE NoChunkLeft(t)
  BY <1>3 DEF NoChunkLeft
<1>4. CASE PickPeer(t)
  BY <1>4 DEF PickPeer, OnlinePeers
<1>5. CASE NoPeerLeft(t)
  BY <1>5 DEF NoPeerLeft
<1>6. CASE Connect(t)
  BY <1>6 DEF Connect
<1>7. CASE ConnectFails(t)
  BY <1>7 DEF ConnectFails
<1>8. CASE LockPeersOfRefused(t)
  BY <1>8 DEF LockPeersOfRefused
<1>9. CASE MarkRefused(t)
  BY <1>9 DEF MarkRefused, Unmarked
<1>10. CASE RecvChunk(t)
  BY <1>10 DEF RecvChunk, Receive
<1>11. CASE RecvRefusal(t)
  BY <1>11 DEF RecvRefusal, Receive
<1>12. CASE RecvBroken(t)
  BY <1>12 DEF RecvBroken, Receive
<1>13. CASE Spin(t)
  BY <1>13 DEF Spin, vars
<1>14. CASE LockChunks(t)
  BY <1>14 DEF LockChunks
<1>15. CASE LockCount(t)
  BY <1>15 DEF LockCount
<1>16. CASE MarkDownloaded(t)
  BY <1>16 DEF MarkDownloaded
<1>17. CASE Advance(t)
  BY <1>17 DEF Advance
<1>18. CASE Release(t)
  BY <1>18 DEF Release
<1>19. QED
  BY <1>1, <1>2, <1>3, <1>4, <1>5, <1>6, <1>7, <1>8, <1>9, <1>10, <1>11, <1>12,
     <1>13, <1>14, <1>15, <1>16, <1>17, <1>18 DEF ThreadStep

\* No step of the download gives two threads the same chunk.
LEMMA HeldNext == Typed /\ Held /\ [Next]_vars => Held'
<1> SUFFICES ASSUME Typed, Held, [Next]_vars PROVE Held'
  OBVIOUS
<1>1. CASE \E t \in Threads : ThreadStep(t)
  BY <1>1, HeldThreadStep
<1> USE DEF Held, IndicesInRange, ChunksMarked, ChunkExclusive, HeldBy, Working,
            Fetching, MainGoto, locals, shared, chunks_list
<1>2. CASE EnterLoop
  BY <1>2 DEF EnterLoop
<1>3. CASE WriteBuffer \/ Report
  BY <1>3 DEF WriteBuffer, Report
<1>4. CASE Terminated \/ UNCHANGED vars
  BY <1>4 DEF Terminated, vars
<1>5. QED
  BY <1>1, <1>2, <1>3, <1>4 DEF Next

-----------------------------------------------------------------------------
(* The counter of downloaded chunks, and the credit of the sources.        *)

\* Steps that leave the chunks' and the sources' records and the counters as
\* they are, and do not begin or end at "advance".
QuietStep(t) ==
  \/ CheckCount(t) \/ NoChunkLeft(t) \/ PickPeer(t) \/ NoPeerLeft(t)
  \/ Connect(t) \/ ConnectFails(t) \/ LockPeersOfRefused(t)
  \/ RecvChunk(t) \/ RecvRefusal(t) \/ RecvBroken(t) \/ Spin(t)
  \/ LockChunks(t) \/ LockCount(t)

\* The steps that touch neither the lists nor the counters leave them alone.
LEMMA QuietStepFrame ==
  ASSUME Typed, NEW t \in Threads, QuietStep(t)
  PROVE  /\ UNCHANGED <<chunks_list, src_dnodes_list, counters>>
         /\ pc[t] # "advance" /\ pc'[t] # "advance"
BY DEF Typed, TypeOK, QuietStep, CheckCount, NoChunkLeft, PickPeer, NoPeerLeft,
  Connect, ConnectFails, LockPeersOfRefused, RecvChunk, RecvRefusal, RecvBroken,
  Receive, Spin, LockChunks, LockCount, Goto, vars, shared, PCs

\* A thread's step keeps the counter at the length of the downloaded prefix.
LEMMA CountThreadStep ==
  ASSUME Typed, Held, CountIsPrefix, NEW t \in Threads, ThreadStep(t)
  PROVE  CountIsPrefix'
<1> USE WindowSizes, ThreadStepMoves
    DEF Typed, TypeOK, CountIsPrefix, CanAdvance, chunks_list, src_dnodes_list,
        counters
<1>1. CASE QuietStep(t)
  BY <1>1, QuietStepFrame
<1>2. CASE TakeChunk(t)
  BY <1>2 DEF TakeChunk, Goto, PCs
<1>3. CASE MarkRefused(t)
  BY <1>3 DEF MarkRefused, Goto, PCs
<1>4. CASE MarkDownloaded(t)
  <2>1. \A c \in Chunks : is_downloaded[c] => is_downloaded'[c]
    BY <1>4 DEF MarkDownloaded
  <2>2. pc'[t] = "advance" /\ UNCHANGED num_chunks_downloaded
    BY <1>4 DEF MarkDownloaded, Goto
  <2>3. QED
    BY <2>1, <2>2, WindowChunksFit
<1>5. CASE Advance(t)
  BY <1>5 DEF Advance, Goto, PCs, WindowChunks, CurrentChunkIndex
<1>6. CASE Release(t)
  BY <1>6 DEF Release, shared
<1>7. QED
  BY <1>1, <1>2, <1>3, <1>4, <1>5, <1>6 DEF ThreadStep, QuietStep

\* The window is finite, and so is what is downloaded of it.
LEMMA DownloadedFinite ==
  ASSUME Typed
  PROVE  /\ IsFiniteSet(Downloaded)
         /\ Cardinality(Downloaded) \in Nat
         /\ Cardinality(Downloaded) <= Window
<1>1. IsFiniteSet(WindowChunks) /\ Cardinality(WindowChunks) <= Window
  <2> DEFINE last == MaxChunkIndex - 1
  <2>1. last \in Int /\ last + 1 <= Window /\ WindowChunks = 0 .. last
    BY WindowSizes, SizesAssumption DEF WindowChunks, CurrentChunkIndex
  <2> HIDE DEF last
  <2>2. /\ IsFiniteSet(0 .. last)
        /\ Cardinality(0 .. last) = IF 0 > last THEN 0 ELSE last - 0 + 1
    BY <2>1, FS_Interval
  <2>3. QED
    BY <2>1, <2>2, SizesAssumption
<1>2. Downloaded \subseteq WindowChunks
  BY DEF Downloaded
<1>3. IsFiniteSet(Downloaded) /\ Cardinality(Downloaded) <= Cardinality(WindowChunks)
  BY <1>1, <1>2, FS_Subset
<1>4. Cardinality(Downloaded) \in Nat /\ Cardinality(WindowChunks) \in Nat
  BY <1>1, <1>3, FS_CardinalityType
<1>5. QED
  BY <1>1, <1>3, <1>4, SizesAssumption

\* A thread's step credits a source with no more chunks than are downloaded.
LEMMA CreditThreadStep ==
  ASSUME Typed, Held, CreditBounded, NEW t \in Threads, ThreadStep(t)
  PROVE  CreditBounded'
<1> USE DEF Typed, TypeOK, CreditBounded, Downloaded, chunks_list,
            src_dnodes_list, counters
<1>1. CASE QuietStep(t)
  BY <1>1, QuietStepFrame
<1>2. CASE TakeChunk(t) \/ MarkRefused(t) \/ Advance(t) \/ Release(t)
  BY <1>2 DEF TakeChunk, MarkRefused, Advance, Release, shared
<1>3. CASE MarkDownloaded(t)
  <2> DEFINE c == chunk_index[t]
  <2>1. c \in WindowChunks /\ ~is_downloaded[c]
    BY <1>3 DEF MarkDownloaded, Goto, Held, IndicesInRange, ChunkExclusive,
                Working, Fetching
  <2>2. Downloaded' = Downloaded \cup {c} /\ c \notin Downloaded
    BY <1>3, <2>1, WindowChunksFit DEF MarkDownloaded
  <2>3. Cardinality(Downloaded') = Cardinality(Downloaded) + 1
    BY <2>2, DownloadedFinite, FS_AddElement DEF Typed
  <2>4. ASSUME NEW p \in Peers
        PROVE  /\ chunks_served[p] \in Nat /\ chunks_served'[p] \in Nat
               /\ chunks_served'[p] <= chunks_served[p] + 1
    BY <1>3 DEF MarkDownloaded
  <2>5. QED
    BY <2>3, <2>4, DownloadedFinite DEF Typed
<1>4. QED
  BY <1>1, <1>2, <1>3 DEF ThreadStep, QuietStep

\* The credits and the downloaded chunks, counted over all of the file.
DownloadedOfFile == {c \in Chunks : is_downloaded[c]}
CreditsCounted ==
  IsFiniteSet(Credits) /\ IsFiniteSet(DownloadedOfFile) /\ CreditMatches

\* A download that is marked adds one credit and one chunk.
LEMMA MarkDownloadedCredits ==
  ASSUME Typed, Held, CreditsCounted, NEW t \in Threads, MarkDownloaded(t)
  PROVE  CreditsCounted'
<1> DEFINE c == chunk_index[t]
           p == min_dnode_index[t]
           n == chunks_served[p] + 1
<1>1. c \in Chunks /\ ~is_downloaded[c] /\ p \in Peers
  BY WindowChunksFit
  DEF MarkDownloaded, Goto, Held, IndicesInRange, ChunkExclusive, Working, Fetching
<1>2. /\ is_downloaded' = [is_downloaded EXCEPT ![c] = TRUE]
      /\ chunks_served' = [chunks_served EXCEPT ![p] = n]
      /\ is_downloaded \in [Chunks -> BOOLEAN]
      /\ chunks_served \in [Peers -> Nat]
  BY DEF MarkDownloaded, Typed, TypeOK
<1>3. /\ DownloadedOfFile' = DownloadedOfFile \cup {c}
      /\ c \notin DownloadedOfFile
  BY <1>1, <1>2 DEF DownloadedOfFile
<1>4. n \in Nat /\ 1 .. n = (1 .. chunks_served[p]) \cup {n}
  BY <1>1, <1>2
<1>5. Credits' = Credits \cup {<<p, n>>} /\ <<p, n>> \notin Credits
  <2> HIDE DEF p, n
  <2>1. <<p, n>> \notin Credits
    BY <1>1, <1>2 DEF Credits, n
  <2>2. ASSUME NEW e
        PROVE  e \in Credits' <=> e \in Credits \/ e = <<p, n>>
    BY <1>1, <1>2, <1>4 DEF Credits
  <2>3. QED
    BY <2>1, <2>2
<1>6. /\ IsFiniteSet(Credits') /\ IsFiniteSet(DownloadedOfFile')
      /\ Cardinality(Credits') = Cardinality(Credits) + 1
      /\ Cardinality(DownloadedOfFile') = Cardinality(DownloadedOfFile) + 1
  BY <1>3, <1>5, FS_AddElement DEF CreditsCounted
<1>7. QED
  BY <1>6 DEF CreditsCounted, CreditMatches, DownloadedOfFile

\* No other step of a thread credits a source or marks a chunk as downloaded.
LEMMA CreditsThreadStep ==
  ASSUME Typed, Held, CreditsCounted, NEW t \in Threads, ThreadStep(t)
  PROVE  CreditsCounted'
<1>1. CASE MarkDownloaded(t)
  BY <1>1, MarkDownloadedCredits
<1>2. CASE ~MarkDownloaded(t)
  <2>1. UNCHANGED <<is_downloaded, chunks_served>>
    <3>1. CASE QuietStep(t)
      BY <3>1, QuietStepFrame DEF chunks_list, src_dnodes_list
    <3>2. CASE TakeChunk(t) \/ MarkRefused(t) \/ Advance(t) \/ Release(t)
      BY <3>2 DEF TakeChunk, MarkRefused, Advance, Release, shared, chunks_list,
                  src_dnodes_list
    <3>3. QED
      BY <1>2, <3>1, <3>2 DEF ThreadStep, QuietStep
  <2>2. QED
    BY <2>1 DEF CreditsCounted, CreditMatches, Credits, DownloadedOfFile
<1>3. QED
  BY <1>1, <1>2

\* A search of the sources that finds none means that all are offline.
LEMMA NoneFoundAllOffline ==
  ASSUME Typed, CreditBounded, OnlinePeers = {}
  PROVE  \A p \in Peers : ~is_online[p]
<1>1. SUFFICES ASSUME NEW p \in Peers, is_online[p] PROVE FALSE
  OBVIOUS
<1>2. chunks_served[p] <= Cardinality(Downloaded) /\ chunks_served[p] \in Nat
  BY DEF CreditBounded, Typed, TypeOK
<1>3. chunks_served[p] < MaxServed
  BY <1>2, DownloadedFinite, SizesAssumption
<1>4. QED
  BY <1>1, <1>3 DEF OnlinePeers

-----------------------------------------------------------------------------
(* No chunk is forgotten.                                                  *)

\* Which chunks a thread holds before and after each of its steps.
LEMMA HeldByStep ==
  ASSUME Typed, NEW t \in Threads, ThreadStep(t), NEW c \in WindowChunks
  PROVE  /\ \A u \in Threads : u # t => (HeldBy(u, c)' <=> HeldBy(u, c))
         /\ HeldBy(t, c) /\ ~HeldBy(t, c)' =>
              NoPeerLeft(t) \/ MarkRefused(t) \/ MarkDownloaded(t)
         /\ HeldBy(t, c)' /\ ~HeldBy(t, c) => TakeChunk(t)
BY DEF Typed, TypeOK, ThreadStep, CheckCount, TakeChunk, NoChunkLeft, PickPeer,
  NoPeerLeft, Connect, ConnectFails, LockPeersOfRefused, MarkRefused, RecvChunk,
  RecvRefusal, RecvBroken, Receive, Spin, LockChunks, LockCount, MarkDownloaded,
  Advance, Release, Goto, DropLocals, vars, locals, PCs, HeldBy, Working, Fetching

\* A thread's step strands no chunk while a source is online.
LEMMA StrandThreadStep ==
  ASSUME Typed, Held, CreditBounded, NoStrandedChunk,
         NEW t \in Threads, ThreadStep(t)
  PROVE  NoStrandedChunk'
<1> SUFFICES ASSUME NEW c \in WindowChunks,
                    is_downloading'[c], ~is_downloaded'[c],
                    \A u \in Threads : ~HeldBy(u, c)'
             PROVE  \A p \in Peers : ~is_online'[p]
  BY DEF NoStrandedChunk
<1> USE WindowChunksFit
<1>1. ~is_downloaded[c]
  BY DEF Typed, TypeOK, ThreadStep, CheckCount, TakeChunk, NoChunkLeft, PickPeer,
    NoPeerLeft, Connect, ConnectFails, LockPeersOfRefused, MarkRefused, RecvChunk,
    RecvRefusal, RecvBroken, Receive, Spin, LockChunks, LockCount,
    MarkDownloaded, Advance, Release, vars, shared, chunks_list
<1>2. \A p \in Peers : ~is_online[p] => ~is_online'[p]
  BY DEF Typed, TypeOK, ThreadStep, CheckCount, TakeChunk, NoChunkLeft, PickPeer,
    NoPeerLeft, Connect, ConnectFails, LockPeersOfRefused, MarkRefused, RecvChunk,
    RecvRefusal, RecvBroken, Receive, Spin, LockChunks, LockCount,
    MarkDownloaded, Advance, Release, vars, shared, src_dnodes_list
<1>3. CASE HeldBy(t, c)
  <2>1. CASE NoPeerLeft(t)
    BY <2>1, <1>2, NoneFoundAllOffline DEF NoPeerLeft
  <2>2. CASE MarkRefused(t)
    <3>1. ~is_downloading'[c]
      BY <1>3, <2>2 DEF MarkRefused, Unmarked, HeldBy, Typed, TypeOK
    <3>2. QED
      BY <3>1
  <2>3. CASE MarkDownloaded(t)
    <3>1. is_downloaded'[c]
      BY <1>3, <2>3 DEF MarkDownloaded, HeldBy, Typed, TypeOK
    <3>2. QED
      BY <3>1
  <2>4. QED
    BY <1>3, <2>1, <2>2, <2>3, HeldByStep
<1>4. CASE ~HeldBy(t, c)
  <2>1. \A u \in Threads : ~HeldBy(u, c)
    BY <1>4, HeldByStep
  <2>2. is_downloading[c]
    <3>1. CASE TakeChunk(t)
      <4>1. chunk_index'[t] # c
        BY <3>1 DEF TakeChunk, Goto, HeldBy, Working, Typed, TypeOK
      <4>2. QED
        BY <3>1, <4>1 DEF TakeChunk, Typed, TypeOK
    <3>2. CASE ~TakeChunk(t)
      BY <3>2 DEF Typed, TypeOK, ThreadStep, CheckCount, NoChunkLeft, PickPeer,
        NoPeerLeft, Connect, ConnectFails, LockPeersOfRefused, MarkRefused,
        Unmarked, RecvChunk, RecvRefusal, RecvBroken, Receive, Spin, LockChunks,
        LockCount, MarkDownloaded, Advance, Release, vars, shared, chunks_list
    <3>3. QED
      BY <3>1, <3>2
  <2>3. QED
    BY <1>1, <1>2, <2>1, <2>2 DEF NoStrandedChunk
<1>5. QED
  BY <1>3, <1>4

\* A thread that ends leaves no chunk to take, and one that hands a chunk back
\* goes on.
LEMMA FreeThreadStep ==
  ASSUME Typed, Held, CountIsPrefix, FreeChunkHasThread,
         NEW t \in Threads, ThreadStep(t)
  PROVE  FreeChunkHasThread'
<1> SUFFICES ASSUME pc'[t] = "exit", main = "join"
             PROVE  FreeChunks' = {}
  BY ThreadStepMoves DEF FreeChunkHasThread
<1>1. CASE CheckCount(t)
  <2>1. num_chunks_downloaded >= MaxChunkIndex
    BY <1>1 DEF CheckCount, Goto, Typed, TypeOK
  <2>2. \A c \in WindowChunks : is_downloaded'[c]
    BY <1>1, <2>1, WindowSizes
    DEF CheckCount, CountIsPrefix, WindowChunks, CurrentChunkIndex, Typed, TypeOK,
        shared, chunks_list
  <2>3. QED
    BY <2>2 DEF FreeChunks
<1>2. CASE NoChunkLeft(t)
  BY <1>2 DEF NoChunkLeft, FreeChunks, shared, chunks_list
<1>3. CASE Spin(t)
  BY <1>3 DEF Spin, vars
<1>4. CASE ~CheckCount(t) /\ ~NoChunkLeft(t) /\ ~Spin(t)
  BY <1>4 DEF Typed, TypeOK, ThreadStep, TakeChunk, PickPeer,
    NoPeerLeft, Connect, ConnectFails, LockPeersOfRefused, MarkRefused, RecvChunk,
    RecvRefusal, RecvBroken, Receive, LockChunks, LockCount, MarkDownloaded,
    Advance, Release, Goto
<1>5. QED
  BY <1>1, <1>2, <1>3, <1>4

-----------------------------------------------------------------------------
(* The inductive invariant.                                                *)

\* The inductive invariant holds at the beginning.
LEMMA IInvInit == Init => IInv
<1> SUFFICES ASSUME Init PROVE IInv
  OBVIOUS
<1>1. Typed /\ Phased /\ Held
  BY TypedInit, PhasedInit, HeldInit
<1>2. CountIsPrefix /\ NoStrandedChunk
  BY WindowChunksFit, WindowSizes
  DEF Init, CountIsPrefix, CanAdvance, NoStrandedChunk, WindowChunks,
      CurrentChunkIndex
<1>3. CreditBounded
  BY <1>1, DownloadedFinite DEF Init, CreditBounded
<1>4. FreeChunkHasThread
  BY DEF Init, FreeChunkHasThread
<1>5. QED
  BY <1>1, <1>2, <1>3, <1>4 DEF IInv, Typed, Phased, Held

\* WriteBuffer bounds bytes_written only because nothing was written before.
LEMMA IInvParts ==
  IInv <=> /\ Typed /\ Phased /\ Held
           /\ CountIsPrefix /\ CreditBounded /\ NoStrandedChunk
           /\ FreeChunkHasThread
BY DEF IInv, Typed, Phased, Held, ThreadsRunInJoin

\* The inductive invariant is kept by every step of the download.
LEMMA IInvNext == IInv /\ [Next]_vars => IInv'
<1> SUFFICES ASSUME IInv, [Next]_vars PROVE IInv'
  OBVIOUS
<1>1. Typed' /\ Phased' /\ Held'
  BY IInvParts, TypedNext, PhasedNext, HeldNext
<1> DEFINE Rest == /\ CountIsPrefix /\ CreditBounded /\ NoStrandedChunk
                   /\ FreeChunkHasThread
<1>2. ASSUME NEW t \in Threads, ThreadStep(t) PROVE Rest'
  BY <1>2, IInvParts, CountThreadStep, CreditThreadStep, StrandThreadStep,
     FreeThreadStep
<1>3. ASSUME EnterLoop \/ WriteBuffer \/ Report PROVE Rest'
  <2>1. UNCHANGED <<locals, shared>>
    BY <1>3 DEF EnterLoop, WriteBuffer, Report, MainGoto
  <2>2. \A t \in Threads : pc[t] # "advance" /\ pc'[t] # "advance"
    BY <1>3, IInvParts
    DEF EnterLoop, WriteBuffer, Report, MainGoto, Phased, ThreadsRunInJoin,
        Typed, TypeOK
  <2>3. \A t \in Threads, c \in WindowChunks : ~HeldBy(t, c)
    BY <1>3, IInvParts
    DEF EnterLoop, WriteBuffer, Report, MainGoto, Phased, ThreadsRunInJoin,
        Typed, TypeOK, HeldBy, Working, Fetching
  <2>4. CountIsPrefix' /\ CreditBounded'
    BY <2>1, <2>2, IInvParts
    DEF CountIsPrefix, CanAdvance, CreditBounded, Downloaded, shared,
        chunks_list, src_dnodes_list, counters
  <2>5. NoStrandedChunk'
    BY <2>1, <2>3, IInvParts
    DEF NoStrandedChunk, shared, chunks_list, src_dnodes_list
  <2>6. FreeChunkHasThread'
    BY <1>3, ThreadsAssumption
    DEF FreeChunkHasThread, EnterLoop, WriteBuffer, Report, MainGoto
  <2>7. QED
    BY <2>4, <2>5, <2>6
<1>4. ASSUME Terminated \/ UNCHANGED vars PROVE Rest'
  BY <1>4, IInvParts
  DEF Terminated, vars, locals, shared, chunks_list, src_dnodes_list, counters,
      CountIsPrefix, CanAdvance, CreditBounded, Downloaded, NoStrandedChunk,
      HeldBy, Working, FreeChunkHasThread, FreeChunks
<1>5. Rest'
  BY <1>2, <1>3, <1>4 DEF Next
<1>6. QED
  BY <1>1, <1>5 DEF IInv, Typed, Phased, Held

\* The inductive invariant, from which the theorems below follow, holds in every
\* reachable state of multi_threaded_download.
THEOREM IInvHolds == Spec => []IInv
BY IInvInit, IInvNext, PTL DEF Spec

\* The credits of the sources are as many as the downloaded chunks, whatever the
\* number of threads, sources and chunks: a chunk is credited once.
THEOREM CreditsMatch == Spec => []CreditMatches
<1>1. Init => CreditsCounted
  <2>1. Init => Credits = {} /\ DownloadedOfFile = {}
    BY DEF Init, Credits, DownloadedOfFile
  <2>2. QED
    BY <2>1, FS_EmptySet DEF CreditsCounted, CreditMatches, DownloadedOfFile
<1>2. IInv /\ CreditsCounted /\ [Next]_vars => CreditsCounted'
  <2>1. SUFFICES ASSUME IInv, CreditsCounted, [Next]_vars PROVE CreditsCounted'
    OBVIOUS
  <2>2. ASSUME NEW t \in Threads, ThreadStep(t) PROVE CreditsCounted'
    BY <2>1, <2>2, IInvParts, CreditsThreadStep
  <2>3. ASSUME \/ EnterLoop \/ WriteBuffer \/ Report \/ Terminated
               \/ UNCHANGED vars
        PROVE  CreditsCounted'
    <3>1. UNCHANGED <<is_downloaded, chunks_served>>
      BY <2>3 DEF EnterLoop, WriteBuffer, Report, MainGoto, Terminated, vars,
                  shared, chunks_list, src_dnodes_list
    <3>2. QED
      BY <2>1, <3>1 DEF CreditsCounted, CreditMatches, Credits, DownloadedOfFile
  <2>4. QED
    BY <2>1, <2>2, <2>3 DEF Next
<1>3. CreditsCounted => CreditMatches
  BY DEF CreditsCounted
<1>4. QED
  BY <1>1, <1>2, <1>3, IInvHolds, PTL DEF Spec

\* Mutual exclusion of the three mutexes and of the chunks: no two threads fetch
\* one chunk and none fetches a downloaded one.
THEOREM Exclusive == Spec => [](LockDiscipline /\ ChunkExclusive)
<1>1. IInv => LockDiscipline /\ ChunkExclusive
  BY DEF IInv
<1>2. QED
  BY <1>1, IInvHolds, PTL

\* The counters of chunks and bytes cover the downloaded prefix, the last chunk's
\* length included, in whatever order chunks arrive (rpc_server.cpp:293-304, 355).
THEOREM CountsPrefix == Spec => []CountersCoverPrefix
<1>1. IInv => CountersCoverPrefix
  BY DEF IInv, CountersCoverPrefix
<1>2. QED
  BY <1>1, IInvHolds, PTL

\* A chunk is given up only when no source is left.
THEOREM NoneStranded == Spec => []NoStrandedChunk
<1>1. IInv => NoStrandedChunk
  BY DEF IInv
<1>2. QED
  BY <1>1, IInvHolds, PTL

\* What the join finds follows from the inductive invariant.
LEMMA JoinedFromIInv == IInv => CompleteUnlessPeersGone
<1>1. ASSUME IInv PROVE CompleteUnlessPeersGone
  <2> SUFFICES ASSUME AllExited, num_chunks_downloaded # MaxChunkIndex
               PROVE  \A p \in Peers : ~is_online[p]
    BY DEF CompleteUnlessPeersGone
  <2> DEFINE c == num_chunks_downloaded
  <2>1. c \in WindowChunks /\ ~is_downloaded[c]
    BY <1>1, WindowSizes
    DEF IInv, TypeOK, CountIsPrefix, CanAdvance, AllExited, WindowChunks,
        CurrentChunkIndex
  <2>2. c \notin FreeChunks
    BY <1>1 DEF IInv, FreeChunkHasThread, AllExited
  <2>3. is_downloading[c]
    BY <1>1, <2>1, <2>2, WindowChunksFit DEF FreeChunks, IInv, TypeOK
  <2>4. \A t \in Threads : ~HeldBy(t, c)
    BY DEF AllExited, HeldBy, Working, Fetching
  <2>5. QED
    BY <1>1, <2>1, <2>3, <2>4 DEF IInv, NoStrandedChunk
<1>2. QED
  BY <1>1

\* When the threads are joined the window is complete or every source offline.
THEOREM JoinedComplete == Spec => []CompleteUnlessPeersGone
BY JoinedFromIInv, IInvHolds, PTL

-----------------------------------------------------------------------------
(* What no step may do.                                                    *)

\* A downloaded chunk and its bytes are never touched again: only a thread that
\* holds a chunk writes to its slot, and it is not downloaded yet.
THEOREM DownloadedChunksStable == Spec => DownloadedStable
<1>1. ASSUME IInv, [Next]_vars,
             NEW c \in WindowChunks, is_downloaded[c]
      PROVE  /\ is_downloaded'[c]
             /\ download_buffer'[Slot(c)] = download_buffer[Slot(c)]
  <2> USE WindowChunksFit DEF IInv, TypeOK
  <2>1. ASSUME NEW t \in Threads, ThreadStep(t)
        PROVE  /\ is_downloaded'[c]
               /\ download_buffer'[Slot(c)] = download_buffer[Slot(c)]
    <3>1. CASE RecvChunk(t) \/ RecvRefusal(t) \/ RecvBroken(t)
      <4>1. pc[t] = "recv" /\ UNCHANGED chunks_list
        BY <3>1 DEF RecvChunk, RecvRefusal, RecvBroken, Receive, Goto
      <4>2. chunk_index[t] \in WindowChunks /\ chunk_index[t] # c
        BY <1>1, <4>1
        DEF IndicesInRange, ChunkExclusive, Working, Fetching
      <4>3. Slot(chunk_index[t]) # Slot(c)
        BY <4>2
      <4>4. QED
        BY <1>1, <3>1, <4>1, <4>3
        DEF RecvChunk, RecvRefusal, RecvBroken, Receive, chunks_list
    <3>2. CASE MarkDownloaded(t)
      BY <1>1, <3>2 DEF MarkDownloaded
    <3>3. CASE ~(RecvChunk(t) \/ RecvRefusal(t) \/ RecvBroken(t)
                 \/ MarkDownloaded(t))
      BY <1>1, <2>1, <3>3 DEF ThreadStep, CheckCount, TakeChunk, NoChunkLeft,
        PickPeer, NoPeerLeft, Connect, ConnectFails, LockPeersOfRefused,
        MarkRefused, Spin, LockChunks, LockCount, Advance, Release, vars, shared,
        chunks_list
    <3>4. QED
      BY <3>1, <3>2, <3>3
  <2>2. CASE EnterLoop \/ WriteBuffer \/ Report \/ Terminated \/ UNCHANGED vars
    BY <1>1, <2>2 DEF EnterLoop, WriteBuffer, Report, MainGoto, Terminated, vars,
      shared, chunks_list
  <2>3. QED
    BY <1>1, <2>1, <2>2 DEF Next
<1>2. IInv /\ [Next]_vars =>
        [\A c \in WindowChunks : is_downloaded[c] =>
           /\ is_downloaded'[c]
           /\ download_buffer'[Slot(c)] = download_buffer[Slot(c)]]_vars
  BY <1>1
<1>3. QED
  BY <1>2, IInvHolds, PTL DEF Spec, DownloadedStable

\* Two threads that hold the mutexes of chunks and sources in opposite orders
\* hold them for ever: each needs what the other one has.
THEOREM InversionIsForGood == Spec => InvertedForGood
<1>1. ASSUME IInv, [Next]_vars, InvertedLocks PROVE InvertedLocks'
  <2>1. PICK t \in Threads, u \in Threads :
          /\ pc[t] = "refused_src"
          /\ pc[u] \in {"received_chunks", "received_count"}
    BY <1>1 DEF InvertedLocks
  <2>2. lock["src_dnodes"] = t /\ lock["chunks_list"] = u
    BY <1>1, <2>1 DEF IInv, LockDiscipline, HoldsSources, HoldsChunks
  <2>3. lock["src_dnodes"] # NoThread /\ lock["chunks_list"] # NoThread
    BY <2>2, ThreadsAssumption
  <2>4. ASSUME NEW v \in Threads, ThreadStep(v)
        PROVE  /\ pc'[t] = "refused_src"
               /\ pc'[u] \in {"received_chunks", "received_count"}
    <3>1. CASE v # t /\ v # u
      BY <1>1, <2>1, <2>4, <3>1, ThreadStepMoves, IInvParts
    <3>2. CASE v = t
      BY <1>1, <2>1, <2>3, <2>4, <3>2 DEF ThreadStep, CheckCount, TakeChunk,
        NoChunkLeft, PickPeer, NoPeerLeft, Connect, ConnectFails,
        LockPeersOfRefused, MarkRefused, RecvChunk, RecvRefusal, RecvBroken,
        Receive, Spin, LockChunks, LockCount, MarkDownloaded, Advance, Release,
        Goto, IsFree
    <3>3. CASE v = u
      BY <1>1, <2>1, <2>3, <2>4, <3>3 DEF ThreadStep, CheckCount, TakeChunk,
        NoChunkLeft, PickPeer, NoPeerLeft, Connect, ConnectFails,
        LockPeersOfRefused, MarkRefused, RecvChunk, RecvRefusal, RecvBroken,
        Receive, Spin, LockChunks, LockCount, MarkDownloaded, Advance, Release,
        Goto, IsFree, Acquire, IInv, TypeOK
    <3>4. QED
      BY <3>1, <3>2, <3>3
  <2>5. CASE EnterLoop \/ WriteBuffer
    BY <1>1, <2>1, <2>5, IInvParts
    DEF EnterLoop, WriteBuffer, MainGoto, Phased, ThreadsRunInJoin
  <2>6. CASE Report \/ Terminated \/ UNCHANGED vars
    BY <1>1, <2>1, <2>6 DEF Report, Terminated, vars, InvertedLocks
  <2>7. QED
    BY <1>1, <2>4, <2>5, <2>6 DEF Next, InvertedLocks
<1>2. IInv /\ [Next]_vars => [InvertedLocks => InvertedLocks']_vars
  BY <1>1
<1>3. QED
  BY <1>2, IInvHolds, PTL DEF Spec, InvertedForGood

-----------------------------------------------------------------------------
(* The download implements the pool of chunks.                             *)

Supply == \E p \in Peers : is_online[p]

\* The owner that the refinement mapping gives a chunk, case by case.
OwnerCases ==
  \A c \in WindowChunks :
    /\ is_downloaded[c] => Owner(c) = "done"
    /\ ~is_downloaded[c] /\ ~is_downloading[c] => Owner(c) = "free"
    /\ \A t \in Threads : HeldBy(t, c) => Owner(c) = t
    /\ is_downloading[c] /\ ~is_downloaded[c] /\ (\A t \in Threads : ~HeldBy(t, c))
         => Owner(c) = "lost"

\* A chunk is done, free, held by exactly the thread that owns it, or lost.
LEMMA OwnerHasCases ==
  ASSUME IInv
  PROVE  OwnerCases
<1> SUFFICES ASSUME NEW c \in WindowChunks, NEW t \in Threads, HeldBy(t, c)
             PROVE  Owner(c) = t
  BY DEF Owner, OwnerCases
<1>1. /\ ~is_downloaded[c] /\ is_downloading[c]
      /\ \A u \in Threads : HeldBy(u, c) => u = t
  BY DEF IInv, ChunkExclusive, ChunksMarked, HeldBy
<1>2. Owner(c) = CHOOSE u \in Threads : HeldBy(u, c)
  BY <1>1 DEF Owner
<1>3. QED
  BY <1>1, <1>2

\* The same of the state after a step.
LEMMA OwnerHasCasesNext ==
  ASSUME IInv'
  PROVE  OwnerCases'
<1> SUFFICES ASSUME NEW c \in WindowChunks, NEW t \in Threads, HeldBy(t, c)'
             PROVE  Owner(c)' = t
  BY DEF Owner, OwnerCases
<1>1. /\ ~is_downloaded'[c] /\ is_downloading'[c]
      /\ \A u \in Threads : HeldBy(u, c)' => u = t
  BY DEF IInv, ChunkExclusive, ChunksMarked, HeldBy
<1>2. Owner(c)' = CHOOSE u \in Threads : HeldBy(u, c)'
  BY <1>1 DEF Owner
<1>3. QED
  BY <1>1, <1>2

\* The four steps that change the owner of a chunk.
LEMMA OwnerFrame ==
  ASSUME IInv, IInv', NEW t \in Threads, ThreadStep(t), NEW c \in WindowChunks,
         ~HeldBy(t, c), ~HeldBy(t, c)'
  PROVE  Owner(c)' = Owner(c)
<1>1. OwnerCases /\ OwnerCases'
  BY OwnerHasCases, OwnerHasCasesNext
<1>2. \A u \in Threads : HeldBy(u, c)' <=> HeldBy(u, c)
  BY IInvParts, HeldByStep
<1>3. is_downloaded'[c] = is_downloaded[c] /\ is_downloading'[c] = is_downloading[c]
  <2> USE WindowChunksFit DEF IInv, TypeOK
  <2>1. CASE TakeChunk(t)
    BY <2>1 DEF TakeChunk, Goto, HeldBy, Working
  <2>2. CASE MarkRefused(t)
    BY <2>2 DEF MarkRefused, Unmarked, Goto, HeldBy, Working, Fetching
  <2>3. CASE MarkDownloaded(t)
    BY <2>3 DEF MarkDownloaded, Goto, HeldBy, Working, Fetching
  <2>4. CASE ~(TakeChunk(t) \/ MarkRefused(t) \/ MarkDownloaded(t))
    BY <2>4 DEF ThreadStep, CheckCount, NoChunkLeft, PickPeer, NoPeerLeft, Connect,
      ConnectFails, LockPeersOfRefused, RecvChunk, RecvRefusal, RecvBroken,
      Receive, Spin, LockChunks, LockCount, Advance, Release, vars, shared,
      chunks_list
  <2>5. QED
    BY <2>1, <2>2, <2>3, <2>4
<1>4. is_downloaded[c] \in BOOLEAN /\ is_downloading[c] \in BOOLEAN
  BY WindowChunksFit DEF IInv, TypeOK
<1>5. CASE \E u \in Threads : HeldBy(u, c)
  BY <1>1, <1>2, <1>5 DEF OwnerCases
<1>6. CASE \A u \in Threads : ~HeldBy(u, c)
  BY <1>1, <1>2, <1>3, <1>4, <1>6 DEF OwnerCases
<1>7. QED
  BY <1>5, <1>6

OwnerMap == [c \in WindowChunks |-> Owner(c)]

\* A step that concerns one chunk changes the owner of that chunk alone.
LEMMA OwnerUpdate ==
  ASSUME IInv, IInv', NEW t \in Threads, ThreadStep(t), NEW c \in WindowChunks,
         \A d \in WindowChunks : d # c => ~HeldBy(t, d) /\ ~HeldBy(t, d)'
  PROVE  OwnerMap' = [OwnerMap EXCEPT ![c] = Owner(c)']
<1>1. \A d \in WindowChunks : d # c => Owner(d)' = Owner(d)
  BY OwnerFrame
<1>2. OwnerMap' = [d \in WindowChunks |-> Owner(d)']
  BY DEF OwnerMap
<1>3. QED
  BY <1>1, <1>2 DEF OwnerMap

\* A thread's step is a step of the pool of chunks, or a stutter.
LEMMA PoolThreadStep ==
  ASSUME IInv, IInv', NEW t \in Threads, ThreadStep(t)
  PROVE  [Pool!Next]_<<OwnerMap, Supply>>
<1> SUFFICES Pool!Next \/ UNCHANGED <<OwnerMap, Supply>>
  OBVIOUS
<1>0. OwnerCases /\ OwnerCases' /\ Typed
  BY OwnerHasCases, OwnerHasCasesNext, IInvParts
<1>a. \A c \in WindowChunks : OwnerMap[c] = Owner(c)
  BY DEF OwnerMap
<1>1. CASE TakeChunk(t)
  <2>1. PICK c \in FreeChunks : /\ chunk_index' = [chunk_index EXCEPT ![t] = c]
                                /\ pc[t] = "take" /\ pc'[t] = "pick"
                                /\ UNCHANGED <<is_downloaded, is_online>>
    BY <1>0, <1>1
    DEF TakeChunk, Goto, Typed, TypeOK, src_dnodes_list
  <2>2. /\ c \in WindowChunks /\ Owner(c) = "free"
        /\ HeldBy(t, c)'
        /\ \A d \in WindowChunks : /\ ~HeldBy(t, d)
                                   /\ d # c => ~HeldBy(t, d)'
    BY <1>0, <2>1 DEF FreeChunks, OwnerCases, HeldBy, Working, Fetching, IInv, TypeOK
  <2>3. Owner(c)' = t
    BY <1>0, <2>2 DEF OwnerCases
  <2>4. OwnerMap' = [OwnerMap EXCEPT ![c] = t]
    BY <2>2, <2>3, OwnerUpdate
  <2>5. ASSUME NEW d \in WindowChunks PROVE Owner(d) # t
    <3>1. CASE \E u \in Threads : HeldBy(u, d)
      BY <1>0, <2>2, <3>1 DEF OwnerCases
    <3>2. CASE \A u \in Threads : ~HeldBy(u, d)
      BY <1>0, <3>2, ThreadsAssumption, WindowChunksFit
      DEF OwnerCases, Typed, TypeOK
    <3>3. QED
      BY <3>1, <3>2
  <2>6. Pool!Claim(t, c)
    BY <2>1, <2>2, <2>4, <2>5, <1>a DEF Pool!Claim, OwnerMap, Supply
  <2>7. QED
    BY <2>2, <2>6 DEF Pool!Next
<1>2. ASSUME NoPeerLeft(t) \/ MarkRefused(t) \/ MarkDownloaded(t)
      PROVE  \E c \in WindowChunks :
               /\ c = chunk_index[t]
               /\ Owner(c) = t
               /\ \A u \in Threads : ~HeldBy(u, c)'
               /\ OwnerMap' = [OwnerMap EXCEPT ![c] = Owner(c)']
  <2>1. PICK c \in WindowChunks :
          /\ c = chunk_index[t] /\ HeldBy(t, c)
          /\ \A u \in Threads : HeldBy(u, c) => u = t
    BY <1>0, <1>2 DEF NoPeerLeft, MarkRefused, MarkDownloaded, Goto, HeldBy,
      Working, Fetching, IInv, IndicesInRange, ChunkExclusive
  <2>2. \A d \in WindowChunks : /\ ~HeldBy(t, d)'
                                /\ d # c => ~HeldBy(t, d)
    BY <1>0, <1>2, <2>1 DEF NoPeerLeft, MarkRefused, MarkDownloaded, Goto, HeldBy,
      Working, Fetching, Typed, TypeOK
  <2>3. \A u \in Threads : ~HeldBy(u, c)'
    BY <1>0, <2>1, <2>2, HeldByStep
  <2>4. Owner(c) = t
    BY <1>0, <2>1 DEF OwnerCases
  <2>5. OwnerMap' = [OwnerMap EXCEPT ![c] = Owner(c)']
    BY <2>1, <2>2, OwnerUpdate
  <2>6. QED
    BY <2>1, <2>3, <2>4, <2>5
<1>3. CASE NoPeerLeft(t)
  <2>1. PICK c \in WindowChunks : /\ c = chunk_index[t]
                                  /\ Owner(c) = t
                                  /\ \A u \in Threads : ~HeldBy(u, c)'
                                  /\ OwnerMap' = [OwnerMap EXCEPT ![c] = Owner(c)']
    BY <1>2, <1>3
  <2>2. is_downloading'[c] /\ ~is_downloaded'[c]
    BY <1>0, <1>3, <2>1 DEF NoPeerLeft, Goto, shared, chunks_list, IInv,
      ChunksMarked, ChunkExclusive, Working, Fetching
  <2>3. Owner(c)' = "lost"
    BY <1>0, <2>1, <2>2 DEF OwnerCases
  <2>4. ~Supply /\ UNCHANGED Supply
    <3>1. UNCHANGED is_online
      BY <1>3 DEF NoPeerLeft, shared, src_dnodes_list
    <3>2. \A p \in Peers : ~is_online[p]
      BY <1>0, <1>3, NoneFoundAllOffline DEF NoPeerLeft, IInv
    <3>3. QED
      BY <3>1, <3>2 DEF Supply
  <2>5. Pool!Abandon(t, c)
    BY <2>1, <2>3, <2>4, <1>a DEF Pool!Abandon, OwnerMap, Supply
  <2>6. QED
    BY <2>5 DEF Pool!Next
<1>4. CASE MarkRefused(t)
  <2>1. PICK c \in WindowChunks : /\ c = chunk_index[t]
                                  /\ Owner(c) = t
                                  /\ \A u \in Threads : ~HeldBy(u, c)'
                                  /\ OwnerMap' = [OwnerMap EXCEPT ![c] = Owner(c)']
    BY <1>2, <1>4
  <2>2. ~is_downloading'[c] /\ ~is_downloaded'[c]
    BY <1>0, <1>4, <2>1, WindowChunksFit DEF MarkRefused, Unmarked, Goto, IInv,
      ChunkExclusive, Working, Fetching, TypeOK
  <2>3. Owner(c)' = "free"
    BY <1>0, <2>2 DEF OwnerCases
  <2>4. Supply' \in {Supply, FALSE}
    <3>1. \A p \in Peers : is_online'[p] => is_online[p]
      BY <1>0, <1>4 DEF MarkRefused, Typed, TypeOK
    <3>2. Supply' => Supply
      BY <3>1 DEF Supply
    <3>3. Supply \in BOOLEAN /\ Supply' \in BOOLEAN
      BY DEF Supply
    <3>4. QED
      BY <3>2, <3>3
  <2>5. Pool!HandBack(t, c)
    BY <2>1, <2>3, <2>4, <1>a DEF Pool!HandBack, Pool!SupplyMayEnd, OwnerMap, Supply
  <2>6. QED
    BY <2>5 DEF Pool!Next
<1>5. CASE MarkDownloaded(t)
  <2>1. PICK c \in WindowChunks : /\ c = chunk_index[t]
                                  /\ Owner(c) = t
                                  /\ \A u \in Threads : ~HeldBy(u, c)'
                                  /\ OwnerMap' = [OwnerMap EXCEPT ![c] = Owner(c)']
    BY <1>2, <1>5
  <2>2. is_downloaded'[c]
    BY <1>0, <1>5, <2>1, WindowChunksFit DEF MarkDownloaded, IInv, TypeOK
  <2>3. Owner(c)' = "done"
    BY <1>0, <2>2 DEF OwnerCases
  <2>4. UNCHANGED Supply
    BY <1>5 DEF MarkDownloaded, Supply
  <2>5. Pool!Complete(t, c)
    BY <2>1, <2>3, <2>4, <1>a DEF Pool!Complete, Pool!SupplyMayEnd, OwnerMap, Supply
  <2>6. QED
    BY <2>5 DEF Pool!Next
<1>6. CASE ~(TakeChunk(t) \/ NoPeerLeft(t) \/ MarkRefused(t) \/ MarkDownloaded(t))
  <2>1. ASSUME NEW c \in WindowChunks PROVE Owner(c)' = Owner(c)
    <3>1. CASE HeldBy(t, c)
      <4>1. HeldBy(t, c)'
        BY <1>0, <1>6, <3>1, HeldByStep
      <4>2. QED
        BY <1>0, <3>1, <4>1 DEF OwnerCases
    <3>2. CASE ~HeldBy(t, c)
      <4>1. ~HeldBy(t, c)'
        BY <1>0, <1>6, <3>2, HeldByStep
      <4>2. QED
        BY <3>2, <4>1, OwnerFrame
    <3>3. QED
      BY <3>1, <3>2
  <2>2. UNCHANGED is_online
    BY <1>6 DEF ThreadStep, CheckCount, NoChunkLeft, PickPeer, Connect,
      ConnectFails, LockPeersOfRefused, RecvChunk, RecvRefusal, RecvBroken,
      Receive, Spin, LockChunks, LockCount, Advance, Release, vars, shared,
      src_dnodes_list
  <2>3. QED
    BY <2>1, <2>2 DEF OwnerMap, Supply
<1>7. QED
  BY <1>1, <1>3, <1>4, <1>5, <1>6

\* Seen through its owners, a download is a pool of chunks: no chunk is fetched
\* by two threads, refetched when done, or given up while a source is left.
THEOREM ImplementsPool == Spec => PoolSpec
<1>1. Init => Pool!Init
  <2> SUFFICES ASSUME Init PROVE Pool!Init
    OBVIOUS
  <2>1. \A c \in WindowChunks : Owner(c) = "free"
    BY WindowChunksFit DEF Init, Owner
  <2>2. QED
    BY <2>1 DEF Pool!Init
<1>2. IInv /\ IInv' /\ [Next]_vars => [Pool!Next]_(Pool!poolVars)
  <2> SUFFICES ASSUME IInv, IInv', [Next]_vars
               PROVE  [Pool!Next]_<<OwnerMap, Supply>>
    BY DEF Pool!poolVars, OwnerMap, Supply
  <2>1. ASSUME NEW t \in Threads, ThreadStep(t)
        PROVE  [Pool!Next]_<<OwnerMap, Supply>>
    BY <2>1, PoolThreadStep
  <2>2. CASE EnterLoop \/ WriteBuffer \/ Report \/ Terminated \/ UNCHANGED vars
    <3>1. UNCHANGED <<chunk_index, chunks_list, is_online>>
      BY <2>2 DEF EnterLoop, WriteBuffer, Report, MainGoto, Terminated, vars,
        locals, shared, src_dnodes_list
    <3>2. \A t \in Threads, c \in WindowChunks : HeldBy(t, c)' <=> HeldBy(t, c)
      BY <2>2, <3>1, IInvParts
      DEF EnterLoop, WriteBuffer, Report, MainGoto, Terminated, vars, Phased,
          ThreadsRunInJoin, HeldBy, Working, Fetching
    <3>3. \A c \in WindowChunks : Owner(c)' = Owner(c)
      BY <3>1, <3>2, OwnerHasCases, OwnerHasCasesNext, WindowChunksFit
      DEF OwnerCases, chunks_list, IInv, TypeOK
    <3>4. QED
      BY <3>1, <3>3 DEF OwnerMap, Supply
  <2>3. QED
    BY <2>1, <2>2 DEF Next
<1>3. QED
  BY <1>1, <1>2, IInvHolds, PTL DEF Spec, PoolSpec, Pool!Spec

-----------------------------------------------------------------------------
(* A download from reliable sources.                                       *)

\* What the sources and the file have to be for the acknowledgement to be true.
Reliable ==
  /\ NumPeers > 0 /\ MayRefuse = {} /\ MayBreak = {}
  /\ Peers \X Chunks \subseteq Serves /\ Stale = {}
  /\ FileSize < BufferSize

\* A file shorter than the buffer fits the window.
LEMMA ShortFileFits ==
  ASSUME Reliable
  PROVE  NumChunks <= Window /\ MaxChunkIndex = NumChunks
<1> DEFINE q == FileSize \div ChunkSize
<1>1. q \in Nat /\ q * ChunkSize \in Nat /\ q * ChunkSize <= FileSize
  BY FileIsChunks, SizesAssumption
<1>2. Window * ChunkSize \in Nat /\ FileSize < Window * ChunkSize
  BY SizesAssumption DEF Reliable, BufferSize
<1>3. q < Window
  <2>1. CASE Window <= q
    <3>1. Window * ChunkSize <= q * ChunkSize
      BY <1>1, <2>1, TimesMonotonic, SizesAssumption
    <3>2. QED
      BY <1>1, <1>2, <3>1, SizesAssumption
  <2>2. QED
    BY <1>1, <2>1, SizesAssumption
<1>4. NumChunks <= Window
  BY <1>1, <1>3, SizesAssumption DEF NumChunks
<1>5. QED
  BY <1>4, WindowSizes, SizesAssumption DEF MaxChunkIndex, CurrentChunkIndex

\* The steps at which a thread has the bytes of its chunk.
HasBytes == {"received", "received_chunks", "received_count"}

Genuine ==
  /\ \A p \in Peers : is_online[p]
  /\ \A t \in Threads : /\ pc[t] \notin {"refused", "refused_src"}
                        /\ pc[t] \in HasBytes =>
                             download_buffer[Slot(chunk_index[t])] = chunk_index[t]
  /\ ChunkVerified
  /\ main \in {"report", "reported"} =>
       /\ num_chunks_downloaded = NumChunks
       /\ bytes_written = FileSize

\* Nothing is downloaded at the beginning.
LEMMA GenuineInit == Reliable /\ Init => Genuine
BY WindowChunksFit DEF Init, Genuine, HasBytes, ChunkVerified

\* From reliable sources, a thread's step downloads what the index describes.
LEMMA GenuineThreadStep ==
  ASSUME Reliable, IInv, IInv', Genuine, NEW t \in Threads, ThreadStep(t)
  PROVE  Genuine'
<1> USE WindowChunksFit
    DEF Genuine, IInv, TypeOK, Goto, HasBytes, ChunkVerified, locals, shared,
        chunks_list, src_dnodes_list, counters
<1>1. CASE CheckCount(t)
  BY <1>1 DEF CheckCount
<1>2. CASE TakeChunk(t)
  BY <1>2 DEF TakeChunk
<1>3. CASE NoChunkLeft(t)
  BY <1>3 DEF NoChunkLeft
<1>4. CASE PickPeer(t)
  BY <1>4 DEF PickPeer
<1>5. CASE NoPeerLeft(t)
  BY <1>5 DEF NoPeerLeft, DropLocals
<1>6. CASE Connect(t)
  BY <1>6 DEF Connect
<1>7. CASE ConnectFails(t) \/ RecvBroken(t)
  BY <1>7 DEF ConnectFails, RecvBroken, Reliable
<1>8. CASE LockPeersOfRefused(t) \/ MarkRefused(t)
  BY <1>8 DEF LockPeersOfRefused, MarkRefused
<1>9. CASE RecvChunk(t)
  <2> DEFINE c == chunk_index[t]
  <2>1. /\ pc[t] = "recv" /\ c \in WindowChunks /\ ~is_downloaded[c]
        /\ \A u \in Threads : u # t /\ pc[u] \in HasBytes =>
             chunk_index[u] \in WindowChunks /\ chunk_index[u] # c
    BY <1>9
    DEF RecvChunk, Receive, IndicesInRange, ChunkExclusive, HeldBy, Working, Fetching
  <2>2. download_buffer' = [download_buffer EXCEPT ![c] = c]
    BY <1>9, <2>1 DEF RecvChunk, Receive, Reliable
  <2>3. QED
    BY <1>9, <2>1, <2>2 DEF RecvChunk, Receive
<1>10. CASE RecvRefusal(t)
  <2>1. Asked(t) \in Peers \X Chunks
    BY <1>10 DEF RecvRefusal, Receive, Asked, IndicesInRange, Working, Fetching
  <2>2. QED
    BY <1>10, <2>1 DEF RecvRefusal, Reliable
<1>11. CASE Spin(t)
  BY <1>11 DEF Spin, vars
<1>12. CASE LockChunks(t)
  BY <1>12 DEF LockChunks
<1>13. CASE LockCount(t)
  BY <1>13 DEF LockCount
<1>14. CASE MarkDownloaded(t)
  BY <1>14 DEF MarkDownloaded
<1>15. CASE Advance(t) \/ Release(t)
  <2>1. main = "join"
    BY ThreadStepMoves, IInvParts DEF Phased, ThreadsRunInJoin
  <2>2. QED
    BY <1>15, <2>1 DEF Advance, Release, DropLocals
<1>16. QED
  BY <1>1, <1>2, <1>3, <1>4, <1>5, <1>6, <1>7, <1>8, <1>9, <1>10, <1>11, <1>12,
     <1>13, <1>14, <1>15 DEF ThreadStep

\* From reliable sources, no step loses a chunk or writes anything but the file.
LEMMA GenuineNext ==
  ASSUME Reliable, IInv, IInv', Genuine, [Next]_vars
  PROVE  Genuine'
<1> USE WindowChunksFit, ShortFileFits
    DEF Genuine, MainGoto, HasBytes, ChunkVerified, locals, shared, chunks_list,
        src_dnodes_list, counters
<1>1. CASE \E t \in Threads : ThreadStep(t)
  BY <1>1, GenuineThreadStep
<1>2. CASE EnterLoop
  <2>1. num_chunks_downloaded = 0 /\ bytes_written = 0
    BY <1>2, IInvParts DEF EnterLoop, Phased, ThreadsRunInJoin
  <2>2. NumChunks = 0 => FileSize = 0
    <3>1. ASSUME NumChunks = 0 PROVE FileSize = 0
      <4>1. FileSize \div ChunkSize = 0 /\ PartialChunkSize = 0
        BY <3>1, FileIsChunks DEF NumChunks
      <4>2. FileSize = 0 * ChunkSize + 0
        BY <4>1, FileIsChunks
      <4>3. QED
        BY <4>2, SizesAssumption
    <3>2. QED
      BY <3>1
  <2>3. QED
    BY <1>2, <2>1, <2>2, WindowSizes DEF EnterLoop
<1>3. CASE WriteBuffer
  <2>1. num_chunks_downloaded = NumChunks
    <3>1. CompleteUnlessPeersGone /\ AllExited
      BY <1>3, JoinedFromIInv DEF WriteBuffer, AllExited
    <3>2. 0 \in Peers
      BY SizesAssumption DEF Peers, Reliable
    <3>3. QED
      BY <3>1, <3>2 DEF CompleteUnlessPeersGone
  <2>2. num_bytes_downloaded = FileSize
    BY <2>1 DEF IInv
  <2>3. BufferSize \in Nat \ {0} /\ FileSize < BufferSize
    BY SizesAssumption DEF BufferSize, Reliable
  <2>4. FileSize % BufferSize = FileSize
    BY <2>3, SizesAssumption
  <2>5. bytes_written' = FileSize
    <3>1. bytes_written = 0
      BY <1>3, IInvParts DEF WriteBuffer, Phased, ThreadsRunInJoin
    <3>2. QED
      BY <1>3, <2>1, <2>2, <2>4, <3>1, SizesAssumption
      DEF WriteBuffer, BufferEndOffset
  <2>6. QED
    BY <1>3, <2>1, <2>5 DEF WriteBuffer
<1>4. CASE Report
  BY <1>4 DEF Report
<1>5. CASE Terminated \/ UNCHANGED vars
  BY <1>5 DEF Terminated, vars
<1>6. QED
  BY <1>1, <1>2, <1>3, <1>4, <1>5 DEF Next

\* From sources that all answer with the file the index describes, a file that
\* is shorter than the buffer is downloaded whole before the dnode reports that
\* it is a source of it.
THEOREM ReliableAckMeansSource ==
  ASSUME Reliable
  PROVE  Spec => [](ChunkVerified /\ AckMeansSource)
<1>1. Init => Genuine
  BY GenuineInit
<1>2. IInv /\ IInv' /\ Genuine /\ [Next]_vars => Genuine'
  BY GenuineNext
<1>3. IInv /\ Genuine => ChunkVerified /\ AckMeansSource
  <2> SUFFICES ASSUME IInv, Genuine, main = "reported" PROVE HoldsFile
    BY DEF Genuine, AckMeansSource
  <2>1. bytes_written = FileSize /\ num_chunks_downloaded = NumChunks
    BY DEF Genuine
  <2>2. WindowChunks = Chunks /\ \A c \in WindowChunks : c < num_chunks_downloaded
    BY <2>1, ShortFileFits, WindowSizes
    DEF WindowChunks, CurrentChunkIndex, Chunks
  <2>3. \A c \in Chunks : download_buffer[Slot(c)] = c
    BY <2>2 DEF IInv, CountIsPrefix, Genuine, ChunkVerified
  <2>4. QED
    BY <2>1, <2>3 DEF HoldsFile
<1>4. QED
  BY <1>1, <1>2, <1>3, IInvHolds, PTL DEF Spec
=============================================================================
