-------------------------- MODULE RpcServerProofs --------------------------
(***************************************************************************)
(* What RpcServer guarantees for any clients, files and sizes of chunks.   *)
(***************************************************************************)
EXTENDS RpcServer, SequenceTheorems, TLAPS

-----------------------------------------------------------------------------
(* Invariants.                                                             *)

\* Where chunk i begins, and where the last one ends.
Place(size, i) == IF i <= CompleteChunks(size) THEN Offset(i) ELSE size

\* What TLC need not look at: the sets that contents and lists are from.
DataOk ==
  /\ disk \in [Paths -> Seq(Bytes) \cup {None}]
  /\ announced \in [Paths -> [size : Ints, index : Seq(Seq(Bytes))] \cup {None}]
  /\ chunk_buffer \in Seq(Bytes) /\ chunk_hashes \in Seq(Seq(Bytes))

\* Nothing is announced but copies, and they are there.
AnnouncedOk ==
  \A p \in Paths : announced[p] # None => OutPath[p] = p /\ disk[p] \in Seq(Bytes)

\* The thread is in the handler of what was asked for, and has a list of hashes in
\* a copy only.
HandlerOk ==
  /\ pc \in {"open", "copy"} => Request[served].op = "upload"
  /\ pc = "fetch" => Request[served].op = "download"
  /\ pc \notin {"copy", "spin"} => chunk_hashes = <<>>

\* Before it opens the files, nothing is read or written, and the size is that of
\* the file unless somebody wrote to it.
OpenOk ==
  pc = "open" =>
    /\ read_at = None /\ write_at = 0 /\ chunk_buffer = <<>>
    /\ original # None => /\ original \in Seq(Bytes) /\ disk[Source] = original
                          /\ file_size = AsInt(Len(original))

\* The copy is there and nowhere behind the chunk; the file is read up to what is
\* in the buffer; unless somebody wrote to it, it is as long as it was.
CopyOk ==
  pc = "copy" =>
    /\ disk[Target] \in Seq(Bytes)
    /\ write_at <= Len(disk[Target]) /\ write_at <= Place(file_size, Chunk)
    /\ read_at # None => /\ read_at = Place(file_size, Chunk) + Len(chunk_buffer)
                         /\ disk[Source] \in Seq(Bytes)
    /\ original # None => /\ read_at # None /\ original \in Seq(Bytes)
                          /\ file_size = AsInt(Len(original))
                          /\ Len(disk[Source]) >= Len(original)

RpcInv ==
  RpcTypeOK /\ DataOk /\ AnnouncedOk /\ HandlerOk /\ OpenOk /\ CopyOk /\ SpinForAReason

\* So far, the hashes are those of the copy.
HashesOk ==
  pc = "copy" =>
    /\ write_at = Place(file_size, Chunk)
    /\ \A i \in 0 .. Chunk - 1 :
         Hash(SubSeq(disk[Target], Offset(i) + 1, Offset(i) + ChunkLen(file_size, i)))
           = chunk_hashes[i + 1]

IndexInv == IndexDescribesCopy /\ HashesOk

\* The size of every file is an int.
FilesShort == \A p \in Paths : disk[p] # None => Len(disk[p]) < IntLimit

\* So far, the copy is the file.
BytesOk ==
  pc = "copy" /\ original # None =>
    /\ disk[Source] = original
    /\ \A k \in 1 .. Len(chunk_buffer) :
         chunk_buffer[k] = original[Place(file_size, Chunk) + k]
    /\ \A k \in 1 .. Place(file_size, Chunk) : disk[Target][k] = original[k]

StoredInv == FilesShort /\ BytesOk /\ SuccessMeansStored

-----------------------------------------------------------------------------
(* Sizes.                                                                  *)

\* The complete chunks and the partial one make up the file; a negative size has
\* neither.
LEMMA SizeIsChunks ==
  ASSUME NEW size \in Int
  PROVE  /\ CompleteChunks(size) \in Nat
         /\ PartialSize(size) \in 0 .. ChunkSize - 1
         /\ size >= 0 => size = CompleteChunks(size) * ChunkSize + PartialSize(size)
         /\ size < 0 => CompleteChunks(size) = 0 /\ PartialSize(size) = 0
         /\ NumChunks(size) \in Nat
         /\ NumChunks(size) =
              CompleteChunks(size) + (IF PartialSize(size) > 0 THEN 1 ELSE 0)
<1>1. CASE size < 0
  BY <1>1, SizesAssumption DEF CompleteChunks, PartialSize, NumChunks
<1>2. CASE size >= 0
  <2>1. /\ size \div ChunkSize \in Nat /\ size % ChunkSize \in 0 .. ChunkSize - 1
        /\ size = (size \div ChunkSize) * ChunkSize + (size % ChunkSize)
    BY <1>2, SizesAssumption
  <2>2. CompleteChunks(size) = size \div ChunkSize /\ PartialSize(size) = size % ChunkSize
    BY <1>2 DEF CompleteChunks, PartialSize
  <2>3. QED
    BY <1>2, <2>1, <2>2 DEF NumChunks
<1>3. QED
  BY <1>1, <1>2

\* The number of chunks, without the arithmetic.
LEMMA NumbersOfChunks ==
  ASSUME NEW size \in Int
  PROVE  /\ CompleteChunks(size) \in Nat /\ PartialSize(size) \in Nat
         /\ PartialSize(size) < ChunkSize
         /\ size < 0 => CompleteChunks(size) = 0 /\ PartialSize(size) = 0
         /\ NumChunks(size) \in Nat
         /\ PartialSize(size) > 0 => NumChunks(size) = CompleteChunks(size) + 1
         /\ PartialSize(size) = 0 => NumChunks(size) = CompleteChunks(size)
<1>1. ChunkSize \in Nat
  BY SizesAssumption
<1> HIDE SizesAssumption
<1>2. PartialSize(size) \in 0 .. ChunkSize - 1 /\ CompleteChunks(size) \in Nat
  BY SizeIsChunks
<1>3. size < 0 => CompleteChunks(size) = 0 /\ PartialSize(size) = 0
  BY SizeIsChunks
<1>4. QED
  BY <1>1, <1>2, <1>3 DEF NumChunks

\* Multiplication by a natural number is monotonic.
LEMMA TimesMonotonic ==
  ASSUME NEW a \in Nat, NEW b \in Nat, NEW k \in Nat, a <= b
  PROVE  a * k \in Nat /\ b * k \in Nat /\ a * k <= b * k
OBVIOUS

\* A chunk is not empty, begins where the one before it ends and lies in the file.
LEMMA PlaceNext ==
  ASSUME NEW size \in Int, NEW i \in Nat, i < NumChunks(size)
  PROVE  /\ size > 0
         /\ ChunkLen(size, i) \in 1 .. ChunkSize
         /\ Place(size, i) = Offset(i) /\ Place(size, i) \in Nat
         /\ Place(size, i + 1) = Place(size, i) + ChunkLen(size, i)
         /\ Place(size, i + 1) <= size
<1> DEFINE c == CompleteChunks(size)
           p == PartialSize(size)
<1>1. /\ c \in Nat /\ p \in Nat /\ p < ChunkSize
      /\ size >= 0 => size = c * ChunkSize + p
      /\ size < 0 => c = 0 /\ p = 0
      /\ p > 0 => NumChunks(size) = c + 1
      /\ p = 0 => NumChunks(size) = c
  BY SizeIsChunks, NumbersOfChunks
<1>2. i * ChunkSize \in Nat /\ ChunkSize \in Nat \ {0}
      /\ (i + 1) * ChunkSize = i * ChunkSize + ChunkSize
  BY SizesAssumption
<1>3. Place(size, i) = (IF i <= c THEN i * ChunkSize ELSE size)
      /\ Place(size, i + 1) = (IF i + 1 <= c THEN (i + 1) * ChunkSize ELSE size)
      /\ ChunkLen(size, i) = (IF i < c THEN ChunkSize ELSE p)
      /\ Offset(i) = i * ChunkSize
  BY DEF Place, Offset, ChunkLen
<1> HIDE DEF c, p
<1>4. size >= 0
  BY <1>1
<1>5. CASE i < c
  <2>1. i + 1 <= c
    BY <1>1, <1>5
  <2>2. (i + 1) * ChunkSize <= c * ChunkSize /\ c * ChunkSize \in Nat
    BY <1>1, <1>2, <2>1, TimesMonotonic
  <2>3. QED
    BY <1>1, <1>2, <1>3, <1>4, <1>5, <2>1, <2>2
<1>6. CASE i >= c
  <2>1. i = c /\ p > 0
    BY <1>1, <1>6
  <2>2. c * ChunkSize \in Nat /\ size = c * ChunkSize + p
    BY <1>1, <1>2, <1>4, <2>1
  <2>3. QED
    BY <1>1, <1>2, <1>3, <2>1, <2>2
<1>7. QED
  BY <1>1, <1>5, <1>6

\* The first chunk begins at 0, and the last one ends with the file.
LEMMA PlaceEnds ==
  ASSUME NEW size \in Int
  PROVE  /\ Place(size, 0) = 0
         /\ Place(size, NumChunks(size)) = IF size < 0 THEN 0 ELSE size
<1>1. Place(size, 0) = 0
  BY SizeIsChunks, SizesAssumption DEF Place, Offset
<1>2. CASE PartialSize(size) > 0
  <2>1. /\ NumChunks(size) = CompleteChunks(size) + 1 /\ CompleteChunks(size) \in Nat
        /\ size >= 0
    BY <1>2, NumbersOfChunks
  <2>2. Place(size, NumChunks(size)) = size
    BY <2>1 DEF Place
  <2>3. QED
    BY <1>1, <2>1, <2>2
<1>3. CASE PartialSize(size) = 0
  <2>1. NumChunks(size) = CompleteChunks(size)
    BY <1>3, NumbersOfChunks
  <2>2. Place(size, NumChunks(size)) = CompleteChunks(size) * ChunkSize
    BY <2>1, NumbersOfChunks DEF Place, Offset
  <2>3. CASE size < 0
    <3>1. CompleteChunks(size) = 0
      BY <2>3, NumbersOfChunks
    <3>2. 0 * ChunkSize = 0
      BY SizesAssumption
    <3>3. QED
      BY <2>2, <2>3, <3>1, <3>2, <1>1
  <2>4. CASE size >= 0
    <3>1. /\ size = CompleteChunks(size) * ChunkSize + PartialSize(size)
          /\ CompleteChunks(size) \in Nat
      BY <2>4, SizeIsChunks
    <3>2. CompleteChunks(size) * ChunkSize \in Nat
      BY <3>1, SizesAssumption, TimesMonotonic
    <3>3. QED
      BY <1>1, <1>3, <2>2, <2>4, <3>1, <3>2
  <2>5. QED
    BY <2>3, <2>4
<1>4. QED
  BY <1>1, <1>2, <1>3, NumbersOfChunks

\* An earlier chunk ends before a later one begins.
LEMMA PlaceMonotonic ==
  ASSUME NEW size \in Int, NEW i \in Nat, NEW j \in Nat,
         j < i, i <= NumChunks(size)
  PROVE  Place(size, j + 1) <= Place(size, i)
<1>1. j < NumChunks(size) /\ NumChunks(size) \in Nat
  BY NumbersOfChunks
<1>2. Place(size, j + 1) <= size /\ size > 0 /\ Place(size, j + 1) \in Int
  <2>1. Place(size, j) \in Nat /\ ChunkLen(size, j) \in 1 .. ChunkSize
    BY <1>1, PlaceNext
  <2>2. QED
    BY <1>1, <2>1, PlaceNext, SizesAssumption
<1>3. CASE i <= CompleteChunks(size)
  <2>1. CompleteChunks(size) \in Nat
    BY SizeIsChunks
  <2>2. j + 1 <= CompleteChunks(size) /\ j + 1 <= i
    BY <1>3, <2>1
  <2>3. (j + 1) * ChunkSize <= i * ChunkSize
    BY <2>2, SizesAssumption, TimesMonotonic
  <2>4. QED
    BY <1>3, <2>2, <2>3 DEF Place, Offset
<1>4. CASE ~(i <= CompleteChunks(size))
  BY <1>2, <1>4 DEF Place
<1>5. QED
  BY <1>3, <1>4

\* A chunk that is begun lies in the file.
LEMMA PlaceBounded ==
  ASSUME NEW size \in Int, NEW i \in Nat, i <= NumChunks(size)
  PROVE  /\ Place(size, i) \in Nat
         /\ Place(size, i) <= (IF size < 0 THEN 0 ELSE size)
         /\ ChunkLen(size, i) \in 0 .. ChunkSize
<1>1. NumChunks(size) \in Nat
  BY NumbersOfChunks
<1>2. CASE i < NumChunks(size)
  BY <1>2, PlaceNext, SizesAssumption
<1>3. CASE i = NumChunks(size)
  <2>1. Place(size, i) = IF size < 0 THEN 0 ELSE size
    BY <1>3, PlaceEnds
  <2>2. ChunkLen(size, i) = PartialSize(size) /\ PartialSize(size) \in 0 .. ChunkSize
    BY <1>3, NumbersOfChunks, SizesAssumption DEF ChunkLen
  <2>3. QED
    BY <2>1, <2>2
<1>4. QED
  BY <1>1, <1>2, <1>3

\* Quotient and remainder.
LEMMA DivMod ==
  ASSUME NEW a \in Nat, NEW b \in Nat \ {0}
  PROVE  a % b \in 0 .. b - 1 /\ a \div b \in Nat /\ a = (a \div b) * b + (a % b)
OBVIOUS

\* A size as an int is one, and never more than the size, which it is if it fits.
LEMMA IntOfSize ==
  ASSUME NEW n \in Nat
  PROVE  AsInt(n) \in Ints /\ AsInt(n) <= n /\ (n < IntLimit => AsInt(n) = n)
<1> DEFINE l == IntLimit
           a == n + l
           b == 2 * l
           m == a % b
           q == a \div b
<1>1. l \in Nat /\ l > 0 /\ a \in Nat /\ b \in Nat \ {0} /\ b = 2 * l /\ a = n + l
  BY SizesAssumption
<1>2. AsInt(n) = m - l
  BY DEF AsInt
<1> HIDE DEF a, b
<1>3. m \in 0 .. b - 1 /\ q \in Nat /\ a = q * b + m
  BY <1>1, DivMod
<1>4. a < b => m = a
  BY <1>1
<1> HIDE DEF m, q
<1>5. q * b \in Nat
  BY <1>1, <1>3, TimesMonotonic
<1>6. m <= a
  BY <1>1, <1>3, <1>5
<1>7. QED
  BY <1>1, <1>2, <1>3, <1>4, <1>6 DEF Ints

-----------------------------------------------------------------------------
(* Contents.                                                               *)

\* The longer of two.
Larger(a, b) == IF a > b THEN a ELSE b

\* A write leaves the bytes where they go and the old ones elsewhere.
WrittenOver(new, old, at, bytes) ==
  /\ Len(new) = Larger(Len(old), at + Len(bytes))
  /\ \A k \in 1 .. Larger(Len(old), at + Len(bytes)) :
       new[k] = IF k \in at + 1 .. at + Len(bytes) THEN bytes[k - at] ELSE old[k]

\* What is overwritten has no hole, and is as described.
LEMMA OverwrittenFile ==
  ASSUME NEW S, NEW old \in Seq(S), NEW bytes \in Seq(S), NEW at \in 0 .. Len(old)
  PROVE  /\ Overwritten(old, at, bytes) \in Seq(S)
         /\ WrittenOver(Overwritten(old, at, bytes), old, at, bytes)
<1> DEFINE n == Larger(Len(old), at + Len(bytes))
           e(k) == IF k \in at + 1 .. at + Len(bytes) THEN bytes[k - at] ELSE old[k]
<1>1. Len(old) \in Nat /\ Len(bytes) \in Nat /\ at \in Nat /\ at <= Len(old)
  BY LenProperties
<1>2. n \in Nat
  BY <1>1 DEF Larger
<1>3. ASSUME NEW k \in 1 .. n PROVE e(k) \in S
  <2>1. CASE k \in at + 1 .. at + Len(bytes)
    <3>1. k - at \in 1 .. Len(bytes)
      BY <1>1, <2>1
    <3>2. QED
      BY <2>1, <3>1, ElementOfSeq
  <2>2. CASE ~(k \in at + 1 .. at + Len(bytes))
    <3>1. k \in 1 .. Len(old)
      BY <1>1, <1>2, <2>2 DEF Larger
    <3>2. QED
      BY <2>2, <3>1, ElementOfSeq
  <2>3. QED
    BY <2>1, <2>2
<1>4. Overwritten(old, at, bytes) = [k \in 1 .. n |-> e(k)]
  BY DEF Overwritten, Larger
<1> HIDE DEF n, e
<1>5. [k \in 1 .. n |-> e(k)] \in Seq(S)
  BY <1>2, <1>3, IsASeq
<1>6. Len([k \in 1 .. n |-> e(k)]) = n
  BY <1>2
<1>7. \A k \in 1 .. n : Overwritten(old, at, bytes)[k] = e(k)
  BY <1>4
<1>8. QED
  BY <1>4, <1>5, <1>6, <1>7 DEF n, e, WrittenOver

\* A hash is made of bytes.
LEMMA HashIsBytes ==
  ASSUME NEW S, NEW bytes \in Seq(S)
  PROVE  Hash(bytes) \in Seq(S)
<1>1. Len(bytes) \in Nat /\ WordSize \in Nat \ {0}
  BY SizesAssumption, LenProperties
<1>2. Len(bytes) % WordSize \in 0 .. WordSize - 1
  BY <1>1
<1>3. Len(bytes) - (Len(bytes) % WordSize) \in Int
      /\ Len(bytes) - (Len(bytes) % WordSize) <= Len(bytes)
  BY <1>1, <1>2
<1>4. \A k \in 1 .. Len(bytes) - (Len(bytes) % WordSize) : bytes[k] \in S
  BY <1>1, <1>3, ElementOfSeq
<1>5. QED
  BY <1>3, <1>4, SubSeqProperties DEF Hash

\* Two files that agree on a part have equal parts.
LEMMA EqualParts ==
  ASSUME NEW S, NEW s \in Seq(S), NEW t \in Seq(S), NEW a \in Nat, NEW n \in Nat,
         a + n <= Len(s), a + n <= Len(t),
         \A k \in a + 1 .. a + n : s[k] = t[k]
  PROVE  SubSeq(s, a + 1, a + n) = SubSeq(t, a + 1, a + n)
<1>1. Len(s) \in Nat /\ Len(t) \in Nat
  BY LenProperties
<1>2. \A k \in a + 1 .. a + n : s[k] \in S /\ t[k] \in S
  BY <1>1, ElementOfSeq
<1>3. /\ SubSeq(s, a + 1, a + n) \in Seq(S) /\ SubSeq(t, a + 1, a + n) \in Seq(S)
      /\ Len(SubSeq(s, a + 1, a + n)) = n /\ Len(SubSeq(t, a + 1, a + n)) = n
      /\ \A k \in 1 .. n : SubSeq(s, a + 1, a + n)[k] = s[a + k]
      /\ \A k \in 1 .. n : SubSeq(t, a + 1, a + n)[k] = t[a + k]
  <2>1. a + 1 \in Int /\ a + n \in Int /\ (a + n) - (a + 1) + 1 = n
        /\ (IF a + 1 <= a + n THEN (a + n) - (a + 1) + 1 ELSE 0) = n
        /\ \A k \in 1 .. n : (a + 1) + k - 1 = a + k
    OBVIOUS
  <2>2. /\ SubSeq(s, a + 1, a + n) \in Seq(S)
        /\ Len(SubSeq(s, a + 1, a + n)) = n
        /\ \A k \in 1 .. n : SubSeq(s, a + 1, a + n)[k] = s[(a + 1) + k - 1]
    BY <1>2, <2>1, SubSeqProperties
  <2>3. /\ SubSeq(t, a + 1, a + n) \in Seq(S)
        /\ Len(SubSeq(t, a + 1, a + n)) = n
        /\ \A k \in 1 .. n : SubSeq(t, a + 1, a + n)[k] = t[(a + 1) + k - 1]
    BY <1>2, <2>1, SubSeqProperties
  <2>4. QED
    BY <2>1, <2>2, <2>3
<1>4. \A k \in 1 .. n : s[a + k] = t[a + k]
  OBVIOUS
<1>5. QED
  BY <1>3, <1>4, SeqEqual

-----------------------------------------------------------------------------
(* Types, the state of a copy, and why the thread stops.                   *)

\* A connection has a client, a file and a place for its copy.
LEMMA ServedFiles ==
  ASSUME served \in Clients
  PROVE  /\ served # None /\ Request[served].op \in {"upload", "download"}
         /\ Source = Request[served].path /\ Target = OutPath[Source]
         /\ Source \in Paths /\ Target \in Paths /\ OutPath[Target] = Target
         /\ Request[served].op = "download" => Target = Source
<1>1. served # None
  BY NoneAssumption
<1>2. Request[served] \in [op : {"upload", "download"}, path : Paths]
  BY RequestAssumption
<1>3. Request[served].path \in Paths /\ Request[served].op \in {"upload", "download"}
  BY <1>2
<1>4. Source = Request[served].path /\ Target = OutPath[Source]
  BY <1>1 DEF Source, Target
<1>5. QED
  BY <1>1, <1>3, <1>4, RequestAssumption

\* At first nothing is copied or announced.
LEMMA RpcInit == Init => RpcInv
<1> SUFFICES ASSUME Init PROVE RpcInv
  OBVIOUS
<1>1. 0 \in Ints /\ 0 \in 0 .. MaxEdits
  BY SizesAssumption DEF Ints
<1>2. DataOk
  <2>1. <<>> \in Seq(Bytes) /\ <<>> \in Seq(Seq(Bytes))
    BY EmptySeq
  <2>2. QED
    BY <2>1, FilesAssumption DEF Init, DataOk
<1>3. RpcTypeOK
  <2>1. NumChunks(0) \in Nat /\ ChunkLen(0, 0) \in Nat
    BY NumbersOfChunks, PlaceBounded, SizesAssumption
  <2>2. Len(<<>>) = 0
    OBVIOUS
  <2>3. <<>> \in Seq(Clients)
    BY EmptySeq
  <2>4. \A p \in Paths : announced[p] = None
    BY DEF Init
  <2>5. \A p \in Paths : disk[p] # None => disk[p] \in Seq(Bytes)
    BY <1>2 DEF DataOk
  <2>6. QED
    BY <1>1, <2>1, <2>2, <2>3, <2>4, <2>5 DEF Init, RpcTypeOK, Chunk
<1>4. AnnouncedOk
  BY DEF Init, AnnouncedOk
<1>5. HandlerOk /\ OpenOk /\ CopyOk /\ SpinForAReason
  BY DEF Init, HandlerOk, OpenOk, CopyOk, SpinForAReason
<1>6. QED
  BY <1>2, <1>3, <1>4, <1>5 DEF RpcInv

\* A user writes to a file that is no copy, and spoils the original if it is the
\* one that is uploaded.
LEMMA RpcEdit ==
  ASSUME RpcInv, NEW p \in UserFiles, NEW s \in Written, Edit(p, s)
  PROVE  RpcInv'
<1>1. p \in Paths /\ OutPath[p] # p /\ s \in Seq(Bytes)
  BY FilesAssumption DEF UserFiles
<1>2. /\ disk \in [Paths -> Seq(Bytes) \cup {None}]
      /\ disk' = [disk EXCEPT ![p] = s]
      /\ disk'[p] = s /\ \A q \in Paths \ {p} : disk'[q] = disk[q]
  BY <1>1 DEF RpcInv, DataOk, Edit
<1>3. /\ UNCHANGED <<client, backlog, process, pc, served, file_size, read_at, write_at,
                     chunk_buffer, chunk_hashes, announced>>
      /\ original' = IF p = Source THEN None ELSE original
      /\ edits < MaxEdits /\ edits' = edits + 1
  BY DEF Edit, clientVars, threadVars, copyVars
<1>4. Source' = Source /\ Target' = Target /\ Chunk' = Chunk
  BY <1>3 DEF Source, Target, Chunk
<1>5. DataOk'
  BY <1>1, <1>2, <1>3 DEF RpcInv, DataOk
<1>6. RpcTypeOK'
  <2>1. edits' \in 0 .. MaxEdits
    BY <1>3, SizesAssumption DEF RpcInv, RpcTypeOK
  <2>2. (\A q \in Paths : disk[q] # None => disk[q] \in Seq(Bytes))'
    BY <1>5 DEF DataOk
  <2>3. QED
    BY <1>3, <1>4, <2>1, <2>2 DEF RpcInv, RpcTypeOK
<1>7. AnnouncedOk'
  BY <1>1, <1>2, <1>3 DEF RpcInv, AnnouncedOk
<1>8. HandlerOk'
  BY <1>3 DEF RpcInv, HandlerOk
<1>9. SpinForAReason'
  BY <1>3 DEF RpcInv, SpinForAReason
<1>10. CopyOk'
  <2> SUFFICES ASSUME pc = "copy" PROVE CopyOk'
    BY <1>3 DEF CopyOk
  <2>1. served \in Clients
    BY DEF RpcInv, RpcTypeOK
  <2>2. Target # p /\ Target \in Paths /\ Source \in Paths
    BY <1>1, <2>1, ServedFiles
  <2>3. disk'[Target] = disk[Target]
    BY <1>2, <2>2
  <2>4. p # Source => disk'[Source] = disk[Source]
    BY <1>2, <2>2
  <2>5. CASE p = Source
    BY <1>1, <1>2, <1>3, <1>4, <2>3, <2>5 DEF RpcInv, CopyOk
  <2>6. CASE p # Source
    BY <1>3, <1>4, <2>3, <2>4, <2>6 DEF RpcInv, CopyOk
  <2>7. QED
    BY <2>5, <2>6
<1>11. OpenOk'
  <2> SUFFICES ASSUME pc = "open" PROVE OpenOk'
    BY <1>3 DEF OpenOk
  <2>1. served \in Clients
    BY DEF RpcInv, RpcTypeOK
  <2>2. p # Source => disk'[Source] = disk[Source]
    BY <1>2, <2>1, ServedFiles
  <2>3. QED
    BY <1>3, <1>4, <2>2 DEF RpcInv, OpenOk
<1>12. QED
  BY <1>5, <1>6, <1>7, <1>8, <1>9, <1>10, <1>11 DEF RpcInv

\* A step that leaves files, copies and announcements alone keeps what is known of
\* them.
LEMMA RpcAside ==
  ASSUME RpcInv,
         UNCHANGED <<disk, edits, copyVars, announced, original>>,
         client' \in [Clients -> {"off", "asked", "broken", "success", "misled", "gone"}],
         process' \in {"up", "down"}, backlog' \in Seq(Clients),
         pc' \in {"accept", "recv", "open", "copy", "fetch", "reply", "spin"},
         served' \in Clients \cup {None}, served' = None <=> pc' = "accept",
         pc' \in {"open", "copy"} => pc' = pc /\ served' = served,
         HandlerOk', SpinForAReason'
  PROVE  RpcInv'
<1>1. UNCHANGED <<disk, edits, file_size, read_at, write_at, chunk_buffer, chunk_hashes,
                  announced, original>>
  BY DEF copyVars
<1>2. Chunk' = Chunk
  BY <1>1 DEF Chunk
<1>3. RpcTypeOK'
  BY <1>1, <1>2 DEF RpcInv, RpcTypeOK
<1>4. DataOk' /\ AnnouncedOk'
  BY <1>1 DEF RpcInv, DataOk, AnnouncedOk
<1>5. CopyOk'
  <2> SUFFICES ASSUME pc' = "copy" PROVE CopyOk'
    BY DEF CopyOk
  <2>1. Source' = Source /\ Target' = Target
    BY DEF Source, Target
  <2>2. QED
    BY <1>1, <1>2, <2>1 DEF RpcInv, CopyOk
<1>6. OpenOk'
  <2> SUFFICES ASSUME pc' = "open" PROVE OpenOk'
    BY DEF OpenOk
  <2>1. Source' = Source
    BY DEF Source
  <2>2. QED
    BY <1>1, <2>1 DEF RpcInv, OpenOk
<1>7. QED
  BY <1>3, <1>4, <1>5, <1>6 DEF RpcInv

\* Clients only move on, and one that is broken stays so.
LEMMA RpcClient ==
  ASSUME RpcInv, NEW c \in Clients, Ask(c) \/ AskNobody(c) \/ Die(c)
  PROVE  RpcInv'
<1> USE DEF MoveClient
<1>1. /\ UNCHANGED <<disk, edits, copyVars, announced, original>>
      /\ UNCHANGED <<pc, served, process>>
  BY DEF Ask, AskNobody, Die, threadVars
<1>2. client \in [Clients -> {"off", "asked", "broken", "success", "misled", "gone"}]
  BY DEF RpcInv, RpcTypeOK
<1>3. /\ client' \in [Clients -> {"off", "asked", "broken", "success", "misled", "gone"}]
      /\ \A d \in Clients : client[d] = "broken" => client'[d] = "broken"
  BY <1>2 DEF Ask, AskNobody, Die
<1>4. backlog' \in Seq(Clients)
  <2>1. backlog \in Seq(Clients)
    BY DEF RpcInv, RpcTypeOK
  <2>2. Append(backlog, c) \in Seq(Clients)
    BY <2>1, AppendProperties
  <2>3. backlog' \in {backlog, Append(backlog, c)}
    BY DEF Ask, AskNobody, Die
  <2>4. QED
    BY <2>1, <2>2, <2>3
<1>5. HandlerOk' /\ SpinForAReason'
  <2>1. pc = "spin" => served \in Clients
    BY DEF RpcInv, RpcTypeOK
  <2>2. QED
    BY <1>1, <1>3, <2>1 DEF RpcInv, HandlerOk, SpinForAReason, copyVars
<1>6. QED
  BY <1>1, <1>3, <1>4, <1>5, RpcAside DEF RpcInv, RpcTypeOK

\* The thread takes a connection, finds out what is wanted, gives up or answers: a
\* request that is broken and a download that hangs are reasons to spin.
LEMMA RpcLoop ==
  ASSUME RpcInv,
         \/ Accept \/ SpinForRequest \/ TakeDownload \/ FetchHangs \/ Reply \/ Stop
  PROVE  RpcInv'
<1> USE DEF Goto
<1>1. /\ UNCHANGED <<disk, edits, copyVars, announced, original>>
      /\ UNCHANGED chunk_hashes
  BY DEF Accept, SpinForRequest, TakeDownload, FetchHangs, Reply, Stop, copyVars
<1>2. /\ client \in [Clients -> {"off", "asked", "broken", "success", "misled", "gone"}]
      /\ process \in {"up", "down"} /\ backlog \in Seq(Clients)
      /\ served \in Clients \cup {None} /\ (served = None <=> pc = "accept")
      /\ pc \in {"accept", "recv", "open", "copy", "fetch", "reply", "spin"}
      /\ HandlerOk /\ SpinForAReason
  BY DEF RpcInv, RpcTypeOK
<1>3. CASE Accept
  <2>1. Head(backlog) \in Clients /\ Tail(backlog) \in Seq(Clients)
    BY <1>2, <1>3, HeadTailProperties DEF Accept
  <2>2. served' \in Clients /\ backlog' \in Seq(Clients) /\ pc' = "recv"
        /\ UNCHANGED <<client, process>>
    BY <1>3, <2>1 DEF Accept
  <2>3. served' # None
    BY <2>2, NoneAssumption
  <2>4. HandlerOk' /\ SpinForAReason'
    BY <1>1, <1>2, <1>3, <2>2 DEF Accept, HandlerOk, SpinForAReason
  <2>5. QED
    BY <1>1, <1>2, <2>2, <2>3, <2>4, RpcAside
<1>4. CASE SpinForRequest
  <2>1. UNCHANGED <<client, backlog, process, served>> /\ pc = "recv" /\ pc' = "spin"
        /\ client[served] = "broken"
    BY <1>4 DEF SpinForRequest, clientVars
  <2>2. HandlerOk' /\ SpinForAReason'
    BY <1>1, <1>2, <2>1 DEF HandlerOk, SpinForAReason
  <2>3. QED
    BY <1>1, <1>2, <2>1, <2>2, RpcAside
<1>5. CASE TakeDownload
  <2>1. UNCHANGED <<client, backlog, process, served>> /\ pc = "recv" /\ pc' = "fetch"
        /\ Request[served].op = "download"
    BY <1>5 DEF TakeDownload, clientVars
  <2>2. HandlerOk' /\ SpinForAReason'
    BY <1>1, <1>2, <2>1 DEF HandlerOk, SpinForAReason
  <2>3. QED
    BY <1>1, <1>2, <2>1, <2>2, RpcAside
<1>6. CASE FetchHangs
  <2>1. UNCHANGED <<client, backlog, process, served>> /\ pc = "fetch" /\ pc' = "spin"
    BY <1>6 DEF FetchHangs, clientVars
  <2>2. HandlerOk' /\ SpinForAReason'
    BY <1>2, <2>1 DEF HandlerOk, SpinForAReason
  <2>3. QED
    BY <1>1, <1>2, <2>1, <2>2, RpcAside
<1>7. CASE Reply
  <2>1. /\ client' = [c \in Clients |-> Answered(c)] /\ served' = None
        /\ UNCHANGED <<backlog, process>> /\ pc = "reply" /\ pc' = "accept"
    BY <1>7 DEF Reply
  <2>2. client' \in [Clients -> {"off", "asked", "broken", "success", "misled", "gone"}]
    BY <1>2, <2>1 DEF Answered
  <2>3. HandlerOk' /\ SpinForAReason'
    BY <1>1, <1>2, <2>1 DEF HandlerOk, SpinForAReason
  <2>4. QED
    BY <1>1, <1>2, <2>1, <2>2, <2>3, RpcAside
<1>8. CASE Stop
  <2>1. UNCHANGED <<client, backlog, pc, served>> /\ process' = "down"
    BY <1>8 DEF Stop, clientVars, threadVars
  <2>2. HandlerOk' /\ SpinForAReason'
    BY <1>1, <1>2, <2>1 DEF HandlerOk, SpinForAReason
  <2>3. QED
    BY <1>1, <1>2, <2>1, <2>2, RpcAside
<1>9. QED
  BY <1>3, <1>4, <1>5, <1>6, <1>7, <1>8

\* While a chunk is read, there is more of a file that nobody wrote to.
LEMMA MoreToRead ==
  ASSUME RpcInv, pc = "copy", Copying, Wanted > 0, read_at # None
  PROVE  /\ read_at \in Nat /\ Wanted \in Nat
         /\ read_at + Wanted <= file_size
         /\ read_at + Wanted = Place(file_size, Chunk + 1)
         /\ Len(disk[Source]) \in Nat /\ disk[Source] \in Seq(Bytes)
         /\ original # None => Left > 0
<1>1. /\ file_size \in Int /\ Chunk \in Nat /\ Len(chunk_buffer) \in Nat
      /\ read_at = Place(file_size, Chunk) + Len(chunk_buffer)
      /\ disk[Source] \in Seq(Bytes) /\ Len(disk[Source]) \in Nat
  BY LenProperties, SizesAssumption DEF RpcInv, RpcTypeOK, DataOk, CopyOk, Chunk, Ints
<1>2. Chunk < NumChunks(file_size)
  BY DEF Copying
<1>3. /\ file_size > 0
      /\ ChunkLen(file_size, Chunk) \in 1 .. ChunkSize
      /\ Place(file_size, Chunk) \in Nat
      /\ Place(file_size, Chunk + 1) = Place(file_size, Chunk) + ChunkLen(file_size, Chunk)
      /\ Place(file_size, Chunk + 1) <= file_size
  BY <1>1, <1>2, PlaceNext
<1>4. ChunkSize \in Nat
  BY SizesAssumption
<1>5. ASSUME original # None PROVE file_size <= Len(disk[Source])
  <2>1. /\ Len(original) \in Nat /\ file_size = AsInt(Len(original))
        /\ Len(original) <= Len(disk[Source])
    BY <1>5, LenProperties DEF RpcInv, CopyOk
  <2>2. AsInt(Len(original)) <= Len(original)
    BY <2>1, IntOfSize
  <2>3. QED
    BY <1>1, <2>1, <2>2
<1>6. Wanted = ChunkLen(file_size, Chunk) - Len(chunk_buffer)
  BY DEF Wanted
<1>7. /\ read_at \in Nat /\ Wanted \in Nat
      /\ read_at + Wanted = Place(file_size, Chunk + 1)
      /\ read_at + Wanted <= file_size
  BY <1>1, <1>3, <1>4, <1>6
<1>8. original # None => Left > 0
  BY <1>1, <1>5, <1>7 DEF Left
<1>9. QED
  BY <1>1, <1>7, <1>8

\* The end of the file comes too early only if somebody wrote to it.
LEMMA RpcReadSpins == RpcInv /\ ReadSpins => RpcInv'
<1> SUFFICES ASSUME RpcInv, ReadSpins PROVE RpcInv'
  OBVIOUS
<1>1. /\ pc = "copy" /\ pc' = "spin" /\ Copying /\ Wanted > 0 /\ read_at # None
      /\ Left <= 0
      /\ UNCHANGED <<disk, edits, copyVars, announced, original>>
      /\ UNCHANGED <<client, backlog, process, served>>
  BY DEF ReadSpins, Goto, clientVars
<1>2. original = None
  <2>1. Left \in Int
    BY <1>1, MoreToRead DEF Left
  <2>2. QED
    BY <1>1, <2>1, MoreToRead
<1>3. HandlerOk' /\ SpinForAReason'
  BY <1>1, <1>2 DEF HandlerOk, SpinForAReason
<1>4. QED
  BY <1>1, <1>3, RpcAside DEF RpcInv, RpcTypeOK

\* A write to one file with bytes keeps what is known of files that are announced.
LEMMA WriteToOne ==
  ASSUME DataOk, AnnouncedOk, NEW p \in Paths, NEW s \in Seq(Bytes),
         disk' = [disk EXCEPT ![p] = s]
  PROVE  /\ disk' \in [Paths -> Seq(Bytes) \cup {None}]
         /\ disk'[p] = s /\ \A q \in Paths \ {p} : disk'[q] = disk[q]
         /\ \A q \in Paths : disk'[q] # None => disk'[q] \in Seq(Bytes)
         /\ \A q \in Paths : disk[q] \in Seq(Bytes) => disk'[q] \in Seq(Bytes)
BY DEF DataOk, AnnouncedOk

\* An upload begins with the size of the file that is there, or without a file.
LEMMA RpcTakeUpload == RpcInv /\ TakeUpload => RpcInv'
<1> SUFFICES ASSUME RpcInv, TakeUpload PROVE RpcInv'
  OBVIOUS
<1>1. PICK old : old = disk[Source]
  OBVIOUS
<1>2. /\ pc = "recv" /\ pc' = "open" /\ Request[served].op = "upload"
      /\ \/ old # None /\ file_size' = AsInt(Len(old))
         \/ old = None /\ file_size' \in JunkSizes
      /\ original' = old /\ read_at' = None
      /\ write_at' = 0 /\ chunk_buffer' = <<>> /\ chunk_hashes' = <<>>
      /\ UNCHANGED <<disk, edits, client, backlog, process, served, announced>>
  BY <1>1 DEF TakeUpload, Goto, clientVars
<1>3. served \in Clients /\ Source \in Paths
  <2>1. served \in Clients
    BY <1>2 DEF RpcInv, RpcTypeOK
  <2>2. QED
    BY <2>1, ServedFiles
<1>4. Source' = Source /\ Chunk' = 0 /\ Len(chunk_buffer') = 0
  BY <1>2 DEF Source, Chunk
<1>5. old # None => old \in Seq(Bytes) /\ Len(old) \in Nat
  BY <1>1, <1>3, LenProperties DEF RpcInv, DataOk
<1>6. file_size' \in Ints
  BY <1>2, <1>5, IntOfSize, FilesAssumption
<1>7. ChunkLen(file_size', 0) \in Nat /\ NumChunks(file_size') \in Nat
  <2>1. file_size' \in Int
    BY <1>6, SizesAssumption DEF Ints
  <2>2. QED
    BY <2>1, PlaceBounded, NumbersOfChunks, SizesAssumption
<1>8. DataOk'
  <2>1. <<>> \in Seq(Bytes) /\ <<>> \in Seq(Seq(Bytes))
    BY EmptySeq
  <2>2. QED
    BY <1>2, <2>1 DEF RpcInv, DataOk
<1>9. AnnouncedOk' /\ HandlerOk' /\ SpinForAReason' /\ CopyOk'
  BY <1>2 DEF RpcInv, AnnouncedOk, HandlerOk, SpinForAReason, CopyOk
<1>10. RpcTypeOK'
  BY <1>2, <1>3, <1>4, <1>6, <1>7 DEF RpcInv, RpcTypeOK
<1>11. OpenOk'
  BY <1>1, <1>2, <1>4, <1>5 DEF OpenOk
<1>12. QED
  BY <1>8, <1>9, <1>10, <1>11 DEF RpcInv

\* The files are opened: what there is of the copy stays, and it is there from now on.
LEMMA FilesOpened ==
  ASSUME RpcInv, OpenFiles
  PROVE  /\ pc = "open" /\ pc' = "copy" /\ served \in Clients
         /\ Source \in Paths /\ Target \in Paths
         /\ Source' = Source /\ Target' = Target /\ Chunk' = 0
         /\ file_size \in Int /\ file_size' = file_size
         /\ read_at = None /\ write_at = 0 /\ chunk_buffer = <<>> /\ chunk_hashes = <<>>
         /\ read_at' = IF disk[Source] = None THEN None ELSE 0
         /\ disk'[Target] \in Seq(Bytes)
         /\ disk[Target] # None => disk'[Target] = disk[Target]
         /\ disk[Target] = None => disk'[Target] = <<>>
         /\ disk[Source] # None => disk'[Source] = disk[Source]
         /\ disk' = [disk EXCEPT ![Target] = disk'[Target]]
         /\ UNCHANGED <<edits, client, backlog, process, served, write_at,
                        chunk_buffer, chunk_hashes, announced, original>>
<1>1. /\ pc = "open" /\ pc' = "copy"
      /\ read_at' = IF disk[Source] = None THEN None ELSE 0
      /\ disk' = [disk EXCEPT ![Target] = Opened(@)]
      /\ UNCHANGED <<edits, client, backlog, process, served, file_size, write_at,
                     chunk_buffer, chunk_hashes, announced, original>>
  BY DEF OpenFiles, Goto, clientVars
<1>2. served \in Clients
  BY <1>1 DEF RpcInv, RpcTypeOK
<1>3. Source \in Paths /\ Target \in Paths
  BY <1>2, ServedFiles
<1>4. /\ read_at = None /\ write_at = 0 /\ chunk_buffer = <<>> /\ chunk_hashes = <<>>
      /\ file_size \in Int
  BY <1>1, SizesAssumption DEF RpcInv, RpcTypeOK, HandlerOk, OpenOk, Ints
<1>5. Source' = Source /\ Target' = Target /\ Chunk' = 0
  BY <1>1, <1>4 DEF Source, Target, Chunk
<1>6. PICK new : new = Opened(disk[Target])
  OBVIOUS
<1>7. /\ new \in Seq(Bytes) /\ (disk[Target] # None => new = disk[Target])
      /\ (disk[Target] = None => new = <<>>)
  <2>1. <<>> \in Seq(Bytes) /\ disk[Target] \in Seq(Bytes) \cup {None}
    BY <1>3, EmptySeq DEF RpcInv, DataOk
  <2>2. QED
    BY <1>6, <2>1 DEF Opened
<1>8. disk' = [disk EXCEPT ![Target] = new] /\ disk'[Target] = new
  BY <1>1, <1>3, <1>6 DEF RpcInv, DataOk
<1>9. disk[Source] # None => disk'[Source] = disk[Source]
  BY <1>3, <1>7, <1>8 DEF RpcInv, DataOk
<1>10. QED
  BY <1>1, <1>2, <1>3, <1>4, <1>5, <1>7, <1>8, <1>9

\* A copy begins at the beginning of a file that is there.
LEMMA RpcOpenFiles == RpcInv /\ OpenFiles => RpcInv'
<1> SUFFICES ASSUME RpcInv, OpenFiles PROVE RpcInv'
  OBVIOUS
<1>1. /\ pc = "open" /\ pc' = "copy" /\ served \in Clients
      /\ Source \in Paths /\ Target \in Paths
      /\ Source' = Source /\ Target' = Target /\ Chunk' = 0
      /\ file_size \in Int /\ file_size' = file_size
      /\ write_at = 0 /\ chunk_buffer = <<>>
      /\ read_at' = IF disk[Source] = None THEN None ELSE 0
      /\ disk'[Target] \in Seq(Bytes)
      /\ disk[Source] # None => disk'[Source] = disk[Source]
      /\ disk' = [disk EXCEPT ![Target] = disk'[Target]]
      /\ UNCHANGED <<edits, client, backlog, process, served, write_at,
                     chunk_buffer, chunk_hashes, announced, original>>
  BY FilesOpened
<1>2. /\ disk' \in [Paths -> Seq(Bytes) \cup {None}]
      /\ \A q \in Paths : disk'[q] # None => disk'[q] \in Seq(Bytes)
      /\ \A q \in Paths : disk[q] \in Seq(Bytes) => disk'[q] \in Seq(Bytes)
  BY <1>1 DEF RpcInv, DataOk
<1>3. Len(chunk_buffer) = 0 /\ Place(file_size, 0) = 0 /\ ChunkLen(file_size, 0) \in Nat
      /\ NumChunks(file_size) \in Nat
  <2>1. NumChunks(file_size) \in Nat /\ Place(file_size, 0) = 0
    BY <1>1, PlaceEnds, NumbersOfChunks
  <2>2. ChunkLen(file_size, 0) \in Nat
    BY <1>1, <2>1, PlaceBounded, SizesAssumption
  <2>3. Len(chunk_buffer) = 0
    BY <1>1
  <2>4. QED
    BY <2>1, <2>2, <2>3
<1>4. DataOk' /\ AnnouncedOk'
  BY <1>1, <1>2 DEF RpcInv, DataOk, AnnouncedOk
<1>5. HandlerOk' /\ SpinForAReason' /\ OpenOk'
  BY <1>1 DEF RpcInv, HandlerOk, SpinForAReason, OpenOk
<1>6. RpcTypeOK'
  BY <1>1, <1>2, <1>3 DEF RpcInv, RpcTypeOK
<1>7. CopyOk'
  <2>1. 0 <= Len(disk'[Target])
    BY <1>1, LenProperties
  <2>2. disk[Source] # None => disk'[Source] \in Seq(Bytes)
    BY <1>1, <1>2
  <2>3. original # None => /\ original \in Seq(Bytes) /\ disk[Source] = original
                           /\ file_size = AsInt(Len(original)) /\ Len(original) \in Nat
    BY <1>1, LenProperties DEF RpcInv, OpenOk
  <2>4. read_at' # None => read_at' = 0 + 0 /\ disk'[Source] \in Seq(Bytes)
    BY <1>1, <2>2
  <2>5. original # None => read_at' # None /\ Len(disk'[Source]) >= Len(original)
    BY <1>1, <2>3, NoneAssumption
  <2>6. QED
    BY <1>1, <1>3, <2>1, <2>3, <2>4, <2>5 DEF CopyOk
<1>8. QED
  BY <1>4, <1>5, <1>6, <1>7 DEF RpcInv

\* What is read are the next bytes of the file, and no more than the chunk has.
LEMMA RpcReadPass ==
  ASSUME RpcInv, NEW n \in 1 .. ChunkSize, ReadPass(n)
  PROVE  RpcInv'
<1>1. /\ pc = "copy" /\ pc' = "copy" /\ Copying /\ Wanted > 0
      /\ read_at # None /\ n <= Wanted /\ n <= Left
      /\ chunk_buffer' = chunk_buffer \o SubSeq(disk[Source], read_at + 1, read_at + n)
      /\ read_at' = read_at + n
      /\ UNCHANGED <<disk, edits, client, backlog, process, served, file_size,
                     write_at, chunk_hashes, announced, original>>
  BY DEF ReadPass, Goto, clientVars
<1>2. /\ read_at \in Nat /\ Wanted \in Nat
      /\ read_at + Wanted <= file_size
      /\ Len(disk[Source]) \in Nat /\ disk[Source] \in Seq(Bytes)
  BY <1>1, MoreToRead
<1>3. n \in Nat /\ n > 0 /\ ChunkSize \in Nat
  BY SizesAssumption
<1>4. file_size \in Int /\ file_size' \in Ints /\ Len(chunk_buffer) \in Nat
  BY <1>1, SizesAssumption, LenProperties DEF RpcInv, RpcTypeOK, DataOk, Ints
<1>5. /\ SubSeq(disk[Source], read_at + 1, read_at + n) \in Seq(Bytes)
      /\ Len(SubSeq(disk[Source], read_at + 1, read_at + n)) = n
  <2>1. \A k \in read_at + 1 .. read_at + n : disk[Source][k] \in Bytes
    BY <1>1, <1>2, <1>3, ElementOfSeq DEF Left
  <2>2. read_at + 1 \in Int /\ read_at + n \in Int /\ read_at + 1 <= read_at + n
        /\ (read_at + n) - (read_at + 1) + 1 = n
    BY <1>2, <1>3
  <2>3. QED
    BY <2>1, <2>2, SubSeqProperties
<1>6. chunk_buffer' \in Seq(Bytes) /\ Len(chunk_buffer') = Len(chunk_buffer) + n
  BY <1>1, <1>5, ConcatProperties DEF RpcInv, DataOk
<1>7. Source' = Source /\ Target' = Target /\ Chunk' = Chunk
  BY <1>1 DEF Source, Target, Chunk
<1>8. Len(chunk_buffer') <= ChunkLen(file_size, Chunk)
  <2>1. Wanted = ChunkLen(file_size, Chunk) - Len(chunk_buffer)
    BY DEF Wanted
  <2>2. ChunkLen(file_size, Chunk) \in Int
    <3>1. Chunk \in Nat /\ Chunk <= NumChunks(file_size)
      BY LenProperties DEF RpcInv, RpcTypeOK, DataOk, Chunk
    <3>2. QED
      BY <1>3, <1>4, <3>1, PlaceBounded
  <2>3. QED
    BY <1>1, <1>3, <1>4, <1>6, <2>1, <2>2
<1>9. read_at' \in 0 .. file_size /\ read_at' \in Nat
  BY <1>1, <1>2, <1>3, <1>4
<1>10. DataOk' /\ AnnouncedOk'
  BY <1>1, <1>6 DEF RpcInv, DataOk, AnnouncedOk
<1>11. HandlerOk' /\ SpinForAReason' /\ OpenOk'
  BY <1>1 DEF RpcInv, HandlerOk, SpinForAReason, OpenOk
<1>12. RpcTypeOK'
  BY <1>1, <1>7, <1>8, <1>9 DEF RpcInv, RpcTypeOK
<1>13. CopyOk'
  <2>1. /\ read_at = Place(file_size, Chunk) + Len(chunk_buffer)
        /\ Place(file_size, Chunk) \in Nat
    <3>1. Chunk \in Nat /\ Chunk <= NumChunks(file_size)
      BY LenProperties DEF RpcInv, RpcTypeOK, DataOk, Chunk
    <3>2. Place(file_size, Chunk) \in Nat
      BY <1>4, <3>1, PlaceBounded
    <3>3. QED
      BY <1>1, <3>2 DEF RpcInv, CopyOk
  <2>2. read_at' = Place(file_size, Chunk) + Len(chunk_buffer')
    BY <1>1, <1>3, <1>4, <1>6, <2>1
  <2>3. read_at' # None
    BY <1>9, NoneAssumption
  <2>4. QED
    BY <1>1, <1>7, <2>2, <2>3 DEF RpcInv, CopyOk
<1>14. QED
  BY <1>10, <1>11, <1>12, <1>13 DEF RpcInv

\* Without a descriptor the buffer is filled with what nobody wrote.
LEMMA RpcReadFails == RpcInv /\ ReadFails => RpcInv'
<1> SUFFICES ASSUME RpcInv, ReadFails PROVE RpcInv'
  OBVIOUS
<1>1. /\ pc = "copy" /\ pc' = "copy" /\ Copying /\ Wanted > 0 /\ read_at = None
      /\ chunk_buffer' = [k \in 1 .. Wanted |-> JunkByte]
      /\ UNCHANGED <<disk, edits, client, backlog, process, served, file_size, read_at,
                     write_at, chunk_hashes, announced, original>>
  BY DEF ReadFails, Goto, clientVars
<1>2. Source' = Source /\ Target' = Target /\ Chunk' = Chunk
  BY <1>1 DEF Source, Target, Chunk
<1>3. Wanted \in Nat /\ Wanted <= ChunkLen(file_size, Chunk)
  <2>1. Chunk \in Nat /\ Chunk <= NumChunks(file_size) /\ Len(chunk_buffer) \in Nat
        /\ file_size \in Int /\ ChunkSize \in Nat
    BY LenProperties, SizesAssumption DEF RpcInv, RpcTypeOK, DataOk, Chunk, Ints
  <2>2. ChunkLen(file_size, Chunk) \in Int
    BY <2>1, PlaceBounded
  <2>3. QED
    BY <1>1, <2>1, <2>2 DEF Wanted
<1>4. chunk_buffer' \in Seq(Bytes) /\ Len(chunk_buffer') = Wanted
  <2>1. JunkByte \in Bytes
    BY DEF Bytes
  <2>2. chunk_buffer' \in Seq(Bytes)
    BY <1>1, <1>3, <2>1, IsASeq
  <2>3. QED
    BY <1>1, <1>3, <2>2
<1>5. DataOk' /\ AnnouncedOk'
  BY <1>1, <1>4 DEF RpcInv, DataOk, AnnouncedOk
<1>6. HandlerOk' /\ SpinForAReason' /\ OpenOk'
  BY <1>1 DEF RpcInv, HandlerOk, SpinForAReason, OpenOk
<1>7. RpcTypeOK'
  BY <1>1, <1>2, <1>3, <1>4 DEF RpcInv, RpcTypeOK
<1>8. CopyOk'
  BY <1>1, <1>2 DEF RpcInv, CopyOk
<1>9. QED
  BY <1>5, <1>6, <1>7, <1>8 DEF RpcInv

\* A chunk is written behind those before it, with room for all of the file, and
\* nothing else of the copy changes.
LEMMA ChunkWritten ==
  ASSUME RpcInv, HashAndWrite
  PROVE  /\ pc = "copy" /\ pc' = "copy" /\ Chunk < NumChunks(file_size)
         /\ UNCHANGED <<edits, client, backlog, process, served, file_size, read_at,
                        announced, original>>
         /\ Source' = Source /\ Target' = Target /\ Chunk' = Chunk + 1
         /\ Chunk \in Nat /\ Source \in Paths /\ Target \in Paths
         /\ file_size \in Int /\ write_at \in Nat
         /\ chunk_hashes' = Append(chunk_hashes, Hash(chunk_buffer))
         /\ chunk_buffer' = <<>>
         /\ chunk_buffer \in Seq(Bytes)
         /\ Len(chunk_buffer) \in Nat
         /\ Len(chunk_buffer) = ChunkLen(file_size, Chunk)
         /\ Place(file_size, Chunk) \in Nat /\ Place(file_size, Chunk) = Offset(Chunk)
         /\ Place(file_size, Chunk + 1) = Place(file_size, Chunk) + Len(chunk_buffer)
         /\ Place(file_size, Chunk + 1) <= file_size
         /\ disk[Target] \in Seq(Bytes) /\ write_at \in 0 .. Len(disk[Target])
         /\ \/ /\ disk' = [disk EXCEPT
                   ![Target] = Overwritten(disk[Target], write_at, chunk_buffer)]
               /\ write_at' = write_at + Len(chunk_buffer)
            \/ DiskMayFill /\ UNCHANGED <<disk, write_at>>
<1>1. /\ pc = "copy" /\ pc' = "copy" /\ Copying /\ Wanted = 0
      /\ chunk_hashes' = Append(chunk_hashes, Hash(chunk_buffer))
      /\ \/ /\ disk' = [disk EXCEPT ![Target] = Overwritten(@, write_at, chunk_buffer)]
            /\ write_at' = write_at + Len(chunk_buffer)
         \/ DiskMayFill /\ UNCHANGED <<disk, write_at>>
      /\ chunk_buffer' = <<>>
      /\ UNCHANGED <<edits, client, backlog, process, served, file_size, read_at,
                     announced, original>>
  BY DEF HashAndWrite, Goto, clientVars
<1>2. served \in Clients
  BY <1>1 DEF RpcInv, RpcTypeOK
<1>3. Source \in Paths /\ Target \in Paths
  BY <1>2, ServedFiles
<1>4. /\ chunk_buffer \in Seq(Bytes) /\ chunk_hashes \in Seq(Seq(Bytes))
      /\ Len(chunk_buffer) \in Nat /\ Chunk \in Nat
  BY LenProperties DEF RpcInv, DataOk, Chunk
<1>5. file_size \in Int /\ write_at \in Nat
  BY SizesAssumption DEF RpcInv, RpcTypeOK, Ints
<1>6. Hash(chunk_buffer) \in Seq(Bytes)
  BY <1>4, HashIsBytes
<1>7. Chunk' = Chunk + 1
  BY <1>1, <1>4, <1>6, AppendProperties DEF Chunk
<1>8. Source' = Source /\ Target' = Target
  BY <1>1 DEF Source, Target
<1>9. Chunk < NumChunks(file_size)
  BY <1>1 DEF Copying
<1>10. /\ ChunkLen(file_size, Chunk) \in 1 .. ChunkSize
       /\ Place(file_size, Chunk) \in Nat /\ Place(file_size, Chunk) = Offset(Chunk)
       /\ Place(file_size, Chunk + 1) = Place(file_size, Chunk) + ChunkLen(file_size, Chunk)
       /\ Place(file_size, Chunk + 1) <= file_size
  BY <1>4, <1>5, <1>9, PlaceNext
<1>11. Len(chunk_buffer) = ChunkLen(file_size, Chunk)
  <2>1. Wanted = ChunkLen(file_size, Chunk) - Len(chunk_buffer)
    BY DEF Wanted
  <2>2. QED
    BY <1>1, <1>4, <1>10, <2>1, SizesAssumption
<1>12. disk[Target] \in Seq(Bytes) /\ write_at \in 0 .. Len(disk[Target])
  BY <1>1, <1>5, LenProperties DEF RpcInv, CopyOk
<1>13. \/ /\ disk' = [disk EXCEPT
                ![Target] = Overwritten(disk[Target], write_at, chunk_buffer)]
          /\ write_at' = write_at + Len(chunk_buffer)
       \/ DiskMayFill /\ UNCHANGED <<disk, write_at>>
  BY <1>1
<1>14. QED
  BY <1>1, <1>3, <1>4, <1>5, <1>7, <1>8, <1>9, <1>10, <1>11, <1>12, <1>13

\* What the copy is after a chunk has been written to it.
LEMMA CopyAfterWrite ==
  ASSUME RpcInv, HashAndWrite, ~UNCHANGED <<disk, write_at>>
  PROVE  /\ write_at' = write_at + Len(chunk_buffer)
         /\ disk'[Target] \in Seq(Bytes)
         /\ Len(disk'[Target]) = Larger(Len(disk[Target]), write_at')
         /\ \A k \in 1 .. Larger(Len(disk[Target]), write_at') :
              disk'[Target][k] = IF k \in write_at + 1 .. write_at'
                                   THEN chunk_buffer[k - write_at] ELSE disk[Target][k]
         /\ disk' = [disk EXCEPT ![Target] = disk'[Target]]
<1>1. PICK new : new = Overwritten(disk[Target], write_at, chunk_buffer)
  OBVIOUS
<1>2. /\ disk' = [disk EXCEPT ![Target] = new]
      /\ write_at' = write_at + Len(chunk_buffer)
      /\ Target \in Paths
  BY <1>1, ChunkWritten
<1>3. disk'[Target] = new
  BY <1>2 DEF RpcInv, DataOk
<1>4. /\ new \in Seq(Bytes)
      /\ Len(new) = Larger(Len(disk[Target]), write_at + Len(chunk_buffer))
      /\ \A k \in 1 .. Larger(Len(disk[Target]), write_at + Len(chunk_buffer)) :
           new[k] = IF k \in write_at + 1 .. write_at + Len(chunk_buffer)
                      THEN chunk_buffer[k - write_at] ELSE disk[Target][k]
  <2>1. /\ disk[Target] \in Seq(Bytes) /\ chunk_buffer \in Seq(Bytes)
        /\ write_at \in 0 .. Len(disk[Target])
    BY ChunkWritten
  <2>2. /\ new \in Seq(Bytes)
        /\ WrittenOver(new, disk[Target], write_at, chunk_buffer)
    BY <1>1, <2>1, OverwrittenFile
  <2>3. QED
    BY <2>2 DEF WrittenOver
<1>5. QED
  BY <1>2, <1>3, <1>4

\* The next chunk is hashed, and written if there is room on the disk.
LEMMA RpcHashAndWrite == RpcInv /\ HashAndWrite => RpcInv'
<1> SUFFICES ASSUME RpcInv, HashAndWrite PROVE RpcInv'
  OBVIOUS
<1>1. /\ pc = "copy" /\ pc' = "copy" /\ Chunk < NumChunks(file_size)
      /\ UNCHANGED <<edits, client, backlog, process, served, file_size, read_at,
                     announced, original>>
      /\ Source' = Source /\ Target' = Target /\ Chunk' = Chunk + 1
      /\ Chunk \in Nat /\ Source \in Paths /\ Target \in Paths
      /\ file_size \in Int /\ write_at \in Nat
      /\ chunk_hashes' = Append(chunk_hashes, Hash(chunk_buffer))
      /\ chunk_buffer' = <<>>
      /\ chunk_buffer \in Seq(Bytes) /\ Len(chunk_buffer) \in Nat
      /\ Place(file_size, Chunk) \in Nat
      /\ Place(file_size, Chunk + 1) = Place(file_size, Chunk) + Len(chunk_buffer)
      /\ Place(file_size, Chunk + 1) <= file_size
      /\ disk[Target] \in Seq(Bytes) /\ write_at \in 0 .. Len(disk[Target])
  BY ChunkWritten
<1>2. PICK new : new = disk'[Target]
  OBVIOUS
<1>3. /\ new \in Seq(Bytes) /\ disk' = [disk EXCEPT ![Target] = new]
      /\ Len(new) \in Nat /\ Len(disk[Target]) \in Nat
      /\ Len(new) >= Len(disk[Target])
      /\ write_at' \in Nat /\ write_at' <= Len(new)
      /\ write_at' <= write_at + Len(chunk_buffer)
  <2>1. CASE UNCHANGED <<disk, write_at>>
    <3>1. disk = [disk EXCEPT ![Target] = disk[Target]]
      BY <1>1 DEF RpcInv, DataOk
    <3>2. QED
      BY <1>1, <1>2, <2>1, <3>1, LenProperties
  <2>2. CASE ~UNCHANGED <<disk, write_at>>
    <3>1. /\ write_at' = write_at + Len(chunk_buffer) /\ new \in Seq(Bytes)
          /\ Len(new) = Larger(Len(disk[Target]), write_at')
          /\ disk' = [disk EXCEPT ![Target] = new]
      BY <1>2, <2>2, CopyAfterWrite
    <3>2. Len(disk[Target]) \in Nat
      BY <1>1, LenProperties
    <3>3. QED
      BY <1>1, <3>1, <3>2 DEF Larger
  <2>3. QED
    BY <2>1, <2>2
<1>4. write_at <= Place(file_size, Chunk)
  BY <1>1 DEF RpcInv, CopyOk
<1>5. write_at' <= Place(file_size, Chunk + 1) /\ write_at' \in 0 .. file_size
  BY <1>1, <1>3, <1>4
<1>6. /\ disk' \in [Paths -> Seq(Bytes) \cup {None}]
      /\ disk'[Target] = new /\ \A q \in Paths \ {Target} : disk'[q] = disk[q]
      /\ \A q \in Paths : disk'[q] # None => disk'[q] \in Seq(Bytes)
      /\ \A q \in Paths : disk[q] \in Seq(Bytes) => disk'[q] \in Seq(Bytes)
  BY <1>1, <1>3, WriteToOne DEF RpcInv
<1>7. DataOk'
  <2>1. chunk_hashes' \in Seq(Seq(Bytes))
    BY <1>1, HashIsBytes, AppendProperties DEF RpcInv, DataOk
  <2>2. chunk_buffer' \in Seq(Bytes)
    BY <1>1, EmptySeq
  <2>3. QED
    BY <1>1, <1>6, <2>1, <2>2 DEF RpcInv, DataOk
<1>8. AnnouncedOk'
  BY <1>1, <1>6 DEF RpcInv, AnnouncedOk
<1>9. HandlerOk' /\ SpinForAReason' /\ OpenOk'
  BY <1>1 DEF RpcInv, HandlerOk, SpinForAReason, OpenOk
<1>10. RpcTypeOK'
  <2>1. Chunk + 1 <= NumChunks(file_size) /\ NumChunks(file_size) \in Nat
    <3>1. NumChunks(file_size) \in Nat
      BY <1>1, NumbersOfChunks
    <3>2. QED
      BY <1>1, <3>1
  <2>2. Len(chunk_buffer') = 0 /\ 0 <= ChunkLen(file_size, Chunk + 1)
    BY <1>1, <2>1, PlaceBounded, SizesAssumption
  <2>3. QED
    BY <1>1, <1>5, <1>6, <2>1, <2>2 DEF RpcInv, RpcTypeOK
<1>11. CopyOk'
  <2>1. read_at # None => read_at = Place(file_size, Chunk + 1) + Len(chunk_buffer')
    BY <1>1 DEF RpcInv, CopyOk
  <2>2. disk[Source] \in Seq(Bytes) => /\ disk'[Source] \in Seq(Bytes)
                                       /\ Len(disk'[Source]) >= Len(disk[Source])
    BY <1>1, <1>3, <1>6, LenProperties
  <2>3. original # None => Len(disk'[Source]) >= Len(original)
    <3>1. original # None => /\ Len(original) \in Nat /\ Len(disk[Source]) \in Nat
                             /\ Len(disk[Source]) >= Len(original)
                             /\ disk[Source] \in Seq(Bytes)
      BY <1>1, LenProperties DEF RpcInv, CopyOk
    <3>2. original # None => Len(disk'[Source]) \in Nat
      BY <2>2, <3>1, LenProperties
    <3>3. QED
      BY <2>2, <3>1, <3>2
  <2>4. QED
    BY <1>1, <1>3, <1>5, <1>6, <2>1, <2>2, <2>3 DEF RpcInv, CopyOk
<1>12. QED
  BY <1>7, <1>8, <1>9, <1>10, <1>11 DEF RpcInv

\* When it announces a copy, the thread has gone through all chunks of it.
LEMMA CopyComplete ==
  ASSUME RpcInv, Announce
  PROVE  /\ pc = "copy" /\ pc' = "reply" /\ Chunk = NumChunks(file_size)
         /\ file_size \in Int /\ Target \in Paths /\ OutPath[Target] = Target
         /\ disk[Target] \in Seq(Bytes) /\ Request[served].op = "upload"
         /\ UNCHANGED <<disk, edits, client, backlog, process, served, file_size, read_at,
                        write_at, original>>
         /\ chunk_buffer' = <<>> /\ chunk_hashes' = <<>>
         /\ Source' = Source /\ Target' = Target
         /\ announced'[Target] = [size |-> file_size, index |-> chunk_hashes]
         /\ \A p \in Paths \ {Target} : announced'[p] = announced[p]
         /\ announced' = [announced EXCEPT ![Target] = announced'[Target]]
         /\ announced'[Target].size = file_size
         /\ announced'[Target].index = chunk_hashes
         /\ announced'[Target] \in [size : Ints, index : Seq(Seq(Bytes))]
<1>1. /\ pc = "copy" /\ pc' = "reply" /\ ~Copying
      /\ announced' =
           [announced EXCEPT ![Target] = [size |-> file_size, index |-> chunk_hashes]]
      /\ UNCHANGED <<disk, edits, client, backlog, process, served, file_size, read_at,
                     write_at, original>>
      /\ chunk_buffer' = <<>> /\ chunk_hashes' = <<>>
  BY DEF Announce, Goto, clientVars
<1>2. served \in Clients
  BY <1>1 DEF RpcInv, RpcTypeOK
<1>3. Target \in Paths /\ OutPath[Target] = Target
  BY <1>2, ServedFiles
<1>4. /\ file_size \in Ints /\ file_size \in Int
      /\ Chunk \in Nat /\ Chunk <= NumChunks(file_size)
  BY LenProperties, SizesAssumption DEF RpcInv, RpcTypeOK, DataOk, Chunk, Ints
<1>5. Chunk = NumChunks(file_size)
  <2>1. NumChunks(file_size) \in Nat
    BY <1>4, NumbersOfChunks
  <2>2. ~(Chunk < NumChunks(file_size))
    BY <1>1 DEF Copying
  <2>3. QED
    BY <1>4, <2>1, <2>2
<1>6. disk[Target] \in Seq(Bytes) /\ Request[served].op = "upload"
  BY <1>1 DEF RpcInv, CopyOk, HandlerOk
<1>7. PICK a : a = [size |-> file_size, index |-> chunk_hashes]
  OBVIOUS
<1>8. /\ a.size = file_size /\ a.index = chunk_hashes
      /\ a \in [size : Ints, index : Seq(Seq(Bytes))]
  BY <1>4, <1>7 DEF RpcInv, DataOk
<1>9. announced' = [announced EXCEPT ![Target] = a]
  BY <1>1, <1>7
<1>10. announced'[Target] = a /\ \A p \in Paths \ {Target} : announced'[p] = announced[p]
  BY <1>3, <1>9 DEF RpcInv, DataOk
<1>11. Source' = Source /\ Target' = Target
  BY <1>1 DEF Source, Target
<1>12. QED
  BY <1>1, <1>3, <1>4, <1>5, <1>6, <1>7, <1>8, <1>9, <1>10, <1>11

\* The hub is told the size and as many hashes as the size has chunks.
LEMMA RpcAnnounce == RpcInv /\ Announce => RpcInv'
<1> SUFFICES ASSUME RpcInv, Announce PROVE RpcInv'
  OBVIOUS
<1>1. /\ pc = "copy" /\ pc' = "reply" /\ Chunk = NumChunks(file_size)
      /\ Target \in Paths /\ OutPath[Target] = Target /\ disk[Target] \in Seq(Bytes)
      /\ UNCHANGED <<disk, edits, client, backlog, process, served, file_size, read_at,
                     write_at, original>>
      /\ chunk_buffer' = <<>> /\ chunk_hashes' = <<>>
      /\ \A p \in Paths \ {Target} : announced'[p] = announced[p]
      /\ announced' = [announced EXCEPT ![Target] = announced'[Target]]
      /\ announced'[Target].size = file_size
      /\ announced'[Target].index = chunk_hashes
      /\ announced'[Target] \in [size : Ints, index : Seq(Seq(Bytes))]
  BY CopyComplete
<1>2. DataOk'
  <2>1. <<>> \in Seq(Bytes) /\ <<>> \in Seq(Seq(Bytes))
    BY EmptySeq
  <2>2. QED
    BY <1>1, <2>1 DEF RpcInv, DataOk
<1>3. AnnouncedOk'
  BY <1>1 DEF RpcInv, AnnouncedOk
<1>4. HandlerOk' /\ SpinForAReason' /\ OpenOk' /\ CopyOk'
  BY <1>1 DEF HandlerOk, SpinForAReason, OpenOk, CopyOk
<1>5. RpcTypeOK'
  <2>1. Chunk' = 0 /\ Len(chunk_buffer') = 0
    BY <1>1 DEF Chunk
  <2>2. \A p \in Paths : announced'[p] # None =>
          /\ announced'[p].size \in Ints
          /\ Len(announced'[p].index) = NumChunks(announced'[p].size)
    <3>1. /\ announced'[Target].size \in Ints
          /\ Len(announced'[Target].index) = NumChunks(announced'[Target].size)
      BY <1>1 DEF RpcInv, RpcTypeOK, Chunk
    <3>2. QED
      BY <1>1, <3>1 DEF RpcInv, RpcTypeOK
  <2>3. ChunkLen(file_size, 0) \in Nat /\ NumChunks(file_size) \in Nat
    <3>1. file_size \in Int
      BY SizesAssumption DEF RpcInv, RpcTypeOK, Ints
    <3>2. QED
      BY <3>1, PlaceBounded, NumbersOfChunks, SizesAssumption
  <2>4. QED
    BY <1>1, <2>1, <2>2, <2>3 DEF RpcInv, RpcTypeOK
<1>6. QED
  BY <1>2, <1>3, <1>4, <1>5 DEF RpcInv

\* A download writes one copy, and there is no announcement of it from here.
LEMMA Fetched ==
  ASSUME RpcInv, NEW s \in Written, Fetch(s)
  PROVE  /\ pc = "fetch" /\ pc' = "reply" /\ Target \in Paths
         /\ Request[served].op = "download"
         /\ UNCHANGED <<edits, client, backlog, process, served, file_size, read_at,
                        write_at, chunk_buffer, chunk_hashes, original>>
         /\ announced' = [announced EXCEPT ![Target] = None]
         /\ disk'[Target] \in Seq(Bytes)
         /\ disk' = [disk EXCEPT ![Target] = disk'[Target]]
         /\ disk[Target] # None =>
              Len(disk'[Target]) = Larger(Len(disk[Target]), Len(s))
         /\ disk[Target] = None => Len(disk'[Target]) = Len(s)
<1>1. PICK old, new : old = Opened(disk[Target]) /\ new = Overwritten(old, 0, s)
  OBVIOUS
<1>2. /\ pc = "fetch" /\ pc' = "reply"
      /\ disk' = [disk EXCEPT ![Target] = Overwritten(Opened(@), 0, s)]
      /\ announced' = [announced EXCEPT ![Target] = None]
      /\ UNCHANGED <<edits, client, backlog, process, served, file_size, read_at,
                     write_at, chunk_buffer, chunk_hashes, original>>
  BY DEF Fetch, Goto, clientVars, copyVars
<1>3. served \in Clients /\ Request[served].op = "download"
  BY <1>2 DEF RpcInv, RpcTypeOK, HandlerOk
<1>4. Target \in Paths
  BY <1>3, ServedFiles
<1>5. old \in Seq(Bytes)
  <2>1. <<>> \in Seq(Bytes) /\ disk[Target] \in Seq(Bytes) \cup {None}
    BY <1>4, EmptySeq DEF RpcInv, DataOk
  <2>2. QED
    BY <1>1, <2>1 DEF Opened
<1>6. s \in Seq(Bytes)
  BY FilesAssumption
<1>7. 0 \in 0 .. Len(old) /\ Len(old) \in Nat /\ Len(s) \in Nat
  BY <1>5, <1>6, LenProperties
<1>8. new \in Seq(Bytes) /\ Len(new) = Larger(Len(old), 0 + Len(s))
  BY <1>1, <1>5, <1>6, <1>7, OverwrittenFile DEF WrittenOver
<1>9. disk' = [disk EXCEPT ![Target] = new] /\ disk'[Target] = new
  BY <1>1, <1>2, <1>4 DEF RpcInv, DataOk
<1>10. disk[Target] # None => Len(new) = Larger(Len(disk[Target]), Len(s))
  <2>1. disk[Target] # None => old = disk[Target]
    BY <1>1 DEF Opened
  <2>2. QED
    BY <1>7, <1>8, <2>1
<1>11. disk[Target] = None => Len(new) = Len(s)
  <2>1. disk[Target] = None => Len(old) = 0
    BY <1>1 DEF Opened
  <2>2. QED
    BY <1>7, <1>8, <2>1 DEF Larger
<1>12. QED
  BY <1>2, <1>3, <1>4, <1>8, <1>9, <1>10, <1>11

\* A download announces nothing.
LEMMA RpcFetch ==
  ASSUME RpcInv, NEW s \in Written, Fetch(s)
  PROVE  RpcInv'
<1>1. /\ pc = "fetch" /\ pc' = "reply" /\ Target \in Paths
      /\ UNCHANGED <<edits, client, backlog, process, served, file_size, read_at,
                     write_at, chunk_buffer, chunk_hashes, original>>
      /\ announced' = [announced EXCEPT ![Target] = None]
      /\ disk'[Target] \in Seq(Bytes)
      /\ disk' = [disk EXCEPT ![Target] = disk'[Target]]
  BY Fetched
<1>2. /\ disk' \in [Paths -> Seq(Bytes) \cup {None}]
      /\ \A q \in Paths : disk'[q] # None => disk'[q] \in Seq(Bytes)
      /\ \A q \in Paths : disk[q] \in Seq(Bytes) => disk'[q] \in Seq(Bytes)
  BY <1>1 DEF RpcInv, DataOk
<1>3. \A p \in Paths : announced'[p] # None => announced'[p] = announced[p]
  BY <1>1 DEF RpcInv, DataOk
<1>4. DataOk'
  BY <1>1, <1>2 DEF RpcInv, DataOk
<1>5. AnnouncedOk'
  BY <1>2, <1>3 DEF RpcInv, AnnouncedOk
<1>6. HandlerOk' /\ SpinForAReason' /\ OpenOk' /\ CopyOk'
  BY <1>1 DEF RpcInv, HandlerOk, SpinForAReason, OpenOk, CopyOk
<1>7. RpcTypeOK'
  <2>1. Chunk' = Chunk
    BY <1>1 DEF Chunk
  <2>2. QED
    BY <1>1, <1>2, <1>3, <2>1 DEF RpcInv, RpcTypeOK
<1>8. QED
  BY <1>4, <1>5, <1>6, <1>7 DEF RpcInv

\* Every step keeps the invariant.
LEMMA RpcNext == RpcInv /\ [Next]_vars => RpcInv'
<1> SUFFICES ASSUME RpcInv, [Next]_vars PROVE RpcInv'
  OBVIOUS
<1>1. CASE ServerStep
  BY <1>1, RpcLoop, RpcTakeUpload, RpcOpenFiles, RpcReadPass, RpcReadSpins, RpcReadFails,
     RpcHashAndWrite, RpcAnnounce, RpcFetch, Zenon DEF ServerStep
<1>2. CASE \E c \in Clients : Ask(c) \/ AskNobody(c) \/ Die(c)
  BY <1>2, RpcClient
<1>3. CASE \E p \in UserFiles, s \in Written : Edit(p, s)
  BY <1>3, RpcEdit
<1>4. CASE Stop
  BY <1>4, RpcLoop
<1>5. CASE UNCHANGED vars
  <2>1. /\ UNCHANGED <<disk, edits, copyVars, announced, original>>
        /\ UNCHANGED <<client, backlog, process, pc, served>>
    BY <1>5 DEF vars, clientVars, threadVars
  <2>2. HandlerOk' /\ SpinForAReason'
    BY <2>1 DEF RpcInv, HandlerOk, SpinForAReason, copyVars
  <2>3. QED
    BY <2>1, <2>2, RpcAside DEF RpcInv, RpcTypeOK
<1>6. QED
  BY <1>1, <1>2, <1>3, <1>4, <1>5 DEF Next

\* Types, the state of a copy and the reasons to spin together are inductive.
THEOREM RpcInvHolds == Spec => []RpcInv
BY RpcInit, RpcNext, PTL DEF Spec

\* Whatever clients and users do, and if the disk is full, too, positions and the
\* buffer stay in the file that is announced, and an index has a hash for each
\* chunk of it (rpc_server.cpp:34, 46-57).
THEOREM RpcTypeCorrect == Spec => []RpcTypeOK
<1>1. RpcInv => RpcTypeOK
  BY DEF RpcInv
<1>2. QED
  BY RpcInvHolds, <1>1, PTL

\* The RPC thread spins for a broken request, in a download, or over a file that
\* somebody wrote to: the size as an int is never more than what can be read
\* (fs.cpp:25-32, net.cpp:176-185, rpc_server.cpp:61-62).
THEOREM SpinsForAReason == Spec => []SpinForAReason
<1>1. RpcInv => SpinForAReason
  BY DEF RpcInv
<1>2. QED
  BY RpcInvHolds, <1>1, PTL

-----------------------------------------------------------------------------
(* What the hub is told, while there is room on the disk.                  *)

\* bytes are what size and index say, but for the chunks in but.
Described(bytes, size, index, but) ==
  /\ size <= Len(bytes)
  /\ \A i \in (0 .. NumChunks(size) - 1) \ but :
       Hash(SubSeq(bytes, Offset(i) + 1, Offset(i) + ChunkLen(size, i))) = index[i + 1]

\* Nothing is rewritten of another file, before the first chunk or in a step that
\* does nothing to the list of hashes.
LEMMA RewrittenKept ==
  ASSUME NEW p \in Paths,
         \/ chunk_hashes = <<>> \/ Target # p
         \/ UNCHANGED <<served, chunk_hashes>>
  PROVE  Rewritten(p) \subseteq Rewritten(p)'
<1>1. CASE chunk_hashes = <<>>
  BY <1>1 DEF Rewritten, Chunk
<1>2. CASE Target # p
  BY <1>2 DEF Rewritten
<1>3. CASE UNCHANGED <<served, chunk_hashes>>
  BY <1>3 DEF Rewritten, Chunk, Target, Source
<1>4. QED
  BY <1>1, <1>2, <1>3

\* An announced copy changes only when a chunk of it is rewritten: users do not write
\* to it, opening it changes nothing, and what a download has written is forgotten.
LEMMA AnnouncedKept ==
  ASSUME RpcInv, [Next]_vars, NEW p \in Paths, announced'[p] # None
  PROVE  \/ /\ announced'[p] = announced[p] /\ disk'[p] = disk[p]
            /\ Rewritten(p) \subseteq Rewritten(p)'
         \/ (Announce \/ HashAndWrite) /\ p = Target
<1> USE DEF Goto
<1>1. CASE UNCHANGED <<disk, announced, served, chunk_hashes>>
  BY <1>1, RewrittenKept
<1>2. CASE ServerStep
  <2>1. CASE \/ SpinForRequest \/ TakeDownload \/ FetchHangs \/ ReadSpins \/ ReadFails
             \/ \E n \in 1 .. ChunkSize : ReadPass(n)
    <3>1. UNCHANGED <<disk, announced, served, chunk_hashes>>
      BY <2>1 DEF SpinForRequest, TakeDownload, FetchHangs, ReadSpins, ReadFails, ReadPass,
         copyVars
    <3>2. QED
      BY <1>1, <3>1
  <2>2. CASE Accept \/ TakeUpload \/ Reply
    <3>1. pc \in {"accept", "recv", "reply"} /\ UNCHANGED <<disk, announced>>
      BY <2>2 DEF Accept, TakeUpload, Reply
    <3>2. chunk_hashes = <<>>
      BY <3>1 DEF RpcInv, HandlerOk
    <3>3. QED
      BY <3>1, <3>2, RewrittenKept
  <2>3. CASE OpenFiles
    <3>1. /\ chunk_hashes = <<>> /\ announced' = announced /\ Target \in Paths
          /\ disk[Target] # None => disk'[Target] = disk[Target]
          /\ disk' = [disk EXCEPT ![Target] = disk'[Target]]
      BY <2>3, FilesOpened
    <3>2. disk[p] # None
      BY <3>1, NoneAssumption DEF RpcInv, AnnouncedOk
    <3>3. disk'[p] = disk[p]
      BY <3>1, <3>2 DEF RpcInv, DataOk
    <3>4. QED
      BY <3>1, <3>3, RewrittenKept
  <2>4. CASE HashAndWrite /\ p # Target
    <3>1. /\ announced' = announced /\ Target \in Paths
          /\ \/ disk' = [disk EXCEPT
                  ![Target] = Overwritten(disk[Target], write_at, chunk_buffer)]
             \/ disk' = disk
      BY <2>4, ChunkWritten
    <3>2. disk'[p] = disk[p]
      BY <2>4, <3>1 DEF RpcInv, DataOk
    <3>3. QED
      BY <2>4, <3>1, <3>2, RewrittenKept
  <2>5. CASE Announce /\ p # Target
    <3>1. disk' = disk /\ \A q \in Paths \ {Target} : announced'[q] = announced[q]
      BY <2>5, CopyComplete
    <3>2. QED
      BY <2>5, <3>1, RewrittenKept
  <2>6. CASE \E s \in Written : Fetch(s)
    <3>1. /\ announced' = [announced EXCEPT ![Target] = None] /\ Target \in Paths
          /\ disk' = [disk EXCEPT ![Target] = disk'[Target]]
      BY <2>6, Fetched
    <3>2. p # Target
      BY <3>1 DEF RpcInv, DataOk
    <3>3. announced'[p] = announced[p] /\ disk'[p] = disk[p]
      BY <3>1, <3>2 DEF RpcInv, DataOk
    <3>4. QED
      BY <3>2, <3>3, RewrittenKept
  <2>7. QED
    BY <1>2, <2>1, <2>2, <2>3, <2>4, <2>5, <2>6, Zenon DEF ServerStep
<1>3. CASE \E c \in Clients : Ask(c) \/ AskNobody(c) \/ Die(c)
  <2>1. UNCHANGED <<disk, announced, served, chunk_hashes>>
    BY <1>3 DEF Ask, AskNobody, Die, threadVars, copyVars
  <2>2. QED
    BY <1>1, <2>1
<1>4. CASE \E q \in UserFiles, s \in Written : Edit(q, s)
  <2>1. PICK q \in UserFiles, s \in Written : Edit(q, s)
    BY <1>4
  <2>2. /\ UNCHANGED <<announced, served, chunk_hashes>> /\ disk' = [disk EXCEPT ![q] = s]
        /\ q \in Paths /\ OutPath[q] # q
    BY <2>1 DEF Edit, threadVars, copyVars, UserFiles
  <2>3. OutPath[p] = p
    BY <2>2 DEF RpcInv, AnnouncedOk
  <2>4. disk'[p] = disk[p]
    BY <2>2, <2>3 DEF RpcInv, DataOk
  <2>5. QED
    BY <2>2, <2>4, RewrittenKept
<1>5. CASE Stop \/ UNCHANGED vars
  <2>1. UNCHANGED <<disk, announced, served, chunk_hashes>>
    BY <1>5 DEF Stop, threadVars, copyVars, vars
  <2>2. QED
    BY <1>1, <2>1
<1>6. QED
  BY <1>2, <1>3, <1>4, <1>5, Zenon DEF Next

\* A copy that is being made is only begun and written to by the thread.
LEMMA CopyKept ==
  ASSUME RpcInv, [Next]_vars, pc' = "copy"
  PROVE  \/ OpenFiles \/ HashAndWrite
         \/ /\ pc = "copy" /\ served \in Clients /\ Target' = Target /\ Source' = Source
            /\ Target \in Paths /\ disk'[Target] = disk[Target]
            /\ UNCHANGED <<write_at, chunk_hashes, file_size>>
            /\ \/ (\E n \in 1 .. ChunkSize : ReadPass(n)) \/ ReadFails
               \/ /\ UNCHANGED <<chunk_buffer, read_at>>
                  /\ \/ UNCHANGED <<disk, original>>
                     \/ original' = None
                     \/ disk'[Source] = disk[Source] /\ original' = original
<1> USE DEF Goto
<1>1. served \in Clients <=> pc # "accept"
  BY NoneAssumption DEF RpcInv, RpcTypeOK
<1>2. pc = "copy" => served \in Clients /\ Target \in Paths
  BY <1>1, ServedFiles
<1>3. served' = served => Target' = Target /\ Source' = Source
  BY DEF Target, Source
<1>4. CASE ServerStep
  <2>1. CASE (\E n \in 1 .. ChunkSize : ReadPass(n)) \/ ReadFails
    <3>1. /\ pc = "copy" /\ served' = served /\ disk' = disk
          /\ UNCHANGED <<write_at, chunk_hashes, file_size>>
      BY <2>1 DEF ReadPass, ReadFails
    <3>2. QED
      BY <1>2, <1>3, <2>1, <3>1
  <2>2. ~Accept /\ ~SpinForRequest /\ ~TakeDownload /\ ~TakeUpload /\ ~ReadSpins
        /\ ~Announce /\ ~FetchHangs /\ ~Reply
    BY DEF Accept, SpinForRequest, TakeDownload, TakeUpload, ReadSpins, Announce, FetchHangs,
       Reply
  <2>3. ~ \E s \in Written : Fetch(s)
    BY DEF Fetch
  <2>4. QED
    BY <1>4, <2>1, <2>2, <2>3, Zenon DEF ServerStep
<1>5. CASE \/ \E c \in Clients : Ask(c) \/ AskNobody(c) \/ Die(c)
           \/ Stop \/ UNCHANGED vars
  <2>1. UNCHANGED <<disk, copyVars, original, pc, served>>
    BY <1>5 DEF Ask, AskNobody, Die, Stop, threadVars, vars
  <2>2. QED
    BY <1>2, <1>3, <2>1 DEF copyVars
<1>6. CASE \E q \in UserFiles, s \in Written : Edit(q, s)
  <2>1. PICK q \in UserFiles, s \in Written : Edit(q, s)
    BY <1>6
  <2>2. /\ UNCHANGED <<copyVars, pc, served>> /\ disk' = [disk EXCEPT ![q] = s]
        /\ original' = (IF q = Source THEN None ELSE original)
        /\ q \in Paths /\ OutPath[q] # q
    BY <2>1 DEF Edit, threadVars, UserFiles
  <2>3. OutPath[Target] = Target /\ Source \in Paths /\ Target \in Paths
    BY <1>1, <2>2, ServedFiles
  <2>4. disk'[Target] = disk[Target] /\ (q # Source => disk'[Source] = disk[Source])
    BY <2>2, <2>3 DEF RpcInv, DataOk
  <2>5. QED
    BY <1>2, <1>3, <2>2, <2>4 DEF copyVars
<1>7. QED
  BY <1>4, <1>5, <1>6, Zenon DEF Next

\* With room on the disk, the chunk is written where it begins in the file, and what
\* is before it stays.
LEMMA ChunkStored ==
  ASSUME ~DiskMayFill, RpcInv, HashesOk, HashAndWrite
  PROVE  /\ write_at = Place(file_size, Chunk) /\ write_at' = Place(file_size, Chunk + 1)
         /\ write_at' = write_at + Len(chunk_buffer)
         /\ write_at \in Nat /\ write_at' \in Nat /\ write_at <= Len(disk[Target])
         /\ disk[Target] \in Seq(Bytes) /\ disk'[Target] \in Seq(Bytes)
         /\ Len(disk[Target]) \in Nat /\ Len(disk'[Target]) \in Nat
         /\ write_at' <= Len(disk'[Target])
         /\ Len(disk'[Target]) = Larger(Len(disk[Target]), write_at')
         /\ disk' = [disk EXCEPT ![Target] = disk'[Target]]
         /\ \A k \in 1 .. Len(disk'[Target]) :
              disk'[Target][k] = IF k \in write_at + 1 .. write_at'
                                   THEN chunk_buffer[k - write_at] ELSE disk[Target][k]
<1>1. /\ pc = "copy" /\ Chunk \in Nat /\ file_size \in Int /\ write_at \in Nat
      /\ Chunk < NumChunks(file_size)
      /\ Len(chunk_buffer) \in Nat
      /\ Len(chunk_buffer) = ChunkLen(file_size, Chunk)
      /\ Place(file_size, Chunk + 1) = Place(file_size, Chunk) + Len(chunk_buffer)
      /\ disk[Target] \in Seq(Bytes) /\ write_at \in 0 .. Len(disk[Target])
      /\ \/ /\ disk' = [disk EXCEPT
                ![Target] = Overwritten(disk[Target], write_at, chunk_buffer)]
            /\ write_at' = write_at + Len(chunk_buffer)
         \/ DiskMayFill /\ UNCHANGED <<disk, write_at>>
  BY ChunkWritten
<1>2. write_at' = write_at + Len(chunk_buffer)
  BY <1>1
<1>3. Len(chunk_buffer) > 0
  <2>1. ChunkLen(file_size, Chunk) \in 1 .. ChunkSize
    BY <1>1, PlaceNext
  <2>2. QED
    BY <1>1, <2>1, SizesAssumption
<1>4. ~UNCHANGED <<disk, write_at>>
  BY <1>1, <1>2, <1>3
<1>5. /\ disk'[Target] \in Seq(Bytes)
      /\ Len(disk'[Target]) = Larger(Len(disk[Target]), write_at')
      /\ \A k \in 1 .. Larger(Len(disk[Target]), write_at') :
           disk'[Target][k] = IF k \in write_at + 1 .. write_at'
                                THEN chunk_buffer[k - write_at] ELSE disk[Target][k]
      /\ disk' = [disk EXCEPT ![Target] = disk'[Target]]
  BY <1>4, CopyAfterWrite
<1>6. write_at = Place(file_size, Chunk)
  BY <1>1 DEF HashesOk
<1>7. Len(disk[Target]) \in Nat /\ Len(disk'[Target]) \in Nat
  BY <1>1, <1>5, LenProperties
<1>8. write_at' \in Nat /\ write_at' <= Len(disk'[Target])
  BY <1>1, <1>2, <1>5, <1>7 DEF Larger
<1>9. write_at <= Len(disk[Target])
  BY <1>1, <1>7
<1>10. QED
  BY <1>1, <1>2, <1>5, <1>6, <1>7, <1>8, <1>9

\* The chunk that is written has the hash that is kept, and the others keep theirs.
LEMMA HashesStored ==
  ASSUME ~DiskMayFill, RpcInv, HashesOk, HashAndWrite
  PROVE  HashesOk'
<1>1. PICK old, new, size, c, buf :
        /\ old = disk[Target] /\ new = disk'[Target] /\ size = file_size
        /\ c = Chunk /\ buf = chunk_buffer
  OBVIOUS
<1>2. /\ pc = "copy" /\ c \in Nat /\ size \in Int /\ c < NumChunks(size)
      /\ Target' = Target /\ Chunk' = c + 1 /\ file_size' = size
      /\ chunk_hashes' = Append(chunk_hashes, Hash(buf))
      /\ buf \in Seq(Bytes) /\ Len(buf) \in Nat /\ Len(buf) = ChunkLen(size, c)
      /\ Place(size, c) = Offset(c) /\ Place(size, c) \in Nat
  BY <1>1, ChunkWritten
<1>3. /\ write_at = Place(size, c) /\ write_at' = Place(size, c + 1)
      /\ write_at' = write_at + Len(buf) /\ write_at \in Nat
      /\ old \in Seq(Bytes) /\ new \in Seq(Bytes)
      /\ Len(old) \in Nat /\ Len(new) \in Nat
      /\ write_at <= Len(old) /\ write_at' <= Len(new)
      /\ Len(old) <= Len(new)
      /\ \A k \in 1 .. Len(new) :
           new[k] = IF k \in write_at + 1 .. write_at' THEN buf[k - write_at] ELSE old[k]
  BY <1>1, ChunkStored DEF Larger
<1>4. PICK at : at = write_at
  OBVIOUS
<1>5. /\ c = Len(chunk_hashes) /\ chunk_hashes \in Seq(Seq(Bytes))
      /\ Hash(buf) \in Seq(Bytes)
  BY <1>1, <1>2, HashIsBytes DEF Chunk, RpcInv, DataOk
<1>6. /\ \A i \in 1 .. c : chunk_hashes'[i] = chunk_hashes[i]
      /\ chunk_hashes'[c + 1] = Hash(buf)
  BY <1>2, <1>5, AppendProperties
<1>7. ASSUME NEW i \in 0 .. c
      PROVE  Hash(SubSeq(new, Offset(i) + 1, Offset(i) + ChunkLen(size, i)))
               = chunk_hashes'[i + 1]
  <2>1. i \in Nat /\ i < NumChunks(size)
    <3>1. NumChunks(size) \in Nat
      BY <1>2, NumbersOfChunks
    <3>2. QED
      BY <1>2, <3>1
  <2>2. PICK a, n : a = Offset(i) /\ n = ChunkLen(size, i)
    OBVIOUS
  <2>3. a = Place(size, i) /\ a \in Nat /\ n \in Nat /\ Place(size, i + 1) = a + n
    BY <1>2, <2>1, <2>2, PlaceNext, SizesAssumption
  <2>4. CASE i = c
    <3>1. a = at /\ n = Len(buf) /\ at \in Nat /\ a + n <= Len(new)
      BY <1>2, <1>3, <1>4, <2>2, <2>3, <2>4
    <3>2. \A k \in 1 .. n : new[at + k] = buf[k]
      <4>1. ASSUME NEW k \in 1 .. n PROVE new[at + k] = buf[k]
        <5>1. /\ at + k \in 1 .. Len(new) /\ at + k \in at + 1 .. at + Len(buf)
              /\ (at + k) - at = k
          BY <1>3, <2>3, <3>1
        <5>2. QED
          BY <1>3, <1>4, <5>1
      <4>2. QED
        BY <4>1
    <3>3. \A k \in a + 1 .. a + n : new[k] \in Bytes
      BY <1>3, <3>1, ElementOfSeq
    <3>4. /\ a + 1 \in Int /\ a + n \in Int /\ (a + n) - (a + 1) + 1 = n
          /\ (IF a + 1 <= a + n THEN (a + n) - (a + 1) + 1 ELSE 0) = n
          /\ \A k \in 1 .. n : (a + 1) + k - 1 = a + k
      BY <2>3
    <3>5. /\ SubSeq(new, a + 1, a + n) \in Seq(Bytes)
          /\ Len(SubSeq(new, a + 1, a + n)) = n
          /\ \A k \in 1 .. n : SubSeq(new, a + 1, a + n)[k] = new[(a + 1) + k - 1]
      BY <3>3, <3>4, SubSeqProperties
    <3>6. \A k \in 1 .. n : SubSeq(new, a + 1, a + n)[k] = buf[k]
      BY <3>1, <3>2, <3>4, <3>5
    <3>7. SubSeq(new, a + 1, a + n) = buf
      BY <1>2, <3>1, <3>5, <3>6, SeqEqual
    <3>8. QED
      BY <1>6, <2>2, <2>4, <3>7
  <2>5. CASE i < c
    <3>1. a + n <= at /\ at \in Nat
      <4>1. NumChunks(size) \in Nat
        BY <1>2, NumbersOfChunks
      <4>2. Place(size, i + 1) <= Place(size, c)
        BY <1>2, <2>1, <2>5, <4>1, PlaceMonotonic
      <4>3. QED
        BY <1>2, <1>3, <1>4, <2>3, <4>2
    <3>2. a + n <= Len(old) /\ a + n <= Len(new)
      BY <1>3, <1>4, <2>3, <3>1
    <3>3. \A k \in a + 1 .. a + n : new[k] = old[k]
      <4>1. ASSUME NEW k \in a + 1 .. a + n PROVE new[k] = old[k]
        <5>1. k \in Nat /\ 1 <= k /\ k <= a + n /\ a + n \in Nat
          BY <2>3
        <5>2. k <= at /\ k <= Len(new) /\ Len(new) \in Nat
          BY <1>3, <3>1, <3>2, <5>1
        <5>3. k \in 1 .. Len(new) /\ ~(at + 1 <= k)
          BY <3>1, <5>1, <5>2
        <5>4. ~(k \in at + 1 .. write_at')
          BY <5>3
        <5>5. QED
          BY <1>3, <1>4, <5>3, <5>4
      <4>2. QED
        BY <4>1
    <3>4. SubSeq(new, a + 1, a + n) = SubSeq(old, a + 1, a + n)
      <4>1. old \in Seq(Bytes) /\ new \in Seq(Bytes) /\ a \in Nat /\ n \in Nat
        BY <1>3, <2>3
      <4>2. QED
        BY <3>2, <3>3, <4>1, EqualParts
    <3>5. Hash(SubSeq(old, a + 1, a + n)) = chunk_hashes[i + 1]
      <4>1. i \in 0 .. c - 1
        BY <1>2, <2>1, <2>5
      <4>2. QED
        BY <1>1, <1>2, <2>2, <4>1 DEF HashesOk
    <3>6. i + 1 \in 1 .. c
      BY <1>2, <2>1, <2>5
    <3>7. QED
      BY <1>6, <2>2, <3>4, <3>5, <3>6
  <2>6. i = c \/ i < c
    BY <1>2
  <2>7. QED
    BY <2>4, <2>5, <2>6
<1>8. (c + 1) - 1 = c
  BY <1>2
<1>9. QED
  BY <1>1, <1>2, <1>3, <1>7, <1>8 DEF HashesOk

\* The hashes stay those of the copy.
LEMMA HashesNext ==
  ASSUME ~DiskMayFill, RpcInv, RpcInv', HashesOk, [Next]_vars
  PROVE  HashesOk'
<1> SUFFICES ASSUME pc' = "copy" PROVE HashesOk'
  BY DEF HashesOk
<1>1. CASE OpenFiles
  <2>1. Chunk' = 0 /\ write_at' = 0 /\ file_size' \in Int
    BY <1>1, FilesOpened
  <2>2. Place(file_size', 0) = 0
    BY <2>1, PlaceEnds
  <2>3. 0 .. 0 - 1 = {}
    OBVIOUS
  <2>4. QED
    BY <2>1, <2>2, <2>3 DEF HashesOk
<1>2. CASE HashAndWrite
  BY <1>2, HashesStored
<1>3. CASE ~OpenFiles /\ ~HashAndWrite
  <2>1. /\ pc = "copy" /\ Target' = Target /\ disk'[Target] = disk[Target]
        /\ UNCHANGED <<write_at, chunk_hashes, file_size>>
    BY <1>3, CopyKept
  <2>2. Chunk' = Chunk
    BY <2>1 DEF Chunk
  <2>3. QED
    BY <2>1, <2>2 DEF HashesOk
<1>4. QED
  BY <1>1, <1>2, <1>3

\* What is announced is what has been written.
LEMMA AnnouncedDescribed ==
  ASSUME RpcInv, HashesOk, Announce
  PROVE  Described(disk'[Target], announced'[Target].size, announced'[Target].index, {})
<1>1. /\ pc = "copy" /\ Chunk = NumChunks(file_size) /\ file_size \in Int
      /\ disk[Target] \in Seq(Bytes) /\ disk' = disk
      /\ announced'[Target].size = file_size /\ announced'[Target].index = chunk_hashes
  BY CopyComplete
<1>2. file_size <= Len(disk[Target])
  <2>1. write_at = Place(file_size, NumChunks(file_size)) /\ write_at <= Len(disk[Target])
    BY <1>1 DEF HashesOk, RpcInv, CopyOk
  <2>2. write_at = IF file_size < 0 THEN 0 ELSE file_size
    BY <1>1, <2>1, PlaceEnds
  <2>3. Len(disk[Target]) \in Nat
    BY <1>1, LenProperties
  <2>4. QED
    BY <1>1, <2>1, <2>2, <2>3
<1>3. QED
  BY <1>1, <1>2 DEF Described, HashesOk

\* A chunk that is written harms no chunk behind it, whatever size the copy had.
LEMMA WrittenDescribed ==
  ASSUME ~DiskMayFill, RpcInv, HashesOk, HashAndWrite,
         NEW p \in Paths, p = Target, NEW size \in Int, NEW index,
         Described(disk[p], size, index, Rewritten(p))
  PROVE  Described(disk'[p], size, index, Rewritten(p)')
<1>1. PICK old, new, c, at, next :
        /\ old = disk[Target] /\ new = disk'[Target] /\ c = Chunk
        /\ at = write_at /\ next = write_at'
  OBVIOUS
<1>2. /\ c \in Nat /\ file_size \in Int /\ c < NumChunks(file_size)
      /\ Target' = Target /\ Chunk' = c + 1
  BY <1>1, ChunkWritten
<1>3. /\ at = Place(file_size, c) /\ next = Place(file_size, c + 1)
      /\ at \in Nat /\ next \in Nat
      /\ old \in Seq(Bytes) /\ new \in Seq(Bytes)
      /\ Len(old) \in Nat /\ Len(new) \in Nat /\ Len(old) <= Len(new)
      /\ \A k \in 1 .. Len(new) :
           k \notin at + 1 .. next => new[k] = old[k]
  <2>1. /\ at = Place(file_size, c) /\ next = Place(file_size, c + 1)
        /\ at \in Nat /\ next \in Nat
        /\ old \in Seq(Bytes) /\ new \in Seq(Bytes)
        /\ Len(old) \in Nat /\ Len(new) \in Nat /\ Len(new) = Larger(Len(old), next)
        /\ \A k \in 1 .. Len(new) :
             new[k] = IF k \in at + 1 .. next THEN chunk_buffer[k - at] ELSE old[k]
    BY <1>1, ChunkStored
  <2>2. Len(old) <= Len(new)
    BY <2>1 DEF Larger
  <2>3. QED
    BY <2>1, <2>2
<1>4. next <= Offset(c + 1) /\ Offset(c + 1) \in Nat
  <2>1. at = Offset(c) /\ next = at + ChunkLen(file_size, c)
        /\ ChunkLen(file_size, c) \in 1 .. ChunkSize
    BY <1>2, <1>3, PlaceNext
  <2>2. Offset(c) \in Nat /\ Offset(c + 1) = Offset(c) + ChunkSize /\ ChunkSize \in Nat
    BY <1>2, SizesAssumption DEF Offset
  <2>3. QED
    BY <2>1, <2>2
<1>5. Rewritten(p) = 0 .. c - 1 /\ Rewritten(p)' = 0 .. c
  <2>1. (c + 1) - 1 = c
    BY <1>2
  <2>2. QED
    BY <1>1, <1>2, <2>1 DEF Rewritten
<1>6. size <= Len(new)
  BY <1>1, <1>3 DEF Described
<1>7. ASSUME NEW i \in (0 .. NumChunks(size) - 1) \ (0 .. c)
      PROVE  Hash(SubSeq(new, Offset(i) + 1, Offset(i) + ChunkLen(size, i))) = index[i + 1]
  <2>1. i \in Nat /\ i < NumChunks(size) /\ c + 1 <= i /\ i \notin 0 .. c - 1
    <3>1. NumChunks(size) \in Nat
      BY NumbersOfChunks
    <3>2. QED
      BY <1>2, <3>1
  <2>2. PICK a, n : a = Offset(i) /\ n = ChunkLen(size, i)
    OBVIOUS
  <2>3. a \in Nat /\ n \in Nat /\ a + n <= size
    BY <2>1, <2>2, PlaceNext, SizesAssumption
  <2>4. next <= a
    <3>1. Offset(c + 1) <= Offset(i)
      <4>1. c + 1 \in Nat /\ ChunkSize \in Nat
        BY <1>2, SizesAssumption
      <4>2. QED
        BY <2>1, <4>1, TimesMonotonic DEF Offset
    <3>2. QED
      BY <1>3, <1>4, <2>2, <2>3, <3>1
  <2>5. a + n <= Len(old) /\ a + n <= Len(new)
    <3>1. size <= Len(old)
      BY <1>1 DEF Described
    <3>2. QED
      BY <1>3, <1>6, <2>3, <3>1
  <2>6. \A k \in a + 1 .. a + n : new[k] = old[k]
    <3>1. ASSUME NEW k \in a + 1 .. a + n PROVE new[k] = old[k]
      <4>1. k \in 1 .. Len(new) /\ k \notin at + 1 .. next
        BY <1>3, <2>3, <2>4, <2>5
      <4>2. QED
        BY <1>3, <4>1
    <3>2. QED
      BY <3>1
  <2>7. SubSeq(new, a + 1, a + n) = SubSeq(old, a + 1, a + n)
    BY <1>3, <2>3, <2>5, <2>6, EqualParts
  <2>8. Hash(SubSeq(old, a + 1, a + n)) = index[i + 1]
    BY <1>1, <1>5, <2>1, <2>2 DEF Described
  <2>9. QED
    BY <2>2, <2>7, <2>8
<1>8. QED
  BY <1>1, <1>5, <1>6, <1>7 DEF Described

\* Every step keeps the announcements true.
LEMMA IndexNext ==
  ASSUME ~DiskMayFill, RpcInv, RpcInv', IndexInv, [Next]_vars
  PROVE  IndexInv'
<1>1. HashesOk'
  BY HashesNext DEF IndexInv
<1>2. \A p \in Paths : announced[p] # None =>
        Described(disk[p], announced[p].size, announced[p].index, Rewritten(p))
  BY DEF IndexInv, IndexDescribesCopy, Described
<1>3. ASSUME NEW p \in Paths, announced'[p] # None
      PROVE  Described(disk'[p], announced'[p].size, announced'[p].index, Rewritten(p)')
  <2>1. CASE /\ announced'[p] = announced[p] /\ disk'[p] = disk[p]
             /\ Rewritten(p) \subseteq Rewritten(p)'
    <3>1. Described(disk[p], announced[p].size, announced[p].index, Rewritten(p))
      BY <1>2, <1>3, <2>1
    <3>2. QED
      BY <2>1, <3>1 DEF Described
  <2>2. CASE Announce /\ p = Target
    <3>1. Described(disk'[p], announced'[p].size, announced'[p].index, {})
      BY <2>2, AnnouncedDescribed DEF IndexInv
    <3>2. QED
      BY <3>1 DEF Described
  <2>3. CASE HashAndWrite /\ p = Target
    <3>1. announced' = announced
      BY <2>3, ChunkWritten
    <3>2. announced[p].size \in Int
      BY <1>3, <3>1, SizesAssumption DEF RpcInv, RpcTypeOK, Ints
    <3>3. Described(disk[p], announced[p].size, announced[p].index, Rewritten(p))
      BY <1>2, <1>3, <3>1
    <3>4. QED
      BY <2>3, <3>1, <3>2, <3>3, WrittenDescribed DEF IndexInv
  <2>4. QED
    BY <1>3, <2>1, <2>2, <2>3, AnnouncedKept
<1>4. IndexDescribesCopy'
  BY <1>3 DEF IndexDescribesCopy, Described
<1>5. QED
  BY <1>1, <1>4 DEF IndexInv

\* At first nothing is announced.
LEMMA IndexInit == Init => IndexInv
BY DEF Init, IndexInv, IndexDescribesCopy, HashesOk

\* While there is room on the disk, the announcements stay true.
THEOREM IndexInvHolds == ASSUME ~DiskMayFill PROVE Spec => [](RpcInv /\ IndexInv)
<1>1. RpcInv /\ IndexInv /\ [Next]_vars => (RpcInv /\ IndexInv)'
  BY RpcNext, IndexNext
<1>2. QED
  BY RpcInit, IndexInit, <1>1, PTL DEF Spec

\* While there is room on the disk, every chunk that a downloader may ask for lies
\* inside the copy and has the hash that the hub was told, whatever users write to
\* the file meanwhile and however often it is uploaded, but for the chunks that an
\* upload has rewritten and not announced, be it under way or broken off
\* (rpc_server.cpp:71-97, 115-128 and 347-357).
THEOREM IndexMatchesCopy == ASSUME ~DiskMayFill PROVE Spec => []IndexDescribesCopy
<1>1. IndexInv => IndexDescribesCopy
  BY DEF IndexInv
<1>2. QED
  BY IndexInvHolds, <1>1, PTL

-----------------------------------------------------------------------------
(* What a success means, while there is room on the disk and sizes are ints. *)

\* No file is, and none will be, larger than an int can say.
FilesFit ==
  /\ \A s \in Written : Len(s) < IntLimit
  /\ \A p \in Paths : AtFirst[p] # None => Len(AtFirst[p]) < IntLimit

\* A write makes no file larger than what is written or what was there.
LEMMA FilesStayShort ==
  ASSUME FilesFit, RpcInv, FilesShort, [Next]_vars
  PROVE  FilesShort'
<1>0. CASE disk' = disk
  BY <1>0 DEF FilesShort
<1>1. IntLimit \in Nat /\ IntLimit > 0
  BY SizesAssumption
<1>2. ASSUME NEW p \in Paths, NEW s, disk' = [disk EXCEPT ![p] = s], Len(s) < IntLimit
      PROVE  FilesShort'
  BY <1>2 DEF FilesShort, RpcInv, DataOk
<1>3. CASE OpenFiles
  <2>1. /\ disk' = [disk EXCEPT ![Target] = disk'[Target]] /\ Target \in Paths
        /\ disk[Target] # None => disk'[Target] = disk[Target]
        /\ disk[Target] = None => disk'[Target] = <<>>
    BY <1>3, FilesOpened
  <2>2. Len(<<>>) = 0
    OBVIOUS
  <2>3. Len(disk'[Target]) < IntLimit
    BY <1>1, <2>1, <2>2 DEF FilesShort
  <2>4. QED
    BY <1>2, <2>1, <2>3
<1>4. CASE HashAndWrite
  <2>1. CASE UNCHANGED <<disk, write_at>>
    BY <1>0, <2>1
  <2>2. CASE ~UNCHANGED <<disk, write_at>>
    <3>1. PICK new : new = disk'[Target]
      OBVIOUS
    <3>2. /\ disk' = [disk EXCEPT ![Target] = new]
          /\ Len(new) = Larger(Len(disk[Target]), write_at')
      BY <1>4, <2>2, <3>1, CopyAfterWrite
    <3>3. Target \in Paths /\ disk[Target] \in Seq(Bytes)
      BY <1>4, ChunkWritten
    <3>4. write_at' < IntLimit
      <4>1. RpcInv'
        BY RpcNext
      <4>2. write_at' \in {0} \cup 0 .. file_size' /\ file_size' \in Ints
        BY <4>1 DEF RpcInv, RpcTypeOK
      <4>3. QED
        BY <1>1, <4>2 DEF Ints
    <3>5. Len(disk[Target]) < IntLimit
      BY <3>3, NoneAssumption DEF FilesShort
    <3>6. Len(new) < IntLimit
      BY <3>2, <3>4, <3>5 DEF Larger
    <3>7. QED
      BY <1>2, <3>2, <3>3, <3>6
  <2>3. QED
    BY <2>1, <2>2
<1>5. CASE \E s \in Written : Fetch(s)
  <2>1. PICK s \in Written : Fetch(s)
    BY <1>5
  <2>2. PICK new : new = disk'[Target]
    OBVIOUS
  <2>3. /\ disk' = [disk EXCEPT ![Target] = new] /\ Target \in Paths
        /\ disk[Target] # None => Len(new) = Larger(Len(disk[Target]), Len(s))
        /\ disk[Target] = None => Len(new) = Len(s)
    BY <2>1, <2>2, Fetched
  <2>4. Len(s) < IntLimit
    BY DEF FilesFit
  <2>5. Len(new) < IntLimit
    BY <2>3, <2>4 DEF FilesShort, Larger
  <2>6. QED
    BY <1>2, <2>3, <2>5
<1>6. CASE \E p \in UserFiles, s \in Written : Edit(p, s)
  BY <1>2, <1>6 DEF Edit, UserFiles, FilesFit
<1>7. CASE \/ Accept \/ SpinForRequest \/ TakeDownload \/ TakeUpload \/ FetchHangs
           \/ ReadSpins \/ Reply \/ ReadFails \/ Announce \/ Stop \/ UNCHANGED vars
  BY <1>0, <1>7 DEF Accept, SpinForRequest, TakeDownload, TakeUpload, FetchHangs, ReadSpins,
     Reply, ReadFails, Announce, Stop, vars
<1>8. CASE (\E c \in Clients : Ask(c) \/ AskNobody(c) \/ Die(c))
           \/ (\E n \in 1 .. ChunkSize : ReadPass(n))
  BY <1>0, <1>8 DEF Ask, AskNobody, Die, ReadPass
<1>9. QED
  BY <1>3, <1>4, <1>5, <1>6, <1>7, <1>8, Zenon DEF Next, ServerStep

\* The bytes in the buffer and in the copy are those of the file: reading.
LEMMA BytesRead ==
  ASSUME RpcInv, BytesOk, NEW n \in 1 .. ChunkSize, ReadPass(n)
  PROVE  BytesOk'
<1>1. /\ pc = "copy" /\ Copying /\ Wanted > 0
      /\ read_at # None /\ n <= Wanted /\ n <= Left
      /\ chunk_buffer' = chunk_buffer \o SubSeq(disk[Source], read_at + 1, read_at + n)
      /\ UNCHANGED <<disk, served, file_size, chunk_hashes, original>>
  BY DEF ReadPass, Goto
<1>2. Source' = Source /\ Target' = Target /\ Chunk' = Chunk
  BY <1>1 DEF Source, Target, Chunk
<1> SUFFICES ASSUME original # None PROVE BytesOk'
  BY <1>1 DEF BytesOk
<1>3. PICK f, buf, at, r, place :
        /\ f = disk[Source] /\ buf = chunk_buffer /\ r = read_at
        /\ at = Len(chunk_buffer) /\ place = Place(file_size, Chunk)
  OBVIOUS
<1>4. /\ f = original /\ r = place + at
      /\ \A k \in 1 .. at : buf[k] = original[place + k]
  BY <1>1, <1>3 DEF BytesOk, RpcInv, CopyOk
<1>5. /\ r \in Nat /\ Len(f) \in Nat /\ f \in Seq(Bytes) /\ r + n <= Len(f)
  BY <1>1, <1>3, MoreToRead, SizesAssumption DEF Left
<1>6. buf \in Seq(Bytes) /\ at = Len(buf) /\ at \in Nat
  BY <1>3, LenProperties DEF RpcInv, DataOk
<1>7. place \in Nat
  <2>1. Chunk \in Nat /\ Chunk <= NumChunks(file_size) /\ file_size \in Int
    BY LenProperties, SizesAssumption DEF RpcInv, RpcTypeOK, DataOk, Chunk, Ints
  <2>2. QED
    BY <1>3, <2>1, PlaceBounded
<1>8. PICK more : more = SubSeq(f, r + 1, r + n)
  OBVIOUS
<1>9. more \in Seq(Bytes) /\ Len(more) = n /\ \A k \in 1 .. n : more[k] = f[r + k]
  <2>1. \A k \in r + 1 .. r + n : f[k] \in Bytes
    BY <1>5, ElementOfSeq
  <2>2. /\ r + 1 \in Int /\ r + n \in Int /\ (r + n) - (r + 1) + 1 = n
        /\ (IF r + 1 <= r + n THEN (r + n) - (r + 1) + 1 ELSE 0) = n
        /\ \A k \in 1 .. n : (r + 1) + k - 1 = r + k
    BY <1>5
  <2>3. /\ SubSeq(f, r + 1, r + n) \in Seq(Bytes)
        /\ Len(SubSeq(f, r + 1, r + n)) = n
        /\ \A k \in 1 .. n : SubSeq(f, r + 1, r + n)[k] = f[(r + 1) + k - 1]
    BY <2>1, <2>2, SubSeqProperties
  <2>4. QED
    BY <1>8, <2>2, <2>3
<1>10. chunk_buffer' = buf \o more
  BY <1>1, <1>3, <1>8
<1>11. /\ Len(buf \o more) = at + n
       /\ \A k \in 1 .. at + n :
            (buf \o more)[k] = IF k <= at THEN buf[k] ELSE more[k - at]
  BY <1>6, <1>9, ConcatProperties
<1>12. ASSUME NEW k \in 1 .. at + n PROVE (buf \o more)[k] = original[place + k]
  <2>1. CASE k <= at
    <3>1. k \in 1 .. at
      BY <1>6, <2>1
    <3>2. QED
      BY <1>4, <1>11, <2>1, <3>1
  <2>2. CASE ~(k <= at)
    <3>1. k - at \in 1 .. n /\ r + (k - at) = place + k
      BY <1>4, <1>6, <1>7, <2>2
    <3>2. QED
      BY <1>4, <1>9, <1>11, <2>2, <3>1
  <2>3. QED
    BY <2>1, <2>2
<1>13. QED
  BY <1>1, <1>2, <1>3, <1>10, <1>11, <1>12 DEF BytesOk

\* The bytes in the buffer and in the copy are those of the file: writing, if the
\* file is its own copy, too.
LEMMA BytesWritten ==
  ASSUME ~DiskMayFill, RpcInv, HashesOk, BytesOk, HashAndWrite
  PROVE  BytesOk'
<1>1. /\ pc = "copy" /\ UNCHANGED <<file_size, original>>
      /\ Source' = Source /\ Target' = Target /\ Chunk' = Chunk + 1
      /\ Source \in Paths /\ Target \in Paths /\ file_size \in Int
      /\ chunk_buffer' = <<>>
      /\ Len(chunk_buffer) \in Nat
      /\ Place(file_size, Chunk + 1) <= file_size
  BY ChunkWritten
<1> SUFFICES ASSUME original # None PROVE BytesOk'
  BY <1>1 DEF BytesOk
<1>2. PICK old, new, buf, at, next :
        /\ old = disk[Target] /\ new = disk'[Target] /\ buf = chunk_buffer
        /\ at = write_at /\ next = write_at'
  OBVIOUS
<1>3. /\ at = Place(file_size, Chunk) /\ next = Place(file_size, Chunk + 1)
      /\ next = at + Len(buf)
      /\ at \in Nat /\ next \in Nat /\ at <= Len(old) /\ next <= Len(new)
      /\ old \in Seq(Bytes) /\ new \in Seq(Bytes)
      /\ Len(old) \in Nat /\ Len(new) = Larger(Len(old), next)
      /\ disk' = [disk EXCEPT ![Target] = new]
      /\ \A k \in 1 .. Len(new) :
           new[k] = IF k \in at + 1 .. next THEN buf[k - at] ELSE old[k]
  BY <1>2, ChunkStored
<1>4. /\ disk[Source] = original
      /\ \A k \in 1 .. Len(buf) : buf[k] = original[at + k]
      /\ \A k \in 1 .. at : old[k] = original[k]
  BY <1>1, <1>2, <1>3 DEF BytesOk
<1>5. Len(buf) \in Nat
  BY <1>1, <1>2
<1>6. ASSUME NEW k \in 1 .. Len(new), k \in at + 1 .. next PROVE new[k] = original[k]
  <2>1. k - at \in 1 .. Len(buf) /\ at + (k - at) = k
    BY <1>3, <1>5, <1>6
  <2>2. QED
    BY <1>3, <1>4, <1>6, <2>1
<1>7. \A k \in 1 .. next : new[k] = original[k]
  <2>1. ASSUME NEW k \in 1 .. next PROVE new[k] = original[k]
    <3>1. k \in 1 .. Len(new) /\ (k \in at + 1 .. next \/ k \in 1 .. at)
      BY <1>3, LenProperties
    <3>2. CASE k \in at + 1 .. next
      BY <1>6, <3>1, <3>2
    <3>3. CASE ~(k \in at + 1 .. next)
      BY <1>3, <1>4, <3>1, <3>3
    <3>4. QED
      BY <3>2, <3>3
  <2>2. QED
    BY <2>1
<1>8. disk'[Source] = original
  <2>1. CASE Source # Target
    BY <1>1, <1>3, <1>4, <2>1 DEF RpcInv, DataOk
  <2>2. CASE Source = Target
    <3>1. old = original /\ disk'[Source] = new
      BY <1>2, <1>4, <2>2
    <3>2. next <= Len(old)
      <4>1. file_size = AsInt(Len(old)) /\ AsInt(Len(old)) <= Len(old)
        BY <1>1, <1>3, <3>1, IntOfSize DEF RpcInv, CopyOk
      <4>2. QED
        BY <1>1, <1>3, <4>1
    <3>3. Len(new) = Len(old)
      BY <1>3, <3>2 DEF Larger
    <3>4. \A k \in 1 .. Len(new) : new[k] = old[k]
      BY <1>3, <1>6, <3>1
    <3>5. new = old
      BY <1>3, <3>3, <3>4, SeqEqual
    <3>6. QED
      BY <3>1, <3>5
  <2>3. QED
    BY <2>1, <2>2
<1>9. 1 .. Len(chunk_buffer') = {}
  BY <1>1
<1>10. QED
  BY <1>1, <1>2, <1>3, <1>7, <1>8, <1>9 DEF BytesOk

\* The copy stays the beginning of the file.
LEMMA BytesNext ==
  ASSUME ~DiskMayFill, RpcInv, RpcInv', HashesOk, BytesOk, [Next]_vars
  PROVE  BytesOk'
<1> SUFFICES ASSUME pc' = "copy", original' # None PROVE BytesOk'
  BY DEF BytesOk
<1>1. CASE OpenFiles
  <2>1. /\ pc = "open" /\ Chunk' = 0 /\ chunk_buffer' = <<>> /\ original' = original
        /\ Source' = Source /\ file_size' \in Int
        /\ disk[Source] # None => disk'[Source] = disk[Source]
    BY <1>1, FilesOpened
  <2>2. original \in Seq(Bytes) /\ disk[Source] = original
    BY <2>1 DEF RpcInv, OpenOk
  <2>3. disk'[Source] = original
    BY <2>1, <2>2
  <2>4. Place(file_size', Chunk') = 0
    BY <2>1, PlaceEnds
  <2>5. 1 .. Len(chunk_buffer') = {} /\ 1 .. 0 = {}
    BY <2>1
  <2>6. QED
    BY <2>1, <2>3, <2>4, <2>5 DEF BytesOk
<1>2. CASE HashAndWrite
  BY <1>2, BytesWritten
<1>3. CASE \E n \in 1 .. ChunkSize : ReadPass(n)
  BY <1>3, BytesRead
<1>4. CASE ReadFails
  BY <1>4 DEF ReadFails, Goto, RpcInv, CopyOk
<1>5. CASE /\ pc = "copy" /\ Target' = Target /\ Source' = Source
           /\ disk'[Target] = disk[Target]
           /\ UNCHANGED <<chunk_hashes, file_size, chunk_buffer>>
           /\ \/ UNCHANGED <<disk, original>>
              \/ disk'[Source] = disk[Source] /\ original' = original
  <2>1. Chunk' = Chunk
    BY <1>5 DEF Chunk
  <2>2. disk'[Source] = disk[Source] /\ original' = original
    BY <1>5
  <2>3. QED
    BY <1>5, <2>1, <2>2 DEF BytesOk
<1>6. QED
  BY <1>1, <1>2, <1>3, <1>4, <1>5, CopyKept

\* Between the announcement and the answer nobody writes to the copy.
LEMMA ReplyKept ==
  ASSUME RpcInv, [Next]_vars, pc' = "reply"
  PROVE  \/ Announce \/ \E s \in Written : Fetch(s)
         \/ /\ pc = "reply" /\ served' = served /\ Target' = Target
            /\ announced' = announced /\ disk'[Target] = disk[Target]
            /\ original' \in {original, None}
<1> USE DEF Goto
<1>1. pc = "reply" => served \in Clients /\ Target \in Paths /\ OutPath[Target] = Target
  BY ServedFiles DEF RpcInv, RpcTypeOK
<1>2. served' = served => Target' = Target
  BY DEF Target, Source
<1>3. CASE ServerStep
  <2>1. ~Accept /\ ~SpinForRequest /\ ~TakeDownload /\ ~ReadSpins /\ ~TakeUpload
        /\ ~OpenFiles /\ ~FetchHangs /\ ~Reply /\ ~ReadFails /\ ~HashAndWrite
    BY DEF Accept, SpinForRequest, TakeDownload, ReadSpins, TakeUpload, OpenFiles, FetchHangs,
       Reply, ReadFails, HashAndWrite
  <2>2. ~ \E n \in 1 .. ChunkSize : ReadPass(n)
    BY DEF ReadPass
  <2>3. QED
    BY <1>3, <2>1, <2>2, Zenon DEF ServerStep
<1>4. CASE \/ \E c \in Clients : Ask(c) \/ AskNobody(c) \/ Die(c)
           \/ Stop \/ UNCHANGED vars
  <2>1. UNCHANGED <<disk, original, announced, pc, served>>
    BY <1>4 DEF Ask, AskNobody, Die, Stop, threadVars, vars
  <2>2. QED
    BY <1>2, <2>1
<1>5. CASE \E q \in UserFiles, s \in Written : Edit(q, s)
  <2>1. PICK q \in UserFiles, s \in Written : Edit(q, s)
    BY <1>5
  <2>2. /\ UNCHANGED <<announced, pc, served>> /\ disk' = [disk EXCEPT ![q] = s]
        /\ original' \in {original, None}
        /\ q \in Paths /\ OutPath[q] # q
    BY <2>1 DEF Edit, threadVars, UserFiles
  <2>3. disk'[Target] = disk[Target]
    BY <1>1, <2>2 DEF RpcInv, DataOk
  <2>4. QED
    BY <1>2, <2>2, <2>3
<1>6. QED
  BY <1>3, <1>4, <1>5, Zenon DEF Next

\* When it is announced, all of the file is in the copy.
LEMMA CopyIsFile ==
  ASSUME RpcInv, HashesOk, FilesShort, BytesOk, Announce, original # None
  PROVE  /\ announced'[Target].size = Len(original)
         /\ Len(disk[Target]) >= Len(original)
         /\ SubSeq(disk[Target], 1, Len(original)) = original
<1>1. /\ pc = "copy" /\ Chunk = NumChunks(file_size) /\ file_size \in Int
      /\ disk[Target] \in Seq(Bytes) /\ announced'[Target].size = file_size
      /\ served \in Clients
  BY CopyComplete DEF RpcInv, RpcTypeOK
<1>2. original \in Seq(Bytes) /\ file_size = AsInt(Len(original))
      /\ disk[Source] = original
  BY <1>1 DEF RpcInv, CopyOk, BytesOk
<1>3. PICK n, copy : n = Len(original) /\ copy = disk[Target]
  OBVIOUS
<1>4. n \in Nat /\ Len(copy) \in Nat /\ copy \in Seq(Bytes)
  BY <1>1, <1>2, <1>3, LenProperties
<1>5. n < IntLimit
  BY <1>1, <1>2, <1>3, ServedFiles DEF FilesShort
<1>6. file_size = n
  BY <1>2, <1>3, <1>4, <1>5, IntOfSize
<1>7. Place(file_size, Chunk) = n
  <2>1. Place(file_size, Chunk) = IF file_size < 0 THEN 0 ELSE file_size
    BY <1>1, PlaceEnds
  <2>2. QED
    BY <1>4, <1>6, <2>1
<1>8. n <= Len(copy)
  BY <1>1, <1>3, <1>7 DEF HashesOk, RpcInv, CopyOk
<1>9. \A k \in 1 .. n : copy[k] = original[k]
  BY <1>1, <1>3, <1>7 DEF BytesOk
<1>10. /\ SubSeq(copy, 1, n) \in Seq(Bytes) /\ Len(SubSeq(copy, 1, n)) = n
       /\ \A k \in 1 .. n : SubSeq(copy, 1, n)[k] = copy[k]
  <2>1. \A k \in 1 .. n : copy[k] \in Bytes
    BY <1>4, <1>8, ElementOfSeq
  <2>2. /\ 1 \in Int /\ n \in Int /\ n - 1 + 1 = n
        /\ (IF 1 <= n THEN n - 1 + 1 ELSE 0) = n
        /\ \A k \in 1 .. n : 1 + k - 1 = k
    BY <1>4
  <2>3. /\ SubSeq(copy, 1, n) \in Seq(Bytes)
        /\ Len(SubSeq(copy, 1, n)) = (IF 1 <= n THEN n - 1 + 1 ELSE 0)
        /\ \A k \in 1 .. n - 1 + 1 : SubSeq(copy, 1, n)[k] = copy[1 + k - 1]
    BY <2>1, <2>2, SubSeqProperties
  <2>4. QED
    BY <2>2, <2>3
<1>11. SubSeq(copy, 1, n) = original
  BY <1>2, <1>3, <1>9, <1>10, SeqEqual
<1>12. QED
  BY <1>1, <1>3, <1>4, <1>6, <1>8, <1>11

\* Every step keeps what a success will mean.
LEMMA StoredNext ==
  ASSUME ~DiskMayFill, FilesFit, RpcInv, RpcInv', HashesOk, StoredInv, [Next]_vars
  PROVE  StoredInv'
<1>1. FilesShort' /\ BytesOk'
  BY FilesStayShort, BytesNext DEF StoredInv
<1>2. SuccessMeansStored'
  <2> SUFFICES ASSUME pc' = "reply", Request[served'].op = "upload", original' # None
               PROVE  /\ announced'[Target'].size = Len(original')
                      /\ Len(disk'[Target']) >= Len(original')
                      /\ SubSeq(disk'[Target'], 1, Len(original')) = original'
    BY DEF SuccessMeansStored
  <2>1. CASE Announce
    <3>1. Target' = Target /\ disk' = disk /\ original' = original
      BY <2>1, CopyComplete
    <3>2. QED
      BY <2>1, <3>1, CopyIsFile DEF StoredInv
  <2>2. CASE \E s \in Written : Fetch(s)
    <3>1. Request[served].op = "download" /\ served' = served
      BY <2>2, Fetched
    <3>2. QED
      BY <3>1
  <2>3. CASE /\ pc = "reply" /\ served' = served /\ Target' = Target
             /\ announced' = announced /\ disk'[Target] = disk[Target]
             /\ original' \in {original, None}
    BY <2>3 DEF StoredInv, SuccessMeansStored
  <2>4. QED
    BY <2>1, <2>2, <2>3, ReplyKept
<1>3. QED
  BY <1>1, <1>2 DEF StoredInv

\* At first nothing is answered, and the files fit.
LEMMA StoredInit == FilesFit /\ Init => StoredInv
BY DEF Init, StoredInv, FilesShort, FilesFit, BytesOk, SuccessMeansStored

\* While there is room on the disk and sizes are ints, whoever is told of a success
\* has uploaded the whole of a file that nobody wrote to meanwhile: the size is what
\* it was, and the copy begins with its bytes (rpc_server.cpp:36-143, rpc.cpp:71-72).
THEOREM SuccessIsStored ==
  ASSUME ~DiskMayFill, FilesFit
  PROVE  Spec => []SuccessMeansStored
<1>1. RpcInv /\ IndexInv /\ StoredInv /\ [Next]_vars => StoredInv'
  BY RpcNext, StoredNext DEF IndexInv
<1>2. Init => StoredInv
  BY StoredInit
<1>3. StoredInv => SuccessMeansStored
  BY DEF StoredInv
<1>4. Spec => [](RpcInv /\ IndexInv)
  BY IndexInvHolds
<1>5. QED
  BY <1>1, <1>2, <1>3, <1>4, PTL DEF Spec
=============================================================================
