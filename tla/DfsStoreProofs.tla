--------------------------- MODULE DfsStoreProofs ---------------------------
(***************************************************************************)
(* Dfs implements FileStore, for any number of dnodes, files, parts and    *)
(* jobs, under the conditions of DfsFilesProofs: nothing fails, and no two *)
(* files share a name or a hash.                                           *)
(***************************************************************************)
EXTENDS DfsFilesProofs

-----------------------------------------------------------------------------
(* What the hub leads to.                                                  *)

\* A download is only ever of a name that the hub knows.
NamesKnown ==
  \A d \in Dnodes : phase[d] \in {"asking", "fetching"} =>
    job[d].name \in DOMAIN fname_map

\* All that the proofs below need to know of a state.
StoreInv == IInv /\ DInv /\ CalmInv /\ NamesKnown

\* A name leads to the file of that name.
NamesLead ==
  \A n \in DOMAIN fname_map :
    /\ n \in Names
    /\ Published[n] \in Contents /\ IsFile(n, Published[n])

LEMMA NamesLeadToFiles ==
  ASSUME Calm, IInv, CalmInv
  PROVE  NamesLead
<1> SUFFICES ASSUME NEW n \in DOMAIN fname_map
             PROVE  /\ n \in Names
                    /\ Published[n] \in Contents /\ IsFile(n, Published[n])
  BY DEF NamesLead
<1> DEFINE h == fname_map[n]
<1>1. n \in Names /\ h \in DOMAIN file_metadata_map
  BY DEF IInv, HubTypeOK, IsTable, FilesInv, NamedFilesComplete
<1>2. HashOf[file_metadata_map[h]] = h
  BY <1>1 DEF IInv, FilesInv, MetadataUnderHash
<1>3. PICK x \in Contents : IsFile(n, x) /\ HashOf[x] = h
  BY DEF CalmInv, TablesOk
<1>4. PICK m \in Names : IsFile(m, file_metadata_map[h])
  BY <1>1 DEF CalmInv, TablesOk
<1>5. x = file_metadata_map[h]
  BY <1>2, <1>3, <1>4, OneFile
<1>6. Published[n] = file_metadata_map[h]
  BY <1>1 DEF Published
<1>7. QED
  BY <1>1, <1>3, <1>5, <1>6

\* What is published stays, and no more is published as long as no name is added.
LEMMA PublishedStays ==
  ASSUME Calm, NamesLead, NamesLead', TablesKept
  PROVE  /\ \A n \in DOMAIN fname_map : Published'[n] = Published[n]
         /\ DOMAIN fname_map' = DOMAIN fname_map => Published' = Published
<1>1. ASSUME NEW n \in DOMAIN fname_map
      PROVE  Published'[n] = Published[n]
  <2>1. n \in DOMAIN fname_map'
    BY DEF TablesKept
  <2>2. IsFile(n, Published[n]) /\ IsFile(n, Published'[n])
    BY <2>1 DEF NamesLead, IsFile
  <2>3. QED
    BY <2>2, OneFile
<1>2. ASSUME DOMAIN fname_map' = DOMAIN fname_map
      PROVE  Published' = Published
  BY <1>1, <1>2 DEF Published
<1>3. QED
  BY <1>1, <1>2

-----------------------------------------------------------------------------
(* Steps of a dnode.                                                       *)

\* What a dnode does on its own changes nothing at the hub.
LEMMA AloneAtHub ==
  ASSUME NEW d \in Dnodes, Alone(d)
  PROVE  UNCHANGED vars
BY DEF Alone, FirstStart, StartUp, SaveUid, Listen, UploadBegun, Upload, Copied,
       PartGot, GetPart, WriteFile

\* And what it asks or reads does not change its files or the tables.
LEMMA TalkAtHub ==
  ASSUME NEW d \in Dnodes, Asks(d) \/ Reads(d)
  PROVE  UNCHANGED <<files, fname_map, file_metadata_map>>
BY DEF Asks, JoinSent, UploadSent, DownloadSent, AckSent, Arrive, Reads, Joined,
       GotReply, Take, tables

\* The user of a dnode whose phase and job do not say so waits for nothing.
LEMMA AwaitedOf ==
  ASSUME NEW d \in Dnodes
  PROVE  /\ Awaited[d] = IF phase[d] \in {"asking", "fetching"} THEN job[d].name
                                                               ELSE None
         /\ Awaited'[d] = IF phase'[d] \in {"asking", "fetching"}
                          THEN job'[d].name ELSE None
BY DEF Awaited

\* A file that has become whole is what its node holds from then on.
LEMMA WholeFilesWritten ==
  ASSUME NEW d \in Dnodes, Rest(d), NEW n \in Names, NEW x \in Contents,
         files'[d][n] = x,
         \A m \in Names \ {n} : files'[d][m] = files[d][m]
  PROVE  WholeFiles' = [WholeFiles EXCEPT ![d][n] = x]
<1>1. x # Junk
  BY JunkAssumption
<1>2. ASSUME NEW e \in Dnodes, NEW m \in Names
      PROVE  (IF files'[e][m] = Junk THEN None ELSE files'[e][m])
               = IF e = d /\ m = n THEN x
                 ELSE IF files[e][m] = Junk THEN None ELSE files[e][m]
  BY <1>1 DEF Rest
<1>3. WholeFiles' = [e \in Dnodes |-> [m \in Names |->
                       IF e = d /\ m = n THEN x ELSE WholeFiles[e][m]]]
  BY <1>2 DEF WholeFiles
<1>4. \A e \in Dnodes : WholeFiles[e] = [m \in Names |-> WholeFiles[e][m]]
  BY DEF WholeFiles
<1>5. [m \in Names |-> IF m = n THEN x ELSE WholeFiles[d][m]]
        = [WholeFiles[d] EXCEPT ![n] = x]
  BY <1>4
<1>6. DOMAIN WholeFiles = Dnodes
  BY DEF WholeFiles
<1>7. QED
  BY <1>3, <1>4, <1>5, <1>6

\* While a file is copied over itself or over nothing, its node holds what it
\* held: but an empty one is there as soon as it is opened.
LEMMA WholeFilesBegun ==
  ASSUME Calm, DfsTypeOK, FilesOk, NEW d \in Dnodes, NEW n \in Names,
         NEW x \in Contents, UploadBegun(d, n, x)
  PROVE  \/ WholeFiles' = WholeFiles
         \/ WholeFiles' = [WholeFiles EXCEPT ![d][n] = x]
<1>1. /\ Rest(d) /\ files[d][n] \in {None, x}
      /\ files'[d][n] = IF files[d][n] = x \/ SizeOf[x] = 0 THEN x ELSE Junk
      /\ \A m \in Names \ {n} : files'[d][m] = files[d][m]
  BY UploadBegins
<1>2. Junk # None /\ Junk # x
  BY JunkAssumption
<1>3. CASE files'[d][n] = x
  BY <1>1, <1>3, WholeFilesWritten
<1>4. ASSUME files'[d][n] # x, NEW e \in Dnodes, NEW m \in Names
      PROVE  (IF files'[e][m] = Junk THEN None ELSE files'[e][m])
               = IF files[e][m] = Junk THEN None ELSE files[e][m]
  BY <1>1, <1>2, <1>4 DEF Rest
<1>5. QED
  BY <1>3, <1>4 DEF WholeFiles

\* What a dnode's step is to the store: a file is put, asked for or fetched, or
\* nothing happens.
LEMMA DnodeStoreStep ==
  ASSUME Calm, StoreInv, NEW d \in Dnodes, Alone(d) \/ Asks(d) \/ Reads(d)
  PROVE  Store!Next \/ UNCHANGED Store!storeVars
<1> DEFINE Goal == Store!Next \/ UNCHANGED Store!storeVars
           n == job[d].name
           x == job[d].target
<1>1. DfsTypeOK /\ JobInv /\ FilesOk /\ NamesKnown /\ NamesLead
  BY NamesLeadToFiles DEF StoreInv, DInv, CalmInv
<1>2. UNCHANGED <<fname_map, file_metadata_map>> /\ Published' = Published
  BY AloneAtHub, TalkAtHub DEF vars, tables, Published
<1>3. Rest(d)
  BY <1>1, StepsOfOne
<1>4. ASSUME NEW v, Awaited'[d] = v
      PROVE  Awaited' = [Awaited EXCEPT ![d] = v]
  BY <1>3, <1>4 DEF Awaited, Rest
<1>5. ASSUME Awaited'[d] = Awaited[d]
      PROVE  Awaited' = Awaited
  BY <1>3, <1>5 DEF Awaited, Rest
<1>6. CASE Copied(d) \/ WriteFile(d)
  <2>1. /\ IsFile(n, x) /\ n \in Names /\ x \in Contents
        /\ UNCHANGED job /\ files'[d][n] = x
        /\ \A m \in Names \ {n} : files'[d][m] = files[d][m]
        /\ \/ phase[d] = "copying" /\ phase'[d] = "copied"
           \/ phase[d] = "fetching" /\ phase'[d] = "fetched"
    BY <1>1, <1>6, FileWritten
  <2>2. WholeFiles' = [WholeFiles EXCEPT ![d][n] = x]
    <3> HIDE DEF n, x
    <3>1. QED
      BY <1>3, <2>1, WholeFilesWritten
  <2>3. CASE phase[d] = "copying"
    <3>1. Awaited[d] = None /\ Awaited' = Awaited
      BY <1>5, <2>1, <2>3, AwaitedOf
    <3>2. Store!Put(d, n, x)
      BY <1>2, <2>1, <2>2, <3>1 DEF Store!Put, IsFile
    <3>3. QED
      BY <2>1, <3>2 DEF Store!Next
  <2>4. CASE phase[d] = "fetching"
    <3>1. Awaited[d] = n /\ Awaited' = [Awaited EXCEPT ![d] = None]
      BY <1>4, <2>1, <2>4, AwaitedOf
    <3>2. n # None
      BY <2>1, NoneAssumption
    <3>3. Published[n] = x
      <4>1. IsFile(n, Published[n])
        BY <1>1, <2>4 DEF NamesKnown, NamesLead
      <4>2. QED
        BY <2>1, <4>1, OneFile
    <3>4. Store!Fetch(d)
      BY <1>2, <2>2, <3>1, <3>2, <3>3 DEF Store!Fetch
    <3>5. QED
      BY <3>4 DEF Store!Next
  <2>5. QED
    BY <2>1, <2>3, <2>4
<1>7. ASSUME NEW m \in Names, DownloadSent(d, m)
      PROVE  Goal
  <2>1. /\ m \in DOMAIN fname_map /\ UNCHANGED files
        /\ phase[d] = "ready" /\ phase'[d] = "asking" /\ job'[d].name = m
    BY <1>1, <1>7 DEF DownloadSent, Goto, NoJob, DfsTypeOK
  <2>2. Awaited[d] = None /\ Awaited' = [Awaited EXCEPT ![d] = m]
    BY <1>4, <2>1, AwaitedOf
  <2>3. Published[m] # None
    BY <1>1, <2>1, NoneAssumption DEF NamesLead
  <2>4. WholeFiles' = WholeFiles
    BY <2>1 DEF WholeFiles
  <2>5. Store!Ask(d, m)
    BY <1>2, <2>2, <2>3, <2>4 DEF Store!Ask
  <2>6. QED
    BY <2>5 DEF Store!Next
<1>8. ASSUME NEW m \in Names, NEW y \in Contents, UploadBegun(d, m, y)
      PROVE  Goal
  <2>1. \/ WholeFiles' = WholeFiles
        \/ WholeFiles' = [WholeFiles EXCEPT ![d][m] = y]
    BY <1>1, <1>8, WholeFilesBegun
  <2>2. phase[d] = "ready" /\ phase'[d] = "copying" /\ IsFile(m, y)
    BY <1>1, <1>8, UploadBegins DEF UploadBegun
  <2>3. Awaited[d] = None /\ Awaited' = Awaited
    BY <1>5, <2>2, AwaitedOf
  <2>4. CASE WholeFiles' = WholeFiles
    BY <1>2, <2>3, <2>4 DEF Store!storeVars
  <2>5. CASE WholeFiles' = [WholeFiles EXCEPT ![d][m] = y]
    <3>1. Store!Put(d, m, y)
      BY <1>2, <2>2, <2>3, <2>5 DEF Store!Put, IsFile
    <3>2. QED
      BY <3>1 DEF Store!Next
  <2>6. QED
    BY <2>1, <2>4, <2>5
<1>9. CASE \/ FirstStart(d) \/ SaveUid(d) \/ Listen(d) \/ PartGot(d)
           \/ JoinSent(d) \/ UploadSent(d) \/ AckSent(d)
           \/ Joined(d) \/ GotReply(d)
  <2>1. UNCHANGED files
    BY <1>9 DEF FirstStart, StartUp, SaveUid, Listen, PartGot, GetPart, JoinSent,
                UploadSent, AckSent, Joined, GotReply
  <2>2. \/ phase[d] \notin {"asking", "fetching"}
           /\ phase'[d] \notin {"asking", "fetching"}
        \/ /\ phase[d] \in {"asking", "fetching"}
           /\ phase'[d] \in {"asking", "fetching"}
           /\ job'[d].name = job[d].name
    <3>1. CASE FirstStart(d) \/ SaveUid(d) \/ Joined(d)
      BY <1>1, <1>3, <3>1 DEF FirstStart, StartUp, SaveUid, Joined, Goto, DfsTypeOK
    <3>2. CASE JoinSent(d) \/ UploadSent(d) \/ AckSent(d)
      BY <1>1, <3>2 DEF JoinSent, UploadSent, AckSent, Goto, DfsTypeOK
    <3>3. CASE Listen(d) \/ PartGot(d)
      BY <1>1, <3>3 DEF Listen, PartGot, GetPart, DfsTypeOK, Jobs
    <3>4. CASE GotReply(d)
      BY <1>1, <3>4 DEF GotReply, Goto, DfsTypeOK, Jobs
    <3>5. QED
      BY <1>9, <3>1, <3>2, <3>3, <3>4
  <2>3. Awaited' = Awaited
    BY <1>5, <2>2, AwaitedOf
  <2>4. WholeFiles' = WholeFiles
    BY <2>1 DEF WholeFiles
  <2>5. QED
    BY <1>2, <2>3, <2>4 DEF Store!storeVars
<1>10. QED
  BY <1>6, <1>7, <1>8, <1>9 DEF Alone, Asks, Reads

\* The hub publishes a file when it takes the header of its upload, and does
\* nothing else to the store.
LEMMA HubStoreStep ==
  ASSUME Calm, StoreInv, NamesLead', TablesKept, HubActs
  PROVE  Store!Next \/ UNCHANGED Store!storeVars
<1>1. /\ HubTypeOK /\ RequestsGenuine /\ RequestsOk /\ NamesLead
  BY NamesLeadToFiles DEF StoreInv, IInv, CalmInv
<1>2. WholeFiles' = WholeFiles /\ Awaited' = Awaited
  BY DEF HubActs, dnodeVars, WholeFiles, Awaited
<1>3. CASE DOMAIN fname_map' = DOMAIN fname_map
  BY <1>1, <1>2, <1>3, PublishedStays DEF Store!storeVars
<1>4. CASE HandleUploadHeader /\ DOMAIN fname_map' # DOMAIN fname_map
  <2> DEFINE n == serving.name
             x == serving.content
  <2>1. /\ n \notin DOMAIN fname_map /\ fname_map' = Put(fname_map, n, serving.hash)
        /\ file_metadata_map' = Put(file_metadata_map, serving.hash, x)
    BY <1>4 DEF HandleUploadHeader, Bound
  <2>2. /\ n \in Names /\ x \in Contents /\ serving.hash = HashOf[x]
        /\ RequestOk(serving) /\ serving.cmd = "FILE_UPLOAD"
    <3>1. Genuine(serving) /\ serving.cmd = "FILE_UPLOAD" /\ dnode_thread = "maps"
      BY <1>1, <1>4 DEF HandleUploadHeader, Serve, RequestsGenuine
    <3>2. RequestOk(serving)
      BY <1>1, <3>1, OpenRequests DEF RequestsOk, IsRequest, Positions, At
    <3>3. QED
      BY <3>1, <3>2 DEF Genuine
  <2>3. IsFile(n, x) /\ IsSource(serving.uid, HashOf[x])
    BY <2>2 DEF RequestOk
  <2>4. PICK d \in Dnodes : Offers(d, HashOf[x])
    BY <1>1, <2>3 DEF IsSource, HubTypeOK, IsTable, Dnodes
  <2>5. files[d][n] = x
    BY <2>3, <2>4, OneFile DEF Offers
  <2>6. WholeFiles[d][n] = x
    BY <2>2, <2>5, JunkAssumption DEF WholeFiles
  <2>7. Published[n] = None /\ x # None
    BY <2>1, <2>2, NoneAssumption DEF Published
  <2>8. Published' = [Published EXCEPT ![n] = x]
    <3>1. Published'[n] = x
      BY <2>1, <2>2 DEF Published, Put
    <3>2. ASSUME NEW m \in Names, m # n
          PROVE  Published'[m] = Published[m]
      <4>1. CASE m \in DOMAIN fname_map
        BY <1>1, <4>1, PublishedStays
      <4>2. CASE m \notin DOMAIN fname_map
        BY <2>1, <3>2, <4>2 DEF Published, Put
      <4>3. QED
        BY <4>1, <4>2
    <3>3. QED
      BY <3>1, <3>2 DEF Published
  <2>9. Store!Publish(n)
    BY <1>2, <2>6, <2>7, <2>8 DEF Store!Publish
  <2>10. QED
    BY <2>2, <2>9 DEF Store!Next
<1>5. CASE ~HandleUploadHeader
  <2>1. UNCHANGED fname_map
    BY <1>5 DEF HubActs, Accept, HandleNewNodeJoin, HandleUploadIndex,
                HandleFileDownload, HandleFileDownloadedAck, tables
  <2>2. QED
    BY <1>3, <2>1
<1>6. QED
  BY <1>3, <1>4, <1>5

\* A name that is waited for stays one that the hub knows.
LEMMA NamesKnownStep ==
  ASSUME Calm, StoreInv, TablesKept,
         \/ \E d \in Dnodes : Alone(d) \/ Asks(d) \/ Reads(d)
         \/ HubActs
         \/ UNCHANGED <<vars, dnodeVars>>
  PROVE  NamesKnown'
<1>1. DfsTypeOK /\ JobInv /\ FilesOk /\ NamesKnown
  BY DEF StoreInv, DInv, CalmInv
<1>2. ASSUME NEW e \in Dnodes, phase'[e] \in {"asking", "fetching"},
             phase[e] \in {"asking", "fetching"} /\ job'[e].name = job[e].name
      PROVE  job'[e].name \in DOMAIN fname_map'
  BY <1>1, <1>2 DEF NamesKnown, TablesKept
<1>3. ASSUME NEW d \in Dnodes, Alone(d) \/ Asks(d) \/ Reads(d),
             phase'[d] \in {"asking", "fetching"}
      PROVE  job'[d].name \in DOMAIN fname_map'
  <2>1. ASSUME NEW m \in Names, DownloadSent(d, m)
        PROVE  job'[d].name \in DOMAIN fname_map'
    <3>1. m \in DOMAIN fname_map /\ job'[d].name = m
      BY <1>1, <2>1 DEF DownloadSent, NoJob, DfsTypeOK
    <3>2. QED
      BY <3>1 DEF TablesKept
  <2>2. CASE Listen(d) \/ PartGot(d) \/ GotReply(d)
    <3>1. phase[d] \in {"asking", "fetching"} /\ job'[d].name = job[d].name
      BY <1>1, <1>3, <2>2
      DEF Listen, PartGot, GetPart, GotReply, Goto, DfsTypeOK, Jobs
    <3>2. QED
      BY <1>2, <1>3, <3>1
  <2>3. CASE FirstStart(d) \/ SaveUid(d) \/ Joined(d) \/ JoinSent(d)
               \/ UploadSent(d) \/ AckSent(d)
    BY <1>1, <1>3, <2>3
    DEF FirstStart, StartUp, SaveUid, Joined, JoinSent, UploadSent, AckSent, Goto,
        DfsTypeOK
  <2>4. CASE Copied(d) \/ WriteFile(d)
    BY <1>1, <1>3, <2>4, FileWritten
  <2>5. ASSUME NEW m \in Names, NEW y \in Contents, UploadBegun(d, m, y)
        PROVE  FALSE
    BY <1>1, <1>3, <2>5, UploadBegins
  <2>6. QED
    BY <1>3, <2>1, <2>2, <2>3, <2>4, <2>5 DEF Alone, Asks, Reads
<1>4. ASSUME NEW d \in Dnodes, Alone(d) \/ Asks(d) \/ Reads(d)
      PROVE  NamesKnown'
  <2>1. Rest(d)
    BY <1>1, <1>4, StepsOfOne
  <2>2. QED
    BY <1>2, <1>3, <1>4, <2>1 DEF NamesKnown, Rest
<1>5. CASE HubActs \/ UNCHANGED <<vars, dnodeVars>>
  BY <1>1, <1>5 DEF HubActs, dnodeVars, NamesKnown, TablesKept
<1>6. QED
  BY <1>4, <1>5

-----------------------------------------------------------------------------
(* The theorem.                                                            *)

\* As long as nothing fails and files are shorter than the buffer of a download,
\* dnodes and hub are one store of files: what is fetched under a name, at whatever dnode and time, is the one file that was
\* published under it (rpc_server.cpp:60-143, 497-573;
\* dnode_req_server.cpp:112-237).
THEOREM DfsImplementsStore ==
  ASSUME Calm
  PROVE  DfsSpec => ServesAsStore
<1>1. DfsInit => NamesKnown
  BY DEF DfsInit, NamesKnown
<1>2. DfsInit => Store!Init
  <2> SUFFICES ASSUME DfsInit
               PROVE  Store!Init
    OBVIOUS
  <2>1. Published = [n \in Names |-> None]
    BY DEF DfsInit, HubInit, EmptyTable, Published
  <2>2. WholeFiles = [d \in Dnodes |-> [n \in Names |-> None]]
    BY JunkAssumption DEF DfsInit, WholeFiles
  <2>3. Awaited = [d \in Dnodes |-> None]
    BY DEF DfsInit, Awaited
  <2>4. QED
    BY <2>1, <2>2, <2>3 DEF Store!Init
<1>3. StoreInv /\ [DfsNext]_allVars => TablesKept /\ NamesKnown'
  BY CalmSteps, KeptStep, NamesKnownStep DEF StoreInv, Kept
<1>4. IInv /\ CalmInv => NamesLead
  BY NamesLeadToFiles
<1>5. StoreInv /\ NamesLead' /\ [DfsNext]_allVars => [Store!Next]_(Store!storeVars)
  <2> SUFFICES ASSUME StoreInv, NamesLead', [DfsNext]_allVars
               PROVE  Store!Next \/ UNCHANGED Store!storeVars
    OBVIOUS
  <2>1. \/ \E d \in Dnodes : Alone(d) \/ Asks(d) \/ Reads(d)
        \/ HubActs
        \/ UNCHANGED <<vars, dnodeVars>>
    BY CalmSteps DEF StoreInv
  <2>2. CASE UNCHANGED <<vars, dnodeVars>>
    BY <2>2 DEF vars, tables, dnodeVars, Store!storeVars, Published, WholeFiles,
                Awaited
  <2>3. QED
    BY <1>3, <2>1, <2>2, DnodeStoreStep, HubStoreStep
<1>6. DfsSpec => []NamesKnown
  BY <1>1, <1>3, DfsInvHolds, CalmInvHolds, PTL DEF DfsSpec, StoreInv
<1>7. QED
  BY <1>2, <1>4, <1>5, <1>6, DfsInvHolds, CalmInvHolds, PTL
  DEF DfsSpec, StoreInv, ServesAsStore, Store!Spec
=============================================================================
