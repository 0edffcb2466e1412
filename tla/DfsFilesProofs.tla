--------------------------- MODULE DfsFilesProofs ---------------------------
(***************************************************************************)
(* What Dfs guarantees of files, for any number of dnodes and files, as    *)
(* long as nothing fails: no process dies, nobody uses a dnode before its  *)
(* data server listens or asks for a name that was never uploaded, no two  *)
(* dnodes join within a second, no two files share a name or a hash, and   *)
(* every file is shorter than the buffer of a download: one that fills the *)
(* buffer is written without a byte, and of a longer one the rest is never *)
(* fetched (rpc_server.cpp:426, 432), but both are acknowledged.           *)
(***************************************************************************)
EXTENDS DfsProofs

FilesFitBuffer == \A u \in Uploads : SizeOf[u[2]] < BufferSize

Calm ==
  /\ ~MayVanish /\ ~MayHubDie
  /\ ~EarlyUse /\ ~AskUnknown /\ ~SameSecond
  /\ FilesFitBuffer
  /\ \A u, v \in Uploads : u[1] = v[1] \/ HashOf[u[2]] = HashOf[v[2]] => u = v

-----------------------------------------------------------------------------
(* The inductive invariant.                                                *)

\* What is a file is known from Uploads: n is the only name of x.
IsFile(n, x) == <<n, x>> \in Uploads

\* Dnode d serves the file with hash h.
Offers(d, h) ==
  /\ d \in listening
  /\ \E n \in Names, x \in Contents :
       IsFile(n, x) /\ HashOf[x] = h /\ files[d][n] = x

\* The hub knows the dnode with uid u, and that dnode serves the file.
IsSource(u, h) == u \in DOMAIN dnodes_map /\ Offers(dnodes_map[u], h)
IsUidOf(u, d) == u \in DOMAIN dnodes_map /\ dnodes_map[u] = d

\* A request that waits or is served.
IsRequest(i) == i \in Positions /\ (i = 0 => dnode_thread # "accept")

\* Nothing has gone wrong: the hub is up, and every dnode starts once and for
\* all, as one that has no uid yet.
Good == {"off", "join", "joining", "joined", "ready", "copying", "copied",
         "asking", "fetching", "fetched"}
NothingFailed ==
  /\ process = "up" /\ dnode_thread # "stuck"
  /\ \A d \in Dnodes :
       /\ phase[d] \in Good /\ conn[d] # "broken"
       /\ phase[d] = "off" => uid_file[d] = None
       /\ phase[d] \in {"copying", "copied", "asking", "fetching", "fetched"} =>
            d \in listening

\* The hub has the address of every dnode that has its uid.
DnodesKnown ==
  /\ DOMAIN dnodes_map \subseteq issued
  /\ \A d \in Dnodes :
       /\ phase[d] \notin {"off", "join", "joining"} => IsUidOf(uid[d], d)
       /\ JoinReply(d) => IsUidOf(reply[d].uid, d)

\* A dnode's files are files, but for the one it copies.
DiskOk(d) ==
  \A n \in Names : \/ files[d][n] = None
                   \/ IsFile(n, files[d][n])
                   \/ phase[d] = "copying" /\ job[d].name = n
WorkOk(d) ==
  /\ phase[d] \in {"copying", "copied", "fetching"} =>
       IsFile(job[d].name, job[d].target)
  /\ phase[d] = "copying" => job[d].got = <<job[d].target>>
  /\ phase[d] = "copied" => files[d][job[d].name] = job[d].target
  /\ phase[d] = "asking" =>
       job[d].name \in DOMAIN fname_map /\ job[d].next = 1 /\ job[d].got = <<>>
  /\ phase[d] = "fetching" =>
       /\ HashOf[job[d].target] = job[d].hash
       /\ job[d].next = 1 /\ job[d].sources # <<>>
       /\ \A i \in DOMAIN job[d].sources : Offers(job[d].sources[i], job[d].hash)
       /\ \A i \in DOMAIN job[d].got : job[d].got[i] = job[d].target
  /\ phase[d] = "fetched" =>
       /\ IsFile(job[d].name, files[d][job[d].name])
       /\ HashOf[files[d][job[d].name]] = job[d].hash
FilesOk == \A d \in Dnodes : DiskOk(d) /\ WorkOk(d)

\* What is on the way to the hub, or served, is true.
RequestOk(r) ==
  /\ r.cmd # "NODE_HELLO" /\ r.sent = "all"
  /\ r.cmd = "FILE_UPLOAD" => IsFile(r.name, r.content)
  /\ r.cmd \in {"FILE_UPLOAD", "FILE_DOWNLOADED_ACK"} => IsSource(r.uid, r.hash)
  /\ r.cmd = "FILE_DOWNLOAD" => r.open /\ r.name = job[r.client].name
RequestsOk == \A i \in Positions : IsRequest(i) => RequestOk(At(i))

\* And so is what the hub has stored, and what it replies.
TablesOk ==
  /\ \A n \in DOMAIN fname_map :
       \E x \in Contents : IsFile(n, x) /\ HashOf[x] = fname_map[n]
  /\ \A h \in DOMAIN file_metadata_map :
       \E n \in Names : IsFile(n, file_metadata_map[h])
  /\ \A h \in DOMAIN fhash_map :
       \A i \in DOMAIN fhash_map[h] : IsSource(fhash_map[h][i], h)
ReplyOk(d) ==
  conn[d] = "answered" /\ phase[d] = "asking" =>
    /\ IsFile(job[d].name, reply[d].metadata)
    /\ HashOf[reply[d].metadata] = reply[d].hash
    /\ reply[d].sources # <<>>
    /\ \A i \in DOMAIN reply[d].sources :
         Offers(reply[d].sources[i], reply[d].hash)
RepliesOk == \A d \in Dnodes : ReplyOk(d)

CalmInv ==
  /\ NothingFailed /\ DnodesKnown /\ FilesOk
  /\ RequestsOk /\ TablesOk /\ RepliesOk

-----------------------------------------------------------------------------
(* What happens when nothing fails.                                        *)

\* The requests that a dnode sends and what it does when it sends them.
JoinSent(d) ==
  /\ Arrive(JoinRequest(d)) /\ Goto(d, "join", "joining")
  /\ UNCHANGED <<listening, uid, uid_file, files, job>>
UploadSent(d) ==
  /\ Arrive(UploadRequest(d, uid[d], job[d].name, job[d].target))
  /\ Goto(d, "copied", "ready")
  /\ job' = [job EXCEPT ![d] = NoJob]
  /\ UNCHANGED <<listening, uid, uid_file, files>>
DownloadSent(d, n) ==
  /\ d \in listening /\ n \in DOMAIN fname_map
  /\ Arrive(DownloadRequest(d, n)) /\ Goto(d, "ready", "asking")
  /\ job' = [job EXCEPT ![d] = [NoJob EXCEPT !.name = n]]
  /\ UNCHANGED <<listening, uid, uid_file, files>>
AckSent(d) ==
  /\ Arrive(AckOf(d)) /\ Goto(d, "fetched", "ready")
  /\ job' = [job EXCEPT ![d] = NoJob]
  /\ UNCHANGED <<listening, uid, uid_file, files>>

\* What a dnode does on its own.
FirstStart(d) == StartUp(d) /\ phase'[d] = "join"
UploadBegun(d, n, x) == Upload(d, n, x) /\ IsFile(n, x) /\ d \in listening
PartGot(d) == Fetching(d) /\ GetPart(d, job[d].target)
Alone(d) ==
  \/ FirstStart(d) \/ SaveUid(d) \/ Listen(d)
  \/ \E n \in Names, x \in Contents : UploadBegun(d, n, x)
  \/ Copied(d) \/ PartGot(d) \/ WriteFile(d)
Asks(d) ==
  \/ JoinSent(d) \/ UploadSent(d) \/ AckSent(d)
  \/ \E n \in Names : DownloadSent(d, n)
Reads(d) == Joined(d) \/ GotReply(d)

\* What the hub does.
HubActs ==
  /\ UNCHANGED dnodeVars
  /\ \/ Accept /\ dnode_thread' = "maps"
     \/ HandleNewNodeJoin \/ HandleUploadHeader
     \/ HandleUploadIndex /\ serving.sent = "all"
     \/ HandleFileDownload \/ HandleFileDownloadedAck

\* Nobody dies, so what is sent is sent whole.
LEMMA SendWhole ==
  ASSUME Calm, NEW d, NEW from, NEW r, NEW to, Send(d, from, r, to)
  PROVE  Arrive(r) /\ Goto(d, from, to) /\ UNCHANGED <<listening, uid>>
BY DEF Calm, Send, CutShort

\* A source sends the file that was asked for.
LEMMA SourceSendsFile ==
  ASSUME Calm, DfsTypeOK, FilesOk, NEW d \in Dnodes, phase[d] = "fetching"
  PROVE  /\ SourceLeft(d) /\ Source(d) \in listening
         /\ files[Source(d)][job[d].name] = job[d].target
         /\ LongEnough(job[d].target, job[d].target)
<1>1. /\ IsFile(job[d].name, job[d].target) /\ HashOf[job[d].target] = job[d].hash
      /\ job[d].next = 1 /\ job[d].sources # <<>>
      /\ \A i \in DOMAIN job[d].sources : Offers(job[d].sources[i], job[d].hash)
  BY DEF FilesOk, WorkOk
<1>2. job[d].sources \in Seq(Dnodes)
  BY DEF DfsTypeOK, Jobs
<1>3. /\ 1 \in DOMAIN job[d].sources /\ SourceLeft(d)
      /\ Source(d) = job[d].sources[1]
  BY <1>1, <1>2, LenProperties, EmptySeq DEF SourceLeft, Source
<1>4. Offers(Source(d), job[d].hash)
  BY <1>1, <1>3
<1>5. PICK n \in Names, x \in Contents :
        /\ IsFile(n, x) /\ HashOf[x] = job[d].hash
        /\ files[Source(d)][n] = x
  BY <1>4 DEF Offers
<1>6. n = job[d].name /\ x = job[d].target
  BY <1>1, <1>5 DEF Calm, IsFile
<1>7. SizeOf[x] \in Nat
  BY JunkAssumption
<1>8. QED
  BY <1>3, <1>4, <1>5, <1>6, <1>7 DEF Offers, LongEnough

\* A dnode that starts, starts for the first time, and nothing goes wrong at it.
LEMMA CalmStart ==
  ASSUME Calm, DfsTypeOK, NothingFailed, NEW d \in Dnodes,
         \/ StartUp(d) \/ SendJoin(d) \/ Joined(d) \/ JoinFails(d)
         \/ SaveUid(d) \/ SendHello(d) \/ Greeted(d) \/ StartHangs(d)
         \/ Listen(d)
  PROVE  Alone(d) \/ Asks(d) \/ Reads(d)
<1>1. process = "up" /\ phase[d] \in Good /\ conn[d] # "broken"
  BY DEF NothingFailed
<1>2. CASE StartUp(d)
  <2>1. uid_file[d] = None
    BY <1>2 DEF StartUp, NothingFailed
  <2>2. InitialUid(d) = {0}
    BY <2>1 DEF InitialUid
  <2>3. phase'[d] = "join"
    BY <1>2, <2>2 DEF StartUp, DfsTypeOK
  <2>4. QED
    BY <1>2, <2>3 DEF FirstStart, Alone
<1>3. CASE SendJoin(d)
  BY <1>3, SendWhole DEF SendJoin, JoinSent, Asks
<1>4. CASE JoinFails(d) \/ Greeted(d) \/ SendHello(d) \/ StartHangs(d)
  BY <1>1, <1>4
  DEF JoinFails, Greeted, SendHello, StartHangs, HubIsDown, Send, Goto, Good
<1>5. QED
  BY <1>2, <1>3, <1>4 DEF Alone, Reads

\* An upload finds the hub up and announces the file.
LEMMA CalmUpload ==
  ASSUME Calm, NothingFailed, NEW d \in Dnodes, Copied(d) \/ Announce(d)
  PROVE  Alone(d) \/ Asks(d)
<1>1. CASE Announce(d)
  <2>1. Send(d, "copied", UploadRequest(d, uid[d], job[d].name, job[d].target),
             "ready")
    BY <1>1 DEF Announce, HubIsDown, NothingFailed
  <2>2. QED
    BY <1>1, <2>1, SendWhole DEF Announce, UploadSent, Asks
<1>2. QED
  BY <1>1 DEF Alone

\* A download gets its reply and every part, and is acknowledged.
LEMMA CalmDownload ==
  ASSUME Calm, DfsTypeOK, NothingFailed, FilesOk, NEW d \in Dnodes,
         \/ GotReply(d) \/ NoReplyComes(d) \/ Misled(d)
         \/ FetchPart(d) \/ FetchBroken(d) \/ FetchRefused(d)
         \/ FetchNothing(d) \/ WriteFile(d) \/ Acknowledge(d)
  PROVE  Alone(d) \/ Asks(d) \/ Reads(d)
<1>1. process = "up" /\ phase[d] \in Good /\ conn[d] # "broken"
  BY DEF NothingFailed
<1>2. CASE Acknowledge(d)
  <2>1. Send(d, "fetched", AckOf(d), "ready")
    BY <1>1, <1>2 DEF Acknowledge, HubIsDown
  <2>2. QED
    BY <1>2, <2>1, SendWhole DEF Acknowledge, AckSent, Asks
<1>3. CASE NoReplyComes(d) \/ Misled(d) \/ FetchBroken(d)
  BY <1>1, <1>3 DEF NoReplyComes, Misled, FetchBroken, Good, Calm
<1>4. CASE FetchPart(d)
  <2>1. phase[d] = "fetching"
    BY <1>4 DEF FetchPart, Fetching
  <2>2. /\ files[Source(d)][job[d].name] = job[d].target
        /\ LongEnough(job[d].target, job[d].target)
    BY <2>1, SourceSendsFile
  <2>3. PartGot(d)
    BY <1>4, <2>2 DEF FetchPart, PartGot
  <2>4. QED
    BY <2>3 DEF Alone
<1>5. CASE FetchRefused(d) \/ FetchNothing(d)
  <2>1. phase[d] = "fetching"
    BY <1>5 DEF FetchRefused, FetchNothing, Fetching
  <2>2. QED
    BY <1>5, <2>1, SourceSendsFile DEF FetchRefused, FetchNothing
<1>6. QED
  BY <1>2, <1>3, <1>4, <1>5 DEF Alone, Reads

\* Every request that is served or waits was sent whole, is no hello, and a
\* download among them can be answered.
LEMMA CalmHub ==
  ASSUME Calm, IInv, DInv, CalmInv, HubStep
  PROVE  HubActs
<1>1. /\ HubTypeOK /\ NamedFilesComplete /\ RepliesExpected /\ NothingFailed
      /\ FilesOk /\ RequestsOk /\ TablesOk /\ UNCHANGED dnodeVars
  BY DEF IInv, FilesInv, DInv, CalmInv, HubStep
<1>2. dnode_thread # "accept" => RequestOk(serving)
  BY <1>1, OpenRequests DEF RequestsOk, IsRequest, Positions, At
<1>3. CASE Accept
  <2>1. 1 \in Positions /\ serving' = At(1) /\ serving' = Head(backlog)
    BY <1>1, <1>3, AcceptPositions
  <2>2. RequestOk(At(1))
    BY <1>1, <2>1 DEF RequestsOk, IsRequest
  <2>3. IsWhole(Head(backlog))
    BY <2>1, <2>2 DEF RequestOk, IsWhole
  <2>4. QED
    BY <1>1, <1>3, <2>3 DEF HubActs, Accept
<1>4. CASE HandleNodeHello
  BY <1>2, <1>4 DEF HandleNodeHello, Serve, RequestOk
<1>5. CASE HandleUploadIndex
  BY <1>1, <1>2, <1>5 DEF HandleUploadIndex, RequestOk, HubActs
<1>6. CASE DownloadKills
  <2>1. /\ dnode_thread = "maps" /\ serving.cmd = "FILE_DOWNLOAD"
        /\ ~Answerable(serving.name) \/ ~serving.open
    BY <1>6 DEF DownloadKills
  <2>2. serving.open /\ serving.name = job[serving.client].name
    BY <1>2, <2>1 DEF RequestOk
  <2>3. serving.client \in Dnodes /\ phase[serving.client] = "asking"
    BY <1>1, <2>1, <2>2, OpenRequests DEF RepliesExpected, Positions, At, Awaits
  <2>4. serving.name \in DOMAIN fname_map
    BY <1>1, <2>2, <2>3 DEF FilesOk, WorkOk
  <2>5. Answerable(serving.name)
    BY <1>1, <2>4
    DEF Answerable, NamedFilesComplete, TablesOk, IsSource, Sources, Lookup
  <2>6. QED
    BY <2>1, <2>2, <2>5
<1>7. QED
  BY <1>1, <1>3, <1>4, <1>5, <1>6 DEF HubStep, DnodeThread, HubActs

\* When nothing fails, a step is one of these.
LEMMA CalmSteps ==
  ASSUME Calm, IInv, DInv, CalmInv, [DfsNext]_allVars
  PROVE  \/ \E d \in Dnodes : Alone(d) \/ Asks(d) \/ Reads(d)
         \/ HubActs
         \/ UNCHANGED <<vars, dnodeVars>>
<1> DEFINE Is(d) == Alone(d) \/ Asks(d) \/ Reads(d)
<1>1. DfsTypeOK /\ NothingFailed /\ FilesOk
  BY DEF DInv, CalmInv
<1>2. ASSUME NEW d \in Dnodes, Progress(d) \/ Listen(d)
      PROVE  Is(d)
  <2> HIDE DEF Is
  <2>1. \/ StartUp(d) \/ SendJoin(d) \/ Joined(d) \/ JoinFails(d)
        \/ SaveUid(d) \/ SendHello(d) \/ Greeted(d) \/ StartHangs(d)
        \/ Listen(d)
        => Is(d)
    BY <1>1, CalmStart DEF Is
  <2>2. Copied(d) \/ Announce(d) => Is(d)
    BY <1>1, CalmUpload DEF Is
  <2>3. \/ GotReply(d) \/ NoReplyComes(d) \/ Misled(d)
        \/ FetchPart(d) \/ FetchBroken(d) \/ FetchRefused(d)
        \/ FetchNothing(d) \/ WriteFile(d) \/ Acknowledge(d)
        => Is(d)
    BY <1>1, CalmDownload DEF Is
  <2>4. QED
    BY <1>2, <2>1, <2>2, <2>3, Zenon DEF Progress
<1>3. ASSUME NEW d \in Dnodes, User(d)
      PROVE  Is(d)
  <2>1. ASSUME d \in listening, NEW u \in Uploads, Upload(d, u[1], u[2])
        PROVE  Alone(d)
    <3>1. /\ u[1] \in Names /\ u[2] \in Contents /\ IsFile(u[1], u[2])
      BY UploadsAssumption DEF IsFile
    <3>2. UploadBegun(d, u[1], u[2])
      BY <2>1, <3>1 DEF UploadBegun
    <3>3. QED
      BY <3>1, <3>2 DEF Alone
  <2>2. ASSUME d \in listening, NEW n \in Names, Download(d, n)
        PROVE  Asks(d)
    <3>1. n \in DOMAIN fname_map
      BY <2>2 DEF Download, Calm
    <3>2. Send(d, "ready", DownloadRequest(d, n), "asking")
      BY <1>1, <2>2 DEF Download, HubIsDown, NothingFailed
    <3>3. DownloadSent(d, n)
      BY <2>2, <3>1, <3>2, SendWhole DEF Download, DownloadSent
    <3>4. QED
      BY <3>3 DEF Asks
  <2>3. StartUp(d) => Is(d)
    BY <1>1, CalmStart
  <2>4. QED
    BY <1>3, <2>1, <2>2, <2>3 DEF User, Calm
<1>4. CASE HubStep
  BY <1>4, CalmHub
<1>5. CASE \/ \E d \in Dnodes : Crash(d)
           \/ HubDies \/ HubRestarts
  BY <1>1, <1>5 DEF Crash, HubDies, HubRestarts, Restart, Calm, NothingFailed
<1>6. CASE Quiet \/ UNCHANGED allVars
  BY <1>6 DEF Quiet, allVars
<1> HIDE DEF Is
<1>7. QED
  BY <1>2, <1>3, <1>4, <1>5, <1>6, Zenon DEF DfsNext, Is

-----------------------------------------------------------------------------
(* What stays as it is.                                                    *)

\* Nothing changes at any dnode but d.
Rest(d) ==
  \A e \in Dnodes \ {d} :
    /\ phase'[e] = phase[e] /\ uid'[e] = uid[e] /\ uid_file'[e] = uid_file[e]
    /\ files'[e] = files[e] /\ job'[e] = job[e]
    /\ e \in listening' <=> e \in listening

\* No table and no disk loses anything.
FilesKept ==
  \A d \in Dnodes, n \in Names, x \in Contents :
    IsFile(n, x) /\ files[d][n] = x => files'[d][n] = x
TablesKept ==
  /\ \A u \in DOMAIN dnodes_map :
       u \in DOMAIN dnodes_map' /\ dnodes_map'[u] = dnodes_map[u]
  /\ \A n \in DOMAIN fname_map :
       n \in DOMAIN fname_map' /\ fname_map'[n] = fname_map[n]
Kept == listening \subseteq listening' /\ FilesKept /\ TablesKept

\* A name and a hash are those of one file.
LEMMA OneFile ==
  ASSUME Calm, NEW n, NEW x, IsFile(n, x), NEW m, NEW y, IsFile(m, y),
         n = m \/ HashOf[x] = HashOf[y]
  PROVE  n = m /\ x = y
BY DEF Calm, IsFile

\* A file that is written over is the same file.
LEMMA WrittenOver ==
  ASSUME Calm, DfsTypeOK, FilesOk, NEW d \in Dnodes, phase[d] # "copying",
         NEW n \in Names, NEW x \in Contents, IsFile(n, x)
  PROVE  /\ files[d][n] \in {None, x}
         /\ Overwritten(files[d][n], x, SizeOf[x]) = {x}
<1>1. files[d][n] \in {None, x}
  BY OneFile DEF FilesOk, DiskOk
<1>2. SizeOf[x] \in Nat /\ Junk # x /\ Junk # None
  BY JunkAssumption
<1>3. QED
  BY <1>1, <1>2 DEF Overwritten

\* What an upload begins with.
LEMMA UploadBegins ==
  ASSUME Calm, DfsTypeOK, FilesOk, NEW d \in Dnodes, NEW n \in Names,
         NEW x \in Contents, UploadBegun(d, n, x)
  PROVE  /\ phase[d] = "ready" /\ phase'[d] = "copying" /\ Rest(d)
         /\ job'[d].name = n /\ job'[d].target = x /\ job'[d].got = <<x>>
         /\ files[d][n] \in {None, x}
         /\ files'[d][n] = IF files[d][n] = x \/ SizeOf[x] = 0 THEN x ELSE Junk
         /\ \A m \in Names \ {n} : files'[d][m] = files[d][m]
<1>1. phase[d] = "ready" /\ IsFile(n, x)
  BY DEF UploadBegun, Upload, Goto
<1>2. files[d][n] \in {None, x} /\ Overwritten(files[d][n], x, SizeOf[x]) = {x}
  BY <1>1, WrittenOver
<1>3. /\ job' = [job EXCEPT ![d] = [NoJob EXCEPT !.name = n, !.target = x,
                                                 !.got = <<x>>]]
      /\ files' = [files EXCEPT ![d][n] = HalfWritten(files[d][n], x, x)]
  BY <1>2 DEF UploadBegun, Upload
<1>4. job'[d] = [NoJob EXCEPT !.name = n, !.target = x, !.got = <<x>>]
  BY <1>3 DEF DfsTypeOK
<1>5. job'[d].name = n /\ job'[d].target = x /\ job'[d].got = <<x>>
  BY <1>4 DEF NoJob
<1>6. phase'[d] = "copying" /\ Rest(d)
  BY <1>1, <1>3 DEF UploadBegun, Upload, Goto, Rest, DfsTypeOK
<1>7. /\ files'[d][n] = IF files[d][n] = x \/ SizeOf[x] = 0 THEN x ELSE Junk
      /\ \A m \in Names \ {n} : files'[d][m] = files[d][m]
  BY <1>3 DEF DfsTypeOK, HalfWritten
<1>8. QED
  BY <1>1, <1>2, <1>5, <1>6, <1>7

\* What has been copied, and what has been downloaded, is the file.
LEMMA FileWritten ==
  ASSUME Calm, DfsTypeOK, JobInv, FilesOk, NEW d \in Dnodes,
         Copied(d) \/ WriteFile(d)
  PROVE  /\ Rest(d) /\ UNCHANGED <<job, listening>>
         /\ IsFile(job[d].name, job[d].target)
         /\ job[d].name \in Names /\ job[d].target \in Contents
         /\ files'[d][job[d].name] = job[d].target
         /\ \A m \in Names \ {job[d].name} : files'[d][m] = files[d][m]
         /\ \/ phase[d] = "copying" /\ phase'[d] = "copied"
            \/ phase[d] = "fetching" /\ phase'[d] = "fetched"
<1> DEFINE n == job[d].name
           x == job[d].target
<1>1. phase[d] \in {"copying", "fetching"}
  BY DEF Copied, WriteFile, Goto
<1>2. IsFile(n, x) /\ n \in Names /\ x \in Contents
  BY <1>1 DEF FilesOk, WorkOk, JobInv, JobOf
<1>3. files' = [files EXCEPT ![d][n] = x]
  <2>1. CASE Copied(d)
    <3>1. job[d].got[1] = x
      BY <2>1 DEF Copied, Goto, FilesOk, WorkOk
    <3>2. QED
      BY <2>1, <3>1 DEF Copied
  <2>2. CASE WriteFile(d)
    <3>1. phase[d] = "fetching"
      BY <2>2 DEF WriteFile, Goto
    <3>2. AllFetched(job[d]) /\ Assembled(job[d]) = x
      BY <3>1 DEF AllFetched, Assembled, FilesOk, WorkOk
    <3>3. EndOffsets(job[d]) = {SizeOf[x]}
      <4>1. SizeOf[x] \in Nat /\ BufferSize \in Nat /\ SizeOf[x] < BufferSize
        BY <1>2, JunkAssumption DEF Calm, FilesFitBuffer, IsFile
      <4>2. SizeOf[x] % BufferSize = SizeOf[x]
        BY <4>1
      <4>3. QED
        BY <3>2, <4>1, <4>2 DEF EndOffsets
    <3>4. Overwritten(files[d][n], x, SizeOf[x]) = {x}
      <4> HIDE DEF n, x
      <4>1. QED
        BY <1>2, <3>1, WrittenOver
    <3>5. QED
      BY <2>2, <3>2, <3>3, <3>4 DEF WriteFile
  <2>3. QED
    BY <2>1, <2>2
<1>4. /\ files'[d][n] = x /\ \A m \in Names \ {n} : files'[d][m] = files[d][m]
      /\ \A e \in Dnodes \ {d} : files'[e] = files[e]
  BY <1>2, <1>3 DEF DfsTypeOK
<1>5. /\ UNCHANGED <<job, listening, uid, uid_file>>
      /\ \A e \in Dnodes \ {d} : phase'[e] = phase[e]
      /\ \/ phase[d] = "copying" /\ phase'[d] = "copied"
         \/ phase[d] = "fetching" /\ phase'[d] = "fetched"
  BY DEF Copied, WriteFile, Goto, DfsTypeOK
<1>6. QED
  BY <1>2, <1>4, <1>5 DEF Rest

\* What a dnode does leaves the others alone, and its disk unless it writes.
LEMMA StepsOfOne ==
  ASSUME Calm, DfsTypeOK, JobInv, FilesOk, NEW d \in Dnodes,
         Alone(d) \/ Asks(d) \/ Reads(d)
  PROVE  Rest(d) /\ listening \subseteq listening'
<1>1. CASE FirstStart(d) \/ SaveUid(d) \/ Listen(d) \/ PartGot(d)
  BY <1>1 DEF FirstStart, StartUp, SaveUid, Listen, PartGot, GetPart, Goto,
              Rest, DfsTypeOK
<1>2. ASSUME NEW n \in Names, NEW x \in Contents, UploadBegun(d, n, x)
      PROVE  Rest(d) /\ listening \subseteq listening'
  BY <1>2, UploadBegins DEF UploadBegun, Upload
<1>3. CASE Copied(d) \/ WriteFile(d)
  BY <1>3, FileWritten
<1>4. CASE Asks(d)
  BY <1>4 DEF Asks, JoinSent, UploadSent, DownloadSent, AckSent, Goto, Rest,
              DfsTypeOK
<1>5. CASE Reads(d)
  BY <1>5 DEF Reads, Joined, GotReply, Goto, Rest, DfsTypeOK
<1>6. QED
  BY <1>1, <1>2, <1>3, <1>4, <1>5 DEF Alone

\* No file is lost.
LEMMA FilesStay ==
  ASSUME Calm, DfsTypeOK, JobInv, FilesOk, NEW d \in Dnodes,
         Alone(d) \/ Asks(d) \/ Reads(d)
  PROVE  FilesKept
<1>1. Rest(d)
  BY StepsOfOne
<1>2. ASSUME NEW n \in Names, NEW x \in Contents, IsFile(n, x), files[d][n] = x
      PROVE  files'[d][n] = x
  <2>1. ASSUME NEW m \in Names, NEW y \in Contents, UploadBegun(d, m, y)
        PROVE  files'[d][n] = x
    <3>1. IsFile(m, y)
      BY <2>1 DEF UploadBegun
    <3>2. n = m => x = y
      BY <1>2, <3>1, OneFile
    <3>3. QED
      BY <1>2, <2>1, <3>2, UploadBegins
  <2>2. CASE Copied(d) \/ WriteFile(d)
    BY <1>2, <2>2, FileWritten, OneFile
  <2>3. CASE UNCHANGED files
    BY <1>2, <2>3
  <2>4. QED
    BY <2>1, <2>2, <2>3
    DEF Alone, FirstStart, StartUp, SaveUid, Listen, PartGot, GetPart,
        Asks, JoinSent, UploadSent, DownloadSent, AckSent, Reads, Joined,
        GotReply
<1>3. QED
  BY <1>1, <1>2 DEF Rest, FilesKept

\* A uid that is new is in no table.
LEMMA TablesStay ==
  ASSUME Calm, DnodesKnown, HubActs
  PROVE  TablesKept
<1>1. CASE HandleNewNodeJoin
  <2>1. PICK u \in FreshUids : dnodes_map' = Put(dnodes_map, u, serving.client)
    BY <1>1 DEF HandleNewNodeJoin
  <2>2. u \notin DOMAIN dnodes_map
    BY <2>1 DEF FreshUids, Calm, DnodesKnown
  <2>3. QED
    BY <1>1, <2>1, <2>2 DEF HandleNewNodeJoin, Put, TablesKept
<1>2. CASE HandleUploadHeader
  BY <1>2 DEF HandleUploadHeader, Bound, Put, TablesKept
<1>3. CASE \/ Accept \/ HandleUploadIndex \/ HandleFileDownload
           \/ HandleFileDownloadedAck
  BY <1>3 DEF Accept, HandleUploadIndex, HandleFileDownload,
              HandleFileDownloadedAck, tables, TablesKept
<1>4. QED
  BY <1>1, <1>2, <1>3 DEF HubActs

\* No step loses anything.
LEMMA KeptStep ==
  ASSUME Calm, DInv, CalmInv,
         \/ \E d \in Dnodes : Alone(d) \/ Asks(d) \/ Reads(d)
         \/ HubActs
         \/ UNCHANGED <<vars, dnodeVars>>
  PROVE  Kept
<1>1. DfsTypeOK /\ JobInv /\ FilesOk /\ DnodesKnown
  BY DEF DInv, CalmInv
<1>2. ASSUME NEW d \in Dnodes, Alone(d) \/ Asks(d) \/ Reads(d)
      PROVE  Kept
  <2>1. UNCHANGED <<dnodes_map, fname_map>>
    BY <1>2
    DEF Alone, FirstStart, StartUp, SaveUid, Listen, UploadBegun, Upload, Copied,
        PartGot, GetPart, WriteFile, Asks, JoinSent, UploadSent, DownloadSent,
        AckSent, Arrive, Reads, Joined, GotReply, Take, vars, tables
  <2>2. QED
    BY <1>1, <1>2, <2>1, FilesStay, StepsOfOne DEF Kept, TablesKept
<1>3. CASE HubActs
  BY <1>1, <1>3, TablesStay DEF HubActs, dnodeVars, Kept, FilesKept
<1>4. CASE UNCHANGED <<vars, dnodeVars>>
  BY <1>4 DEF vars, tables, dnodeVars, Kept, FilesKept, TablesKept
<1>5. QED
  BY <1>2, <1>3, <1>4

\* So what was true of files and sources is still true.
LEMMA StillTrue ==
  ASSUME HubTypeOK, Kept
  PROVE  /\ \A d \in Dnodes : \A h : Offers(d, h) => Offers(d, h)'
         /\ \A u, h : IsSource(u, h) => IsSource(u, h)'
         /\ \A u, d : IsUidOf(u, d) => IsUidOf(u, d)'
<1>1. ASSUME NEW d \in Dnodes, NEW h, Offers(d, h)
      PROVE  Offers(d, h)'
  BY <1>1 DEF Offers, Kept, FilesKept
<1>2. \A u \in DOMAIN dnodes_map :
        /\ dnodes_map[u] \in Dnodes
        /\ u \in DOMAIN dnodes_map' /\ dnodes_map'[u] = dnodes_map[u]
  BY DEF HubTypeOK, IsTable, Dnodes, Kept, TablesKept
<1>3. ASSUME NEW u, NEW h, IsSource(u, h)
      PROVE  IsSource(u, h)'
  <2>1. PICK d \in Dnodes : d = dnodes_map[u]
    BY <1>2, <1>3 DEF IsSource
  <2>2. Offers(d, h)'
    BY <1>1, <1>3, <2>1 DEF IsSource
  <2>3. QED
    BY <1>2, <1>3, <2>1, <2>2 DEF IsSource
<1>4. \A u, d : IsUidOf(u, d) => IsUidOf(u, d)'
  BY <1>2 DEF IsUidOf
<1>5. QED
  BY <1>1, <1>3, <1>4

-----------------------------------------------------------------------------
(* Nothing fails.                                                          *)

\* A dnode asks with a request that is filled in, and waits for a reply to a join
\* or a download.
LEMMA WhatIsAsked ==
  ASSUME DInv, CalmInv, NEW d \in Dnodes, Asks(d)
  PROVE  \E r \in Requests :
           /\ Arrive(r) /\ r.client = d /\ r.sent = "all"
           /\ \/ r.cmd = "NODE_JOIN" /\ JoinSent(d)
              \/ r.cmd = "FILE_UPLOAD" /\ UploadSent(d)
              \/ r.cmd = "FILE_DOWNLOAD" /\ DownloadSent(d, r.name)
              \/ r.cmd = "FILE_DOWNLOADED_ACK" /\ AckSent(d)
           /\ r.open <=> r.cmd \in {"NODE_JOIN", "FILE_DOWNLOAD"}
           /\ r.cmd = "FILE_UPLOAD" =>
                /\ r.uid = uid[d] /\ r.name = job[d].name
                /\ r.content = job[d].target /\ r.hash = HashOf[job[d].target]
           /\ r.cmd = "FILE_DOWNLOADED_ACK" =>
                r.uid = uid[d] /\ r.hash = job[d].hash
<1>1. DfsTypeOK /\ UidInv /\ JobInv /\ \A r \in WholeRequests : r \in Requests
  BY WholeRequestsGenuine DEF DInv, Genuine
<1> DEFINE Ok(r) ==
      /\ Arrive(r) /\ r.client = d /\ r.sent = "all"
      /\ \/ r.cmd = "NODE_JOIN" /\ JoinSent(d)
         \/ r.cmd = "FILE_UPLOAD" /\ UploadSent(d)
         \/ r.cmd = "FILE_DOWNLOAD" /\ DownloadSent(d, r.name)
         \/ r.cmd = "FILE_DOWNLOADED_ACK" /\ AckSent(d)
      /\ r.open <=> r.cmd \in {"NODE_JOIN", "FILE_DOWNLOAD"}
      /\ r.cmd = "FILE_UPLOAD" =>
           /\ r.uid = uid[d] /\ r.name = job[d].name
           /\ r.content = job[d].target /\ r.hash = HashOf[job[d].target]
      /\ r.cmd = "FILE_DOWNLOADED_ACK" =>
           r.uid = uid[d] /\ r.hash = job[d].hash
<1>2. CASE JoinSent(d)
  <2>1. JoinRequest(d) \in Requests
    BY <1>1, RequestsOfDnodes
  <2>2. Ok(JoinRequest(d))
    BY <1>2 DEF JoinSent, JoinRequest, Request, NoRequest
  <2>3. QED
    BY <2>1, <2>2
<1>3. CASE UploadSent(d)
  <2> DEFINE r == UploadRequest(d, uid[d], job[d].name, job[d].target)
  <2>1. phase[d] = "copied"
    BY <1>3 DEF UploadSent, Goto
  <2>2. uid[d] \in Uids /\ job[d].name \in Names /\ job[d].target \in Contents
    BY <1>1, <2>1 DEF UidInv, UidOf, JobInv, JobOf
  <2>3. r \in Requests
    BY <1>1, <2>2, RequestsOfDnodes
  <2>4. Ok(r)
    BY <1>3 DEF UploadSent, UploadRequest, Request, NoRequest
  <2>5. QED
    BY <2>3, <2>4
<1>4. ASSUME NEW n \in Names, DownloadSent(d, n)
      PROVE  \E r \in Requests : Ok(r)
  <2>1. DownloadRequest(d, n) \in Requests
    BY <1>1, RequestsOfDnodes
  <2>2. Ok(DownloadRequest(d, n))
    BY <1>4 DEF DownloadSent, DownloadRequest, Request, NoRequest
  <2>3. QED
    BY <2>1, <2>2
<1>5. CASE AckSent(d)
  <2> DEFINE r == AckRequest(d, uid[d], job[d].hash)
  <2>1. phase[d] = "fetched"
    BY <1>5 DEF AckSent, Goto
  <2>2. uid[d] \in Uids /\ job[d].hash \in Hashes
    BY <1>1, <2>1 DEF UidInv, UidOf, JobInv, JobOf
  <2>3. r \in Requests
    BY <1>1, <2>2, RequestsOfDnodes
  <2>4. Ok(r)
    BY <1>5 DEF AckSent, AckOf, AckRequest, Request, NoRequest
  <2>5. QED
    BY <2>3, <2>4
<1>6. QED
  BY <1>2, <1>3, <1>4, <1>5 DEF Asks

\* Steps of a dnode do not touch the hub but for its backlog, nor the connections
\* of others.  Where its own connection is, is seen from its phase.
LEMMA HubUntouched ==
  ASSUME HubTypeOK, DInv, CalmInv, NEW d \in Dnodes,
         Alone(d) \/ Asks(d) \/ Reads(d)
  PROVE  /\ UNCHANGED <<process, dnode_thread, serving, tables, issued>>
         /\ \A e \in Dnodes \ {d} : conn'[e] = conn[e] /\ reply'[e] = reply[e]
         /\ conn'[d] \in {conn[d], "waiting", "none"}
         /\ Alone(d) => UNCHANGED vars
         /\ Asks(d) /\ phase'[d] \in Waiting => conn'[d] = "waiting"
         /\ Reads(d) => UNCHANGED backlog
<1> USE DEF Waiting
<1>1. ASSUME Alone(d)
      PROVE  UNCHANGED vars
  BY <1>1 DEF Alone, FirstStart, StartUp, SaveUid, Listen, UploadBegun, Upload,
              Copied, PartGot, GetPart, WriteFile
<1>2. ASSUME Asks(d)
      PROVE  /\ UNCHANGED <<process, dnode_thread, serving, tables, issued>>
             /\ \A e \in Dnodes \ {d} : conn'[e] = conn[e] /\ reply'[e] = reply[e]
             /\ conn'[d] \in {conn[d], "waiting", "none"}
             /\ phase'[d] \in Waiting => conn'[d] = "waiting"
  <2>1. PICK r \in Requests :
          /\ Arrive(r) /\ r.client = d
          /\ \/ r.cmd = "NODE_JOIN" /\ JoinSent(d)
             \/ r.cmd = "FILE_UPLOAD" /\ UploadSent(d)
             \/ r.cmd = "FILE_DOWNLOAD" /\ DownloadSent(d, r.name)
             \/ r.cmd = "FILE_DOWNLOADED_ACK" /\ AckSent(d)
          /\ r.open <=> r.cmd \in {"NODE_JOIN", "FILE_DOWNLOAD"}
    BY <1>2, WhatIsAsked
  <2>2. phase'[d] \in Waiting => r.open
    BY <2>1 DEF UploadSent, AckSent, Goto, DInv, DfsTypeOK
  <2>3. QED
    BY <2>1, <2>2 DEF Arrive, HubTypeOK, Dnodes
<1>3. ASSUME Reads(d)
      PROVE  /\ UNCHANGED <<process, dnode_thread, serving, tables, issued>>
             /\ \A e \in Dnodes \ {d} : conn'[e] = conn[e] /\ reply'[e] = reply[e]
             /\ conn'[d] = "none" /\ UNCHANGED backlog
             /\ ~Alone(d) /\ ~Asks(d)
  <2>1. Take(d)
    BY <1>3 DEF Reads, Joined, GotReply
  <2>2. UNCHANGED backlog /\ conn'[d] = "none" /\ conn[d] # "none"
    BY <2>1 DEF Take, HubTypeOK, Dnodes
  <2>3. ~Alone(d)
    BY <1>1, <2>2 DEF vars, clientVars
  <2>4. ~Asks(d)
    BY <2>2, WhatIsAsked DEF Arrive
  <2>5. QED
    BY <2>1, <2>2, <2>3, <2>4 DEF Take, HubTypeOK, Dnodes
<1>4. QED
  BY <1>1, <1>2, <1>3 DEF vars, clientVars

\* Nothing goes wrong.
LEMMA NothingStep ==
  ASSUME Calm, IInv, DInv, CalmInv,
         \/ \E d \in Dnodes : Alone(d) \/ Asks(d) \/ Reads(d)
         \/ HubActs
         \/ UNCHANGED <<vars, dnodeVars>>
  PROVE  NothingFailed'
<1> DEFINE Fine(d) == /\ phase[d] \in Good /\ conn[d] # "broken"
                      /\ phase[d] = "off" => uid_file[d] = None
                      /\ phase[d] \in {"copying", "copied", "asking", "fetching",
                                       "fetched"} => d \in listening
<1>1. /\ HubTypeOK /\ DfsTypeOK /\ JobInv /\ FilesOk
      /\ process = "up" /\ dnode_thread # "stuck"
      /\ \A d \in Dnodes : Fine(d)
  BY DEF IInv, DInv, CalmInv, NothingFailed
<1>2. ASSUME NEW d \in Dnodes, Alone(d) \/ Asks(d) \/ Reads(d)
      PROVE  NothingFailed'
  <2>1. /\ UNCHANGED <<process, dnode_thread>>
        /\ \A e \in Dnodes \ {d} : conn'[e] = conn[e]
        /\ conn'[d] # "broken"
    BY <1>1, <1>2, HubUntouched
  <2>2. \A e \in Dnodes \ {d} : Fine(e)'
    <3>1. Rest(d)
      BY <1>1, <1>2, StepsOfOne
    <3>2. QED
      BY <1>1, <2>1, <3>1 DEF Rest
  <2>3. Fine(d)'
    <3>1. CASE Asks(d)
      BY <1>1, <2>1, <3>1
      DEF Asks, JoinSent, UploadSent, DownloadSent, AckSent, Goto, DfsTypeOK,
          Good
    <3>2. CASE Reads(d)
      BY <1>1, <2>1, <3>2
      DEF Reads, Joined, GotReply, Goto, DfsTypeOK, Good
    <3>3. CASE FirstStart(d) \/ SaveUid(d) \/ Listen(d) \/ PartGot(d)
      BY <1>1, <2>1, <3>3
      DEF FirstStart, StartUp, SaveUid, Listen, PartGot, GetPart, Goto,
          DfsTypeOK, Good
    <3>4. CASE Copied(d) \/ WriteFile(d)
      BY <1>1, <2>1, <3>4
      DEF Copied, WriteFile, Goto, DfsTypeOK, Good
    <3>5. ASSUME NEW n \in Names, NEW x \in Contents, UploadBegun(d, n, x)
          PROVE  Fine(d)'
      BY <1>1, <2>1, <3>5 DEF UploadBegun, Upload, Goto, DfsTypeOK, Good
    <3>6. QED
      BY <1>2, <3>1, <3>2, <3>3, <3>4, <3>5 DEF Alone
  <2>4. QED
    BY <1>1, <2>1, <2>2, <2>3 DEF NothingFailed
<1>3. CASE HubActs
  <2>1. \A d \in Dnodes : conn'[d] # "broken"
    <3>1. \/ UNCHANGED conn
          \/ \E r, answer : Answer(r, answer)
      BY <1>3
      DEF HubActs, Accept, HandleNewNodeJoin, HandleUploadHeader,
          HandleUploadIndex, HandleFileDownload, HandleFileDownloadedAck,
          clientVars
    <3>2. QED
      BY <1>1, <3>1 DEF Answer, HubTypeOK, Dnodes, clientVars
  <2>2. process' = "up" /\ dnode_thread' # "stuck"
    BY <1>1, <1>3
    DEF HubActs, Accept, HandleNewNodeJoin, HandleUploadHeader,
        HandleUploadIndex, HandleFileDownload, HandleFileDownloadedAck, Serve,
        Finish
  <2>3. UNCHANGED <<phase, uid_file, listening>>
    BY <1>3 DEF HubActs, dnodeVars
  <2>4. QED
    BY <1>1, <2>1, <2>2, <2>3 DEF NothingFailed
<1>4. CASE UNCHANGED <<vars, dnodeVars>>
  BY <1>4 DEF CalmInv, NothingFailed, vars, clientVars, dnodeVars
<1>5. QED
  BY <1>2, <1>3, <1>4

-----------------------------------------------------------------------------
(* The hub knows the dnodes.                                               *)

\* What a join adds to the hub: the address of the dnode, under a new uid that
\* the reply carries.
LEMMA JoinEffect ==
  ASSUME Calm, IInv, DInv, CalmInv, HandleNewNodeJoin
  PROVE  \E u \in Uids, c \in Dnodes :
           /\ issued' = issued \cup {u} /\ dnodes_map' = Put(dnodes_map, u, c)
           /\ serving.open => reply'[c].uid = u
           /\ \A d \in Dnodes : \/ d = c /\ serving.open
                                \/ conn'[d] = conn[d] /\ reply'[d] = reply[d]
           /\ serving.open => phase[c] = "joining"
<1>1. PICK u \in FreshUids :
        /\ dnodes_map' = Put(dnodes_map, u, serving.client)
        /\ issued' = issued \cup {u}
        /\ Answer(serving, [NoReply EXCEPT !.uid = u])
  BY DEF HandleNewNodeJoin
<1>2. u \in Uids /\ [NoReply EXCEPT !.uid = u].uid = u
  BY DEF FreshUids, NoReply
<1>3. /\ dnode_thread = "maps" /\ serving.cmd = "NODE_JOIN"
      /\ serving.client \in Dnodes
  BY DEF HandleNewNodeJoin, Serve, IInv, RequestsGenuine, Genuine, Requests,
         Dnodes
<1>4. serving.open => phase[serving.client] = "joining"
  BY <1>3 DEF DInv, RepliesExpected, Positions, At, Awaits, IInv, HubTypeOK
<1>5. /\ serving.open => reply'[serving.client].uid = u
      /\ \A d \in Dnodes : \/ d = serving.client /\ serving.open
                           \/ conn'[d] = conn[d] /\ reply'[d] = reply[d]
  <2>1. PICK answer : answer.uid = u /\ Answer(serving, answer)
    BY <1>1, <1>2
  <2>2. /\ conn \in [Dnodes -> {"none", "waiting", "answered", "broken"}]
        /\ reply \in [Dnodes -> Replies]
    BY DEF IInv, HubTypeOK, Dnodes
  <2>3. CASE serving.open
    BY <1>3, <2>1, <2>2, <2>3 DEF Answer
  <2>4. CASE ~serving.open
    BY <2>1, <2>4 DEF Answer, clientVars
  <2>5. QED
    BY <2>3, <2>4
<1>6. QED
  BY <1>1, <1>2, <1>3, <1>4, <1>5

\* A dnode's uid, also one that it has not read yet, leads to its address.
LEMMA KnownStep ==
  ASSUME Calm, IInv, DInv, CalmInv,
         \/ \E d \in Dnodes : Alone(d) \/ Asks(d) \/ Reads(d)
         \/ HubActs
         \/ UNCHANGED <<vars, dnodeVars>>
  PROVE  DnodesKnown'
<1> DEFINE Known(d) ==
      /\ phase[d] \notin {"off", "join", "joining"} => IsUidOf(uid[d], d)
      /\ JoinReply(d) => IsUidOf(reply[d].uid, d)
<1>1. /\ HubTypeOK /\ DfsTypeOK /\ JobInv /\ FilesOk
      /\ DOMAIN dnodes_map \subseteq issued /\ \A d \in Dnodes : Known(d)
  BY DEF IInv, DInv, CalmInv, DnodesKnown
<1>2. \A u, d : IsUidOf(u, d) => IsUidOf(u, d)'
  BY <1>1, KeptStep, StillTrue
<1>3. ASSUME NEW d \in Dnodes, Alone(d) \/ Asks(d) \/ Reads(d)
      PROVE  DnodesKnown'
  <2>1. /\ UNCHANGED <<dnodes_map, issued>> /\ Rest(d)
        /\ \A e \in Dnodes \ {d} : conn'[e] = conn[e] /\ reply'[e] = reply[e]
    BY <1>1, <1>3, HubUntouched, StepsOfOne DEF tables
  <2>2. \A e \in Dnodes \ {d} : Known(e)'
    BY <1>1, <2>1 DEF Rest, JoinReply, IsUidOf
  <2>3. Known(d)'
    <3>1. CASE Asks(d)
      <4>1. phase'[d] \in Waiting => conn'[d] = "waiting"
        BY <1>1, <3>1, HubUntouched
      <4>2. ~JoinReply(d)'
        BY <4>1 DEF JoinReply, Waiting
      <4>3. uid'[d] = uid[d]
        BY <3>1 DEF Asks, JoinSent, UploadSent, DownloadSent, AckSent
      <4>4. phase'[d] # "joining" => phase[d] \in {"copied", "ready", "fetched"}
        BY <1>1, <3>1
        DEF Asks, JoinSent, UploadSent, DownloadSent, AckSent, Goto, DfsTypeOK
      <4>5. QED
        BY <1>1, <2>1, <4>2, <4>3, <4>4 DEF IsUidOf
    <3>2. CASE Joined(d)
      BY <1>1, <2>1, <3>2 DEF Joined, Goto, JoinReply, IsUidOf, DfsTypeOK
    <3>3. CASE GotReply(d)
      BY <1>1, <2>1, <3>3 DEF GotReply, Goto, JoinReply, IsUidOf, DfsTypeOK
    <3>4. CASE FirstStart(d)
      BY <1>1, <3>4 DEF FirstStart, JoinReply
    <3>5. CASE Alone(d) /\ ~FirstStart(d)
      <4>1. UNCHANGED vars
        BY <1>1, <3>5, HubUntouched
      <4>2. /\ phase'[d] # "joining" \/ phase'[d] = phase[d]
            /\ \/ phase'[d] = phase[d]
               \/ phase[d] \notin {"off", "join", "joining"}
        BY <1>1, <3>5
        DEF Alone, SaveUid, Listen, UploadBegun, Upload, Copied, PartGot,
            GetPart, WriteFile, Goto, DfsTypeOK
      <4>3. uid'[d] = uid[d]
        BY <3>5
        DEF Alone, SaveUid, Listen, UploadBegun, Upload, Copied, PartGot,
            GetPart, WriteFile
      <4>4. QED
        BY <1>1, <4>1, <4>2, <4>3 DEF vars, clientVars, tables, JoinReply, IsUidOf
    <3>6. QED
      BY <1>3, <3>1, <3>2, <3>3, <3>4, <3>5 DEF Reads
  <2>4. QED
    BY <1>1, <2>1, <2>2, <2>3 DEF DnodesKnown
<1>4. CASE HubActs
  <2>1. UNCHANGED <<phase, uid>>
    BY <1>4 DEF HubActs, dnodeVars
  <2>2. CASE HandleNewNodeJoin
    <3>1. PICK u \in Uids, c \in Dnodes :
            /\ issued' = issued \cup {u} /\ dnodes_map' = Put(dnodes_map, u, c)
            /\ serving.open => reply'[c].uid = u
            /\ \A d \in Dnodes : \/ d = c /\ serving.open
                                 \/ conn'[d] = conn[d] /\ reply'[d] = reply[d]
      BY <2>2, JoinEffect
    <3>2. DOMAIN dnodes_map' \subseteq issued' /\ IsUidOf(u, c)'
      BY <1>1, <3>1 DEF Put, IsUidOf
    <3>3. ASSUME NEW d \in Dnodes
          PROVE  Known(d)'
      <4>1. phase'[d] \notin {"off", "join", "joining"} => IsUidOf(uid[d], d)'
        BY <1>1, <1>2, <2>1
      <4>2. JoinReply(d)' => IsUidOf(reply[d].uid, d)'
        BY <1>1, <1>2, <2>1, <3>1, <3>2 DEF JoinReply
      <4>3. QED
        BY <4>1, <4>2
    <3>4. QED
      BY <3>2, <3>3 DEF DnodesKnown
  <2>3. CASE ~HandleNewNodeJoin
    <3>1. UNCHANGED <<dnodes_map, issued>>
      BY <1>4, <2>3
      DEF HubActs, Accept, HandleUploadHeader, HandleUploadIndex,
          HandleFileDownload, HandleFileDownloadedAck, tables
    <3>2. \A d \in Dnodes : JoinReply(d)' => JoinReply(d) /\ reply'[d] = reply[d]
      <4>1. CASE HandleFileDownload
        <5>1. PICK answer : Answer(serving, answer)
          BY <4>1 DEF HandleFileDownload
        <5>2. serving.open => serving.client \in Dnodes
                                /\ phase[serving.client] = "asking"
          BY <1>1, <4>1, OpenRequests
          DEF DInv, RepliesExpected, Positions, At, Awaits, HandleFileDownload,
              Serve
        <5>3. QED
          BY <1>1, <2>1, <5>1, <5>2
          DEF Answer, JoinReply, HubTypeOK, Dnodes, clientVars
      <4>2. CASE ~HandleFileDownload
        <5>1. UNCHANGED clientVars
          BY <1>4, <2>3, <4>2
          DEF HubActs, Accept, HandleUploadHeader, HandleUploadIndex,
              HandleFileDownloadedAck
        <5>2. QED
          BY <2>1, <5>1 DEF clientVars, JoinReply
      <4>3. QED
        BY <4>1, <4>2
    <3>3. QED
      BY <1>1, <2>1, <3>1, <3>2 DEF DnodesKnown, IsUidOf
  <2>4. QED
    BY <2>2, <2>3
<1>5. CASE UNCHANGED <<vars, dnodeVars>>
  BY <1>5 DEF CalmInv, DnodesKnown, JoinReply, IsUidOf, vars, tables, clientVars,
              dnodeVars
<1>6. QED
  BY <1>3, <1>4, <1>5

-----------------------------------------------------------------------------
(* The files of dnodes.                                                    *)

\* A dnode that nothing happens to is as well off as before.
LEMMA SameFilesOk ==
  ASSUME HubTypeOK, DfsTypeOK, FilesOk, Kept, NEW d \in Dnodes,
         phase'[d] = phase[d], job'[d] = job[d], files'[d] = files[d]
  PROVE  DiskOk(d)' /\ WorkOk(d)'
<1>1. DiskOk(d) /\ WorkOk(d) /\ job[d].sources \in Seq(Dnodes)
  BY DEF FilesOk, DfsTypeOK, Jobs
<1>2. DiskOk(d)'
  BY <1>1 DEF DiskOk
<1>3. \A i \in DOMAIN job[d].sources : job[d].sources[i] \in Dnodes
  BY <1>1, LenProperties, ElementOfSeq
<1>4. ASSUME phase[d] = "fetching", NEW i \in DOMAIN job[d].sources
      PROVE  Offers(job[d].sources[i], job[d].hash)'
  <2>1. PICK e \in Dnodes : e = job[d].sources[i]
    BY <1>3
  <2>2. PICK h : h = job[d].hash
    OBVIOUS
  <2>3. Offers(e, h)
    BY <1>1, <1>4, <2>1, <2>2 DEF WorkOk
  <2>4. Offers(e, h)'
    BY <2>3, StillTrue
  <2>5. QED
    BY <2>1, <2>2, <2>4 DEF Offers
<1>5. CASE phase[d] = "fetching"
  BY <1>1, <1>2, <1>4, <1>5 DEF WorkOk
<1>6. CASE phase[d] # "fetching"
  BY <1>1, <1>2, <1>6 DEF WorkOk, Kept, TablesKept
<1>7. QED
  BY <1>5, <1>6

\* What it needs to be, to be as well off after a step of its own.
LEMMA WorksOn ==
  ASSUME HubTypeOK, DfsTypeOK, JobInv, CalmInv, Kept, NEW d \in Dnodes,
         Alone(d) \/ Asks(d) \/ Reads(d), Calm
  PROVE  DiskOk(d)' /\ WorkOk(d)'
<1>1. FilesOk /\ DiskOk(d) /\ WorkOk(d) /\ ReplyOk(d) /\ job[d] \in Jobs
  BY DEF CalmInv, FilesOk, RepliesOk, DfsTypeOK
<1>2. ASSUME NEW n \in Names, NEW x \in Contents, UploadBegun(d, n, x)
      PROVE  DiskOk(d)' /\ WorkOk(d)'
  <2>1. IsFile(n, x)
    BY <1>2 DEF UploadBegun
  <2>2. /\ phase[d] = "ready" /\ phase'[d] = "copying" /\ Rest(d)
        /\ job'[d].name = n /\ job'[d].target = x /\ job'[d].got = <<x>>
        /\ \A m \in Names \ {n} : files'[d][m] = files[d][m]
    BY <1>1, <1>2, UploadBegins
  <2>3. QED
    BY <1>1, <2>1, <2>2 DEF DiskOk, WorkOk
<1>3. CASE Copied(d) \/ WriteFile(d)
  <2> DEFINE n == job[d].name
             x == job[d].target
  <2>1. /\ UNCHANGED job
        /\ IsFile(n, x) /\ n \in Names /\ files'[d][n] = x
        /\ \A m \in Names \ {n} : files'[d][m] = files[d][m]
        /\ \/ phase[d] = "copying" /\ phase'[d] = "copied"
           \/ phase[d] = "fetching" /\ phase'[d] = "fetched"
    BY <1>1, <1>3, FileWritten
  <2>2. DiskOk(d)'
    BY <1>1, <2>1 DEF DiskOk
  <2>3. WorkOk(d)'
    BY <1>1, <2>1 DEF WorkOk
  <2>4. QED
    BY <2>2, <2>3
<1>4. CASE PartGot(d)
  <2>1. phase[d] = "fetching" /\ phase'[d] = "fetching" /\ files' = files
    BY <1>4 DEF PartGot, Fetching, GetPart
  <2>2. job'[d] = [job[d] EXCEPT !.got = Append(job[d].got, job[d].target)]
    BY <1>4, Zenon DEF PartGot, GetPart, DfsTypeOK
  <2>3. /\ job'[d].name = job[d].name /\ job'[d].target = job[d].target
        /\ job'[d].hash = job[d].hash /\ job'[d].sources = job[d].sources
        /\ job'[d].next = job[d].next
        /\ job'[d].got = Append(job[d].got, job[d].target)
    BY <1>1, <2>2 DEF Jobs
  <2>4. \A i \in DOMAIN job'[d].got : job'[d].got[i] = job[d].target
    <3>1. job[d].got \in Seq(Contents \cup {Junk})
            /\ job[d].target \in Contents \cup {Junk}
      BY <1>1, <2>1 DEF Jobs, JobInv, JobOf
    <3>2. \A i \in DOMAIN job[d].got : job[d].got[i] = job[d].target
      BY <1>1, <2>1 DEF WorkOk
    <3>3. QED
      BY <2>3, <3>1, <3>2, AppendProperties, LenProperties
  <2>5. UNCHANGED <<listening, files>>
    BY <1>4 DEF PartGot, GetPart
  <2>6. \A i \in DOMAIN job'[d].sources :
          Offers(job[d].sources[i], job[d].hash)'
    BY <1>1, <2>1, <2>3, <2>5 DEF WorkOk, Offers
  <2>7. QED
    BY <1>1, <2>1, <2>3, <2>4, <2>6 DEF WorkOk, DiskOk
<1>5. CASE Listen(d)
  BY <1>1, <1>5, SameFilesOk DEF Listen
<1>6. ASSUME phase[d] # "copying", UNCHANGED files,
             phase'[d] \notin {"copying", "copied", "asking", "fetching", "fetched"}
      PROVE  DiskOk(d)' /\ WorkOk(d)'
  BY <1>1, <1>6 DEF DiskOk, WorkOk
<1>7. CASE \/ FirstStart(d) \/ SaveUid(d) \/ Joined(d)
           \/ JoinSent(d) \/ UploadSent(d) \/ AckSent(d)
  BY <1>6, <1>7
  DEF FirstStart, StartUp, SaveUid, Joined, JoinSent, UploadSent, AckSent, Goto,
      DfsTypeOK
<1>8. ASSUME NEW n \in Names, DownloadSent(d, n)
      PROVE  DiskOk(d)' /\ WorkOk(d)'
  <2>1. /\ phase[d] = "ready" /\ phase'[d] = "asking" /\ UNCHANGED files
        /\ n \in DOMAIN fname_map
    BY <1>8 DEF DownloadSent, Goto, DfsTypeOK
  <2>2. job'[d] = [NoJob EXCEPT !.name = n]
    BY <1>8 DEF DownloadSent, DfsTypeOK
  <2>3. job'[d].name = n /\ job'[d].next = 1 /\ job'[d].got = <<>>
    BY <2>2 DEF NoJob
  <2>4. QED
    BY <1>1, <2>1, <2>3 DEF DiskOk, WorkOk, Kept, TablesKept
<1>9. CASE GotReply(d)
  <2>1. /\ phase[d] = "asking" /\ phase'[d] = "fetching"
        /\ conn[d] = "answered" /\ UNCHANGED <<files, listening>>
    BY <1>9 DEF GotReply, Goto, DfsTypeOK
  <2>2. job'[d] = [job[d] EXCEPT !.target = reply[d].metadata,
                                 !.hash = reply[d].hash,
                                 !.sources = reply[d].sources]
    BY <1>9, Zenon DEF GotReply, DfsTypeOK
  <2>3. /\ job'[d].name = job[d].name /\ job'[d].target = reply[d].metadata
        /\ job'[d].hash = reply[d].hash /\ job'[d].sources = reply[d].sources
        /\ job'[d].next = job[d].next /\ job'[d].got = job[d].got
    BY <1>1, <2>2 DEF Jobs
  <2>4. /\ IsFile(job[d].name, reply[d].metadata)
        /\ HashOf[reply[d].metadata] = reply[d].hash
        /\ reply[d].sources # <<>>
        /\ \A i \in DOMAIN reply[d].sources :
             Offers(reply[d].sources[i], reply[d].hash)
    BY <1>1, <2>1 DEF ReplyOk
  <2>5. \A i \in DOMAIN job'[d].sources :
          Offers(job[d].sources[i], job[d].hash)'
    BY <2>1, <2>3, <2>4 DEF Offers
  <2>6. job'[d].next = 1 /\ job'[d].got = <<>>
    BY <1>1, <2>1, <2>3 DEF WorkOk
  <2>7. QED
    BY <1>1, <2>1, <2>3, <2>4, <2>5, <2>6 DEF DiskOk, WorkOk
<1>10. QED
  BY <1>2, <1>3, <1>4, <1>5, <1>7, <1>8, <1>9 DEF Alone, Asks, Reads

\* The files that dnodes have, and what they know of those they work on.
LEMMA FilesOkStep ==
  ASSUME Calm, IInv, DInv, CalmInv,
         \/ \E d \in Dnodes : Alone(d) \/ Asks(d) \/ Reads(d)
         \/ HubActs
         \/ UNCHANGED <<vars, dnodeVars>>
  PROVE  FilesOk'
<1>1. HubTypeOK /\ DfsTypeOK /\ JobInv /\ FilesOk /\ Kept
  BY KeptStep DEF IInv, DInv, CalmInv
<1>2. ASSUME NEW d \in Dnodes, Alone(d) \/ Asks(d) \/ Reads(d)
      PROVE  FilesOk'
  <2>1. \A e \in Dnodes \ {d} : DiskOk(e)' /\ WorkOk(e)'
    BY <1>1, <1>2, StepsOfOne, SameFilesOk DEF Rest
  <2>2. DiskOk(d)' /\ WorkOk(d)'
    BY <1>1, <1>2, WorksOn
  <2>3. QED
    BY <2>1, <2>2 DEF FilesOk
<1>3. CASE HubActs \/ UNCHANGED <<vars, dnodeVars>>
  <2>1. UNCHANGED dnodeVars
    BY <1>3 DEF HubActs
  <2>2. QED
    BY <1>1, <2>1, SameFilesOk DEF dnodeVars, FilesOk
<1>4. QED
  BY <1>2, <1>3

-----------------------------------------------------------------------------
(* The requests of dnodes.                                                 *)

\* A dnode that waits for a reply goes on with the same job.
LEMMA WaitersStay ==
  ASSUME DInv, NEW d \in Dnodes, Alone(d) \/ Asks(d) \/ Reads(d),
         conn[d] = "waiting"
  PROVE  UNCHANGED job
<1>1. phase[d] \in Waiting
  BY DEF DInv, RepliesExpected
<1>2. ~Asks(d)
  BY DEF Asks, JoinSent, UploadSent, DownloadSent, AckSent, AckOf, Arrive,
         JoinRequest, UploadRequest, DownloadRequest, AckRequest, Request,
         NoRequest
<1>3. ~Reads(d)
  BY DEF Reads, Joined, GotReply, Take
<1>4. CASE Alone(d)
  BY <1>1, <1>4
  DEF Alone, FirstStart, StartUp, SaveUid, Listen, UploadBegun, Upload, Copied,
      PartGot, Fetching, WriteFile, Goto, Waiting
<1>5. QED
  BY <1>2, <1>3, <1>4

\* A request that was true is true as long as nothing is lost and who waits for
\* the reply waits.
LEMMA RequestStaysOk ==
  ASSUME HubTypeOK, Kept, NEW r, RequestOk(r),
         r.open => job'[r.client] = job[r.client]
  PROVE  RequestOk(r)'
<1>1. IsSource(r.uid, r.hash) => IsSource(r.uid, r.hash)'
  BY StillTrue
<1>2. QED
  BY <1>1 DEF RequestOk

\* The requests are the earlier ones, and true ones.
LEMMA RequestsStayOk ==
  ASSUME IInv, DInv, CalmInv, Kept,
         \A d \in Dnodes : conn[d] = "waiting" => job'[d] = job[d],
         \A i \in Positions' : IsRequest(i)' =>
           \/ \E j \in Positions : IsRequest(j) /\ At(i)' = At(j)
           \/ RequestOk(At(i))'
  PROVE  RequestsOk'
<1> SUFFICES ASSUME NEW i \in Positions', IsRequest(i)'
             PROVE  RequestOk(At(i))'
  BY DEF RequestsOk
<1>1. ASSUME NEW j \in Positions, IsRequest(j), At(i)' = At(j)
      PROVE  RequestOk(At(i))'
  <2>1. PICK r : r = At(j)
    OBVIOUS
  <2>2. RequestOk(r)
    BY <1>1, <2>1 DEF CalmInv, RequestsOk
  <2>3. r.open => conn[r.client] = "waiting" /\ r.client \in Dnodes
    BY <2>1, OpenRequests DEF IInv, DInv, RepliesExpected
  <2>4. RequestOk(r)'
    BY <2>2, <2>3, RequestStaysOk DEF IInv
  <2>5. QED
    BY <1>1, <2>1, <2>4 DEF RequestOk, IsSource, Offers
<1>2. QED
  BY <1>1

\* What a dnode asks is true.
LEMMA AskedOk ==
  ASSUME Calm, IInv, DInv, CalmInv, Kept, NEW d \in Dnodes, NEW r \in Requests,
         r.client = d, r.sent = "all",
         \/ r.cmd = "NODE_JOIN" /\ JoinSent(d)
         \/ r.cmd = "FILE_UPLOAD" /\ UploadSent(d)
         \/ r.cmd = "FILE_DOWNLOAD" /\ DownloadSent(d, r.name)
         \/ r.cmd = "FILE_DOWNLOADED_ACK" /\ AckSent(d),
         r.open <=> r.cmd \in {"NODE_JOIN", "FILE_DOWNLOAD"},
         r.cmd = "FILE_UPLOAD" =>
           /\ r.uid = uid[d] /\ r.name = job[d].name
           /\ r.content = job[d].target /\ r.hash = HashOf[job[d].target],
         r.cmd = "FILE_DOWNLOADED_ACK" => r.uid = uid[d] /\ r.hash = job[d].hash
  PROVE  RequestOk(r)'
<1>1. /\ HubTypeOK /\ DfsTypeOK /\ JobOf(d) /\ WorkOk(d)
      /\ phase[d] \in {"copied", "fetched"} => d \in listening
      /\ phase[d] \in {"copied", "fetched"} => IsUidOf(uid[d], d)
  BY DEF IInv, DInv, JobInv, CalmInv, FilesOk, NothingFailed, DnodesKnown
<1>2. ASSUME r.cmd = "FILE_UPLOAD"
      PROVE  IsFile(r.name, r.content) /\ IsSource(r.uid, r.hash)
  <2>1. phase[d] = "copied"
    BY <1>2 DEF UploadSent, Goto
  <2>2. /\ job[d].name \in Names /\ job[d].target \in Contents
        /\ IsFile(job[d].name, job[d].target)
        /\ files[d][job[d].name] = job[d].target
    BY <1>1, <2>1 DEF JobOf, WorkOk
  <2>3. Offers(d, HashOf[job[d].target])
    BY <1>1, <2>1, <2>2 DEF Offers
  <2>4. QED
    BY <1>1, <1>2, <2>1, <2>2, <2>3 DEF IsSource, IsUidOf
<1>3. ASSUME r.cmd = "FILE_DOWNLOADED_ACK"
      PROVE  IsSource(r.uid, r.hash)
  <2>1. phase[d] = "fetched"
    BY <1>3 DEF AckSent, Goto
  <2> DEFINE x == files[d][job[d].name]
  <2>2. /\ job[d].name \in Names /\ IsFile(job[d].name, x)
        /\ HashOf[x] = job[d].hash
    BY <1>1, <2>1 DEF JobOf, WorkOk
  <2>3. x \in Contents
    BY <2>2, UploadsAssumption DEF IsFile
  <2>4. Offers(d, job[d].hash)
    BY <1>1, <2>1, <2>2, <2>3 DEF Offers
  <2>5. QED
    BY <1>1, <1>3, <2>1, <2>4 DEF IsSource, IsUidOf
<1>4. r.cmd \in {"FILE_UPLOAD", "FILE_DOWNLOADED_ACK"} => IsSource(r.uid, r.hash)'
  BY <1>1, <1>2, <1>3, StillTrue
<1>5. r.cmd = "FILE_DOWNLOAD" => r.name = job'[d].name
  <2> SUFFICES ASSUME r.cmd = "FILE_DOWNLOAD"
               PROVE  r.name = job'[d].name
    OBVIOUS
  <2>1. job'[d] = [NoJob EXCEPT !.name = r.name]
    BY <1>1 DEF DownloadSent, DfsTypeOK
  <2>2. QED
    BY <2>1 DEF NoJob
<1>6. QED
  BY <1>2, <1>4, <1>5 DEF RequestOk

\* What is on the way to the hub is true.
LEMMA RequestsOkStep ==
  ASSUME Calm, IInv, DInv, CalmInv,
         \/ \E d \in Dnodes : Alone(d) \/ Asks(d) \/ Reads(d)
         \/ HubActs
         \/ UNCHANGED <<vars, dnodeVars>>
  PROVE  RequestsOk'
<1> DEFINE Old(i) == \E j \in Positions : IsRequest(j) /\ At(i)' = At(j)
<1>1. HubTypeOK /\ DfsTypeOK /\ JobInv /\ FilesOk /\ RequestsOk /\ Kept
  BY KeptStep DEF IInv, DInv, CalmInv
<1>2. ASSUME UNCHANGED <<backlog, serving, dnode_thread>>, NEW i \in Positions',
             IsRequest(i)'
      PROVE  Old(i)
  BY <1>2 DEF Positions, IsRequest, At
<1>3. ASSUME NEW d \in Dnodes, Alone(d) \/ Asks(d) \/ Reads(d)
      PROVE  RequestsOk'
  <2>1. \A e \in Dnodes : conn[e] = "waiting" => job'[e] = job[e]
    BY <1>1, <1>3, StepsOfOne, WaitersStay DEF Rest
  <2>2. CASE Alone(d) \/ Reads(d)
    <3>1. UNCHANGED <<backlog, serving, dnode_thread>>
      BY <1>1, <2>2, HubUntouched DEF vars
    <3>2. QED
      BY <1>1, <1>2, <2>1, <3>1, RequestsStayOk
  <2>3. CASE Asks(d)
    <3>1. PICK r \in Requests :
            /\ Arrive(r) /\ r.client = d /\ r.sent = "all"
            /\ \/ r.cmd = "NODE_JOIN" /\ JoinSent(d)
               \/ r.cmd = "FILE_UPLOAD" /\ UploadSent(d)
               \/ r.cmd = "FILE_DOWNLOAD" /\ DownloadSent(d, r.name)
               \/ r.cmd = "FILE_DOWNLOADED_ACK" /\ AckSent(d)
            /\ r.open <=> r.cmd \in {"NODE_JOIN", "FILE_DOWNLOAD"}
            /\ r.cmd = "FILE_UPLOAD" =>
                 /\ r.uid = uid[d] /\ r.name = job[d].name
                 /\ r.content = job[d].target /\ r.hash = HashOf[job[d].target]
            /\ r.cmd = "FILE_DOWNLOADED_ACK" =>
                 r.uid = uid[d] /\ r.hash = job[d].hash
      BY <2>3, WhatIsAsked
    <3>2. RequestOk(r)'
      BY <1>1, <3>1, AskedOk
    <3>3. PICK last \in Nat :
            /\ Positions' = Positions \cup {last} /\ last \notin Positions
            /\ last # 0 /\ \A i \in Positions : At(i)' = At(i)
            /\ At(last)' = r
      BY <1>1, <3>1, ArrivePositions
    <3>4. RequestOk(At(last))'
      BY <3>2, <3>3 DEF RequestOk, IsSource, Offers
    <3>5. dnode_thread' = dnode_thread
      BY <3>1 DEF Arrive
    <3>6. \A i \in Positions' : IsRequest(i)' => Old(i) \/ RequestOk(At(i))'
      BY <3>3, <3>4, <3>5 DEF IsRequest
    <3>7. QED
      BY <1>1, <2>1, <3>6, RequestsStayOk
  <2>4. QED
    BY <1>3, <2>2, <2>3
<1>4. CASE HubActs
  <2>1. UNCHANGED job
    BY <1>4 DEF HubActs, dnodeVars
  <2>2. \A i \in Positions' : IsRequest(i)' => Old(i)
    <3>1. CASE Accept
      <4>1. \A i \in Positions' : i + 1 \in Positions /\ At(i)' = At(i + 1)
        BY <1>1, <3>1, AcceptPositions
      <4>2. \A i \in Positions' : IsRequest(i + 1)
        BY <4>1 DEF IsRequest, Positions
      <4>3. QED
        BY <4>1, <4>2
    <3>2. CASE HandleUploadHeader
      BY <3>2 DEF HandleUploadHeader, Serve, Positions, IsRequest, At
    <3>3. CASE backlog' = backlog /\ Finish
      BY <3>3 DEF Finish, Positions, IsRequest, At
    <3>4. QED
      BY <1>4, <3>1, <3>2, <3>3
      DEF HubActs, HandleNewNodeJoin, HandleUploadIndex, HandleFileDownload,
          HandleFileDownloadedAck, Serve
  <2>3. QED
    BY <1>1, <2>1, <2>2, RequestsStayOk
<1>5. CASE UNCHANGED <<vars, dnodeVars>>
  <2>1. UNCHANGED <<backlog, serving, dnode_thread, job>>
    BY <1>5 DEF vars, dnodeVars
  <2>2. QED
    BY <1>1, <1>2, <2>1, RequestsStayOk
<1>6. QED
  BY <1>3, <1>4, <1>5

-----------------------------------------------------------------------------
(* The tables of the hub.                                                  *)

\* A source that is added to those of a file is one of it.
LEMMA AddedSource ==
  ASSUME HubTypeOK, TablesOk, Kept, NEW h \in Hashes, NEW u \in Uids,
         IsSource(u, h), fhash_map' = AddSource(h, u)
  PROVE  \A g \in DOMAIN fhash_map' :
           \A i \in DOMAIN fhash_map'[g] : IsSource(fhash_map[g][i], g)'
<1>1. \A g : Sources(g) \in Seq(Uids)
  BY SourcesTyped DEF HubTypeOK
<1>2. \A g : \A i \in DOMAIN Sources(g) : IsSource(Sources(g)[i], g)
  BY EmptySeq DEF TablesOk, Sources, Lookup
<1>3. ASSUME NEW g \in DOMAIN fhash_map', NEW i \in DOMAIN fhash_map'[g]
      PROVE  IsSource(fhash_map'[g][i], g)
  <2>1. CASE g = h
    <3>1. fhash_map'[g] = Append(Sources(h), u)
      BY <2>1 DEF AddSource, Put
    <3>2. i \in 1 .. Len(Sources(h)) + 1
      BY <1>1, <1>3, <3>1, AppendProperties, LenProperties
    <3>3. CASE i = Len(Sources(h)) + 1
      BY <1>1, <2>1, <3>1, <3>3, AppendProperties
    <3>4. CASE i \in 1 .. Len(Sources(h))
      BY <1>1, <1>2, <2>1, <3>1, <3>4, AppendProperties, LenProperties
    <3>5. QED
      BY <1>1, <3>2, <3>3, <3>4, LenProperties
  <2>2. CASE g # h
    <3>1. g \in DOMAIN fhash_map /\ fhash_map'[g] = fhash_map[g]
      BY <1>3, <2>2 DEF AddSource, Put
    <3>2. QED
      BY <1>3, <3>1 DEF TablesOk
  <2>3. QED
    BY <2>1, <2>2
<1>4. \A u2, g : IsSource(u2, g) => IsSource(u2, g)'
  BY StillTrue
<1>5. ASSUME NEW g \in DOMAIN fhash_map', NEW i \in DOMAIN fhash_map'[g]
      PROVE  IsSource(fhash_map[g][i], g)'
  <2>1. PICK v : v = fhash_map'[g][i]
    OBVIOUS
  <2>2. IsSource(v, g)'
    BY <1>3, <1>4, <1>5, <2>1
  <2>3. QED
    BY <2>1, <2>2 DEF IsSource
<1>6. QED
  BY <1>5

\* The tables of sources stay as they are.
LEMMA SameSources ==
  ASSUME HubTypeOK, TablesOk, Kept, UNCHANGED fhash_map
  PROVE  \A g \in DOMAIN fhash_map' :
           \A i \in DOMAIN fhash_map'[g] : IsSource(fhash_map[g][i], g)'
<1> SUFFICES ASSUME NEW g \in DOMAIN fhash_map, NEW i \in DOMAIN fhash_map[g]
             PROVE  IsSource(fhash_map[g][i], g)'
  OBVIOUS
<1>1. PICK v : v = fhash_map[g][i]
  OBVIOUS
<1>2. IsSource(v, g)'
  BY <1>1, StillTrue DEF TablesOk
<1>3. QED
  BY <1>1, <1>2 DEF IsSource

\* What the hub stores is true.
LEMMA TablesOkStep ==
  ASSUME Calm, IInv, DInv, CalmInv,
         \/ \E d \in Dnodes : Alone(d) \/ Asks(d) \/ Reads(d)
         \/ HubActs
         \/ UNCHANGED <<vars, dnodeVars>>
  PROVE  TablesOk'
<1> DEFINE SourcesOk == \A g \in DOMAIN fhash_map :
                          \A i \in DOMAIN fhash_map[g] : IsSource(fhash_map[g][i], g)
           NamesOk == \A n \in DOMAIN fname_map : \E x \in Contents :
                        IsFile(n, x) /\ HashOf[x] = fname_map[n]
           SizesOk == \A h \in DOMAIN file_metadata_map :
                        \E n \in Names : IsFile(n, file_metadata_map[h])
<1>1. HubTypeOK /\ TablesOk /\ Kept
  BY KeptStep DEF IInv, CalmInv
<1>2. dnode_thread # "accept" => RequestOk(serving) /\ Genuine(serving)
  BY OpenRequests
  DEF IInv, RequestsGenuine, CalmInv, RequestsOk, IsRequest, Positions, At
<1>3. ASSUME UNCHANGED tables
      PROVE  TablesOk'
  BY <1>1, <1>3, SameSources DEF tables, TablesOk, IsFile
<1>4. CASE HandleUploadHeader
  <2> DEFINE h == serving.hash
             n == serving.name
             x == serving.content
  <2>1. /\ file_metadata_map' = Put(file_metadata_map, h, x)
        /\ fhash_map' = AddSource(h, serving.uid)
        /\ fname_map' = Bound(n, h)
        /\ dnode_thread = "maps" /\ serving.cmd = "FILE_UPLOAD"
    BY <1>4 DEF HandleUploadHeader, Serve
  <2>2. /\ n \in Names /\ x \in Contents /\ h \in Hashes /\ serving.uid \in Uids
        /\ h = HashOf[x] /\ IsFile(n, x) /\ IsSource(serving.uid, h)
    BY <1>2, <2>1, HashAssumption DEF RequestOk, Genuine
  <2>3. SourcesOk'
    BY <1>1, <2>1, <2>2, AddedSource
  <2>4. NamesOk'
    BY <1>1, <2>1, <2>2 DEF TablesOk, Bound, Put, IsFile
  <2>5. SizesOk'
    BY <1>1, <2>1, <2>2 DEF TablesOk, Put, IsFile
  <2>6. QED
    BY <2>3, <2>4, <2>5 DEF TablesOk
<1>5. CASE HandleFileDownloadedAck
  <2>1. /\ fhash_map' = AddSource(serving.hash, serving.uid)
        /\ dnode_thread = "maps" /\ serving.cmd = "FILE_DOWNLOADED_ACK"
        /\ UNCHANGED <<fname_map, file_metadata_map>>
    BY <1>5 DEF HandleFileDownloadedAck, Serve
  <2>2. /\ serving.hash \in Hashes /\ serving.uid \in Uids
        /\ IsSource(serving.uid, serving.hash)
    BY <1>2, <2>1 DEF RequestOk, Genuine
  <2>3. SourcesOk'
    BY <1>1, <2>1, <2>2, AddedSource
  <2>4. QED
    BY <1>1, <2>1, <2>3 DEF TablesOk, IsFile
<1>6. CASE UNCHANGED <<fname_map, fhash_map, file_metadata_map>>
  BY <1>1, <1>6, SameSources DEF TablesOk, IsFile
<1>7. QED
  BY <1>1, <1>3, <1>4, <1>5, <1>6, HubUntouched
  DEF HubActs, Accept, HandleNewNodeJoin, HandleUploadIndex, HandleFileDownload,
      vars, tables

-----------------------------------------------------------------------------
(* The replies to downloads.                                               *)

\* A reply that has come stays as good as it was.
LEMMA ReplyStaysOk ==
  ASSUME HubTypeOK, Kept, NEW d \in Dnodes, ReplyOk(d),
         conn'[d] = "answered" /\ phase'[d] = "asking" =>
           /\ conn[d] = "answered" /\ phase[d] = "asking"
           /\ reply'[d] = reply[d] /\ job'[d] = job[d]
  PROVE  ReplyOk(d)'
<1> SUFFICES ASSUME conn'[d] = "answered", phase'[d] = "asking"
             PROVE  ReplyOk(d)'
  BY DEF ReplyOk
<1>1. reply'[d] = reply[d] /\ job'[d] = job[d]
  OBVIOUS
<1>2. /\ IsFile(job[d].name, reply[d].metadata)
      /\ HashOf[reply[d].metadata] = reply[d].hash
      /\ reply[d].sources # <<>>
      /\ \A i \in DOMAIN reply[d].sources :
           Offers(reply[d].sources[i], reply[d].hash)
  BY DEF ReplyOk
<1>3. \A i \in DOMAIN reply[d].sources : reply[d].sources[i] \in Dnodes
  BY LenProperties, ElementOfSeq DEF HubTypeOK, Replies, Dnodes
<1>4. ASSUME NEW i \in DOMAIN reply[d].sources
      PROVE  Offers(reply[d].sources[i], reply[d].hash)'
  <2>1. PICK e \in Dnodes : e = reply[d].sources[i]
    BY <1>3
  <2>2. PICK h : h = reply[d].hash
    OBVIOUS
  <2>3. Offers(e, h)'
    BY <1>2, <2>1, <2>2, StillTrue
  <2>4. QED
    BY <1>1, <2>1, <2>2, <2>3 DEF Offers
<1>5. QED
  BY <1>1, <1>2, <1>4 DEF ReplyOk

\* The hub's reply to a download is the file of that name, and dnodes that have it.
LEMMA DownloadReplied ==
  ASSUME Calm, IInv, DInv, CalmInv, Kept, HubActs, HandleFileDownload
  PROVE  RepliesOk'
<1>1. /\ HubTypeOK /\ NamedFilesComplete /\ MetadataUnderHash /\ TablesOk
      /\ conn \in [Dnodes -> {"none", "waiting", "answered", "broken"}]
      /\ reply \in [Dnodes -> Replies]
      /\ \A d \in Dnodes : ReplyOk(d)
      /\ UNCHANGED dnodeVars
  BY DEF IInv, FilesInv, HubTypeOK, CalmInv, RepliesOk, HubActs, Dnodes
<1>2. /\ dnode_thread = "maps" /\ serving.cmd = "FILE_DOWNLOAD"
      /\ Answerable(serving.name) /\ UNCHANGED tables
      /\ Answer(serving, FileReply(fname_map[serving.name]))
  BY DEF HandleFileDownload, Serve
<1>3. PICK c \in Dnodes, n \in Names :
        /\ serving.open /\ c = serving.client
        /\ n = serving.name /\ n = job[c].name
  BY <1>1, <1>2, OpenRequests
  DEF CalmInv, RequestsOk, IsRequest, Positions, At, RequestOk, IInv,
      RequestsGenuine, Genuine
<1> DEFINE h == fname_map[n]
<1>4. PICK r : r = FileReply(h)
  OBVIOUS
<1>5. /\ \A d \in Dnodes \ {c} : conn'[d] = conn[d] /\ reply'[d] = reply[d]
      /\ reply'[c] = r
  BY <1>1, <1>2, <1>3, <1>4 DEF Answer
<1>6. \A d \in Dnodes \ {c} : ReplyOk(d)'
  BY <1>1, <1>5, ReplyStaysOk DEF dnodeVars
<1>7. n \in DOMAIN fname_map /\ h \in DOMAIN file_metadata_map
  BY <1>2, <1>3 DEF Answerable
<1>8. PICK x \in Contents : IsFile(n, x) /\ HashOf[x] = h
  BY <1>1, <1>7 DEF TablesOk
<1>9. PICK m \in Names : IsFile(m, file_metadata_map[h])
  BY <1>1, <1>7 DEF TablesOk
<1>10. HashOf[file_metadata_map[h]] = h
  BY <1>1, <1>7 DEF MetadataUnderHash
<1>11. file_metadata_map[h] = x
  BY <1>8, <1>9, <1>10, OneFile
<1>12. /\ r.metadata = x /\ r.hash = h
       /\ r.sources = [i \in DOMAIN Sources(h) |-> dnodes_map[Sources(h)[i]]]
  BY <1>11, <1>4 DEF FileReply
<1>13. Sources(h) # <<>> /\ Sources(h) \in Seq(Uids)
  BY <1>1, <1>7, SourcesTyped DEF NamedFilesComplete, HubTypeOK
<1>14. \A i \in DOMAIN Sources(h) : Offers(dnodes_map[Sources(h)[i]], h)
  BY <1>1, <1>13, EmptySeq DEF TablesOk, IsSource, Sources, Lookup
<1>15. r.sources # <<>> /\ \A i \in DOMAIN r.sources : Offers(r.sources[i], h)
  <2>1. DOMAIN r.sources = DOMAIN Sources(h) /\ 1 \in DOMAIN Sources(h)
    BY <1>12, <1>13, LenProperties, EmptySeq
  <2>2. r.sources # <<>>
    BY <2>1, EmptySeq
  <2>3. QED
    BY <1>12, <1>14, <2>1, <2>2
<1> HIDE DEF h
<1>16. ReplyOk(c)'
  <2>1. /\ job'[c] = job[c] /\ reply'[c] = r
        /\ UNCHANGED <<listening, files>>
    BY <1>1, <1>5 DEF dnodeVars
  <2>2. \A i \in DOMAIN r.sources : Offers(reply[c].sources[i], reply[c].hash)'
    BY <1>12, <1>15, <2>1 DEF Offers
  <2>3. QED
    BY <1>3, <1>8, <1>12, <1>15, <2>1, <2>2 DEF ReplyOk
<1>17. QED
  BY <1>6, <1>16 DEF RepliesOk

\* Replies to downloads are files, and dnodes that have them.
LEMMA RepliesOkStep ==
  ASSUME Calm, IInv, DInv, CalmInv,
         \/ \E d \in Dnodes : Alone(d) \/ Asks(d) \/ Reads(d)
         \/ HubActs
         \/ UNCHANGED <<vars, dnodeVars>>
  PROVE  RepliesOk'
<1>1. /\ HubTypeOK /\ DfsTypeOK /\ JobInv /\ FilesOk /\ Kept
      /\ \A d \in Dnodes : ReplyOk(d)
  BY KeptStep DEF IInv, DInv, CalmInv, RepliesOk
<1>2. ASSUME NEW d \in Dnodes, Alone(d) \/ Asks(d) \/ Reads(d)
      PROVE  RepliesOk'
  <2>1. \A e \in Dnodes \ {d} : ReplyOk(e)'
    BY <1>1, <1>2, HubUntouched, StepsOfOne, ReplyStaysOk DEF Rest
  <2>2. ReplyOk(d)'
    <3>1. CASE Listen(d)
      BY <1>1, <3>1, ReplyStaysOk DEF Listen, vars, clientVars
    <3>2. CASE Alone(d) /\ ~Listen(d)
      <4>1. phase'[d] # "asking"
        BY <1>1, <3>2
        DEF Alone, FirstStart, SaveUid, UploadBegun, Upload, Copied, PartGot,
            Fetching, GetPart, WriteFile, Goto, DfsTypeOK
      <4>2. QED
        BY <4>1 DEF ReplyOk
    <3>3. CASE Asks(d)
      <4>1. phase'[d] \in Waiting => conn'[d] = "waiting"
        BY <1>1, <3>3, HubUntouched
      <4>2. QED
        BY <4>1 DEF ReplyOk, Waiting
    <3>4. CASE Reads(d)
      <4>1. phase'[d] # "asking"
        BY <1>1, <3>4 DEF Reads, Joined, GotReply, Goto, DfsTypeOK
      <4>2. QED
        BY <4>1 DEF ReplyOk
    <3>5. QED
      BY <1>2, <3>1, <3>2, <3>3, <3>4
  <2>3. QED
    BY <2>1, <2>2 DEF RepliesOk
<1>3. CASE HubActs
  <2>1. UNCHANGED <<phase, job>>
    BY <1>3 DEF HubActs, dnodeVars
  <2>2. CASE HandleFileDownload
    BY <1>1, <1>3, <2>2, DownloadReplied
  <2>3. CASE HandleNewNodeJoin
    <3>1. PICK c \in Dnodes :
            /\ serving.open => phase[c] = "joining"
            /\ \A d \in Dnodes : \/ d = c /\ serving.open
                                 \/ conn'[d] = conn[d] /\ reply'[d] = reply[d]
      BY <2>3, JoinEffect
    <3>2. \A d \in Dnodes : ReplyOk(d)'
      BY <1>1, <2>1, <3>1, ReplyStaysOk
    <3>3. QED
      BY <3>2 DEF RepliesOk
  <2>4. CASE UNCHANGED clientVars
    BY <1>1, <2>1, <2>4, ReplyStaysOk DEF clientVars, RepliesOk
  <2>5. QED
    BY <1>3, <2>2, <2>3, <2>4
    DEF HubActs, Accept, HandleUploadHeader, HandleUploadIndex,
        HandleFileDownloadedAck
<1>4. CASE UNCHANGED <<vars, dnodeVars>>
  BY <1>1, <1>4, ReplyStaysOk DEF vars, clientVars, dnodeVars, RepliesOk
<1>5. QED
  BY <1>2, <1>3, <1>4

-----------------------------------------------------------------------------
(* The theorems.                                                           *)

\* Nobody has a file at the start.
LEMMA CalmInit == DfsInit => CalmInv
<1> SUFFICES ASSUME DfsInit
             PROVE  CalmInv
  OBVIOUS
<1>1. NothingFailed
  BY DEF DfsInit, HubInit, NothingFailed, Good, Dnodes
<1>2. DnodesKnown /\ RepliesOk
  BY DEF DfsInit, HubInit, DnodesKnown, JoinReply, EmptyTable, RepliesOk, ReplyOk,
         Dnodes
<1>3. FilesOk
  BY DEF DfsInit, FilesOk, DiskOk, WorkOk
<1>4. TablesOk
  BY DEF DfsInit, HubInit, EmptyTable, TablesOk
<1>5. RequestsOk
  <2>1. Positions = {0} /\ dnode_thread = "accept"
    BY EmptySeq DEF DfsInit, HubInit, Positions
  <2>2. QED
    BY <2>1 DEF RequestsOk, IsRequest
<1>6. QED
  BY <1>1, <1>2, <1>3, <1>4, <1>5 DEF CalmInv

\* What is true of files when nothing fails and every file fits in the buffer.
THEOREM CalmInvHolds ==
  ASSUME Calm
  PROVE  DfsSpec => []CalmInv
<1>1. IInv /\ DInv /\ CalmInv /\ [DfsNext]_allVars => CalmInv'
  <2> SUFFICES ASSUME IInv, DInv, CalmInv, [DfsNext]_allVars
               PROVE  CalmInv'
    OBVIOUS
  <2>1. \/ \E d \in Dnodes : Alone(d) \/ Asks(d) \/ Reads(d)
        \/ HubActs
        \/ UNCHANGED <<vars, dnodeVars>>
    BY CalmSteps
  <2>2. NothingFailed' /\ DnodesKnown' /\ FilesOk'
    BY <2>1, NothingStep, KnownStep, FilesOkStep, Zenon
  <2>3. RequestsOk' /\ TablesOk' /\ RepliesOk'
    BY <2>1, RequestsOkStep, TablesOkStep, RepliesOkStep, Zenon
  <2>4. QED
    BY <2>2, <2>3 DEF CalmInv
<1>2. QED
  BY <1>1, CalmInit, DfsInvHolds, PTL DEF DfsSpec

\* Whom the hub names as a source of a file has it, as long as nothing fails and
\* files are shorter than the buffer of a download (dnode_req_server.cpp:141, 234;
\* rpc_server.cpp:79-128, 424-432, 546-561).
THEOREM SourcesHaveFiles ==
  ASSUME Calm
  PROVE  DfsSpec => []SourcesHoldFile
<1>1. IInv /\ DInv /\ CalmInv => SourcesHoldFile
  <2> SUFFICES ASSUME IInv, DInv, CalmInv, NEW n \in DOMAIN fname_map,
                      NEW i \in DOMAIN Sources(fname_map[n])
               PROVE  LET h == fname_map[n]
                          u == Sources(h)[i]
                      IN  u \in DOMAIN dnodes_map /\ HasFile(dnodes_map[u], n, h)
    BY DEF SourcesHoldFile
  <2> DEFINE h == fname_map[n]
             u == Sources(h)[i]
  <2>1. IsSource(u, h)
    BY EmptySeq DEF CalmInv, TablesOk, Sources, Lookup
  <2>2. PICK m \in Names, x \in Contents :
          IsFile(m, x) /\ HashOf[x] = h /\ files[dnodes_map[u]][m] = x
    BY <2>1 DEF IsSource, Offers
  <2>3. PICK y \in Contents : IsFile(n, y) /\ HashOf[y] = h
    BY DEF CalmInv, TablesOk
  <2>4. m = n
    BY <2>2, <2>3, OneFile
  <2>5. QED
    BY <2>1, <2>2, <2>4 DEF IsSource, HasFile
<1>2. QED
  BY <1>1, CalmInvHolds, DfsInvHolds, PTL

\* A download that is finished is the file it should be, as long as nothing fails
\* and files are shorter than its buffer (rpc_server.cpp:424-432, 546-571).
THEOREM DownloadsGenuine ==
  ASSUME Calm
  PROVE  DfsSpec => []DownloadsAreGenuine
<1>1. CalmInv => DownloadsAreGenuine
  <2> SUFFICES ASSUME CalmInv, NEW d \in Dnodes, phase[d] = "fetched"
               PROVE  HasFile(d, job[d].name, job[d].hash)
    BY DEF DownloadsAreGenuine
  <2>1. /\ IsFile(job[d].name, files[d][job[d].name])
        /\ HashOf[files[d][job[d].name]] = job[d].hash
    BY DEF CalmInv, FilesOk, WorkOk
  <2>2. files[d][job[d].name] \in Contents
    BY <2>1, UploadsAssumption DEF IsFile
  <2>3. QED
    BY <2>1, <2>2 DEF HasFile
<1>2. QED
  BY <1>1, CalmInvHolds, PTL
=============================================================================
