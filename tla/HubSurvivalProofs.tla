------------------------- MODULE HubSurvivalProofs -------------------------
(***************************************************************************)
(* Why the hub's process survives, for any number of dnodes and files, as  *)
(* long as no process is killed and nobody asks for a name that was never  *)
(* uploaded.  Users may use a dnode as early as they like, files may share *)
(* names, and two dnodes may get the same uid.                             *)
(***************************************************************************)
EXTENDS DfsProofs

Orderly == ~MayVanish /\ ~MayHubDie /\ ~AskUnknown

-----------------------------------------------------------------------------
(* The inductive invariant.                                                *)

\* The hub has an address for this uid.
IsKnown(u) == u \in DOMAIN dnodes_map

\* The thread that serves dnodes does not wait for what never comes, nor does a
\* dnode.
NobodyFails ==
  /\ process = "up" /\ dnode_thread # "stuck"
  /\ \A d \in Dnodes : conn[d] # "broken"

\* No dnode starts twice, and none has missed a reply: so it has its uid from the
\* hub.
Lost == {"hello", "greeting", "misled", "stalled"}
Settled(d) ==
  /\ phase[d] \notin Lost
  /\ phase[d] = "off" => uid_file[d] = None
  /\ phase[d] \notin {"off", "join", "joining"} => IsKnown(uid[d])
AllSettled == \A d \in Dnodes : Settled(d)

\* The handlers find everything that this request makes them look up.
Servable(r) ==
  /\ r.sent = "all"
  /\ r.cmd \in {"FILE_UPLOAD", "FILE_DOWNLOADED_ACK"} => IsKnown(r.uid)
  /\ r.cmd = "FILE_DOWNLOAD" => r.open /\ r.name \in DOMAIN fname_map
AllServable ==
  \A i \in Positions : (i = 0 => dnode_thread # "accept") => Servable(At(i))

\* The uids that the hub has stored and has sent are known.
SourcesKnown ==
  \A h \in DOMAIN fhash_map :
    \A i \in DOMAIN fhash_map[h] : IsKnown(fhash_map[h][i])
RepliesKnown == \A d \in Dnodes : reply[d].uid = None \/ IsKnown(reply[d].uid)

OrderlyInv ==
  NobodyFails /\ AllSettled /\ AllServable /\ SourcesKnown /\ RepliesKnown

-----------------------------------------------------------------------------
(* Steps of the dnodes.                                                    *)

\* What a dnode does to the hub: nothing, or it reads its reply, or it sends a
\* request that can be served.
AsksWell == \E r \in Requests : Arrive(r) /\ Servable(r)
Behaves(d) == UNCHANGED vars \/ Take(d) \/ AsksWell

\* What it does to itself: it is not lost, and has its uid from the hub.
Settles(d) ==
  /\ phase'[d] \notin Lost \cup {"off"}
  /\ phase'[d] \notin {"join", "joining"} => IsKnown(uid'[d])
  /\ \A e \in Dnodes \ {d} :
       phase'[e] = phase[e] /\ uid'[e] = uid[e] /\ uid_file'[e] = uid_file[e]

\* Nobody is killed, so what is sent is sent whole.
LEMMA SentWhole ==
  ASSUME Orderly, NEW d, NEW from, NEW r, NEW to, Send(d, from, r, to)
  PROVE  Arrive(r) /\ Goto(d, from, to) /\ UNCHANGED <<listening, uid>>
BY DEF Orderly, Send, CutShort

\* What a dnode can send is served if the hub knows its uid and its name.
LEMMA WellAsked ==
  ASSUME NEW d \in Dnodes
  PROVE  /\ JoinRequest(d) \in Requests /\ Servable(JoinRequest(d))
         /\ \A n \in Names :
              /\ DownloadRequest(d, n) \in Requests
              /\ n \in DOMAIN fname_map => Servable(DownloadRequest(d, n))
         /\ \A u \in Uids, n \in Names, x \in Contents :
              /\ UploadRequest(d, u, n, x) \in Requests
              /\ IsKnown(u) => Servable(UploadRequest(d, u, n, x))
         /\ \A u \in Uids, h \in Hashes :
              /\ AckRequest(d, u, h) \in Requests
              /\ IsKnown(u) => Servable(AckRequest(d, u, h))
<1>1. \A r \in WholeRequests : r \in Requests
  BY WholeRequestsGenuine DEF Genuine
<1> USE <1>1, RequestsOfDnodes DEF Servable, Request, NoRequest
<1>2. JoinRequest(d) \in Requests /\ Servable(JoinRequest(d))
  BY DEF JoinRequest
<1>3. ASSUME NEW n \in Names
      PROVE  /\ DownloadRequest(d, n) \in Requests
             /\ n \in DOMAIN fname_map => Servable(DownloadRequest(d, n))
  BY DEF DownloadRequest
<1>4. ASSUME NEW u \in Uids, NEW n \in Names, NEW x \in Contents
      PROVE  /\ UploadRequest(d, u, n, x) \in Requests
             /\ IsKnown(u) => Servable(UploadRequest(d, u, n, x))
  BY DEF UploadRequest
<1>5. ASSUME NEW u \in Uids, NEW h \in Hashes
      PROVE  /\ AckRequest(d, u, h) \in Requests
             /\ IsKnown(u) => Servable(AckRequest(d, u, h))
  BY DEF AckRequest
<1>6. QED
  BY <1>2, <1>3, <1>4, <1>5

\* A dnode starts once, joins, and gets a uid.
LEMMA StartSettles ==
  ASSUME Orderly, DInv, OrderlyInv, NEW d \in Dnodes,
         \/ StartUp(d) \/ SendJoin(d) \/ Joined(d) \/ JoinFails(d)
         \/ SaveUid(d) \/ SendHello(d) \/ Greeted(d) \/ StartHangs(d)
         \/ Listen(d)
  PROVE  Behaves(d) /\ Settles(d)
<1>1. /\ DfsTypeOK /\ RepliesFit /\ Settled(d) /\ process = "up"
      /\ conn[d] # "broken" /\ (reply[d].uid = None \/ IsKnown(reply[d].uid))
  BY DEF DInv, OrderlyInv, NobodyFails, AllSettled, RepliesKnown
<1>2. CASE StartUp(d)
  <2>1. uid_file[d] = None
    BY <1>1, <1>2 DEF StartUp, Settled
  <2>2. InitialUid(d) = {0}
    BY <2>1 DEF InitialUid
  <2>3. phase' = [phase EXCEPT ![d] = "join"] /\ uid' = [uid EXCEPT ![d] = 0]
    BY <1>2, <2>2 DEF StartUp
  <2>4. QED
    BY <1>1, <1>2, <2>3 DEF StartUp, Behaves, Settles, DfsTypeOK, Lost
<1>3. CASE SendJoin(d)
  <2>1. Arrive(JoinRequest(d)) /\ Goto(d, "join", "joining") /\ UNCHANGED uid
    BY <1>3, SentWhole DEF SendJoin
  <2>2. AsksWell
    BY <2>1, WellAsked DEF AsksWell
  <2>3. QED
    BY <1>1, <1>3, <2>1, <2>2
    DEF SendJoin, Goto, Behaves, Settles, DfsTypeOK, Lost
<1>4. CASE Joined(d)
  <2>1. reply[d].uid \in Uids
    BY <1>1, <1>4 DEF Joined, Goto, RepliesFit
  <2>2. IsKnown(reply[d].uid)
    BY <1>1, <2>1, NoneAssumption
  <2>3. QED
    BY <1>1, <1>4, <2>2 DEF Joined, Goto, Behaves, Settles, DfsTypeOK, Lost
<1>5. CASE SaveUid(d)
  BY <1>1, <1>5
  DEF SaveUid, Goto, Settled, Behaves, Settles, DfsTypeOK, Lost
<1>6. CASE Listen(d)
  BY <1>1, <1>6 DEF Listen, Starting, Settled, Behaves, Settles
<1>7. CASE JoinFails(d) \/ Greeted(d) \/ SendHello(d) \/ StartHangs(d)
  BY <1>1, <1>7
  DEF JoinFails, Greeted, SendHello, StartHangs, HubIsDown, Send, Goto, Settled,
      Lost
<1>8. QED
  BY <1>2, <1>3, <1>4, <1>5, <1>6, <1>7

\* An upload is announced under the uid the hub knows.
LEMMA UploadSettles ==
  ASSUME Orderly, DInv, OrderlyInv, NEW d \in Dnodes,
         \/ \E n \in Names, x \in Contents : Upload(d, n, x)
         \/ Copied(d) \/ Announce(d)
  PROVE  Behaves(d) /\ Settles(d)
<1>1. DfsTypeOK /\ UidInv /\ JobInv /\ Settled(d) /\ process = "up"
  BY DEF DInv, OrderlyInv, NobodyFails, AllSettled
<1>2. CASE Copied(d) \/ \E n \in Names, x \in Contents : Upload(d, n, x)
  BY <1>1, <1>2
  DEF Copied, Upload, Goto, Settled, Behaves, Settles, DfsTypeOK, Lost
<1>3. CASE Announce(d)
  <2> DEFINE r == UploadRequest(d, uid[d], job[d].name, job[d].target)
  <2>1. Send(d, "copied", r, "ready")
    BY <1>1, <1>3 DEF Announce, HubIsDown
  <2>2. Arrive(r) /\ Goto(d, "copied", "ready") /\ UNCHANGED uid
    <3> HIDE DEF r
    <3>1. QED
      BY <2>1, SentWhole
  <2>3. /\ uid[d] \in Uids /\ job[d].name \in Names /\ job[d].target \in Contents
        /\ IsKnown(uid[d])
    BY <1>1, <2>2 DEF Goto, UidInv, UidOf, JobInv, JobOf, Settled
  <2>4. AsksWell
    BY <2>2, <2>3, WellAsked DEF AsksWell
  <2>5. QED
    BY <1>1, <1>3, <2>2, <2>3, <2>4
    DEF Announce, Goto, Behaves, Settles, DfsTypeOK, Lost
<1>4. QED
  BY <1>2, <1>3

\* A download asks for a name the hub knows, and is acknowledged under the uid it
\* knows, whatever was fetched.
LEMMA DownloadSettles ==
  ASSUME Orderly, DInv, OrderlyInv, NEW d \in Dnodes,
         \/ \E n \in Names : Download(d, n)
         \/ GotReply(d) \/ NoReplyComes(d) \/ Misled(d)
         \/ FetchPart(d) \/ FetchBroken(d) \/ FetchRefused(d)
         \/ FetchNothing(d) \/ WriteFile(d) \/ Acknowledge(d)
  PROVE  Behaves(d) /\ Settles(d)
<1>1. /\ DfsTypeOK /\ UidInv /\ JobInv /\ Settled(d) /\ process = "up"
      /\ conn[d] # "broken"
  BY DEF DInv, OrderlyInv, NobodyFails, AllSettled
<1>2. ASSUME NEW n \in Names, Download(d, n)
      PROVE  Behaves(d) /\ Settles(d)
  <2>1. Send(d, "ready", DownloadRequest(d, n), "asking") /\ n \in DOMAIN fname_map
    BY <1>1, <1>2 DEF Download, HubIsDown, Orderly
  <2>2. /\ Arrive(DownloadRequest(d, n)) /\ Goto(d, "ready", "asking")
        /\ UNCHANGED uid
    BY <2>1, SentWhole
  <2>3. AsksWell
    BY <2>1, <2>2, WellAsked DEF AsksWell
  <2>4. QED
    BY <1>1, <1>2, <2>2, <2>3
    DEF Download, Goto, Settled, Behaves, Settles, DfsTypeOK, Lost
<1>3. CASE GotReply(d) \/ WriteFile(d)
  BY <1>1, <1>3
  DEF GotReply, WriteFile, Goto, Settled, Behaves, Settles, DfsTypeOK, Lost
<1>4. CASE NoReplyComes(d) \/ Misled(d)
  BY <1>1, <1>4 DEF NoReplyComes, Misled, Settled, Lost
<1>5. CASE FetchPart(d) \/ FetchBroken(d) \/ FetchRefused(d) \/ FetchNothing(d)
  BY <1>1, <1>5
  DEF FetchPart, FetchBroken, FetchRefused, FetchNothing, Fetching, GetPart,
      FetchHangs, Goto, Settled, Behaves, Settles, DfsTypeOK, Lost
<1>6. CASE Acknowledge(d)
  <2> DEFINE r == AckRequest(d, uid[d], job[d].hash)
  <2>1. Send(d, "fetched", r, "ready")
    BY <1>1, <1>6 DEF Acknowledge, HubIsDown, AckOf
  <2>2. Arrive(r) /\ Goto(d, "fetched", "ready") /\ UNCHANGED uid
    <3> HIDE DEF r
    <3>1. QED
      BY <2>1, SentWhole
  <2>3. uid[d] \in Uids /\ job[d].hash \in Hashes /\ IsKnown(uid[d])
    BY <1>1, <2>2 DEF Goto, UidInv, UidOf, JobInv, JobOf, Settled
  <2>4. AsksWell
    BY <2>2, <2>3, WellAsked DEF AsksWell
  <2>5. QED
    BY <1>1, <1>6, <2>2, <2>3, <2>4
    DEF Acknowledge, Goto, Behaves, Settles, DfsTypeOK, Lost
<1>7. QED
  BY <1>2, <1>3, <1>4, <1>5, <1>6

\* Every step is that of a dnode, or of the thread that serves dnodes.
LEMMA OrderlySteps ==
  ASSUME Orderly, DInv, OrderlyInv, [DfsNext]_allVars
  PROVE  \/ \E d \in Dnodes : Behaves(d) /\ Settles(d)
         \/ DnodeThread /\ UNCHANGED dnodeVars
         \/ UNCHANGED <<vars, dnodeVars>>
<1>1. \A u \in Uploads : u[1] \in Names /\ u[2] \in Contents
  BY UploadsAssumption
<1>2. ASSUME NEW d \in Dnodes, User(d) \/ Listen(d)
      PROVE  Behaves(d) /\ Settles(d)
  <2>1. \/ StartUp(d) \/ Listen(d)
        \/ \E n \in Names, x \in Contents : Upload(d, n, x)
        \/ \E n \in Names : Download(d, n)
    BY <1>1, <1>2 DEF User
  <2>2. QED
    BY <2>1, StartSettles, UploadSettles, DownloadSettles, Zenon
<1>3. ASSUME NEW d \in Dnodes, Progress(d)
      PROVE  Behaves(d) /\ Settles(d)
  BY <1>3, StartSettles, UploadSettles, DownloadSettles, Zenon DEF Progress
<1>4. CASE HubStep \/ Quiet \/ UNCHANGED allVars
  BY <1>4 DEF HubStep, Quiet, allVars
<1>5. CASE HubDies \/ HubRestarts \/ \E d \in Dnodes : Crash(d)
  BY <1>5
  DEF HubDies, HubRestarts, Restart, Crash, Orderly, OrderlyInv, NobodyFails
<1>6. QED
  BY <1>2, <1>3, <1>4, <1>5, Zenon DEF DfsNext

-----------------------------------------------------------------------------
(* Steps of the hub.                                                       *)

\* The hub forgets no uid and no name.
NothingForgotten ==
  /\ DOMAIN dnodes_map \subseteq DOMAIN dnodes_map'
  /\ DOMAIN fname_map \subseteq DOMAIN fname_map'

\* The part of the invariant that is about the hub.
HubPart == NobodyFails /\ AllServable /\ SourcesKnown /\ RepliesKnown

\* What is asked and what is stored stays known, wherever it is.
LEMMA StillServable ==
  ASSUME NothingForgotten
  PROVE  /\ \A u : IsKnown(u) => IsKnown(u)'
         /\ \A r : Servable(r) => Servable(r)'
BY DEF NothingForgotten, IsKnown, Servable

\* A file's new source is the dnode whose request is served.
LEMMA AddedKnown ==
  ASSUME HubTypeOK, SourcesKnown, NothingForgotten, NEW h, NEW u \in Uids,
         IsKnown(u), fhash_map' = AddSource(h, u)
  PROVE  SourcesKnown'
<1>1. /\ IsTable(fhash_map, Hashes, Seq(Uids)) /\ IsKnown(u)'
      /\ \A v : IsKnown(v) => IsKnown(v)'
  BY StillServable DEF HubTypeOK
<1>2. Sources(h) \in Seq(Uids)
  BY <1>1, SourcesTyped
<1>3. \A i \in DOMAIN Sources(h) : IsKnown(Sources(h)[i])
  BY EmptySeq DEF SourcesKnown, Sources, Lookup
<1> DEFINE list == Append(Sources(h), u)
<1>4. /\ DOMAIN list = 1 .. Len(Sources(h)) + 1 /\ list[Len(Sources(h)) + 1] = u
      /\ DOMAIN Sources(h) = 1 .. Len(Sources(h)) /\ Len(Sources(h)) \in Nat
      /\ \A i \in 1 .. Len(Sources(h)) : list[i] = Sources(h)[i]
  BY <1>2, AppendProperties, LenProperties
<1>5. \A i \in DOMAIN list : i \in DOMAIN Sources(h) \/ list[i] = u
  BY <1>4
<1>6. \A i \in DOMAIN list : list[i] \in DOMAIN dnodes_map
  BY <1>3, <1>4, <1>5 DEF IsKnown
<1>7. ASSUME NEW g \in DOMAIN fhash_map', NEW i \in DOMAIN fhash_map'[g]
      PROVE  fhash_map'[g][i] \in DOMAIN dnodes_map
  <2>1. fhash_map' = [x \in DOMAIN fhash_map \cup {h} |->
                        IF x = h THEN list ELSE fhash_map[x]]
    BY DEF AddSource, Put
  <2> HIDE DEF list
  <2>2. CASE g = h
    BY <1>6, <1>7, <2>1, <2>2
  <2>3. CASE g # h
    BY <1>7, <2>1, <2>3 DEF SourcesKnown, IsKnown
  <2>4. QED
    BY <2>2, <2>3
<1>8. QED
  BY <1>7 DEF SourcesKnown, IsKnown, NothingForgotten

\* A dnode leaves the hub fit to go on.
LEMMA DnodeHubPart ==
  ASSUME HubTypeOK, HubPart, NEW d \in Dnodes, Behaves(d)
  PROVE  HubPart' /\ UNCHANGED dnodes_map
<1> USE DEF HubPart, NobodyFails, AllServable, SourcesKnown, RepliesKnown
<1>1. CASE UNCHANGED vars
  BY <1>1
  DEF vars, tables, clientVars, Positions, At, Servable, IsKnown
<1>2. CASE Take(d)
  <2>1. UNCHANGED <<process, dnode_thread, backlog, serving, tables>>
    BY <1>2 DEF Take
  <2>2. /\ \A e \in Dnodes : conn'[e] # "broken"
        /\ \A e \in Dnodes : reply'[e].uid \in {None, reply[e].uid}
    BY <1>2 DEF Take, HubTypeOK, NoReply, Dnodes
  <2>3. QED
    BY <2>1, <2>2 DEF tables, Positions, At, Servable, IsKnown
<1>3. ASSUME NEW r \in Requests, Arrive(r), Servable(r)
      PROVE  HubPart' /\ UNCHANGED dnodes_map
  <2>1. UNCHANGED <<process, dnode_thread, tables, reply>>
    BY <1>3 DEF Arrive
  <2>2. \A e \in Dnodes : conn'[e] # "broken"
    BY <1>3 DEF Arrive, HubTypeOK, Dnodes
  <2>3. AllServable'
    <3>1. PICK last \in Nat :
            /\ Positions' = Positions \cup {last} /\ last \notin Positions
            /\ last # 0 /\ \A i \in Positions : At(i)' = At(i)
            /\ At(last)' = r
      BY <1>3, ArrivePositions
    <3>2. \A q : Servable(q) => Servable(q)'
      BY <2>1 DEF tables, Servable, IsKnown
    <3>3. QED
      BY <1>3, <2>1, <3>1, <3>2
  <2>4. QED
    BY <2>1, <2>2, <2>3 DEF tables, IsKnown
<1>4. QED
  BY <1>1, <1>2, <1>3 DEF Behaves, AsksWell

\* So does a request that is served, when what is stored and replied is known.
LEMMA ServedHubPart ==
  ASSUME HubTypeOK, HubPart, NothingForgotten, UNCHANGED <<process, backlog>>,
         \/ dnode_thread' = "accept"
         \/ /\ dnode_thread # "accept" /\ dnode_thread' # "stuck"
            /\ UNCHANGED serving,
         SourcesKnown',
         NEW answer, answer.uid = None \/ IsKnown(answer.uid)',
         UNCHANGED clientVars \/ Answer(serving, answer)
  PROVE  HubPart'
<1>1. NobodyFails' /\ RepliesKnown'
  <2>1. /\ \A d \in Dnodes : conn'[d] \in {conn[d], "answered"}
        /\ \A d \in Dnodes : reply'[d] \in {reply[d], answer}
    BY DEF clientVars, Answer, HubTypeOK, Dnodes
  <2>2. QED
    BY <2>1, StillServable DEF HubPart, NobodyFails, RepliesKnown
<1>2. Positions' = Positions /\ \A i \in Positions \ {0} : At(i)' = At(i)
  BY DEF Positions, At
<1>3. AllServable'
  BY <1>2, StillServable DEF HubPart, AllServable, At
<1>4. QED
  BY <1>1, <1>3 DEF HubPart

\* And so the thread that serves dnodes does: it finds what it looks up.
LEMMA ThreadHubPart ==
  ASSUME IInv, HubPart, DnodeThread
  PROVE  HubPart' /\ NothingForgotten
<1>1. /\ HubTypeOK /\ NamedFilesComplete /\ process = "up"
      /\ dnode_thread # "stuck" /\ AllServable /\ SourcesKnown
      /\ serving \in Requests \cup {NoRequest}
  BY DEF IInv, FilesInv, HubPart, NobodyFails, HubTypeOK
<1>2. dnode_thread # "accept" => Servable(serving)
  BY <1>1, OpenRequests DEF AllServable, Positions, At
<1>3. CASE Accept
  <2>1. /\ \A i \in Positions' : i + 1 \in Positions /\ At(i)' = At(i + 1)
        /\ 1 \in Positions /\ serving' = At(1) /\ serving' = Head(backlog)
    BY <1>1, <1>3, AcceptPositions
  <2>2. UNCHANGED <<process, tables, conn, reply>> /\ NothingForgotten
    BY <1>3 DEF Accept, clientVars, tables, NothingForgotten
  <2>3. IsWhole(Head(backlog))
    BY <1>1, <2>1 DEF AllServable, Servable, IsWhole
  <2>4. AllServable'
    <3>1. \A i \in Positions' : Servable(At(i + 1))
      BY <1>1, <2>1 DEF AllServable, Positions
    <3>2. QED
      BY <2>1, <2>2, <3>1, StillServable DEF AllServable
  <2>5. QED
    BY <1>3, <2>2, <2>3, <2>4
    DEF Accept, HubPart, NobodyFails, SourcesKnown, RepliesKnown, tables, IsKnown
<1>4. SourcesKnown /\ NothingForgotten /\ UNCHANGED fhash_map => SourcesKnown'
  BY StillServable DEF SourcesKnown
<1>5. ASSUME HandleNewNodeJoin \/ HandleNodeHello
      PROVE  HubPart' /\ NothingForgotten
  <2>1. PICK u :
          /\ dnodes_map' = Put(dnodes_map, u, serving.client)
          /\ Answer(serving, [NoReply EXCEPT !.uid = u])
    BY <1>5, Zenon DEF HandleNewNodeJoin, HandleNodeHello
  <2>2. UNCHANGED <<fname_map, fhash_map, process, backlog>> /\ Finish
    BY <1>5 DEF HandleNewNodeJoin, HandleNodeHello, Serve
  <2>3. NothingForgotten /\ u \in DOMAIN dnodes_map'
    BY <2>1, <2>2 DEF Put, NothingForgotten
  <2>4. [NoReply EXCEPT !.uid = u].uid = u
    BY DEF NoReply
  <2> DEFINE answer == [NoReply EXCEPT !.uid = u]
  <2>5. IsKnown(u)'
    BY <2>3 DEF IsKnown
  <2>6. HubPart'
    <3> HIDE DEF answer
    <3>1. QED
      BY <1>1, <1>4, <2>1, <2>2, <2>3, <2>4, <2>5, ServedHubPart DEF Finish, answer
  <2>7. QED
    BY <2>3, <2>6
<1>6. CASE HandleUploadHeader \/ HandleFileDownloadedAck
  <2>1. /\ dnode_thread = "maps" /\ IsKnown(serving.uid)
        /\ serving.uid \in Uids
        /\ fhash_map' = AddSource(serving.hash, serving.uid)
    BY <1>1, <1>2, <1>6
    DEF HandleUploadHeader, HandleFileDownloadedAck, Serve, Servable, IsKnown,
        HubTypeOK, IsTable
  <2>2. NothingForgotten
    BY <1>6
    DEF HandleUploadHeader, HandleFileDownloadedAck, Bound, Put, NothingForgotten
  <2>3. SourcesKnown'
    BY <1>1, <2>1, <2>2, AddedKnown
  <2>4. /\ UNCHANGED <<process, backlog, clientVars>>
        /\ dnode_thread' \in {"accept", "index"}
        /\ dnode_thread' = "accept" \/ UNCHANGED serving
    BY <1>6 DEF HandleUploadHeader, HandleFileDownloadedAck, Serve, Finish
  <2>5. NoReply.uid = None
    BY DEF NoReply
  <2>6. QED
    BY <1>1, <2>1, <2>2, <2>3, <2>4, <2>5, ServedHubPart
<1>7. CASE HandleUploadIndex
  <2>1. serving.sent = "all"
    BY <1>2, <1>7 DEF HandleUploadIndex, Servable
  <2>2. /\ Finish
        /\ UNCHANGED <<process, backlog, dnodes_map, fname_map, fhash_map,
                      clientVars>>
    BY <1>7, <2>1 DEF HandleUploadIndex
  <2>3. NothingForgotten /\ NoReply.uid = None
    BY <2>2 DEF NothingForgotten, NoReply
  <2>4. QED
    BY <1>1, <1>4, <2>2, <2>3, ServedHubPart DEF Finish
<1>8. CASE HandleFileDownload
  <2> DEFINE answer == FileReply(fname_map[serving.name])
  <2>1. /\ Finish /\ Answer(serving, answer)
        /\ UNCHANGED <<process, backlog, tables>>
    BY <1>8 DEF HandleFileDownload, Serve
  <2>2. NothingForgotten /\ answer.uid = None /\ UNCHANGED fhash_map
    BY <2>1 DEF NothingForgotten, FileReply, tables
  <2> HIDE DEF answer
  <2>3. QED
    BY <1>1, <1>4, <2>1, <2>2, ServedHubPart DEF Finish
<1>9. CASE DownloadKills
  <2>1. /\ dnode_thread = "maps" /\ serving.cmd = "FILE_DOWNLOAD"
        /\ ~Answerable(serving.name) \/ ~serving.open
    BY <1>9 DEF DownloadKills
  <2>2. serving.open /\ serving.name \in DOMAIN fname_map
    BY <1>2, <2>1 DEF Servable
  <2>3. Answerable(serving.name)
    BY <1>1, <2>2
    DEF Answerable, NamedFilesComplete, SourcesKnown, IsKnown, Sources, Lookup
  <2>4. QED
    BY <2>1, <2>2, <2>3
<1>10. QED
  BY <1>3, <1>5, <1>6, <1>7, <1>8, <1>9 DEF DnodeThread

-----------------------------------------------------------------------------
(* The theorem.                                                            *)

\* Nothing has gone wrong at the start.
LEMMA OrderlyInit == DfsInit => OrderlyInv
<1> SUFFICES ASSUME DfsInit
             PROVE  OrderlyInv
  OBVIOUS
<1>1. NobodyFails /\ AllSettled /\ RepliesKnown
  BY DEF DfsInit, HubInit, NobodyFails, AllSettled, Settled, Lost, RepliesKnown,
         NoReply, Dnodes
<1>2. AllServable
  BY EmptySeq DEF DfsInit, HubInit, AllServable, Positions
<1>3. SourcesKnown
  BY DEF DfsInit, HubInit, SourcesKnown, EmptyTable
<1>4. QED
  BY <1>1, <1>2, <1>3 DEF OrderlyInv

\* And no step is the first to go wrong.
LEMMA OrderlyStep ==
  ASSUME Orderly, IInv, DInv, OrderlyInv, [DfsNext]_allVars
  PROVE  OrderlyInv'
<1>1. HubTypeOK /\ HubPart /\ AllSettled
  BY DEF IInv, OrderlyInv, HubPart
<1>2. ASSUME NEW d \in Dnodes, Behaves(d), Settles(d)
      PROVE  OrderlyInv'
  <2>1. HubPart' /\ UNCHANGED dnodes_map
    BY <1>1, <1>2, DnodeHubPart
  <2>2. AllSettled'
    BY <1>1, <1>2, <2>1 DEF AllSettled, Settled, Settles, IsKnown
  <2>3. QED
    BY <2>1, <2>2 DEF HubPart, OrderlyInv
<1>3. CASE DnodeThread /\ UNCHANGED dnodeVars
  <2>1. HubPart' /\ NothingForgotten
    BY <1>1, <1>3, ThreadHubPart
  <2>2. AllSettled'
    BY <1>1, <1>3, <2>1, StillServable DEF AllSettled, Settled, dnodeVars
  <2>3. QED
    BY <2>1, <2>2 DEF HubPart, OrderlyInv
<1>4. CASE UNCHANGED <<vars, dnodeVars>>
  BY <1>4
  DEF vars, tables, clientVars, dnodeVars, OrderlyInv, NobodyFails, AllSettled,
      Settled, AllServable, Servable, SourcesKnown, RepliesKnown, IsKnown,
      Positions, At
<1>5. QED
  BY <1>2, <1>3, <1>4, OrderlySteps

\* As long as no process is killed and users ask for names that were uploaded,
\* everything the hub is asked for and everything it has stored leads to a dnode
\* it knows.
THEOREM OrderlyInvHolds ==
  ASSUME Orderly
  PROVE  DfsSpec => []OrderlyInv
<1>1. IInv /\ DInv /\ OrderlyInv /\ [DfsNext]_allVars => OrderlyInv'
  BY OrderlyStep
<1>2. QED
  BY <1>1, OrderlyInit, DfsInvHolds, PTL DEF DfsSpec

\* And so no request of a dnode ends the hub's process
\* (dnode_req_server.cpp:159-217).
THEOREM HubDoesSurvive ==
  ASSUME Orderly
  PROVE  DfsSpec => []HubSurvives
<1>1. OrderlyInv => HubSurvives
  BY DEF OrderlyInv, NobodyFails, HubSurvives
<1>2. QED
  BY <1>1, OrderlyInvHolds, PTL
=============================================================================
