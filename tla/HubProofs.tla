----------------------------- MODULE HubProofs -----------------------------
(***************************************************************************)
(* What Hub guarantees for any number of dnodes, files and requests.       *)
(***************************************************************************)
EXTENDS Hub, SequenceTheorems, TLAPS

-----------------------------------------------------------------------------
(* The inductive invariant.                                                *)

\* What a dnode's code fills in of a request.  HubTypeOK lets every field be
\* None; the handlers use the fields without a look.
Genuine(r) ==
  /\ r \in Requests
  /\ r.cmd \in {"NODE_HELLO", "FILE_UPLOAD", "FILE_DOWNLOADED_ACK"} =>
       r.uid \in Uids
  /\ r.cmd \in {"FILE_UPLOAD", "FILE_DOWNLOAD"} => r.name \in Names
  /\ r.cmd = "FILE_UPLOAD" => r.content \in Contents /\ r.hash = HashOf[r.content]
  /\ r.cmd = "FILE_DOWNLOADED_ACK" => r.hash \in Hashes

RequestsGenuine ==
  /\ \A i \in DOMAIN backlog : Genuine(backlog[i])
  /\ dnode_thread # "accept" => Genuine(serving)
  /\ dnode_thread = "index" => serving.cmd = "FILE_UPLOAD"

\* Between the header and the index of an upload, the size in the table is the
\* one this upload has brought.
HeaderStored ==
  dnode_thread = "index" =>
    /\ serving.hash \in DOMAIN file_metadata_map
    /\ file_metadata_map[serving.hash] = serving.content

\* A file is kept under its own hash.
MetadataUnderHash ==
  \A h \in DOMAIN file_metadata_map : HashOf[file_metadata_map[h]] = h

FilesInv ==
  HeaderStored /\ MetadataUnderHash /\ NamedFilesComplete
    /\ IndexDescribesMetadata

\* A hub that serves a query serves one of PeerRequests.
PeerInv == hub_thread = "maps" => hub_request \in PeerRequests

IInv ==
  HubTypeOK /\ RequestsGenuine /\ PeerInv /\ FilesInv /\ AnswersAreUsable

-----------------------------------------------------------------------------
(* Requests.                                                               *)

\* Everything a dnode's code sends is filled in.
LEMMA WholeRequestsGenuine == \A r \in WholeRequests : Genuine(r)
<1> SUFFICES ASSUME NEW r \in WholeRequests
             PROVE  Genuine(r)
  OBVIOUS
<1> USE HashAssumption
    DEF Genuine, Requests, Request, NoRequest, Cmds, Sent
<1>1. PICK c \in Clients :
        \/ r = JoinRequest(c)
        \/ \E u \in Uids : r = HelloRequest(c, u)
        \/ \E n \in Names : r = DownloadRequest(c, n)
        \/ \E u \in Uids, n \in Names, x \in Contents :
             r = UploadRequest(c, u, n, x)
        \/ \E u \in Uids, h \in Hashes : r = AckRequest(c, u, h)
  BY DEF WholeRequests
<1>2. ASSUME r = JoinRequest(c)
      PROVE  Genuine(r)
  BY <1>2 DEF JoinRequest
<1>3. ASSUME NEW u \in Uids, r = HelloRequest(c, u)
      PROVE  Genuine(r)
  BY <1>3 DEF HelloRequest
<1>4. ASSUME NEW n \in Names, r = DownloadRequest(c, n)
      PROVE  Genuine(r)
  BY <1>4 DEF DownloadRequest
<1>5. ASSUME NEW u \in Uids, NEW n \in Names, NEW x \in Contents,
             r = UploadRequest(c, u, n, x)
      PROVE  Genuine(r)
  BY <1>5 DEF UploadRequest
<1>6. ASSUME NEW u \in Uids, NEW h \in Hashes, r = AckRequest(c, u, h)
      PROVE  Genuine(r)
  BY <1>6 DEF AckRequest
<1>7. QED
  BY <1>1, <1>2, <1>3, <1>4, <1>5, <1>6, Zenon

\* What arrives of a request has the fields of the request, as far as the hub
\* looks at them.
LEMMA DnodeRequestsGenuine == \A r \in DnodeRequests : Genuine(r)
<1> SUFFICES ASSUME NEW r \in WholeRequests, NEW q \in CutShort(r)
             PROVE  Genuine(q)
  BY WholeRequestsGenuine DEF DnodeRequests
<1>1. Genuine(r)
  BY WholeRequestsGenuine
<1>2. PICK s \in {"nothing", "header"} : q = [r EXCEPT !.open = FALSE, !.sent = s]
  BY DEF CutShort
<1>3. QED
  BY <1>1, <1>2 DEF Genuine, Requests, Sent

\* The end of a connection changes nothing that was sent.
LEMMA ClosedRequest ==
  ASSUME NEW c, NEW r, Genuine(r)
  PROVE  /\ Genuine(Closed(c, r))
         /\ Closed(c, r).cmd = r.cmd /\ Closed(c, r).client = r.client
         /\ Closed(c, r).hash = r.hash /\ Closed(c, r).content = r.content
         /\ Closed(c, r).open => r.open /\ r.client # c
BY DEF Closed, Genuine, Requests

\* The same of what is no request.
LEMMA ClosedNoRequest ==
  ASSUME NEW c
  PROVE  Closed(c, NoRequest) = NoRequest
BY DEF Closed, NoRequest

-----------------------------------------------------------------------------
(* Tables.                                                                 *)

\* A table stays a table.
LEMMA PutTable ==
  ASSUME NEW X, NEW Y, NEW f, IsTable(f, X, Y), NEW k \in X, NEW v \in Y
  PROVE  IsTable(Put(f, k, v), X, Y)
BY DEF Put, IsTable

\* A table without entries is one.
LEMMA EmptyIsTable ==
  ASSUME NEW X, NEW Y
  PROVE  IsTable(EmptyTable, X, Y) /\ DOMAIN EmptyTable = {}
BY DEF EmptyTable, IsTable

\* The sources of a file are uids, whether there is an entry or not.
LEMMA SourcesTyped ==
  ASSUME NEW h, IsTable(fhash_map, Hashes, Seq(Uids))
  PROVE  Sources(h) \in Seq(Uids)
<1>1. <<>> \in Seq(Uids)
  BY EmptySeq
<1>2. QED
  BY <1>1 DEF Sources, Lookup, IsTable

-----------------------------------------------------------------------------
(* What a step may be.                                                     *)

\* Every step of the specification is one of these; the three ways in which a
\* request ends the process are one.
LEMMA HubSteps ==
  ASSUME [HubNext]_vars
  PROVE  \/ \E r \in DnodeRequests : Arrive(r)
         \/ \E c \in Clients : Take(c) \/ Vanish(c)
         \/ Accept \/ HandleNewNodeJoin \/ HandleNodeHello
         \/ HandleUploadHeader \/ HandleUploadIndex
         \/ HandleFileDownload \/ HandleFileDownloadedAck
         \/ \E q \in PeerRequests : AcceptHub(q)
         \/ HandleHubJoin \/ HandleHubHello \/ HandleQueryForFileSrcs
         \/ Die \/ Restart \/ UNCHANGED vars
BY Zenon DEF HubNext, DnodeThread, HubThread, DownloadKills, QueryKills, Race,
             Exhausted

-----------------------------------------------------------------------------
(* Requests stay genuine.                                                  *)

\* What a step does to the requests that wait and to the one that is served.
LEMMA RequestsStep ==
  ASSUME HubTypeOK, RequestsGenuine, PeerInv, [HubNext]_vars
  PROVE  /\ RequestsGenuine'
         /\ PeerInv'
         /\ backlog' \in Seq(Requests)
         /\ serving' \in Requests \cup {NoRequest}
         /\ dnode_thread' \in {"accept", "maps", "index", "stuck"}
<1> DEFINE Goal == /\ RequestsGenuine'
                   /\ PeerInv'
                   /\ backlog' \in Seq(Requests)
                   /\ serving' \in Requests \cup {NoRequest}
                   /\ dnode_thread' \in {"accept", "maps", "index", "stuck"}
<1> USE DEF HubTypeOK, RequestsGenuine, PeerInv
<1>1. ASSUME NEW r \in DnodeRequests, Arrive(r)
      PROVE  Goal
  <2>1. Genuine(r) /\ r \in Requests
    BY DnodeRequestsGenuine DEF Genuine
  <2>2. /\ backlog' \in Seq(Requests)
        /\ DOMAIN backlog' = DOMAIN backlog \cup {Len(backlog) + 1}
        /\ backlog'[Len(backlog) + 1] = r
        /\ \A i \in DOMAIN backlog : backlog'[i] = backlog[i]
    BY <1>1, <2>1, AppendProperties, LenProperties DEF Arrive
  <2>3. \A i \in DOMAIN backlog' : Genuine(backlog'[i])
    BY <2>1, <2>2
  <2>4. QED
    BY <1>1, <2>2, <2>3 DEF Arrive, peerVars
<1>2. ASSUME NEW c \in Clients, Vanish(c)
      PROVE  Goal
  <2>1. \A i \in DOMAIN backlog : Genuine(Closed(c, backlog[i]))
    BY ClosedRequest
  <2>2. /\ DOMAIN backlog' = DOMAIN backlog
        /\ \A i \in DOMAIN backlog' : backlog'[i] = Closed(c, backlog[i])
    BY <1>2 DEF Vanish
  <2>3. backlog' \in Seq(Requests)
    <3>1. backlog' = [i \in 1 .. Len(backlog) |-> Closed(c, backlog[i])]
      BY <1>2, LenProperties DEF Vanish
    <3>2. \A i \in 1 .. Len(backlog) : Closed(c, backlog[i]) \in Requests
      BY <2>1, LenProperties DEF Genuine
    <3>3. QED
      BY <3>1, <3>2, LenProperties
  <2>4. Genuine(serving) =>
          Genuine(Closed(c, serving)) /\ Closed(c, serving).cmd = serving.cmd
    BY ClosedRequest
  <2>5. serving' = Closed(c, serving)
    BY <1>2 DEF Vanish
  <2>6. serving' \in Requests \cup {NoRequest}
    BY <2>5, ClosedNoRequest DEF Closed, Requests
  <2>7. QED
    BY <1>2, <2>1, <2>2, <2>3, <2>4, <2>5, <2>6 DEF Vanish, peerVars
<1>3. ASSUME Accept
      PROVE  Goal
  <2>1. backlog \in Seq(Requests) /\ backlog # <<>>
    BY <1>3 DEF Accept
  <2>2. /\ Head(backlog) = backlog[1] /\ 1 \in DOMAIN backlog
        /\ Tail(backlog) \in Seq(Requests)
        /\ DOMAIN Tail(backlog) = 1 .. Len(backlog) - 1
        /\ \A i \in DOMAIN Tail(backlog) :
             i + 1 \in DOMAIN backlog /\ Tail(backlog)[i] = backlog[i + 1]
    BY <2>1, HeadTailProperties, LenProperties, EmptySeq
  <2>3. QED
    BY <1>3, <2>2 DEF Accept, peerVars, Genuine
<1>4. ASSUME Die
      PROVE  Goal
  BY <1>4, EmptySeq DEF Die
<1>5. CASE HandleNewNodeJoin \/ HandleNodeHello \/ HandleUploadHeader
             \/ HandleUploadIndex \/ HandleFileDownload
             \/ HandleFileDownloadedAck
  BY <1>5 DEF HandleNewNodeJoin, HandleNodeHello, HandleUploadHeader,
              HandleUploadIndex, HandleFileDownload, HandleFileDownloadedAck,
              Serve, Finish, peerVars
<1>6. CASE (\E q \in PeerRequests : AcceptHub(q)) \/ HandleHubJoin
             \/ HandleHubHello \/ HandleQueryForFileSrcs
  BY <1>6 DEF AcceptHub, HandleHubJoin, HandleHubHello, HandleQueryForFileSrcs,
              ServeHub
<1>7. CASE (\E c \in Clients : Take(c)) \/ Restart \/ UNCHANGED vars
  BY <1>7 DEF Take, Restart, vars, peerVars
<1>8. QED
  BY <1>1, <1>2, <1>3, <1>4, <1>5, <1>6, <1>7, HubSteps

-----------------------------------------------------------------------------
(* Types.                                                                  *)

\* The tables stay tables: no handler stores a field that the dnode has not
\* filled in.
LEMMA TablesStep ==
  ASSUME HubTypeOK, RequestsGenuine, PeerInv, [HubNext]_vars
  PROVE  /\ IsTable(dnodes_map', Uids, Clients)
         /\ IsTable(fname_map', Names, Hashes)
         /\ IsTable(fhash_map', Hashes, Seq(Uids))
         /\ IsTable(file_metadata_map', Hashes, Contents)
         /\ IsTable(file_indexdata_map', Hashes, Contents)
<1> DEFINE Tables == /\ IsTable(dnodes_map', Uids, Clients)
                     /\ IsTable(fname_map', Names, Hashes)
                     /\ IsTable(fhash_map', Hashes, Seq(Uids))
                     /\ IsTable(file_metadata_map', Hashes, Contents)
                     /\ IsTable(file_indexdata_map', Hashes, Contents)
<1>1. /\ IsTable(dnodes_map, Uids, Clients)
      /\ IsTable(fname_map, Names, Hashes)
      /\ IsTable(fhash_map, Hashes, Seq(Uids))
      /\ IsTable(file_metadata_map, Hashes, Contents)
      /\ IsTable(file_indexdata_map, Hashes, Contents)
  BY DEF HubTypeOK
<1>2. dnode_thread # "accept" => Genuine(serving)
  BY DEF RequestsGenuine
<1>3. \A h \in Hashes, u \in Uids : IsTable(AddSource(h, u), Hashes, Seq(Uids))
  BY <1>1, SourcesTyped, AppendProperties, PutTable DEF AddSource
<1>4. CASE HandleNewNodeJoin
  BY <1>1, <1>2, <1>4, PutTable
  DEF HandleNewNodeJoin, Serve, FreshUids, Genuine, Requests
<1>5. CASE HandleNodeHello
  BY <1>1, <1>2, <1>5, PutTable DEF HandleNodeHello, Serve, Genuine, Requests
<1>6. CASE HandleUploadHeader
  <2>1. /\ serving.hash \in Hashes /\ serving.content \in Contents
        /\ serving.name \in Names /\ serving.uid \in Uids
    BY <1>2, <1>6, HashAssumption DEF HandleUploadHeader, Serve, Genuine
  <2>2. IsTable(Bound(serving.name, serving.hash), Names, Hashes)
    BY <1>1, <2>1, PutTable DEF Bound
  <2>3. QED
    BY <1>1, <1>3, <1>6, <2>1, <2>2, PutTable DEF HandleUploadHeader
<1>7. CASE HandleUploadIndex
  <2>1. \/ UNCHANGED file_indexdata_map
        \/ file_indexdata_map' =
             Put(file_indexdata_map, serving.hash, serving.content)
    BY <1>7 DEF HandleUploadIndex, StoredIndex
  <2>2. serving.hash \in Hashes /\ serving.content \in Contents
    BY <1>2, <1>7, HashAssumption
    DEF HandleUploadIndex, RequestsGenuine, Genuine
  <2>3. QED
    BY <1>1, <1>7, <2>1, <2>2, PutTable DEF HandleUploadIndex
<1>8. CASE HandleFileDownloadedAck
  BY <1>1, <1>2, <1>3, <1>8 DEF HandleFileDownloadedAck, Serve, Genuine
<1>9. CASE HandleQueryForFileSrcs
  <2>1. hub_request.hash \in Hashes
    BY <1>9, PeerAssumption DEF HandleQueryForFileSrcs, ServeHub, PeerInv
  <2>2. IsTable(QueriedMap(hub_request.hash), Hashes, Seq(Uids))
    BY <1>1, <2>1, SourcesTyped, PutTable DEF QueriedMap
  <2>3. QED
    BY <1>1, <1>9, <2>2 DEF HandleQueryForFileSrcs, ServeHub
<1>10. CASE Die
  BY <1>10, EmptyIsTable DEF Die
<1>11. CASE \/ \E r \in DnodeRequests : Arrive(r)
            \/ \E c \in Clients : Take(c) \/ Vanish(c)
            \/ Accept \/ HandleFileDownload
            \/ \E q \in PeerRequests : AcceptHub(q)
            \/ HandleHubJoin \/ HandleHubHello \/ Restart \/ UNCHANGED vars
  BY <1>1, <1>11
  DEF Arrive, Take, Vanish, Accept, HandleFileDownload, AcceptHub,
      HandleHubJoin, HandleHubHello, ServeHub, Restart, tables, vars
<1>12. QED
  BY <1>4, <1>5, <1>6, <1>7, <1>8, <1>9, <1>10, <1>11, HubSteps

\* What the tables say of a file can be sent.
LEMMA FileReplyTyped ==
  ASSUME HubTypeOK, NEW n \in Names, Answerable(n)
  PROVE  /\ FileReply(fname_map[n]) \in Replies
         /\ Len(FileReply(fname_map[n]).sources) = Len(Sources(fname_map[n]))
<1> DEFINE h == fname_map[n]
           s == [i \in DOMAIN Sources(h) |-> dnodes_map[Sources(h)[i]]]
<1>1. h \in Hashes /\ h \in DOMAIN file_metadata_map
  BY DEF Answerable, HubTypeOK, IsTable
<1>2. Sources(h) \in Seq(Uids)
  BY SourcesTyped DEF HubTypeOK
<1>3. \A i \in 1 .. Len(Sources(h)) : dnodes_map[Sources(h)[i]] \in Clients
  BY <1>2, LenProperties DEF Answerable, HubTypeOK, IsTable
<1>4. s = [i \in 1 .. Len(Sources(h)) |-> dnodes_map[Sources(h)[i]]]
  BY <1>2, LenProperties
<1>5. s \in Seq(Clients) /\ Len(s) = Len(Sources(h))
  BY <1>2, <1>3, <1>4, LenProperties
<1>6. file_metadata_map[h] \in Contents
  BY <1>1 DEF HubTypeOK, IsTable
<1>7. Lookup(file_indexdata_map, h, None) \in Contents \cup {None}
  BY DEF Lookup, HubTypeOK, IsTable
<1> HIDE DEF h
<1>8. FileReply(h) =
        [uid |-> None, hash |-> h, metadata |-> file_metadata_map[h],
         index |-> Lookup(file_indexdata_map, h, None), sources |-> s]
  BY DEF FileReply
<1> HIDE DEF s
<1>9. QED
  BY <1>1, <1>5, <1>6, <1>7, <1>8 DEF Replies, h

\* A dnode gets a reply, and the connection it waited on is used up.
LEMMA AnswerTyped ==
  ASSUME HubTypeOK, NEW r, Genuine(r), NEW answer \in Replies, Answer(r, answer)
  PROVE  /\ conn' \in [Clients -> {"none", "waiting", "answered", "broken"}]
         /\ reply' \in [Clients -> Replies]
BY DEF Answer, HubTypeOK, Genuine, Requests, clientVars

\* Every step of the hub keeps every variable in its range.
LEMMA TypeStep ==
  ASSUME HubTypeOK, RequestsGenuine, PeerInv, [HubNext]_vars
  PROVE  HubTypeOK'
<1> DEFINE Ends == /\ conn' \in [Clients -> {"none", "waiting", "answered", "broken"}]
                   /\ reply' \in [Clients -> Replies]
           Process == /\ process' \in {"up", "down"}
                      /\ hub_thread' \in {"accept", "maps"}
                      /\ hub_request' \in PeerRequests \cup {NoHubRequest}
                      /\ issued' \subseteq Uids
<1>1. NoReply \in Replies
  BY EmptySeq DEF NoReply, Replies
<1>2. \A u \in Uids : [NoReply EXCEPT !.uid = u] \in Replies
  BY EmptySeq DEF NoReply, Replies
<1>3. Process
  BY HubSteps
  DEF HubTypeOK, Arrive, Take, Vanish, Accept, HandleNewNodeJoin, FreshUids,
      HandleNodeHello, HandleUploadHeader, HandleUploadIndex,
      HandleFileDownload, HandleFileDownloadedAck, Serve, AcceptHub,
      HandleHubJoin, HandleHubHello, HandleQueryForFileSrcs, ServeHub, Die,
      Restart, vars, peerVars
<1>4. ASSUME NEW r \in DnodeRequests, Arrive(r)
      PROVE  Ends
  BY <1>4 DEF Arrive, HubTypeOK
<1>5. ASSUME NEW c \in Clients, Take(c) \/ Vanish(c)
      PROVE  Ends
  BY <1>1, <1>5 DEF Take, Vanish, HubTypeOK
<1>6. ASSUME Die
      PROVE  Ends
  BY <1>6 DEF Die, HubTypeOK
<1>7. dnode_thread # "accept" => Genuine(serving)
  BY DEF RequestsGenuine
<1>8. ASSUME HandleNewNodeJoin
      PROVE  Ends
  BY <1>2, <1>7, <1>8, AnswerTyped DEF HandleNewNodeJoin, Serve, FreshUids
<1>9. ASSUME HandleNodeHello
      PROVE  Ends
  BY <1>2, <1>7, <1>9, AnswerTyped DEF HandleNodeHello, Serve, Genuine
<1>10. ASSUME HandleFileDownload
      PROVE  Ends
  BY <1>7, <1>10, AnswerTyped, FileReplyTyped
  DEF HandleFileDownload, Serve, Genuine
<1>11. ASSUME \/ Accept \/ HandleUploadHeader \/ HandleUploadIndex
              \/ HandleFileDownloadedAck
              \/ \E q \in PeerRequests : AcceptHub(q)
              \/ HandleHubJoin \/ HandleHubHello \/ HandleQueryForFileSrcs
              \/ Restart \/ UNCHANGED vars
       PROVE  Ends
  BY <1>11
  DEF HubTypeOK, Accept, HandleUploadHeader, HandleUploadIndex,
      HandleFileDownloadedAck, AcceptHub, HandleHubJoin, HandleHubHello,
      HandleQueryForFileSrcs, ServeHub, Restart, vars, clientVars
<1>12. Ends
  BY <1>4, <1>5, <1>6, <1>8, <1>9, <1>10, <1>11, HubSteps
<1>13. QED
  BY <1>3, <1>12, RequestsStep, TablesStep DEF HubTypeOK

-----------------------------------------------------------------------------
(* Files.                                                                  *)

\* A source more, and nobody loses one.
LEMMA AddSourceKeeps ==
  ASSUME IsTable(fhash_map, Hashes, Seq(Uids)), NEW h, NEW u \in Uids,
         fhash_map' = AddSource(h, u)
  PROVE  /\ DOMAIN fhash_map \subseteq DOMAIN fhash_map'
         /\ Sources(h)' # <<>>
         /\ \A g : Sources(g) # <<>> => Sources(g)' # <<>>
         /\ \A g \in DOMAIN fhash_map :
              /\ Len(fhash_map[g]) <= Len(fhash_map'[g])
              /\ \A i \in DOMAIN fhash_map[g] : fhash_map'[g][i] = fhash_map[g][i]
<1>1. /\ Sources(h) \in Seq(Uids)
      /\ \A g \in DOMAIN fhash_map : fhash_map[g] \in Seq(Uids)
  BY SourcesTyped DEF IsTable
<1> DEFINE more == Append(Sources(h), u)
<1>2. /\ more # <<>> /\ Len(more) = Len(Sources(h)) + 1
      /\ \A i \in 1 .. Len(Sources(h)) : more[i] = Sources(h)[i]
  BY <1>1, AppendProperties
<1> HIDE DEF more
<1>3. /\ DOMAIN fhash_map' = DOMAIN fhash_map \cup {h}
      /\ fhash_map'[h] = more
      /\ \A g \in DOMAIN fhash_map : g # h => fhash_map'[g] = fhash_map[g]
  BY DEF Put, AddSource, more
<1>4. /\ Sources(h)' = more
      /\ \A g : g # h => Sources(g)' = Sources(g)
  BY <1>3 DEF Sources, Lookup
<1>5. h \in DOMAIN fhash_map => Sources(h) = fhash_map[h]
  BY DEF Sources, Lookup
<1>6. ASSUME NEW g \in DOMAIN fhash_map
      PROVE  /\ Len(fhash_map[g]) <= Len(fhash_map'[g])
             /\ \A i \in DOMAIN fhash_map[g] : fhash_map'[g][i] = fhash_map[g][i]
  <2>1. CASE g = h
    BY <1>1, <1>2, <1>3, <1>5, <2>1, LenProperties
  <2>2. CASE g # h
    BY <1>1, <1>3, <2>2, LenProperties
  <2>3. QED
    BY <2>1, <2>2
<1>7. QED
  BY <1>2, <1>3, <1>4, <1>6

\* An upload's header gives a name to a file that has everything but its index.
LEMMA UploadHeaderFiles ==
  ASSUME HubTypeOK, RequestsGenuine, FilesInv, HandleUploadHeader
  PROVE  FilesInv'
<1> DEFINE h == serving.hash
           n == serving.name
           x == serving.content
<1>1. /\ dnode_thread = "maps" /\ serving.cmd = "FILE_UPLOAD"
      /\ dnode_thread' = "index" /\ serving' = serving
      /\ file_indexdata_map' = file_indexdata_map
      /\ file_metadata_map' = Put(file_metadata_map, h, x)
      /\ fhash_map' = AddSource(h, serving.uid)
      /\ fname_map' = Bound(n, h)
  BY DEF HandleUploadHeader, Serve
<1>2. h = HashOf[x] /\ serving.uid \in Uids
  BY <1>1 DEF RequestsGenuine, Genuine
<1>3. /\ DOMAIN file_metadata_map' = DOMAIN file_metadata_map \cup {h}
      /\ file_metadata_map'[h] = x
      /\ \A g \in DOMAIN file_metadata_map :
           g # h => file_metadata_map'[g] = file_metadata_map[g]
  BY <1>1 DEF Put
<1>4. /\ Sources(h)' # <<>>
      /\ \A g : Sources(g) # <<>> => Sources(g)' # <<>>
  BY <1>1, <1>2, AddSourceKeeps DEF HubTypeOK
<1>5. \A m \in DOMAIN fname_map' :
        \/ m \in DOMAIN fname_map /\ fname_map'[m] = fname_map[m]
        \/ fname_map'[m] = h
  BY <1>1 DEF Put, Bound
<1>6. \A g : Uploading(g)' <=> g = h
  BY <1>1 DEF Uploading
<1>7. \A g : ~Uploading(g)
  BY <1>1 DEF Uploading
<1>8. HeaderStored' /\ MetadataUnderHash'
  BY <1>1, <1>2, <1>3 DEF FilesInv, HeaderStored, MetadataUnderHash
<1>9. NamedFilesComplete'
  <2> SUFFICES ASSUME NEW m \in DOMAIN fname_map'
               PROVE  /\ fname_map'[m] \in DOMAIN file_metadata_map'
                      /\ Sources(fname_map[m])' # <<>>
                      /\ \/ fname_map'[m] \in DOMAIN file_indexdata_map'
                         \/ Uploading(fname_map[m])'
    BY DEF NamedFilesComplete
  <2>1. CASE m \in DOMAIN fname_map /\ fname_map'[m] = fname_map[m]
    BY <1>1, <1>3, <1>4, <1>7, <2>1 DEF FilesInv, NamedFilesComplete
  <2>2. CASE fname_map'[m] = h
    BY <1>1, <1>3, <1>4, <1>6, <2>2 DEF Sources
  <2>3. QED
    BY <1>5, <2>1, <2>2
<1>10. IndexDescribesMetadata'
  BY <1>1, <1>3, <1>6, <1>7 DEF FilesInv, IndexDescribesMetadata, Lookup
<1>11. QED
  BY <1>8, <1>9, <1>10 DEF FilesInv

\* The index completes the file, or the thread waits for it for ever.
LEMMA UploadIndexFiles ==
  ASSUME HubTypeOK, RequestsGenuine, FilesInv, HandleUploadIndex
  PROVE  FilesInv'
<1> DEFINE h == serving.hash
           x == serving.content
<1>1. /\ dnode_thread = "index" /\ serving.cmd = "FILE_UPLOAD"
      /\ UNCHANGED <<fname_map, fhash_map, file_metadata_map>>
  BY DEF HandleUploadIndex, RequestsGenuine
<1>2. h \in DOMAIN file_metadata_map /\ file_metadata_map[h] = x
  BY <1>1 DEF FilesInv, HeaderStored
<1>3. \A g : Sources(g)' = Sources(g)
  BY <1>1 DEF Sources
<1>4. \A g : Uploading(g) <=> g = h
  BY <1>1 DEF Uploading
<1>5. CASE /\ file_indexdata_map' = Put(file_indexdata_map, h, x)
           /\ dnode_thread' = "accept"
  <2>1. /\ DOMAIN file_indexdata_map' = DOMAIN file_indexdata_map \cup {h}
        /\ file_indexdata_map'[h] = x
        /\ \A g \in DOMAIN file_indexdata_map :
             g # h => file_indexdata_map'[g] = file_indexdata_map[g]
    BY <1>5 DEF Put
  <2>2. HeaderStored' /\ MetadataUnderHash'
    BY <1>1, <1>5 DEF FilesInv, HeaderStored, MetadataUnderHash
  <2>3. NamedFilesComplete'
    BY <1>1, <1>3, <1>4, <2>1 DEF FilesInv, NamedFilesComplete
  <2>4. IndexDescribesMetadata'
    BY <1>1, <1>2, <1>4, <2>1 DEF FilesInv, IndexDescribesMetadata, Lookup
  <2>5. QED
    BY <2>2, <2>3, <2>4 DEF FilesInv
<1>6. CASE dnode_thread' = "stuck" /\ UNCHANGED <<serving, file_indexdata_map>>
  <2>1. \A g : Uploading(g)' <=> Uploading(g)
    BY <1>1, <1>6 DEF Uploading
  <2>2. QED
    BY <1>1, <1>3, <1>6, <2>1
    DEF FilesInv, HeaderStored, MetadataUnderHash, NamedFilesComplete,
        IndexDescribesMetadata
<1>7. QED
  BY <1>5, <1>6 DEF HandleUploadIndex, StoredIndex, Finish

\* A step that leaves the files alone, and the upload under way, or comes to a
\* thread that has none, keeps what is known of them.
LEMMA SameFiles ==
  ASSUME FilesInv,
         UNCHANGED <<fname_map, file_metadata_map, file_indexdata_map>>,
         \A g : Sources(g) # <<>> => Sources(g)' # <<>>,
         \/ dnode_thread \in {"accept", "maps"} /\ dnode_thread' # "index"
         \/ /\ dnode_thread' = dnode_thread /\ serving'.cmd = serving.cmd
            /\ serving'.hash = serving.hash
            /\ serving'.content = serving.content
  PROVE  FilesInv'
<1>1. HeaderStored' /\ MetadataUnderHash'
  BY DEF FilesInv, HeaderStored, MetadataUnderHash
<1>2. \A g : Uploading(g) => Uploading(g)'
  BY DEF Uploading
<1>3. NamedFilesComplete'
  BY <1>2 DEF FilesInv, NamedFilesComplete
<1>4. IndexDescribesMetadata'
  BY <1>2 DEF FilesInv, IndexDescribesMetadata
<1>5. QED
  BY <1>1, <1>3, <1>4 DEF FilesInv

\* Every step keeps the tables of the files in agreement with each other.
LEMMA FilesStep ==
  ASSUME HubTypeOK, RequestsGenuine, PeerInv, FilesInv, [HubNext]_vars
  PROVE  FilesInv'
<1> DEFINE SourcesKept == \A g : Sources(g) # <<>> => Sources(g)' # <<>>
<1>1. CASE HandleUploadHeader
  BY <1>1, UploadHeaderFiles
<1>2. CASE HandleUploadIndex
  BY <1>2, UploadIndexFiles
<1>3. CASE HandleFileDownloadedAck
  <2>1. SourcesKept
    BY <1>3, AddSourceKeeps
    DEF HandleFileDownloadedAck, Serve, RequestsGenuine, Genuine, HubTypeOK
  <2>2. QED
    BY <1>3, <2>1, SameFiles DEF HandleFileDownloadedAck, Serve, Finish
<1>4. CASE HandleQueryForFileSrcs
  <2>1. SourcesKept
    BY <1>4 DEF HandleQueryForFileSrcs, QueriedMap, Sources, Lookup, Put
  <2>2. QED
    BY <1>4, <2>1, SameFiles DEF HandleQueryForFileSrcs, ServeHub
<1>5. CASE Die
  BY <1>5, EmptyIsTable
  DEF Die, FilesInv, HeaderStored, MetadataUnderHash, NamedFilesComplete,
      IndexDescribesMetadata
<1>6. ASSUME NEW c \in Clients, Vanish(c)
      PROVE  FilesInv'
  <2>1. SourcesKept
    BY <1>6 DEF Vanish, tables, Sources
  <2>2. dnode_thread # "accept" =>
           /\ serving'.cmd = serving.cmd /\ serving'.hash = serving.hash
           /\ serving'.content = serving.content
    BY <1>6, ClosedRequest DEF Vanish, RequestsGenuine
  <2>3. QED
    BY <1>6, <2>1, <2>2, SameFiles DEF Vanish, tables
<1>7. CASE Accept \/ HandleNewNodeJoin \/ HandleNodeHello \/ HandleFileDownload
  <2>1. SourcesKept
    BY <1>7
    DEF Accept, HandleNewNodeJoin, HandleNodeHello, HandleFileDownload, tables,
        Sources
  <2>2. QED
    BY <1>7, <2>1, SameFiles
    DEF Accept, HandleNewNodeJoin, HandleNodeHello, HandleFileDownload, Serve,
        Finish, tables
<1>8. CASE \/ \E r \in DnodeRequests : Arrive(r)
           \/ \E c \in Clients : Take(c)
           \/ \E q \in PeerRequests : AcceptHub(q)
           \/ HandleHubJoin \/ HandleHubHello \/ Restart \/ UNCHANGED vars
  <2>1. UNCHANGED <<dnode_thread, serving, tables>>
    BY <1>8
    DEF Arrive, Take, AcceptHub, HandleHubJoin, HandleHubHello, ServeHub,
        Restart, tables, vars
  <2>2. QED
    BY <2>1, SameFiles DEF tables, Sources
<1>9. QED
  BY <1>1, <1>2, <1>3, <1>4, <1>5, <1>6, <1>7, <1>8, HubSteps

-----------------------------------------------------------------------------
(* Replies.                                                                *)

\* When a download is answered, no upload is under way: the file is complete.
LEMMA FileReplyUsable ==
  ASSUME HubTypeOK, FilesInv, dnode_thread = "maps",
         NEW n \in Names, Answerable(n), NEW r, r = FileReply(fname_map[n])
  PROVE  /\ r.sources # <<>>
         /\ r.index = r.metadata
         /\ HashOf[r.metadata] = r.hash
<1> DEFINE h == fname_map[n]
<1>1. n \in DOMAIN fname_map /\ h \in DOMAIN file_metadata_map
  BY DEF Answerable
<1>2. Sources(h) # <<>> /\ h \in DOMAIN file_indexdata_map
  BY <1>1 DEF FilesInv, NamedFilesComplete, Uploading
<1>3. file_indexdata_map[h] = file_metadata_map[h]
  BY <1>1, <1>2 DEF FilesInv, IndexDescribesMetadata, Uploading, Lookup
<1>4. HashOf[file_metadata_map[h]] = h
  BY <1>1 DEF FilesInv, MetadataUnderHash
<1>5. Sources(h) \in Seq(Uids) /\ FileReply(h) \in Replies
  BY SourcesTyped, FileReplyTyped DEF HubTypeOK
<1>6. Len(r.sources) = Len(Sources(h)) /\ r.sources \in Seq(Clients)
  BY <1>5, FileReplyTyped DEF Replies
<1>7. r.sources # <<>>
  BY <1>2, <1>5, <1>6, EmptySeq
<1>8. /\ r.hash = h /\ r.metadata = file_metadata_map[h]
      /\ r.index = file_indexdata_map[h]
  BY <1>2 DEF FileReply, Lookup
<1>9. QED
  BY <1>3, <1>4, <1>7, <1>8

\* A reply that names no file promises nothing.
LEMMA AnswersKept ==
  ASSUME HubTypeOK, AnswersAreUsable,
         \A c \in Clients :
           \/ conn'[c] # "answered"
           \/ conn'[c] = conn[c] /\ reply'[c] = reply[c]
           \/ reply'[c].hash = None
  PROVE  AnswersAreUsable'
BY DEF AnswersAreUsable

\* Every step keeps the replies that dnodes have usable.
LEMMA AnswersStep ==
  ASSUME IInv, [HubNext]_vars
  PROVE  AnswersAreUsable'
<1> DEFINE Kept == \A c \in Clients :
                     \/ conn'[c] # "answered"
                     \/ conn'[c] = conn[c] /\ reply'[c] = reply[c]
                     \/ reply'[c].hash = None
<1>1. /\ HubTypeOK /\ FilesInv /\ AnswersAreUsable
      /\ dnode_thread # "accept" => Genuine(serving)
  BY DEF IInv, RequestsGenuine
<1>2. /\ conn \in [Clients -> {"none", "waiting", "answered", "broken"}]
      /\ reply \in [Clients -> Replies]
  BY <1>1 DEF HubTypeOK
<1>3. CASE HandleFileDownload
  <2>1. /\ dnode_thread = "maps" /\ serving.name \in Names
        /\ Answerable(serving.name) /\ serving.client \in Clients
        /\ Answer(serving, FileReply(fname_map[serving.name]))
    BY <1>1, <1>3 DEF HandleFileDownload, Serve, Genuine, Requests
  <2>2. CASE serving.open
    <3>1. \A c \in Clients \ {serving.client} :
            conn'[c] = conn[c] /\ reply'[c] = reply[c]
      BY <1>2, <2>1, <2>2 DEF Answer
    <3>2. reply'[serving.client] = FileReply(fname_map[serving.name])
      BY <1>2, <2>1, <2>2 DEF Answer
    <3>3. QED
      BY <1>1, <2>1, <3>1, <3>2, FileReplyUsable DEF AnswersAreUsable
  <2>3. CASE ~serving.open
    BY <1>1, <2>1, <2>3 DEF Answer, clientVars, AnswersAreUsable
  <2>4. QED
    BY <2>2, <2>3
<1>4. ASSUME HandleNewNodeJoin \/ HandleNodeHello
      PROVE  Kept
  <2>1. PICK u : Answer(serving, [NoReply EXCEPT !.uid = u])
    BY <1>4 DEF HandleNewNodeJoin, HandleNodeHello
  <2>2. [NoReply EXCEPT !.uid = u].hash = None
    BY DEF NoReply
  <2>3. QED
    BY <1>1, <1>2, <1>4, <2>1, <2>2 DEF Answer, clientVars
<1>5. ASSUME NEW c \in Clients, Take(c) \/ Vanish(c)
      PROVE  Kept
  BY <1>2, <1>5 DEF Take, Vanish
<1>6. ASSUME \/ \E r \in DnodeRequests : Arrive(r)
             \/ Die
      PROVE  Kept
  BY <1>2, <1>6 DEF Arrive, Die
<1>7. ASSUME \/ Accept \/ HandleUploadHeader \/ HandleUploadIndex
             \/ HandleFileDownloadedAck
             \/ \E q \in PeerRequests : AcceptHub(q)
             \/ HandleHubJoin \/ HandleHubHello \/ HandleQueryForFileSrcs
             \/ Restart \/ UNCHANGED vars
      PROVE  Kept
  BY <1>7
  DEF Accept, HandleUploadHeader, HandleUploadIndex, HandleFileDownloadedAck,
      AcceptHub, HandleHubJoin, HandleHubHello, HandleQueryForFileSrcs,
      ServeHub, Restart, clientVars, vars
<1> HIDE DEF Kept
<1>8. Kept => AnswersAreUsable'
  BY <1>1, AnswersKept DEF Kept
<1>9. QED
  BY <1>3, <1>4, <1>5, <1>6, <1>7, <1>8, HubSteps

-----------------------------------------------------------------------------
(* The theorems.                                                           *)

\* The invariant holds at the start.
LEMMA InitInv == HubInit => IInv
<1> SUFFICES ASSUME HubInit
             PROVE  IInv
  OBVIOUS
<1>1. NoReply \in Replies /\ backlog \in Seq(Requests) /\ DOMAIN backlog = {}
  BY EmptySeq DEF HubInit, NoReply, Replies
<1>2. HubTypeOK
  BY <1>1, EmptyIsTable DEF HubInit, HubTypeOK
<1>3. RequestsGenuine /\ PeerInv
  BY <1>1 DEF HubInit, RequestsGenuine, PeerInv
<1>4. FilesInv
  BY EmptyIsTable
  DEF HubInit, FilesInv, HeaderStored, MetadataUnderHash, NamedFilesComplete,
      IndexDescribesMetadata
<1>5. AnswersAreUsable
  BY DEF HubInit, AnswersAreUsable
<1>6. QED
  BY <1>2, <1>3, <1>4, <1>5 DEF IInv

\* And every step keeps it.
LEMMA NextInv == IInv /\ [HubNext]_vars => IInv'
BY TypeStep, RequestsStep, FilesStep, AnswersStep DEF IInv

\* The invariant holds of every reachable state.
THEOREM HubInvHolds == HubSpec => []IInv
BY InitInv, NextInv, PTL DEF HubSpec

\* Whatever dnodes and hubs send, the tables hold what they are declared to hold
\* (hub.cpp:31-48).
THEOREM HubTypeCorrect == HubSpec => []HubTypeOK
<1>1. IInv => HubTypeOK
  BY DEF IInv
<1>2. QED
  BY <1>1, HubInvHolds, PTL

\* A name leads to a size, a source and an index, which only the upload under
\* way may owe (dnode_req_server.cpp:128-151, 168-210).
THEOREM NamedFilesAreComplete == HubSpec => []NamedFilesComplete
<1>1. IInv => NamedFilesComplete
  BY DEF IInv, FilesInv
<1>2. QED
  BY <1>1, HubInvHolds, PTL

\* Size and chunk hashes of a file come from the same upload
\* (dnode_req_server.cpp:135, 151).
THEOREM IndexMatchesMetadata == HubSpec => []IndexDescribesMetadata
<1>1. IInv => IndexDescribesMetadata
  BY DEF IInv, FilesInv
<1>2. QED
  BY <1>1, HubInvHolds, PTL

\* The reply to a download can be used (dnode_req_server.cpp:199-214).
THEOREM AnswersUsable == HubSpec => []AnswersAreUsable
<1>1. IInv => AnswersAreUsable
  BY DEF IInv
<1>2. QED
  BY <1>1, HubInvHolds, PTL

\* A name keeps the hash of its first upload for as long as the process lives,
\* whatever is uploaded under it afterwards (dnode_req_server.cpp:138-146).
THEOREM NamesAreKept == HubSpec => BindingsAreStable
<1> DEFINE Stable ==
      process = "up" /\ process' = "up" =>
        \A n \in DOMAIN fname_map :
          n \in DOMAIN fname_map' /\ fname_map'[n] = fname_map[n]
<1>1. [HubNext]_vars => Stable
  <2> SUFFICES ASSUME [HubNext]_vars
               PROVE  Stable
    OBVIOUS
  <2>1. ASSUME HandleUploadHeader
        PROVE  Stable
    BY <2>1 DEF HandleUploadHeader, Bound, Put
  <2>2. ASSUME Die
        PROVE  Stable
    BY <2>2 DEF Die
  <2>3. ASSUME \/ \E r \in DnodeRequests : Arrive(r)
               \/ \E c \in Clients : Take(c) \/ Vanish(c)
               \/ Accept \/ HandleNewNodeJoin \/ HandleNodeHello
               \/ HandleUploadIndex \/ HandleFileDownload
               \/ HandleFileDownloadedAck
               \/ \E q \in PeerRequests : AcceptHub(q)
               \/ HandleHubJoin \/ HandleHubHello \/ HandleQueryForFileSrcs
               \/ Restart \/ UNCHANGED vars
        PROVE  Stable
    <3>1. UNCHANGED fname_map
      BY <2>3
      DEF Arrive, Take, Vanish, Accept, HandleNewNodeJoin, HandleNodeHello,
          HandleUploadIndex, HandleFileDownload, HandleFileDownloadedAck,
          AcceptHub, HandleHubJoin, HandleHubHello, HandleQueryForFileSrcs,
          ServeHub, Restart, vars, tables
    <3>2. QED
      BY <3>1
  <2> HIDE DEF Stable
  <2>4. QED
    BY <2>1, <2>2, <2>3, HubSteps
<1>2. QED
  BY <1>1, PTL DEF HubSpec, BindingsAreStable
=============================================================================
