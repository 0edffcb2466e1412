-------------------------------- MODULE Hub --------------------------------
(***************************************************************************)
(* The hub (src/src/hub.cpp and src/src/hub/): five tables in memory, the  *)
(* thread that serves dnodes (dnode_req_server.cpp) and the thread that    *)
(* serves other hubs (hub_req_server.cpp).  The two threads share the      *)
(* tables and there is no lock.                                            *)
(*                                                                         *)
(* The dnode thread serves one connection after the other.  Connections    *)
(* that are not accepted yet wait, with what their dnode has sent, in      *)
(* backlog.  A join, a hello and a download wait for a reply; an upload    *)
(* and an acknowledgement are sent and the connection is closed.           *)
(*                                                                         *)
(* A table is a function whose domain is the keys it has entries for.      *)
(* What differs between two files is abstracted to their content; the hub  *)
(* knows a content by its hash, and two contents may have the same one.    *)
(***************************************************************************)
EXTENDS Naturals, Sequences, FiniteSets

CONSTANTS
  Clients,       \* the dnodes, which are also the addresses they listen at
  Uids,          \* uids of dnodes
  JunkUids,      \* uids a dnode may have without having got one from a hub
  Names,         \* file names
  Contents,      \* contents of files: sizes, chunks and chunk hashes
  Hashes,        \* file hashes
  HashOf,        \* content -> its file hash
  None,          \* no value
  SameSecond,    \* may two dnodes join within the same second?
  MayVanish,     \* may a dnode die while it talks to the hub?
  MaxBacklog,    \* bound: connections that wait at once
  MaxRequests,   \* bound: requests of dnodes in a behaviour
  PeerRequests,  \* the requests that other hubs send
  MaxPeerRequests \* bound: requests of other hubs in a behaviour

ASSUME HashAssumption == HashOf \in [Contents -> Hashes]
ASSUME NoneAssumption ==
  None \notin Clients \cup Uids \cup Names \cup Contents \cup Hashes

\* A query names its file by a hash (hub.h:166-168).
ASSUME PeerAssumption ==
  \A q \in PeerRequests : q.cmd = "HUB_QUERY_FILE_SRCS" => q.hash \in Hashes

VARIABLES
  process,             \* is the hub's process "up" or "down"?
  backlog,             \* the connections not accepted yet, oldest first
  dnode_thread,        \* where the thread that serves dnodes stands
  serving,             \* the request it serves
  hub_thread,          \* where the thread that serves hubs stands
  hub_request,         \* the request it serves
  dnodes_map,          \* uid -> address
  fname_map,           \* name -> file hash
  fhash_map,           \* file hash -> uids of the sources, oldest first
  file_metadata_map,   \* file hash -> the content its size was taken from
  file_indexdata_map,  \* file hash -> the content whose chunk hashes are kept
  peer_hubs_map,       \* the uids of the hubs that joined
  conn,                \* dnode -> its connection, if it waits for a reply
  reply,               \* dnode -> the reply it has got
  issued,              \* the uids random64bit has returned
  arrived,             \* how many requests of dnodes there have been
  peer_arrived         \* how many requests of hubs there have been

tables == <<dnodes_map, fname_map, fhash_map, file_metadata_map,
            file_indexdata_map>>
peerVars == <<hub_thread, hub_request, peer_hubs_map, peer_arrived>>
clientVars == <<conn, reply>>
vars == <<process, backlog, dnode_thread, serving, tables, peerVars,
          clientVars, issued, arrived>>

\* What a dnode sends.  sent says how much of it was sent when the connection
\* was closed, open that the dnode still has its end of the connection.
Sent == {"nothing", "header", "all"}
Cmds == {"NODE_JOIN", "NODE_HELLO", "FILE_UPLOAD", "FILE_DOWNLOAD",
         "FILE_DOWNLOADED_ACK"}
Requests ==
  [cmd : Cmds, client : Clients, uid : Uids \cup {None},
   name : Names \cup {None}, content : Contents \cup {None},
   hash : Hashes \cup {None}, open : BOOLEAN, sent : Sent]

NoRequest ==
  [cmd |-> None, client |-> None, uid |-> None, name |-> None,
   content |-> None, hash |-> None, open |-> FALSE, sent |-> "nothing"]

\* The requests of the dnodes' code.  After an upload or an acknowledgement the
\* dnode closes the connection, after the others it waits.
Request(cmd, c) ==
  [NoRequest EXCEPT !.cmd = cmd, !.client = c, !.open = TRUE, !.sent = "all"]
JoinRequest(c) == Request("NODE_JOIN", c)
HelloRequest(c, u) == [Request("NODE_HELLO", c) EXCEPT !.uid = u]
DownloadRequest(c, n) == [Request("FILE_DOWNLOAD", c) EXCEPT !.name = n]
UploadWithoutUid(c, u, n, x) ==         \* mutant: dnode_uid is not filled in
  [Request("FILE_UPLOAD", c) EXCEPT !.uid = 0, !.name = n, !.content = x,
                                    !.hash = HashOf[x], !.open = FALSE]
UploadRequest(c, u, n, x) ==
  [Request("FILE_UPLOAD", c) EXCEPT !.uid = u, !.name = n, !.content = x,
                                    !.hash = HashOf[x], !.open = FALSE]
AckRequest(c, u, h) ==
  [Request("FILE_DOWNLOADED_ACK", c) EXCEPT !.uid = u, !.hash = h,
                                            !.open = FALSE]

\* What has arrived of a request when the dnode died in the middle of it.
CutShort(r) ==
  IF ~MayVanish THEN {}
  ELSE {[r EXCEPT !.open = FALSE, !.sent = s] :
          s \in IF r.cmd = "FILE_UPLOAD" THEN {"nothing", "header"}
                                         ELSE {"nothing"}}

NoReply ==
  [uid |-> None, hash |-> None, metadata |-> None, index |-> None,
   sources |-> <<>>]

NoHubRequest == [cmd |-> None, uid |-> None, hash |-> None]

EmptyTable == [x \in {} |-> None]
Put(f, k, v) == [x \in DOMAIN f \cup {k} |-> IF x = k THEN v ELSE f[x]]
Lookup(f, k, default) == IF k \in DOMAIN f THEN f[k] ELSE default
Sources(h) == Lookup(fhash_map, h, <<>>)

HubInit ==
  /\ process = "up"
  /\ backlog = <<>>
  /\ dnode_thread = "accept" /\ serving = NoRequest
  /\ hub_thread = "accept" /\ hub_request = NoHubRequest
  /\ dnodes_map = EmptyTable /\ fname_map = EmptyTable
  /\ fhash_map = EmptyTable /\ file_metadata_map = EmptyTable
  /\ file_indexdata_map = EmptyTable /\ peer_hubs_map = {}
  /\ conn = [c \in Clients |-> "none"]
  /\ reply = [c \in Clients |-> NoReply]
  /\ issued = {}
  /\ arrived = 0 /\ peer_arrived = 0

-----------------------------------------------------------------------------
(* The dnodes' ends of the connections.                                    *)

\* A dnode connects and sends its request.
Arrive(r) ==
  /\ process = "up"
  /\ Len(backlog) < MaxBacklog /\ arrived < MaxRequests
  /\ conn[r.client] = "none"
  /\ backlog' = Append(backlog, r)
  /\ arrived' = arrived + 1
  /\ conn' = IF r.open
             THEN [conn EXCEPT ![r.client] = "waiting"] ELSE conn
  /\ UNCHANGED <<process, dnode_thread, serving, tables, peerVars, reply,
                 issued>>

\* A dnode reads its reply, or learns that there will be none.
Take(c) ==
  /\ conn[c] \in {"answered", "broken"}
  /\ conn' = [conn EXCEPT ![c] = "none"]
  /\ reply' = [reply EXCEPT ![c] = NoReply]
  /\ UNCHANGED <<process, backlog, dnode_thread, serving, tables, peerVars,
                 issued, arrived>>

\* A dnode dies: nobody waits at the other end of its connections any more.
Closed(c, r) == IF r.client = c THEN [r EXCEPT !.open = FALSE] ELSE r
Vanish(c) ==
  /\ backlog' = [i \in DOMAIN backlog |-> Closed(c, backlog[i])]
  /\ serving' = Closed(c, serving)
  /\ conn' = [conn EXCEPT ![c] = "none"]
  /\ reply' = [reply EXCEPT ![c] = NoReply]
  /\ UNCHANGED <<process, dnode_thread, tables, peerVars, issued, arrived>>

-----------------------------------------------------------------------------
(* The process.                                                            *)

\* The process ends and the tables with it.  Who waited for a reply waits for
\* nothing.
Die ==
  /\ process' = "down"
  /\ backlog' = <<>>
  /\ dnode_thread' = "accept" /\ serving' = NoRequest
  /\ hub_thread' = "accept" /\ hub_request' = NoHubRequest
  /\ dnodes_map' = EmptyTable /\ fname_map' = EmptyTable
  /\ fhash_map' = EmptyTable /\ file_metadata_map' = EmptyTable
  /\ file_indexdata_map' = EmptyTable /\ peer_hubs_map' = {}
  /\ conn' = [c \in Clients |-> IF conn[c] = "waiting" THEN "broken"
                                                       ELSE conn[c]]
  /\ UNCHANGED <<reply, issued, arrived, peer_arrived>>

\* Somebody starts it again.
Restart ==
  /\ process = "down"
  /\ process' = "up"
  /\ UNCHANGED <<backlog, dnode_thread, serving, tables, peerVars, clientVars,
                 issued, arrived>>

-----------------------------------------------------------------------------
(* The thread that serves dnodes: handle_dnode_req_server.                 *)

Finish ==
  /\ dnode_thread' = "accept"
  /\ serving' = NoRequest

AnswerUnlessKnown(r, answer) ==       \* mutant: a known dnode gets no reply
  IF r.open /\ r.uid \notin DOMAIN dnodes_map
  THEN /\ conn' = [conn EXCEPT ![r.client] = "answered"]
       /\ reply' = [reply EXCEPT ![r.client] = answer]
  ELSE UNCHANGED clientVars

Answer(r, answer) ==
  IF r.open
  THEN /\ conn' = [conn EXCEPT ![r.client] = "answered"]
       /\ reply' = [reply EXCEPT ![r.client] = answer]
  ELSE UNCHANGED clientVars

\* accept, the command and the fixed part of the request.  If the dnode died
\* before it had sent them, recv_full goes round for ever: recv returns 0 on a
\* closed connection, and 0 is no error.
IsWhole(r) == r.sent # "nothing"
Accept ==
  /\ process = "up" /\ dnode_thread = "accept" /\ backlog # <<>>
  /\ serving' = Head(backlog)
  /\ backlog' = Tail(backlog)
  /\ dnode_thread' = IF IsWhole(Head(backlog)) THEN "maps" ELSE "stuck"
  /\ UNCHANGED <<process, tables, peerVars, clientVars, issued, arrived>>

Serve(cmd) ==
  /\ process = "up" /\ dnode_thread = "maps" /\ serving.cmd = cmd
  /\ UNCHANGED <<process, backlog, peerVars, arrived>>

\* random64bit seeds the generator with the time in seconds: it returns the
\* same uid again within the same second.
AnyUids == Uids \ JunkUids             \* mutant: uids come as they like
FreshUids == {u \in Uids \ JunkUids : u \notin issued \/ SameSecond}

HandleNewNodeJoin ==
  /\ Serve("NODE_JOIN") /\ Finish
  /\ \E u \in FreshUids :
       /\ dnodes_map' = Put(dnodes_map, u, serving.client)
       /\ issued' = issued \cup {u}
       /\ Answer(serving, [NoReply EXCEPT !.uid = u])
  /\ UNCHANGED <<fname_map, fhash_map, file_metadata_map, file_indexdata_map>>

\* A dnode that is not in the map is added to it.
HandleNodeHello ==
  /\ Serve("NODE_HELLO") /\ Finish
  /\ dnodes_map' = Put(dnodes_map, serving.uid, serving.client)
  /\ Answer(serving, [NoReply EXCEPT !.uid = serving.uid])
  /\ UNCHANGED <<fname_map, fhash_map, file_metadata_map, file_indexdata_map,
                 issued>>

Rebound(n, h) == Put(fname_map, n, h)   \* mutant: the last upload names it
Bound(n, h) == IF n \in DOMAIN fname_map THEN fname_map ELSE Put(fname_map, n, h)

AddToExisting(h, u) ==     \* mutant: a hash without an entry does not get one
  IF h \in DOMAIN fhash_map THEN Put(fhash_map, h, Append(Sources(h), u))
                            ELSE fhash_map
SwappedSource(h, u) ==     \* mutant: the arguments are swapped
  Put(fhash_map, u, Append(Sources(u), h))
AddSource(h, u) == Put(fhash_map, h, Append(Sources(h), u))

\* handle_file_upload_req up to where it waits for the index.  A name that is
\* taken keeps the hash it has.
HandleUploadHeader ==
  /\ Serve("FILE_UPLOAD")
  /\ file_metadata_map' =
       Put(file_metadata_map, serving.hash, serving.content)
  /\ fhash_map' = AddSource(serving.hash, serving.uid)
  /\ fname_map' = Bound(serving.name, serving.hash)
  /\ dnode_thread' = "index"
  /\ UNCHANGED <<serving, dnodes_map, file_indexdata_map, clientVars, issued>>

KeptIndex(h, x) ==                   \* mutant: the first index is kept
  IF h \in DOMAIN file_indexdata_map THEN file_indexdata_map
                                     ELSE Put(file_indexdata_map, h, x)
StoredIndex(h, x) == Put(file_indexdata_map, h, x)

\* The index is received, or the dnode died before it had sent it.
HandleUploadIndex ==
  /\ process = "up" /\ dnode_thread = "index"
  /\ IF serving.sent = "all"
     THEN /\ file_indexdata_map' =
               StoredIndex(serving.hash, serving.content)
          /\ Finish
     ELSE /\ dnode_thread' = "stuck"
          /\ UNCHANGED <<serving, file_indexdata_map>>
  /\ UNCHANGED <<process, backlog, dnodes_map, fname_map, fhash_map,
                 file_metadata_map, peerVars, clientVars, issued, arrived>>

\* Everything a download needs is in the tables.
Answerable(n) ==
  /\ n \in DOMAIN fname_map
  /\ LET h == fname_map[n] IN
       /\ h \in DOMAIN file_metadata_map
       /\ \A i \in DOMAIN Sources(h) : Sources(h)[i] \in DOMAIN dnodes_map

FileReply(h) ==
  [uid |-> None, hash |-> h, metadata |-> file_metadata_map[h],
   index |-> Lookup(file_indexdata_map, h, None),
   sources |-> [i \in DOMAIN Sources(h) |-> dnodes_map[Sources(h)[i]]]]

HandleFileDownload ==
  /\ Serve("FILE_DOWNLOAD") /\ Finish
  /\ Answerable(serving.name)
  /\ Answer(serving, FileReply(fname_map[serving.name]))
  /\ UNCHANGED <<tables, issued>>

\* A name or a source that is not in the tables: operator[] makes a null
\* entry, and the handler reads through it.  And the reply is sent in three
\* parts: when the dnode is gone, the second or third raises SIGPIPE.
DownloadKills ==
  /\ process = "up" /\ dnode_thread = "maps" /\ serving.cmd = "FILE_DOWNLOAD"
  /\ ~Answerable(serving.name) \/ ~serving.open
  /\ Die

HandleFileDownloadedAck ==
  /\ Serve("FILE_DOWNLOADED_ACK") /\ Finish
  /\ fhash_map' = AddSource(serving.hash, serving.uid)
  /\ UNCHANGED <<dnodes_map, fname_map, file_metadata_map, file_indexdata_map,
                 clientVars, issued>>

DnodeThread ==
  \/ Accept
  \/ HandleNewNodeJoin \/ HandleNodeHello
  \/ HandleUploadHeader \/ HandleUploadIndex
  \/ HandleFileDownload \/ DownloadKills
  \/ HandleFileDownloadedAck

-----------------------------------------------------------------------------
(* The thread that serves other hubs: handle_hub_req_server.               *)

AcceptHub(q) ==
  /\ process = "up" /\ hub_thread = "accept"
  /\ peer_arrived < MaxPeerRequests
  /\ hub_request' = q
  /\ hub_thread' = "maps"
  /\ peer_arrived' = peer_arrived + 1
  /\ UNCHANGED <<process, backlog, dnode_thread, serving, tables,
                 peer_hubs_map, clientVars, issued, arrived>>

ServeHub(cmd) ==
  /\ process = "up" /\ hub_thread = "maps" /\ hub_request.cmd = cmd
  /\ hub_thread' = "accept" /\ hub_request' = NoHubRequest
  /\ UNCHANGED <<process, backlog, dnode_thread, serving, dnodes_map, fname_map,
                 file_metadata_map, file_indexdata_map, clientVars, issued,
                 arrived, peer_arrived>>

HandleHubJoin ==
  /\ ServeHub("HUB_JOIN")
  /\ peer_hubs_map' = peer_hubs_map \cup {hub_request.uid}
  /\ UNCHANGED fhash_map

\* handle_hub_hello has an empty body.
HandleHubHello == ServeHub("HUB_HELLO") /\ UNCHANGED <<peer_hubs_map, fhash_map>>

\* The lookup makes an entry for a hash that has none.
ResetMap(h) == Put(fhash_map, h, <<>>)      \* mutant: it makes it for any hash
QueriedMap(h) == Put(fhash_map, h, Sources(h))
HandleQueryForFileSrcs ==
  /\ ServeHub("HUB_QUERY_FILE_SRCS")
  /\ \A i \in DOMAIN Sources(hub_request.hash) :
       Sources(hub_request.hash)[i] \in DOMAIN dnodes_map
  /\ fhash_map' = QueriedMap(hub_request.hash)
  /\ UNCHANGED peer_hubs_map

\* A source without an address is read through a null pointer, and the list of
\* sources is written past the end of its allocation.
QueryKills ==
  /\ process = "up" /\ hub_thread = "maps"
  /\ hub_request.cmd = "HUB_QUERY_FILE_SRCS"
  /\ Sources(hub_request.hash) # <<>>
  /\ Die

\* Both threads are in the tables at the same time, and at least one of them
\* changes what the other one reads.  When that does no harm, they were as good
\* as one after the other.
Race ==
  /\ process = "up" /\ dnode_thread = "maps" /\ hub_thread = "maps"
  /\ hub_request.cmd = "HUB_QUERY_FILE_SRCS"
  /\ Die

HubThread ==
  \/ \E q \in PeerRequests : AcceptHub(q)
  \/ HandleHubJoin \/ HandleHubHello \/ HandleQueryForFileSrcs
  \/ QueryKills \/ Race

-----------------------------------------------------------------------------
(* The specification, for dnodes that send anything their code can send.   *)

WholeRequests ==
  LET For(c) ==
        {JoinRequest(c)}
          \cup {HelloRequest(c, u) : u \in Uids}
          \cup {DownloadRequest(c, n) : n \in Names}
          \cup {UploadRequest(c, u, n, x) :
                  u \in Uids, n \in Names, x \in Contents}
          \cup {AckRequest(c, u, h) : u \in Uids, h \in Hashes}
  IN  UNION {For(c) : c \in Clients}
DnodeRequests == WholeRequests \cup UNION {CutShort(r) : r \in WholeRequests}

\* Nothing waits and the bounds are reached.
Exhausted == arrived = MaxRequests /\ UNCHANGED vars

HubNext ==
  \/ \E r \in DnodeRequests : Arrive(r)
  \/ \E c \in Clients : Take(c) \/ (MayVanish /\ Vanish(c))
  \/ DnodeThread
  \/ HubThread
  \/ process = "up" /\ Die
  \/ Restart
  \/ Exhausted

HubSpec == HubInit /\ [][HubNext]_vars

\* The scheduler runs both threads.  Nothing is assumed of dnodes and hubs, nor
\* that a process that ended is started again.
HubFairness ==
  /\ WF_vars(DnodeThread)
  /\ WF_vars(HandleHubJoin \/ HandleHubHello \/ HandleQueryForFileSrcs
               \/ QueryKills \/ Race)

FairHubSpec == HubSpec /\ HubFairness

-----------------------------------------------------------------------------
(* Safety.                                                                 *)

IsTable(f, X, Y) == DOMAIN f \subseteq X /\ \A k \in DOMAIN f : f[k] \in Y
Replies ==
  [uid : Uids \cup {None}, hash : Hashes \cup {None},
   metadata : Contents \cup {None}, index : Contents \cup {None},
   sources : Seq(Clients)]

\* The tables map what they are declared to map, whatever dnodes and hubs send
\* (hub.cpp:31-48).
HubTypeOK ==
  /\ process \in {"up", "down"}
  /\ backlog \in Seq(Requests)
  /\ dnode_thread \in {"accept", "maps", "index", "stuck"}
  /\ serving \in Requests \cup {NoRequest}
  /\ hub_thread \in {"accept", "maps"}
  /\ hub_request \in PeerRequests \cup {NoHubRequest}
  /\ IsTable(dnodes_map, Uids, Clients)
  /\ IsTable(fname_map, Names, Hashes)
  /\ IsTable(fhash_map, Hashes, Seq(Uids))
  /\ IsTable(file_metadata_map, Hashes, Contents)
  /\ IsTable(file_indexdata_map, Hashes, Contents)
  /\ conn \in [Clients -> {"none", "waiting", "answered", "broken"}]
  /\ reply \in [Clients -> Replies]
  /\ issued \subseteq Uids

\* The upload whose header is in the tables and whose index is not.
Uploading(h) ==
  dnode_thread \in {"index", "stuck"} /\ serving.cmd = "FILE_UPLOAD"
    /\ serving.hash = h

\* A name in the hub's table leads to a file that can be offered: it has a
\* size, at least one source and an index, which at most the upload under way
\* still owes (dnode_req_server.cpp:128-151, 168-210).
NamedFilesComplete ==
  \A n \in DOMAIN fname_map :
    LET h == fname_map[n] IN
      /\ h \in DOMAIN file_metadata_map
      /\ Sources(h) # <<>>
      /\ h \in DOMAIN file_indexdata_map \/ Uploading(h)

\* The size the hub holds for a file and the chunk hashes it holds for it were
\* sent by the same upload, also when two files have the same hash
\* (dnode_req_server.cpp:135, 151).
IndexDescribesMetadata ==
  \A h \in DOMAIN file_indexdata_map :
    ~Uploading(h) => file_indexdata_map[h] = Lookup(file_metadata_map, h, None)

\* A download is answered with a file of the hash the reply names, its own
\* chunk hashes, and somebody to fetch it from (dnode_req_server.cpp:199-214).
AnswersAreUsable ==
  \A c \in Clients : conn[c] = "answered" /\ reply[c].hash # None =>
    /\ reply[c].sources # <<>>
    /\ reply[c].index = reply[c].metadata
    /\ HashOf[reply[c].metadata] = reply[c].hash

\* As long as the process lives, everybody who asks for a name is led to the same
\* file hash, that of its first upload, although later uploads under the name are
\* stored and look like a success to their users (dnode_req_server.cpp:138-146).
\* Of the sources of a file no more is promised than AnswersAreUsable says.
BindingsAreStable ==
  [][process = "up" /\ process' = "up" =>
       \A n \in DOMAIN fname_map :
         n \in DOMAIN fname_map' /\ fname_map'[n] = fname_map[n]]_vars

-----------------------------------------------------------------------------
(* Liveness, under FairHubSpec.                                            *)

\* A dnode that waits for a reply gets one, or learns that the hub is gone, or
\* the hub's thread waits for ever for the rest of another dnode's request
\* (dnode_req_server.cpp:253-297).
WaitersAreServed ==
  \A c \in Clients :
    conn[c] = "waiting" ~> conn[c] # "waiting" \/ dnode_thread = "stuck"
=============================================================================
