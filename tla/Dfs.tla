-------------------------------- MODULE Dfs --------------------------------
(***************************************************************************)
(* The whole system: a hub and its dnodes.  A dnode (src/src/dnode.cpp,    *)
(* src/src/dnode/) joins the hub or says hello when it starts, serves the  *)
(* RPC requests of its users one after the other, and serves its files to  *)
(* other dnodes from a thread of its own.                                  *)
(*                                                                         *)
(* Its files and its uid_file are on disk and outlive it.  A download is   *)
(* what ChunkDownload says of it, seen from outside: every part of the     *)
(* file comes from the first source that can be connected to, and what is  *)
(* written of it depends on how its size compares to the buffer's.         *)
(***************************************************************************)
EXTENDS Hub

CONSTANTS
  Junk,         \* bytes that are no content; a uid_file without a uid
  SizeOf,       \* content -> its size
  BufferSize,   \* DOWNLOADABLE_CHUNKS * FILE_CHUNK_SIZE
  Parts,        \* how many times a download asks a source
  Uploads,      \* <<n, x>>: users upload content x under the name n
  AskUnknown,   \* may users ask for names that were never uploaded?
  EarlyUse,     \* may users use a dnode before its data server listens?
  MayHubDie,    \* may the hub's process be killed?
  MaxJobs,      \* bound: uploads and downloads
  MaxStarts     \* bound: starts of dnodes

Dnodes == Clients

\* 0 is no uid, but it may be what is left in memory where one should be.
ASSUME JunkAssumption ==
  /\ 0 \in JunkUids /\ JunkUids \subseteq Uids
  /\ Junk \notin Contents /\ Junk # None /\ Junk \notin Uids
  /\ SizeOf \in [Contents -> Nat] /\ BufferSize \in Nat \ {0}

ASSUME UploadsAssumption == Uploads \subseteq Names \X Contents

VARIABLES
  phase,        \* where the main thread or the RPC thread of a dnode stands
  listening,    \* the dnodes whose data server listens
  uid,          \* dnode_details.uid
  uid_file,     \* the uid that is kept on disk
  files,        \* files_dir: name -> the content of the file
  job,          \* the RPC request a dnode works on
  jobs,         \* how many there have been
  starts,       \* how many starts of dnodes there have been
  uploaded      \* <<d, n, x>>: the uploads users were told to be a success

dnodeVars == <<phase, listening, uid, uid_file, files, job, jobs, starts,
               uploaded>>
allVars == <<vars, dnodeVars>>

\* target: what the hub says the file is.  next: the first source that has not
\* refused a connection.  got: the parts that were received.
NoJob == [name |-> None, target |-> None, hash |-> None, sources |-> <<>>,
          next |-> 1, got |-> <<>>]

DfsInit ==
  /\ HubInit
  /\ phase = [d \in Dnodes |-> "off"]
  /\ listening = {}
  /\ uid = [d \in Dnodes |-> None]
  /\ uid_file = [d \in Dnodes |-> None]
  /\ files = [d \in Dnodes |-> [n \in Names |-> None]]
  /\ job = [d \in Dnodes |-> NoJob]
  /\ jobs = 0 /\ starts = 0
  /\ uploaded = {}

-----------------------------------------------------------------------------
(* Steps of a dnode.                                                       *)

Goto(d, from, to) ==
  /\ phase[d] = from
  /\ phase' = [phase EXCEPT ![d] = to]

\* The process ends, however: what is on disk stays.
End(d) ==
  /\ phase' = [phase EXCEPT ![d] = "off"]
  /\ listening' = listening \ {d}
  /\ uid' = [uid EXCEPT ![d] = None]

\* The request is sent to the hub.  The dnode may die before it is out.
Send(d, from, r, to) ==
  /\ phase[d] = from
  /\ \/ Arrive(r) /\ Goto(d, from, to) /\ UNCHANGED <<listening, uid>>
     \/ \E q \in CutShort(r) : Arrive(q) /\ End(d)

HubIsDown == process = "down" /\ UNCHANGED vars

-----------------------------------------------------------------------------
(* Start: main, initialize_dnode, handle_node_join, handle_node_hello.     *)

\* The uid is read from uid_file if there is one.  An empty file leaves it
\* uninitialized; 0 is as good as no uid.
RawUid(d) ==                          \* mutant: an empty file passes for a uid
  IF uid_file[d] = None THEN {0} ELSE {uid_file[d]}
InitialUid(d) ==
  IF uid_file[d] = None THEN {0}
  ELSE IF uid_file[d] = Junk THEN JunkUids
  ELSE {uid_file[d]}

StartUp(d) ==
  /\ phase[d] = "off" /\ starts < MaxStarts
  /\ \E u \in InitialUid(d) :
       /\ uid' = [uid EXCEPT ![d] = u]
       /\ phase' = [phase EXCEPT ![d] = IF u = 0 THEN "join" ELSE "hello"]
  /\ starts' = starts + 1
  /\ UNCHANGED <<vars, listening, uid_file, files, job, jobs, uploaded>>

SendJoin(d) ==
  /\ Send(d, "join", JoinRequest(d), "joining")
  /\ UNCHANGED <<uid_file, files, job, jobs, starts, uploaded>>

\* The reply has arrived: uid_file is created ...
Joined(d) ==
  /\ Goto(d, "joining", "joined")
  /\ conn[d] = "answered" /\ Take(d)
  /\ uid' = [uid EXCEPT ![d] = reply[d].uid]
  /\ uid_file' = [uid_file EXCEPT ![d] = IF @ = None THEN Junk ELSE @]
  /\ UNCHANGED <<listening, files, job, jobs, starts, uploaded>>

\* ... also when there is no hub to join, and recv_full fails.  What the reply
\* should have said is uninitialized then.
JoinFails(d) ==
  /\ \/ phase[d] = "join" /\ HubIsDown
     \/ phase[d] = "joining" /\ conn[d] = "broken" /\ Take(d)
  /\ phase' = [phase EXCEPT ![d] = "joined"]
  /\ \E u \in JunkUids : uid' = [uid EXCEPT ![d] = u]
  /\ uid_file' = [uid_file EXCEPT ![d] = IF @ = None THEN Junk ELSE @]
  /\ UNCHANGED <<listening, files, job, jobs, starts, uploaded>>

OnceSaved(d) ==                       \* mutant: only a new file is written
  IF uid_file[d] = Junk THEN uid[d] ELSE uid_file[d]
SavedUid(d) == uid[d]

\* The uid is written to it.
SaveUid(d) ==
  /\ Goto(d, "joined", "ready")
  /\ uid_file' = [uid_file EXCEPT ![d] = SavedUid(d)]
  /\ UNCHANGED <<vars, listening, uid, files, job, jobs, starts, uploaded>>

SendHello(d) ==
  /\ Send(d, "hello", HelloRequest(d, uid[d]), "greeting")
  /\ UNCHANGED <<uid_file, files, job, jobs, starts, uploaded>>

\* The reply is not looked at, nor that there is none.
Greeted(d) ==
  /\ \/ phase[d] = "hello" /\ HubIsDown
     \/ phase[d] = "greeting" /\ Take(d)
  /\ phase' = [phase EXCEPT ![d] = "ready"]
  /\ UNCHANGED <<listening, uid, uid_file, files, job, jobs, starts, uploaded>>

\* When the hub closes the connection in good order, recv_full does not return:
\* the main thread comes no further.
StartHangs(d) ==
  /\ phase[d] \in {"joining", "greeting"}
  /\ conn[d] = "broken" /\ Take(d)
  /\ phase' = [phase EXCEPT ![d] = "stalled"]
  /\ UNCHANGED <<listening, uid, uid_file, files, job, jobs, starts, uploaded>>

\* The data server is started a second after the RPC server.
Starting == {"join", "joining", "joined", "hello", "greeting", "stalled"}
Listen(d) ==
  /\ phase[d] \notin Starting \cup {"off"}
  /\ d \notin listening
  /\ listening' = listening \cup {d}
  /\ UNCHANGED <<vars, phase, uid, uid_file, files, job, jobs, starts, uploaded>>

-----------------------------------------------------------------------------
(* Upload: handle_file_upload.                                             *)

NotCreated(old, new, len) ==          \* mutant: open without O_CREAT
  IF old = None THEN {None} ELSE {new}

\* The first len bytes of new are written over a file, from its beginning: it
\* keeps the rest of what it was.
Overwritten(old, new, len) ==
  IF len = 0 /\ old # None THEN {old}
  ELSE IF old = new THEN {new}
  ELSE IF old = Junk THEN {new, Junk}
  ELSE IF new # Junk /\ len = SizeOf[new] /\ (old = None \/ SizeOf[old] <= len)
       THEN {new} ELSE {Junk}

\* While the file is copied, a part of it is what it will be.
HalfWritten(old, y, x) == IF y = old \/ SizeOf[x] = 0 THEN y ELSE Junk

Upload(d, n, x) ==
  /\ Goto(d, "ready", "copying") /\ jobs < MaxJobs
  /\ jobs' = jobs + 1
  /\ \E y \in Overwritten(files[d][n], x, SizeOf[x]) :
       /\ job' = [job EXCEPT ![d] = [NoJob EXCEPT !.name = n, !.target = x,
                                                  !.got = <<y>>]]
       /\ files' = [files EXCEPT ![d][n] = HalfWritten(@, y, x)]
  /\ UNCHANGED <<vars, listening, uid, uid_file, starts, uploaded>>

Copied(d) ==
  /\ Goto(d, "copying", "copied")
  /\ files' = [files EXCEPT ![d][job[d].name] = job[d].got[1]]
  /\ UNCHANGED <<vars, listening, uid, uid_file, job, jobs, starts, uploaded>>

\* The hub is told of the file, if there is a hub, and the user of a success in
\* either case.
Announce(d) ==
  LET n == job[d].name
      x == job[d].target
  IN  /\ \/ Send(d, "copied", UploadRequest(d, uid[d], n, x), "ready")
         \/ HubIsDown /\ Goto(d, "copied", "ready") /\ UNCHANGED <<listening, uid>>
      /\ job' = [job EXCEPT ![d] = NoJob]
      /\ uploaded' = IF phase'[d] = "ready" THEN uploaded \cup {<<d, n, x>>}
                                            ELSE uploaded
      /\ UNCHANGED <<uid_file, files, jobs, starts>>

-----------------------------------------------------------------------------
(* Download: handle_file_download.                                         *)

\* Without a hub the response is uninitialized.
Download(d, n) ==
  /\ jobs < MaxJobs /\ (AskUnknown \/ n \in DOMAIN fname_map)
  /\ jobs' = jobs + 1
  /\ \/ Send(d, "ready", DownloadRequest(d, n), "asking")
     \/ HubIsDown /\ Goto(d, "ready", "misled") /\ UNCHANGED <<listening, uid>>
  /\ job' = [job EXCEPT ![d] = [NoJob EXCEPT !.name = n]]
  /\ UNCHANGED <<uid_file, files, starts, uploaded>>

GotReply(d) ==
  /\ Goto(d, "asking", "fetching")
  /\ conn[d] = "answered" /\ Take(d)
  /\ job' = [job EXCEPT ![d].target = reply[d].metadata,
                        ![d].hash = reply[d].hash,
                        ![d].sources = reply[d].sources]
  /\ UNCHANGED <<listening, uid, uid_file, files, jobs, starts, uploaded>>

NoReplyComes(d) ==
  /\ Goto(d, "asking", "misled")
  /\ conn[d] = "broken" /\ Take(d)
  /\ UNCHANGED <<listening, uid, uid_file, files, job, jobs, starts, uploaded>>

\* What an uninitialized response leads to: the process crashes, the RPC thread
\* does not come back, or it goes on to acknowledge whatever hash it found.
Misled(d) ==
  /\ phase[d] = "misled"
  /\ \/ End(d) /\ job' = [job EXCEPT ![d] = NoJob]
     \/ /\ Goto(d, "misled", "hung")
        /\ UNCHANGED <<listening, uid, job>>
     \/ \E h \in Hashes :
          /\ Goto(d, "misled", "fetched")
          /\ job' = [job EXCEPT ![d].hash = h]
          /\ UNCHANGED <<listening, uid>>
  /\ UNCHANGED <<vars, uid_file, files, jobs, starts, uploaded>>

SourceLeft(d) == job[d].next <= Len(job[d].sources)
Source(d) == job[d].sources[job[d].next]
\* A file without bytes has no parts.
Fetching(d) ==
  /\ phase[d] = "fetching" /\ Len(job[d].got) < Parts
  /\ SizeOf[job[d].target] > 0
ReplacePart(d, bytes) ==              \* mutant: every part in the same place
  /\ job' = [job EXCEPT ![d].got = <<bytes>>]
  /\ UNCHANGED <<vars, phase, listening, uid, uid_file, files, jobs, starts,
                 uploaded>>
GetPart(d, bytes) ==
  /\ job' = [job EXCEPT ![d].got = Append(@, bytes)]
  /\ UNCHANGED <<vars, phase, listening, uid, uid_file, files, jobs, starts,
                 uploaded>>
FetchHangs(d) ==
  /\ Goto(d, "fetching", "hung")
  /\ UNCHANGED <<vars, listening, uid, uid_file, files, job, jobs, starts,
                 uploaded>>

\* Of a file that is longer than the buffer no more than that is asked for.
LongEnough(y, x) ==
  y \in Contents /\ (SizeOf[y] >= SizeOf[x] \/ SizeOf[y] >= BufferSize)

\* The source sends what its file of that name has at that place.  Nobody looks
\* whether it is what the hub's index says; another file may have the same there.
FetchPart(d) ==
  /\ Fetching(d) /\ SourceLeft(d) /\ Source(d) \in listening
  /\ LET y == files[Source(d)][job[d].name]
         x == job[d].target
     IN  \/ y # None /\ GetPart(d, x)
         \/ y # x /\ GetPart(d, Junk)
         \/ ~LongEnough(y, x) /\ FetchHangs(d)

\* The connection ends in the middle of the transfer.
FetchBroken(d) ==
  /\ Fetching(d) /\ SourceLeft(d) /\ Source(d) \in listening /\ MayVanish
  /\ GetPart(d, Junk) \/ FetchHangs(d)

\* The source does not listen: the next one is asked, unless two threads have
\* taken the mutexes of sources and chunks the wrong way round.
FetchRefused(d) ==
  /\ Fetching(d) /\ SourceLeft(d) /\ Source(d) \notin listening
  /\ \/ /\ job' = [job EXCEPT ![d].next = @ + 1]
        /\ UNCHANGED <<vars, phase, listening, uid, uid_file, files, jobs,
                       starts, uploaded>>
     \/ FetchHangs(d)

\* There is no source: the part stays what it was in the buffer.
FetchNothing(d) == Fetching(d) /\ ~SourceLeft(d) /\ GetPart(d, Junk)

AllFetched(j) == \A i \in DOMAIN j.got : j.got[i] = j.target
Assembled(j) == IF AllFetched(j) THEN j.target ELSE Junk

\* buffer_end_offset.  Nothing is written of a file that fills the buffer, and
\* of a longer one what is in the buffer after the first and only round.  The
\* whole buffer is written when chunks are missing, which a part that is not
\* what it should be may be the reason for.
EndOffsets(j) ==
  LET size == SizeOf[j.target] IN
    IF size > BufferSize THEN {BufferSize}
    ELSE IF size = 0 \/ AllFetched(j) THEN {size % BufferSize}
    ELSE {size % BufferSize, BufferSize}

WriteFile(d) ==
  /\ Goto(d, "fetching", "fetched") /\ ~Fetching(d)
  /\ \E len \in EndOffsets(job[d]) :
       \E y \in Overwritten(files[d][job[d].name], Assembled(job[d]), len) :
         files' = [files EXCEPT ![d][job[d].name] = y]
  /\ UNCHANGED <<vars, listening, uid, uid_file, job, jobs, starts, uploaded>>

AckByName(d) == AckRequest(d, uid[d], job[d].name)   \* mutant: the wrong field
AckOf(d) == AckRequest(d, uid[d], job[d].hash)

\* The hub is told that this dnode is a source, whatever was fetched.
Acknowledge(d) ==
  /\ \/ Send(d, "fetched", AckOf(d), "ready")
     \/ HubIsDown /\ Goto(d, "fetched", "ready") /\ UNCHANGED <<listening, uid>>
  /\ job' = [job EXCEPT ![d] = NoJob]
  /\ UNCHANGED <<uid_file, files, jobs, starts, uploaded>>

-----------------------------------------------------------------------------
(* The system.                                                             *)

Crash(d) ==
  /\ MayVanish /\ phase[d] # "off"
  /\ End(d) /\ Vanish(d)
  /\ job' = [job EXCEPT ![d] = NoJob]
  /\ UNCHANGED <<uid_file, files, jobs, starts, uploaded>>

\* What a dnode does without being told to.
Progress(d) ==
  \/ SendJoin(d) \/ Joined(d) \/ JoinFails(d) \/ SaveUid(d)
  \/ SendHello(d) \/ Greeted(d) \/ StartHangs(d)
  \/ Copied(d) \/ Announce(d)
  \/ GotReply(d) \/ NoReplyComes(d) \/ Misled(d)
  \/ FetchPart(d) \/ FetchBroken(d) \/ FetchRefused(d) \/ FetchNothing(d)
  \/ WriteFile(d) \/ Acknowledge(d)

User(d) ==
  \/ StartUp(d)
  \/ /\ EarlyUse \/ d \in listening
     /\ \/ \E u \in Uploads : Upload(d, u[1], u[2])
        \/ \E n \in Names : Download(d, n)

HubStep == DnodeThread /\ UNCHANGED dnodeVars
HubDies == MayHubDie /\ process = "up" /\ Die /\ UNCHANGED dnodeVars
HubRestarts == Restart /\ UNCHANGED dnodeVars

\* The users have nothing left to do and everybody is done.
Quiet ==
  /\ jobs = MaxJobs /\ starts = MaxStarts
  /\ \A d \in Dnodes : phase[d] \in {"off", "ready"}
  /\ backlog = <<>> /\ dnode_thread = "accept"
  /\ UNCHANGED allVars

DfsNext ==
  \/ \E d \in Dnodes : User(d) \/ Progress(d) \/ Listen(d) \/ Crash(d)
  \/ HubStep \/ HubDies \/ HubRestarts
  \/ Quiet

DfsSpec == DfsInit /\ [][DfsNext]_allVars

\* Every process that runs is scheduled.  Users need not do anything, nobody
\* need die, and nobody need start what died.
DfsFairness ==
  /\ \A d \in Dnodes : WF_allVars(Progress(d)) /\ WF_allVars(Listen(d))
  /\ WF_allVars(HubStep)

FairDfsSpec == DfsSpec /\ DfsFairness

-----------------------------------------------------------------------------
(* Safety.                                                                 *)

Phases ==
  Starting \cup {"off", "ready", "copying", "copied", "asking", "misled",
                "fetching", "fetched", "hung"}

Jobs ==
  [name : Names \cup {None}, target : Contents \cup {None},
   hash : Hashes \cup {None}, sources : Seq(Dnodes), next : Nat \ {0},
   got : Seq(Contents \cup {Junk})]

\* Every variable of the dnodes keeps to its range (dnode.h:51-65).
DfsTypeOK ==
  /\ phase \in [Dnodes -> Phases]
  /\ listening \subseteq Dnodes
  /\ uid \in [Dnodes -> Uids \cup {None}]
  /\ uid_file \in [Dnodes -> Uids \cup {None, Junk}]
  /\ files \in [Dnodes -> [Names -> Contents \cup {None, Junk}]]
  /\ job \in [Dnodes -> Jobs]
  /\ uploaded \subseteq Dnodes \X Names \X Contents

\* d's file called n has the hash h.
HasFile(d, n, h) == files[d][n] \in Contents /\ HashOf[files[d][n]] = h

\* A dnode that the hub names as a source of a file has an address and, under
\* every name the hub knows the file by, a file with that hash: at whatever
\* point uploads, downloads and acknowledgements of other dnodes are.  It takes
\* files that are shorter than the buffer, dnodes that listen before they are used
\* and transfers that are not broken off (dnode_req_server.cpp:141, 234;
\* rpc_server.cpp:79-128, 424-432, 546-561).
SourcesHoldFile ==
  \A n \in DOMAIN fname_map :
    LET h == fname_map[n] IN
      \A i \in DOMAIN Sources(h) :
        LET u == Sources(h)[i] IN
          u \in DOMAIN dnodes_map /\ HasFile(dnodes_map[u], n, h)

\* No two dnodes have the same uid (hash.cpp:34-41, dnode.cpp:107).
UniqueUids ==
  \A d, e \in Dnodes : d # e /\ uid[d] = uid[e] => uid[d] \in JunkUids \cup {None}

\* The address the hub has for a uid is that of the dnode that has the uid, in
\* memory or on disk, whoever was restarted since: what is asked of a source goes
\* to it and not to another dnode (dnode_req_server.cpp:57-62, 88-99, 199-210;
\* dnode.cpp:69-79).
AddressIsOwner ==
  \A d \in Dnodes :
    \A u \in {uid[d], uid_file[d]} \ (JunkUids \cup {None, Junk}) :
      u \in DOMAIN dnodes_map => dnodes_map[u] = d

\* No request of a dnode ends the hub's process (dnode_req_server.cpp:159-217).
HubSurvives == process = "up"

\* A dnode that serves requests does so under the uid it will have after its
\* next start, unless it died between the creation of uid_file and the write
\* (dnode.cpp:69-79, 107-110).
UidIsPersistent ==
  \A d \in Dnodes :
    phase[d] \notin Starting \cup {"off"} /\ uid_file[d] # Junk =>
      uid_file[d] = uid[d]

\* The uid a dnode has saved is never replaced (dnode.cpp:69-79, 108).
UidIsKept ==
  [][\A d \in Dnodes : uid_file[d] \notin {None, Junk, 0} =>
       uid_file'[d] = uid_file[d]]_allVars

\* A file that a dnode has finished to download is what the hub said it would be,
\* under the same conditions (rpc_server.cpp:424-432, 546-571).
DownloadsAreGenuine ==
  \A d \in Dnodes : phase[d] = "fetched" =>
    HasFile(d, job[d].name, job[d].hash)

-----------------------------------------------------------------------------
(* Liveness, under FairDfsSpec.                                            *)

\* A download that has been asked for ends with the file, if that is shorter than
\* the buffer (rpc_server.cpp:384-445, 497-573).
DownloadsEnd ==
  \A d \in Dnodes, n \in Names :
    phase[d] = "asking" /\ job[d].name = n
      ~> phase[d] = "ready" /\ HasFile(d, n, Lookup(fname_map, n, None))

\* An upload that the user was told to be a success becomes known to the hub,
\* with the uploader as a source, although the hub sends no reply to it
\* (rpc_server.cpp:109-143).
UploadsReachHub ==
  \A d \in Dnodes, n \in Names, x \in Contents :
    <<d, n, x>> \in uploaded ~>
      /\ n \in DOMAIN fname_map
      /\ \E i \in DOMAIN Sources(HashOf[x]) : Sources(HashOf[x])[i] = uid[d]

-----------------------------------------------------------------------------
(* What src/README says, and the program does not do.                      *)

\* A dnode that has refused a download, because it does not run any more, is taken
\* off the list of the file, unless it listens again or who could tell is gone, too
\* (src/README:160-164; rpc_server.cpp:233-246, dnode_req_server.cpp:231-234).
HasRefused(e, d) ==
  phase[d] = "fetching" /\ \E i \in 1 .. job[d].next - 1 : job[d].sources[i] = e
RefusingSourcesAreRemoved ==
  \A d, e \in Dnodes, h \in Hashes :
    HasRefused(e, d) /\ job[d].hash = h
      ~> \/ \A i \in DOMAIN Sources(h) : Lookup(dnodes_map, Sources(h)[i], None) # e
         \/ e \in listening \/ d \notin listening \/ process = "down"

\* What was uploaded at a dnode that is still there is known to the hub after the
\* hub has failed and was started again (src/README:166-167; rpc_server.cpp:109-128).
UploadsOutliveHub ==
  \A d \in Dnodes, n \in Names, x \in Contents :
    <<d, n, x>> \in uploaded ~>
      n \in DOMAIN fname_map \/ d \notin listening \/ process = "down"

-----------------------------------------------------------------------------
(* The hub of the system is the hub of Hub: its dnodes send nothing that Hub  *)
(* does not expect of a dnode.                                             *)

\* What a dnode sends, and when it stops waiting, is within what the hub's
\* specification allows, whatever happens to dnodes and hub.
HubServesDfs == HubSpec

-----------------------------------------------------------------------------
(* The system is a store of files.                                         *)

\* What the hub leads everybody to under a name; the files that are whole; and
\* the download a dnode works on.
Published ==
  [n \in Names |-> IF n \in DOMAIN fname_map
                   THEN file_metadata_map[fname_map[n]] ELSE None]
WholeFiles ==
  [d \in Dnodes |-> [n \in Names |->
     IF files[d][n] = Junk THEN None ELSE files[d][n]]]
Awaited ==
  [d \in Dnodes |-> IF phase[d] \in {"asking", "fetching"} THEN job[d].name
                                                           ELSE None]

Store == INSTANCE FileStore WITH
  Nodes <- Dnodes, store <- Published, copies <- WholeFiles, wanted <- Awaited

\* As long as nothing fails, names and hashes are unique and files shorter than
\* the buffer, the dnodes and the hub together are one store: a name is published
\* once and only for a file that a dnode holds, and what any dnode fetches under it
\* is that file, in whatever order uploads, downloads and the hub's requests meet
\* (rpc_server.cpp:60-143, 424-432, 497-573; dnode_req_server.cpp:112-237).
ServesAsStore == Store!Spec
=============================================================================
