# p2p_dfs in TLA+

`p2p_dfs` is a small peer-to-peer file store. Dnodes keep files and serve them
to each other in chunks of 1 MiB; a hub knows which dnode has which file. This
directory holds TLA+ models of the program, the TLC configurations that check
them on small instances, and proofs that TLAPS checks for all instances.
Paths below are relative to the repository.

## 1. The system

| Component | Code | State | Operations |
|---|---|---|---|
| multi-threaded download | `src/dnode/rpc_server.cpp:149-445` | `chunks_list`, `src_dnodes_list`, two counters, `download_buffer`, three mutexes | the critical sections of 4 threads; the loop that spawns, joins and writes |
| hub, dnode request server | `src/hub/dnode_req_server.cpp` | five maps in memory | join, hello, upload (header, then index), download, acknowledgement |
| hub, hub request server | `src/hub/hub_req_server.cpp` | `peer_hubs_map`; shares the other maps | hub join, hub hello (empty), query for sources |
| dnode start | `src/dnode.cpp` | `dnode_details`, `uid_file` on disk | read uid, join or say hello, start the RPC server, a second later the data server |
| dnode RPC server | `src/dnode/rpc_server.cpp` | files on disk | one request at a time: upload, download |
| dnode data server | `src/dnode/data_server.cpp` | one thread per connection; the process's table of descriptors | accept, start a thread; read a request, send one chunk of one file or refuse, close |
| RPC client | `src/rpc.cpp` | none | connect, send a request, wait for the answer, print the outcome |
| helpers | `src/util/` | none | `connect_to_server`, `recv_full`, `send_full`, `fread_full`, `fwrite_full`, `compute_hash`, `random64bit` |

How they interact: a user's RPC client connects to a dnode's RPC thread. For an
upload the dnode copies the file into its `files` directory and tells the hub
name, size, file hash and chunk hashes; no reply comes. For a download it asks
the hub, which answers with sizes, chunk hashes and a list of sources; four
threads fetch chunks from the sources' data servers into a buffer; the buffer is
written to a file, and the hub is told that this dnode is a source now. The
hub's two threads share their maps without a lock.

What is hard about it, and what must hold all the same:

- *download*: four threads, three mutexes, a buffer without one. No chunk is
  fetched twice or forgotten, the counters cover a contiguous prefix, a
  downloaded chunk is final, refused connections are made good, the download
  ends, and what is acknowledged is the file.
- *data server*: threads that share one table of descriptors with each other and
  with the RPC thread, and requesters that die. Everybody is sent the chunk he
  asked for, what is opened is closed by who opened it, and the process lives.
- *RPC server*: files that change while they are copied, are missing, or are the
  copy itself; clients that die. What the hub is told of a file is true of the
  copy that is served, a success is one, and the next request is served.
- *hub*: requests that end in the middle, replies to dnodes that are gone, and
  tables that refer to each other. A name leads to a size, an index of the same
  file and at least one source; bindings are stable; who waits is answered.
- *dnode start*: crashes between two steps, and a hub that is not there. Uids
  are distinct, saved before they are used, and kept, and the address the hub has
  for one is that of the dnode that has it.
- *system*: any order of uploads, downloads, crashes and restarts. Who is named
  as a source has the file, a download ends with the file the hub described, an
  upload that was called a success is known to the hub; to its users the whole is
  one store with one file under each name.

`PROJECT.json` lists under "hazards" every place where this can go wrong, with
the properties that watch it.

## 2. The modules

    ChunkPool          what a parallel download promises (abstract)
      ^ implemented by
    ChunkDownload      multi_threaded_download and its threads
      ^ extended by    MCChunkDownload (TLC), ChunkDownloadProofs (TLAPS)

    Hub                the hub; its dnodes send anything their code can send
      ^ extended by    MCHub (TLC), HubProofs (TLAPS)
      ^ extended by    Dfs: the hub and its dnodes; implements Hub's specification
                         and, as long as nothing fails, FileStore
                         ^ extended by MCDfs (TLC), DfsProofs (TLAPS)
                             DfsProofs extends HubProofs, too
                             ^ extended by HubSurvivalProofs, DfsFilesProofs (TLAPS)
                                 DfsFilesProofs is extended by DfsStoreProofs

    FileStore          what dnodes and hub together promise users (abstract)

    DataService        what a dnode's data server promises (abstract)
      ^ implemented by
    DataServer         the data server's threads and their descriptors
      ^ extended by    MCDataServer (TLC), DataServerProofs (TLAPS)

    RpcServer          RPC clients, the RPC thread, the upload byte by byte
      ^ extended by    MCRpcServer (TLC), RpcServerProofs (TLAPS)

Three modules look at the same code from different sides. A transfer is, for
ChunkDownload, something that a source may refuse or break off; for DataServer it
is what the source's threads do, and the requester is somebody who waits; for Dfs
it is a part that arrives or does not. An upload is a copy of bytes in RpcServer,
and in Dfs a file that is there, half there or announced. The hub's tables are
Hub's alone.

Operators marked "mutant" stand beside the definition they are a plausible bug
of. No specification uses them; they show that a property would notice.

### ChunkDownload

Variables have the names of the code. `pc[t]` says between which two critical
sections a thread stands and `main` does the same for the spawning thread. A
section that takes one mutex is one action, enabled when the mutex is free. The
two sections that take more than one are split at each acquisition:
`LockPeersOfRefused`, `MarkRefused` (sources, then chunks) and `LockChunks`,
`LockCount`, `MarkDownloaded`, `Advance`\*, `Release` (chunks, count, sources).

The buffer is a function from slots to the chunk whose bytes a slot holds, or
`Junk`. Lengths are exact: `FileSize`, `ChunkSize` and `Window` are numbers, and
the end of the written file is computed as the code does, modulo and all. The
sources are the environment. Constants say which of them may refuse a connection
(`MayRefuse`), die in a transfer (`MayBreak`), have which chunks (`Serves`) and
hold something other than the index describes (`Stale`). `spin` is where
`recv_full` stays once its peer has closed the connection.

`current_chunk_index` is 0 in every round since there is only one
(`rpc_server.cpp:432`), so it is a definition and not a variable.

### Hub

Each map is a function whose domain is its set of keys, so `find() == end()` is
"not in the domain" and `operator[]` on a missing key is what it is in the code:
an insertion of a null value that is read at once. `dnode_thread` and
`hub_thread` say where the two threads stand. The dnode thread's handlers are
one action each, except the upload, which stops between header and index to wait
for the network. `stuck` is the state of a thread in `recv_full` whose peer has
gone.

A request is a record with what was sent of it (`sent`) and whether its dnode is
still there (`open`). The content of a file stands for its size, its chunk count
and its chunk hashes; `HashOf` maps it to its file hash and need not be
injective, as `compute_hash` is not: it ignores the bytes after the last multiple
of eight. `FreshUids` is `random64bit`, which repeats itself within a second:
`SameSecond` says whether two joins can meet in one.

`Die` is the end of the process. It happens by itself (a kill), by a read through
a null pointer (`DownloadKills`, `QueryKills`), by SIGPIPE (the second `send` to a
dnode that is gone), or by two threads in one map (`Race`).

Left out: what the hub replies to other hubs (no code receives it), and a client
that is alive and slow: while it waits for one the hub does what it does when
the connection is not accepted yet.

### Dfs

`Dfs` extends `Hub`, whose variables and actions it uses as they are, with the
dnodes: `phase` is where the main thread or, later, the RPC thread stands, and
each step of `main`, `handle_node_join`, `handle_node_hello`,
`handle_file_upload` and `handle_file_download` is an action. `uid_file` and
`files` are on disk and survive `Crash`; everything else is lost.

The fetch is ChunkDownload seen from outside: `Parts` times a source is asked,
always the first one that has not refused, and each part arrives as the source
has it, as junk, or not at all (`FetchHangs`, for `recv_full` and for the two
mutexes). A file on disk is a content, nothing, or `Junk`: half a copy, or a
content written over a longer one, for no `open` truncates. How much of a file
is written depends on its size (`EndOffsets`): all of it if it is shorter than the
download buffer (`BufferSize`), nothing if it fills the buffer, for the end is taken
modulo the buffer's size (`rpc_server.cpp:426`), and the first buffer if it is longer,
for the loop ends after one round (`:432`). When chunks are missing the whole buffer
is written. All of these are acknowledged alike. An empty file has no parts: it is
fetched from nobody, and it is there as soon as it is created.

Memory that is read without having been written, such as the response to a
download when the hub is down, is a choice: `Misled` crashes, hangs or goes on
with any hash; `JoinFails` and an empty `uid_file` give any uid of `JunkUids`.
`Announce` and `Acknowledge` follow the code in that nothing is noticed when the
hub is not there.

`FileStore` is what is left of all this for a user, as long as nothing fails: files
are put at nodes, a name is published once, as a file that some node holds, and who
asks for a published name is given that file. It has no hub, uid, hash, request or
part. `Dfs` instantiates it with what the state of the code means (`Store`): published
under a name is the content its hash leads to in the hub's tables; a node holds what is
whole on its disk; its user waits while the download is asked for and fetched. The hub
publishes when it takes the header of an upload, which is before the index has come;
a fetch is done when the file is written, which is before it is acknowledged.

### DataServer

`fd_table` is the process's table of descriptors: `accept`, `open` and `socket`
give out the lowest free number, `close` frees a number whoever it belongs to. A
number that is closed twice, or that another thread has got meanwhile, is not a
special case: every read, send and close looks at what the number stands for when
it happens. A thread has the name of the requester whose connection it was started
for. `thread_args`, `file_data_req`, `read_fd`, `chunk_data` are the code's; `pc`
says which call a thread makes next. A chunk is `ChunkLen` pieces, the passes of
`send_full`; what a read from something that is not the file leaves in the buffer
is `Junk`.

`Refuse` sends the refusal and closes the connection, `CloseConn` is the `close` of
`socket_handler_threaded`, which follows in every case: after a refusal it is the
second one. `RecvFails`, a read from a foreign number and `SendFails` are errors
nobody looks at. `SendKills` is SIGPIPE, `AcceptFails` is the `exit` of the
accepting thread; both end the process and with it the RPC thread. The RPC thread
opens and closes descriptors of its own (`RpcOpen`, `RpcClose`), loses one with
every connection that fails (`ConnectFails`), and writes to what its number has
become (`RpcWrite`). `harmed` records that somebody has closed what is not his.

`DataService` promises, until that has happened, a prefix of the own chunk or one
refusal. Left out: files that are written in place while they are served, which
are in Dfs, and requests that are cut in pieces on a live connection.

### RpcServer

The RPC thread takes one connection after the other. An upload asks for the size
(`TakeUpload`; `AsInt` is the conversion to `int`), opens both files (`OpenFiles`; the
copy is not truncated), then for each chunk reads it in passes of any length
(`ReadPass`), hashes and writes it from the same buffer (`HashAndWrite`), and tells the
hub size and hashes (`Announce`); buffer and hashes end with the handler. Users may
write to the file between any two of these steps. Paths lead to the copy by what follows
the last slash, `OutPath`; the copy may be uploaded itself. Users write to their files
at any time, at most `MaxEdits` times. `ReadSpins` is `fread_full` at the end of a file,
`ReadFails` what it does without a descriptor. A file that is missing has one of the
sizes `JunkSizes`. Contents are sequences of numbers; `Hash` leaves out the bytes after
the last whole word, as `compute_hash` does, and is otherwise injective (collisions are
in Hub).

A client's request arrives as a whole, or its client dies before that
(`"broken"`), or while it waits (`"gone"`). `"misled"` is a client without a dnode:
`connect_to_server` returns -1, nothing is sent or received, and whatever
`rpc_res` holds is printed (`rpc.cpp:39-79`). A client whose dnode dies while it
waits waits for ever. A download is the time it takes and the file it writes.
Left out: a connection that is reset, after which `rpc_buffer` still holds the
request before.

## 3. The runs

Passing runs:

| Run | Instance | Question |
|---|---|---|
| `download_reliable` | 3 threads, 2 sources, 4 chunks, the last one partial | Do all interleavings end with the whole file and a true acknowledgement? |
| `download_faults` | 2 threads, 3 sources that may refuse at any time, one of which may die and lacks the tail, 4 chunks | Are refusals made good, downloaded chunks final and credited once, is the pool implemented, and what can stop a download? |
| `hub_tables` | 1 dnode, 2 names, 3 contents, two of one hash, 3 requests, any cut short | Do the five tables agree? |
| `hub_service` | 2 dnodes, a peer hub, 3 requests | Is everybody served or told? |
| `dfs_reliable` | 2 dnodes, 2 files of sizes 1 and 2, a buffer of 3, 3 uploads or downloads, nobody fails | Do sources have the files, is the store implemented, do downloads and uploads end, is there no deadlock? |
| `dfs_failures` | 2 dnodes, 2 starts, 2 jobs, unknown names, a file that fills the buffer; dnodes and the hub die anywhere | Do uids stay distinct, on disk and tied to their addresses, is the hub's specification implemented? |
| `data_server` | 2 transfers, one refused, one whose requester may die or whose thread may not start; 3 descriptors, 2 opened by the RPC thread | Who gets whose bytes, what is left open, what ends the process? |
| `data_transfers` | 3 transfers, one refused; 5 descriptors | Do two transfers at once both end with the chunk? |
| `rpc_service` | 3 uploads under one name, one of the copy itself, a download; 1 write to a file; the process may be killed | Is the hub told the truth, is a success one, what stops the RPC thread? |

Bounds and why they are enough. Two threads are enough for every pairwise order of
critical sections and three for a third one that overtakes both; three sources let two
refuse and one remain. The window of four chunks has, as in the code, a first, a middle
and a partial last one. `MaxServed` keeps its value of the code. `MaxRequests` = 3 for
the hub is an upload, whatever comes between, and a download or a second upload; in Dfs
it is never reached. `MaxJobs` and `MaxStarts` allow an upload on each dnode followed by
a download, and a restart. `MaxBacklog` is 2 or 3, never fewer than the requests that
can be on their way. Three descriptors are what one transfer and one connection need, so
`data_server` meets the full table, and a number that is given out again at once; a
third requester was tried once, for the safety properties (`MaxOpens = 1`: 3.2 million
states), and showed nothing else. `MaxOpens` is 2: one descriptor that is leaked, one
that is used. `data_transfers` has the five descriptors that three connections and two
files need, so that no transfer fails for want of one: with four, `AskedAreServed`
fails, as the table below has it for other reasons. `dfs_reliable` has files of two
sizes, both below its `BufferSize`; `dfs_failures` has one that fills it. `rpc_service`
has a chunk of two bytes and words of two bytes, so a file of three is a whole chunk and
one byte that the hash ignores; the file that is missing at first can be created, the
one that is there shortened or replaced, at any moment. One write by a user (`MaxEdits`)
is enough for the copy that is broken off: a file is uploaded and announced, uploaded
again, and shortened when the first of its two chunks has been written, after which the
thread spins. `IntLimit` is far above these sizes there. Bounds are guards of actions;
there are no state constraints. `SYMMETRY` swaps the two dnodes in `dfs_failures`, which
checks no liveness.

`CHECK_DEADLOCK FALSE` stands where the system may really stop:
`download_faults` (the two mutexes), both hub runs (`stuck`), `dfs_failures` (a
stuck hub, a hung dnode), `data_server`, `data_transfers` and `rpc_service` (the
process has ended, everybody is served or waits for ever), and the violation runs.

Runs that end in a violation; each is a finding in `PROJECT.json` with the line of
the documentation it contradicts:

| Run | What the code does |
|---|---|
| `find_lock_order` | takes two mutexes in opposite orders: a refusal and a completion deadlock |
| `find_false_ack` | stops after ten chunks and reports that it has the file |
| `find_double_close` | closes a refused connection twice, the second time another thread's file |

Further disagreements, between the code and its documentation or between the code and a
property that holds elsewhere, need one constant of a passing run changed (with
`CHECK_DEADLOCK FALSE`), and TLC shows them:

| Run, with | Property that fails | What the code does |
|---|---|---|
| `download_reliable`, `Stale <- Chunk1OfSource0` | `ChunkVerified`, `AckMeansSource` | assigns the hash of a chunk where it should compare it: bytes that the index does not describe are taken (`rpc_server.cpp:275`); the comment at `:269` says "verify checksum", and `README:151` says "verify each chunk" |
| `download_reliable`, `FileSize = 8` | `AckMeansSource` | writes nothing of a file that fills the buffer: its end is taken modulo the buffer's size (`rpc_server.cpp:426`) |
| `download_reliable`, `MayRefuse <- AllSources` | `AckMeansSource` | writes and acknowledges a file that no source could be asked for (`rpc_server.cpp:222`) |
| `dfs_reliable`, `AskUnknown = TRUE` | `HubSurvives` | the hub reads through a null entry and dies of a name it does not know (`dnode_req_server.cpp:168`, `:202`); `README:127` speaks of checking the name |
| `dfs_failures`, `SameSecond = TRUE` | `UniqueUids` | two dnodes that join in one second share a uid (`hash.cpp:36`); `README:116` and `:137` speak of a unique id |
| `dfs_reliable`, `MayVanish = TRUE` | `RefusingSourcesAreRemoved` | a source is never taken off a list: one that is gone and has refused a download is named for ever (`dnode_req_server.cpp:234`); `README:160-164` says that it is removed, and the file with its last source |
| `dfs_reliable`, `MayHubDie = TRUE` | `UploadsOutliveHub` | a file is announced once, and a hub that is started again does not hear of it (`rpc_server.cpp:110`); `README:166-167` says that uploads are sent again |
| `dfs_reliable`, `BufferSize = 2` | `SourcesHoldFile`, `DownloadsAreGenuine`, `DownloadsEnd`, `ServesAsStore` | a file of size 2 fills the buffer: nothing of it is written, and who downloaded it becomes a source |
| `dfs_reliable`, `MayHubDie = TRUE` | `UploadsReachHub` | an upload is called a success when there is no hub to tell (`rpc_server.cpp:110`) |
| the same | `DownloadsAreGenuine` | without a hub the response to a download is uninitialized, and what it leads to is acknowledged (`rpc_server.cpp:515`) |
| `dfs_reliable`, `SameSecond = TRUE` | `SourcesHoldFile`, `DownloadsAreGenuine` | the hub sends the second dnode's address for what the first one has |
| `dfs_reliable`, `EarlyUse = TRUE` | `SourcesHoldFile`, `DownloadsAreGenuine` | a file is announced before its dnode listens; who asks for it then writes a buffer that nothing was received into, and becomes a source (`dnode.cpp:205`, `rpc_server.cpp:222`) |
| `dfs_reliable`, `MayVanish = TRUE` | `HubSurvives` | the hub dies of SIGPIPE when a dnode is gone before its reply (`net.cpp:194`) |
| the same, also with `MaxStarts = 1` | `SourcesHoldFile`, `DownloadsAreGenuine` | a part whose transfer broke off stays what it was in the buffer, which is written and acknowledged (`rpc_server.cpp:265-291`) |
| `dfs_reliable`, `Uploads <- TwoNames` | `SourcesHoldFile` | a dnode is a source of a file it has under another name (`dnode_req_server.cpp:141`) |
| `dfs_reliable`, `Uploads <- TwoVersions` | `SourcesHoldFile`, `DownloadsAreGenuine` | a name keeps the hash of its first upload (`dnode_req_server.cpp:144`) |
| `data_transfers`, `MayNotStart = {r1}` | `AskedAreServed` | a thread that could not be started leaves its connection open and unserved (`data_server.cpp:149`) |
| `data_transfers`, `MayVanish = {r1}` | `AskedAreServed` | SIGPIPE of one dead requester ends the process and all other transfers (`data_server.cpp:90`) |
| `data_transfers`, `MaxOpens = 1` | `AskedAreServed` | a descriptor that the RPC thread has lost fills the table, and the process exits (`net.cpp:105`, `data_server.cpp:135-138`) |
| `rpc_service`, `DiskMayFill = TRUE` | `IndexDescribesCopy` | a write that fails is not noticed: the hub is told of a chunk that is not on disk (`rpc_server.cpp:79`) |
| `rpc_service`, `IntLimit = 2`, `JunkSizes = {0}` | `SuccessMeansStored` | a file whose size is no `int` is uploaded in part or not at all, and called a success (`fs.cpp:16`) |

Two more are plain to see. `PickPeer` takes the first online source and not, as the
comment at `rpc_server.cpp:206` says, the one that served least. And a second upload of
a file that is broken off, because a user has shortened the file or the process was
killed, leaves a copy whose first chunks are new and whose index is the old one, and the
data server goes on serving it: `IndexDescribesCopy` excepts just the chunks that such an
upload has written, and says that it never touches another one, nor shortens the copy.

Fairness. `FairSpec` of ChunkDownload has weak fairness for every thread and for
the main thread: the scheduler runs them, and no section is entered infinitely
often in a behaviour (each pass of a thread's loop uses up a chunk or a source),
so no thread can be kept from a mutex for ever and strong fairness is not needed.
`FairHubSpec` has it for the hub's two threads, and nothing for dnodes or for a
restart. `FairDfsSpec` has it for what running processes do by themselves;
starting, using and killing are up to users. `FairSpec` of DataServer has weak
fairness for the accepting thread, for each thread, and for each requester's
receiving; nobody need ask, and the RPC thread may keep what it has opened. The
choice between a send that fails and one that kills is one thread's step. `FairSpec`
of RpcServer has it for the RPC thread as a whole, since it is one thread.

## 4. The proofs

`ChunkDownloadProofs` proves, for any set of threads, any numbers of sources,
chunks and slots, and any behaviour of the sources:

| Theorem | Says |
|---|---|
| `TypeCorrect` | indices stay inside the lists, counters in their ranges |
| `Exclusive` | the mutexes exclude, and no chunk is fetched by two threads |
| `CountsPrefix` | the counter of chunks is the length of the downloaded prefix, that of bytes its size |
| `CreditsMatch` | the sources' credits are as many as the downloaded chunks |
| `NoneStranded`, `JoinedComplete` | no chunk is given up while a source is online |
| `DownloadedChunksStable` | a downloaded chunk is final |
| `InversionIsForGood` | the deadlock of the two mutexes is one |
| `ImplementsPool` | the download implements `ChunkPool` |
| `ReliableAckMeansSource` | with reliable sources and a file shorter than the buffer, what is acknowledged is the file |

They rest on two assumptions about the constants, `ThreadsAssumption` and
`SizesAssumption`, which TLC evaluates in every run of the module. `Window < MaxServed` is one
of them: with more chunks than 1000000 the search for a source could find none.

The argument. None of the invariants is inductive alone. That two threads never share a
chunk needs that a held chunk is marked (`ChunksMarked`), which needs that nobody takes
the mark from a chunk he does not hold, which needs exclusiveness. That the counter is a
prefix outside of `advance` needs that only the holder of `chunks_list` and `num_chunks`
is inside, which is `LockDiscipline`. That a chunk is given up only when all sources are
offline needs that "none found" means "none online", hence that no source has served
`MaxServed` chunks, hence that credit is bounded by the number of downloaded chunks
(`CreditBounded`). That the join finds the window complete needs that whoever hands a
chunk back goes on looking (`FreeChunkHasThread`). `CreditMatches` counts credits as
elements of a set, one for each source and number up to its load, where the code has a
sum, so it is a matter of cardinalities (`CreditsCounted`): whoever marks a chunk adds
one credit, and, holding the chunk, is the first to mark it (`MarkDownloadedCredits`).
`IInv` is the conjunction; `IInvInit`, `IInvNext` and `IInvHolds` are its three facts,
with one lemma per group of conjuncts and one step per action. The refinement maps a
chunk's owner from flags and positions (`Owner`); each action of a thread is a claim, a
hand-back, a completion, an abandonment or a stutter.

`DataServerProofs` proves, for any set of requesters, any number of descriptors,
any length of a chunk, and whoever is refused, dies or is not started:

| Theorem | Says |
|---|---|
| `DataTypeCorrect` | every variable keeps to its range |
| `OnlyRefusalHarms` | nobody's descriptor is closed by somebody else before a request was refused |
| `DescriptorsAreAccountedFor` | a transfer gives back what it has opened; the process ends of a requester's death or because those under way have every descriptor |
| `ImplementsService` | the data server implements `DataService` |

They rest on `RequestersAssumption` (the names are distinct) and
`LengthsAssumption` (a chunk and a refusal are not empty). The model works with
numbers that anybody may close, so the invariant has to say whose they are: as long
as nobody was harmed, each thread's numbers stand for what it opened (`Owned`),
whatever is open has a thread that will close it (`Accounted`), and a requester
that is still there has received as many pieces as its thread has counted
(`Received`). A thread that has refused is exempt: its number may be anybody's,
which is why the first harm is its second `close` (`HarmByRefusal`), and that is the
step which the refinement maps to the abstract `Harm`. That nobody else's descriptor
changes is one lemma (`OthersKeepTheirs`) used by every action. That the process
ends for a reason needs that a requester who has left without dying has no thread in
the middle of a chunk (`Leaving`), and a count: connections map one to one to threads
under way, files to threads that send, and the rest is the RPC thread's
(`FullMeansMany`).

`HubProofs` proves, for any clients, names, contents and hashes, any requests that
end in the middle, and with the second thread and crashes:

| Theorem | Says |
|---|---|
| `HubTypeCorrect` | the tables keep to their types |
| `NamedFilesAreComplete` | a name leads to a size, a source and an index, which only an upload under way may owe |
| `IndexMatchesMetadata` | size and chunk hashes of a file are those of one content |
| `AnswersUsable` | an answer is one file's and names somebody to fetch it from |
| `NamesAreKept` | a name keeps its file hash while the process lives |

They rest on `HashAssumption`, `NoneAssumption` and `PeerAssumption` (a query names a
hash). Two contents may have one hash, so an upload that is cut short after its header
leaves a size of one content and an index of another. The properties except that file,
as the thread never leaves this upload (`Uploading`); the invariant adds that between
header and index the size is the one this upload brought (`HeaderStored`), that each
size is kept under its own hash (`MetadataUnderHash`), and that all that waits is
something a dnode's code can send (`RequestsGenuine`). `IInv` is the conjunction.

`DfsProofs` proves, for any number of dnodes, jobs and restarts, and wherever dnodes
and hub are killed:

| Theorem | Says |
|---|---|
| `DfsImplementsHub` | Dfs implements Hub's specification: what is proved in `HubProofs` holds in the system |
| `DfsTypeCorrect` | the dnodes' variables keep to their ranges |
| `UidsArePersistent`, `UidsAreKept` | a dnode serves under the uid on its disk, which is never replaced |
| `UidsAreUnique` | if `~SameSecond`, no two dnodes have one uid that a hub has given |
| `AddressesAreOwners` | if `~SameSecond`, the address the hub has for a uid is that of the dnode that has it |

They rest on Hub's assumptions, `JunkAssumption` and `UploadsAssumption`. The invariant
`DInv` relates each dnode's phase to its connection: a dnode waits for a reply only
where its code does (`RepliesExpected`), and the reply is one for what it asked
(`RepliesFit`), so that a join is not answered with a file. With that every step of a
dnode is a request, a reading of a reply, a death or a stutter of the hub's clients
(`DfsSteps`). For uniqueness, a dnode's uid has to be followed through the three places
where it can be, the reply to its join, its memory and its file, and what one dnode
holds kept apart from what another one holds (`HeldApart`). For the addresses that has
to be said of the hub's side as well: from whom it has heard of a uid, in its table or
in a request that is on its way or in hand, is the only one that may ever hold the uid
(`HeardFromOwner`). This is what excludes a join whose reply was lost, or a hello that
was sent before a crash and is served after the hub has given out more uids.

`HubSurvivalProofs` proves `HubDoesSurvive`: no request ends the hub's process, if
dnodes and hub are not killed and nobody asks for a name that the hub does not know
(`Orderly`). Each of the three is needed: for the hub's own death that is plain, for the
others the table in section 3 has the counterexample. Nothing else is assumed. Dnodes
may be used before their data servers listen, hang in downloads, share a uid, and upload
any files under any names. The handlers die of a lookup that fails or of a reply to a
dnode that is gone, so the invariant (`OrderlyInv`) says that every lookup succeeds:
sources in the tables, uids in replies, in dnodes' memory and in requests that wait have
an address (`SourcesKnown`, `RepliesKnown`, `AllSettled`, `AllServable`), since a dnode
gets its uid from the hub once and the hub forgets nothing.

`DfsFilesProofs` proves what holds of files as long as nothing fails, for any number of
dnodes, names, contents and jobs in any order:

| Theorem | Says |
|---|---|
| `SourcesHaveFiles` | whom the hub names as a source has the file |
| `DownloadsGenuine` | a finished download is the file of the hash the hub named |

Their hypothesis is `Calm`: `Orderly`'s three parts, and nobody uses a dnode before its
data server listens, joins do not meet in a second, no two uploads share a name or a
hash, and files are shorter than the download buffer (`FilesFitBuffer`). These are
needed, too: the table in section 3 has the counterexample for early use, two joins in a
second, a second name, a second version, and a file that fills the buffer; a longer one
is in `find_false_ack`. `dfs_reliable` is an instance of it. The invariant (`CalmInv`)
follows a file through everything that carries it: on disk while it is copied and after
(`FilesOk`), in requests on their way to the hub (`RequestsOk`: who acknowledges or
uploads has the file already), in the tables (`TablesOk`), and in replies and in the
job that was begun with one (`RepliesOk`).

`DfsStoreProofs` proves `DfsImplementsStore` under the same hypothesis: dnodes and hub
implement `FileStore`, for any number of dnodes, files that fit the buffer, parts and
jobs. `CalmInv` is strengthened by one thing, that a download under way is of a name the
hub knows (`NamesKnown`). The steps are then sorted by what they are to the store. A
copy that is complete is a `Put` and a download that is written a `Fetch`
(`DnodeStoreStep`): the buffer is the file that is published under the name at that
moment, though the job was begun with an earlier reply, since a name leads to the same
content for ever (`PublishedStays`). The header of the first upload of a name is a
`Publish`, for the dnode that sent it has the file (`HubStoreStep`); a second upload
overwrites the metadata with the same, and everything else stutters. A file is written
in place, so that no reader sees a published file disappear needs that it is only ever
copied over nothing or over itself (`WholeFilesBegun`), which is where names that are
not unique would break the refinement. An empty file is whole when its copy is created,
so there the `Put` is the first step of the upload and not the last.

`RpcServerProofs` proves, for any clients, files, sizes of chunks and words, any number
of writes by users at any moment, and any pattern of short reads:

| Theorem | Says |
|---|---|
| `RpcTypeCorrect` | positions stay in the file, the buffer in its chunk; an index has a hash for each chunk |
| `SpinsForAReason` | the RPC thread stops for ever only for a broken request, in a download or over a file that somebody wrote to |
| `IndexMatchesCopy` | if `~DiskMayFill`, what was announced lies in the copy, and each chunk of it that no upload under way or broken off has written has the announced hash |
| `SuccessIsStored` | if `~DiskMayFill` and `FilesFit`, who is told of a success has uploaded the whole of an unchanged file |

They rest on `SizesAssumption`, `RequestAssumption`, `NoneAssumption` and
`FilesAssumption` (the files have contents; a size that `stat` leaves is an `int`).
`FilesFit` says that no content is longer than an `int` can say; the last line of the
table in section 3 shows that it is needed, the line before that `DiskMayFill` is. The
first two theorems need neither. The argument is in three layers. `RpcInv` relates the
three positions of a copy, in the file, in the copy and in the list of hashes: all are
derived from `Place`, where a chunk begins and the last one ends, about which five
lemmas on division say that chunks follow each other without a gap and end with the
file (`PlaceNext`, `PlaceEnds`, `PlaceMonotonic`). That the thread does not spin over an
unchanged file then is that the converted size is never more than the real one
(`IntOfSize`). `IndexInv` adds that the hashes so far are those of the copy, so that an
announcement is true when it is made: a write changes nothing before its chunk
(`OverwrittenFile`, `EqualParts`), and nobody else writes to the copy (`CopyKept`). What
was announced before stays true, up to the chunks that are written: of the next write it
says that the chunks behind it keep their bytes, as both indexes have their chunks in the
same places (`WrittenDescribed`, `AnnouncedKept`). `StoredInv`
adds that buffer and copy are the file's bytes; the case that needs care is a file that
is its own copy, which every write must leave as it was (`BytesWritten`).

The inductive invariants were checked by TLC on the instances of `hub_tables`,
`hub_service`, `dfs_failures`, `dfs_reliable` and `rpc_service` (`RpcInv` with
`DiskMayFill = TRUE`, too) before they were proved.

Only model-checked: the liveness properties (`DownloadCompletes`,
`EndsOrInverts`, `SpinCostsOneChunk`, `WaitersAreServed`, `DownloadsEnd`,
`UploadsReachHub`, `AskedAreServed`, `AskedAreAnswered`), which are out of TLAPS's
reach. Every other property of the passing runs, invariant, action property or
refinement, is stated by a theorem.

## 5. What is left

Every operation that changes state on a dnode or in the hub is an action of one of the
modules, and every safety property and refinement that a run checks is proved.

What could follow:

1. A weaker file store for a system in which processes die. `SourcesHoldFile`,
   `DownloadsAreGenuine` and with them `ServesAsStore` do not survive a transfer that
   breaks off (the table in section 3), because the code writes and acknowledges what it
   has. What does survive, whatever is killed, is proved: uids, addresses, the tables'
   agreement, and the bindings of a hub that lives. Were the code to check the hashes of
   chunks (`ChunkVerified`), the theorems about files should hold without `Calm`'s
   first two parts, and `DfsFilesProofs` would be the place to prove it.
2. The arithmetic of `compute_hash` with words of a small width against a reference
   definition. The models need of it only what it leaves out.

Modelled in part: the network helpers, by what their callers see (addresses and
ports, and the functions nobody calls, have no behaviour to check), and the hash, of
which the models need what it ignores and that it may collide.

Not modelled because there is nothing to check: `naive_download`,
`initialize_hub` and `hub_hello`, which nobody calls; build files and scripts;
printing. The README's plans for several hubs and for checks of whether peers are alive
are not written. What it says of sources that refuse, and of uploads after a failure of
the hub, is not written either; it is stated in Dfs (`RefusingSourcesAreRemoved`,
`UploadsOutliveHub`), and section 3 has the instances in which TLC shows that it fails.
No property and no theorem relies on a source being kept or removed.
