----------------------------- MODULE DfsProofs -----------------------------
(***************************************************************************)
(* What Dfs guarantees for any number of dnodes, files and failures: its   *)
(* hub is the hub of Hub, and uids.                                        *)
(***************************************************************************)
EXTENDS Dfs, HubProofs

-----------------------------------------------------------------------------
(* The inductive invariant.                                                *)

\* The requests that wait, from 1 on, and the one that is served.
Positions == 0 .. Len(backlog)
At(i) == IF i = 0 THEN serving ELSE backlog[i]

\* A dnode that waits for the reply to cmd.
Awaits(d, cmd) ==
  \/ phase[d] = "joining" /\ cmd = "NODE_JOIN"
  \/ phase[d] = "greeting" /\ cmd = "NODE_HELLO"
  \/ phase[d] = "asking" /\ cmd = "FILE_DOWNLOAD"
Waiting == {"joining", "greeting", "asking"}

\* The hub will reply to a request only if its dnode still waits for the reply
\* to this very command, and to no more than one request of a dnode.
RepliesExpected ==
  /\ \A d \in Dnodes : conn[d] # "none" => phase[d] \in Waiting
  /\ \A i \in Positions :
       At(i).open => conn[At(i).client] = "waiting"
                       /\ Awaits(At(i).client, At(i).cmd)
  /\ \A i, j \in Positions :
       i # j /\ At(i).open /\ At(j).open => At(i).client # At(j).client

\* So a reply that has come is the reply to what was asked.
RepliesFit ==
  \A d \in Dnodes : conn[d] = "answered" =>
    /\ phase[d] = "joining" => reply[d].uid \in Uids
    /\ phase[d] = "asking" => reply[d].hash \in Hashes
                                /\ reply[d].metadata \in Contents

\* Phases in which the uid is the one on disk, and those before there is one.
HasUid == {"hello", "greeting", "ready", "copying", "copied", "asking",
           "misled", "fetching", "fetched", "hung"}
UidOf(d) ==
  /\ phase[d] # "off" => uid[d] \in Uids
  /\ phase[d] \in HasUid /\ uid_file[d] # Junk => uid_file[d] = uid[d]
  /\ phase[d] \in {"join", "joining", "joined"} => uid_file[d] \in {None, Junk, 0}
UidInv == \A d \in Dnodes : UidOf(d)

\* What has been filled in of a job when it is used.
JobOf(d) ==
  /\ phase[d] \in {"copying", "copied", "asking", "misled", "fetching",
                   "fetched"} => job[d].name \in Names
  /\ phase[d] \in {"copying", "copied", "fetching"} => job[d].target \in Contents
  /\ phase[d] = "copying" => Len(job[d].got) = 1
  /\ phase[d] \in {"fetching", "fetched"} => job[d].hash \in Hashes
JobInv == \A d \in Dnodes : JobOf(d)

DInv == DfsTypeOK /\ RepliesExpected /\ RepliesFit /\ UidInv /\ JobInv

-----------------------------------------------------------------------------
(* What a step of the system is to the hub.                                *)

\* The same phases but for one dnode.
OthersStay(d) == \A e \in Dnodes \ {d} : phase'[e] = phase[e]

\* A dnode sends a request, under its own uid if any, and waits for the reply if
\* there will be one; it reads its reply; it does something without the hub; or it dies.
Sends(d) ==
  \E r \in DnodeRequests :
    /\ Arrive(r) /\ r.client = d /\ r.uid \in {None, uid[d]} /\ OthersStay(d)
    /\ r.open => Awaits(d, r.cmd)'
Takes(d) == Take(d) /\ OthersStay(d) /\ phase'[d] \notin Waiting
Works(d) ==
  /\ UNCHANGED vars /\ OthersStay(d)
  /\ phase'[d] = phase[d] \/ {phase[d], phase'[d]} \cap Waiting = {}
Dies(d) == MayVanish /\ Vanish(d) /\ OthersStay(d) /\ phase'[d] \notin Waiting
Serves == (DnodeThread \/ (process = "up" /\ Die) \/ Restart) /\ UNCHANGED phase

\* What the dnodes' code can send, whole or cut short.
LEMMA RequestsOfDnodes ==
  ASSUME NEW d \in Dnodes
  PROVE  /\ JoinRequest(d) \in WholeRequests
         /\ \A u \in Uids : HelloRequest(d, u) \in WholeRequests
         /\ \A n \in Names : DownloadRequest(d, n) \in WholeRequests
         /\ \A u \in Uids, n \in Names, x \in Contents :
              UploadRequest(d, u, n, x) \in WholeRequests
         /\ \A u \in Uids, h \in Hashes : AckRequest(d, u, h) \in WholeRequests
BY DEF WholeRequests, Dnodes

\* To send a request is one of the steps above, also when the dnode dies at it.
LEMMA SendSends ==
  ASSUME DfsTypeOK, NEW d \in Dnodes, NEW from, NEW to, NEW r \in WholeRequests,
         r.client = d, r.uid \in {None, uid[d]}, Send(d, from, r, to),
         \/ ~r.open
         \/ to = "joining" /\ r.cmd = "NODE_JOIN"
         \/ to = "greeting" /\ r.cmd = "NODE_HELLO"
         \/ to = "asking" /\ r.cmd = "FILE_DOWNLOAD"
  PROVE  Sends(d)
<1>1. phase \in [Dnodes -> Phases]
  BY DEF DfsTypeOK
<1>2. CASE Arrive(r) /\ Goto(d, from, to)
  <2>1. r \in DnodeRequests
    BY DEF DnodeRequests
  <2>2. OthersStay(d) /\ phase'[d] = to
    BY <1>1, <1>2 DEF Goto, OthersStay
  <2>3. r.open => Awaits(d, r.cmd)'
    BY <2>2 DEF Awaits
  <2>4. QED
    BY <1>2, <2>1, <2>2, <2>3 DEF Sends
<1>3. ASSUME NEW q \in CutShort(r), Arrive(q), End(d)
      PROVE  Sends(d)
  <2>1. q \in DnodeRequests
    BY DEF DnodeRequests
  <2>2. OthersStay(d)
    BY <1>1, <1>3 DEF End, OthersStay
  <2>3. r \in Requests
    BY WholeRequestsGenuine DEF Genuine
  <2>4. q.client = d /\ q.uid = r.uid /\ ~q.open
    BY <2>3 DEF CutShort, Requests
  <2>5. QED
    BY <1>3, <2>1, <2>2, <2>4 DEF Sends
<1>4. QED
  BY <1>2, <1>3 DEF Send

\* The fields of what a dnode sends that say who waits for what,
\* and under which uid.
LEMMA RequestFields ==
  ASSUME NEW d \in Dnodes
  PROVE  /\ JoinRequest(d).client = d /\ JoinRequest(d).cmd = "NODE_JOIN"
         /\ JoinRequest(d).uid = None
         /\ \A u \in Uids : HelloRequest(d, u).client = d
                              /\ HelloRequest(d, u).cmd = "NODE_HELLO"
                              /\ HelloRequest(d, u).uid = u
         /\ \A n \in Names : DownloadRequest(d, n).client = d
                               /\ DownloadRequest(d, n).cmd = "FILE_DOWNLOAD"
                               /\ DownloadRequest(d, n).uid = None
         /\ \A u \in Uids, n \in Names, x \in Contents :
              UploadRequest(d, u, n, x).client = d
                /\ UploadRequest(d, u, n, x).uid = u
                /\ ~UploadRequest(d, u, n, x).open
         /\ \A u \in Uids, h \in Hashes :
              AckRequest(d, u, h).client = d /\ AckRequest(d, u, h).uid = u
                /\ ~AckRequest(d, u, h).open
BY DEF JoinRequest, HelloRequest, DownloadRequest, UploadRequest, AckRequest,
       Request, NoRequest

\* A dnode whose connection is closed is not one that waits.
LEMMA GotoWorks ==
  ASSUME DfsTypeOK, NEW d \in Dnodes, NEW from, NEW to, Goto(d, from, to)
  PROVE  OthersStay(d) /\ phase[d] = from /\ phase'[d] = to
BY DEF DfsTypeOK, Goto, OthersStay

\* Every step of a dnode is one of the five, and every other step is the hub's.
LEMMA DfsSteps ==
  ASSUME DfsTypeOK, UidInv, JobInv, [DfsNext]_allVars
  PROVE  \/ \E d \in Dnodes : Sends(d) \/ Takes(d) \/ Works(d) \/ Dies(d)
         \/ Serves
         \/ UNCHANGED <<vars, phase>>
<1> DEFINE Is(d) == Sends(d) \/ Takes(d) \/ Works(d) \/ Dies(d)
<1> USE DEF Waiting
<1>1. ASSUME NEW d \in Dnodes, SendJoin(d)
      PROVE  Is(d)
  BY <1>1, SendSends, RequestsOfDnodes, RequestFields DEF SendJoin
<1>2. ASSUME NEW d \in Dnodes, SendHello(d)
      PROVE  Is(d)
  <2>1. phase[d] = "hello"
    BY <1>2 DEF SendHello, Send
  <2>2. uid[d] \in Uids
    BY <2>1 DEF UidInv, UidOf
  <2>3. QED
    BY <1>2, <2>2, SendSends, RequestsOfDnodes, RequestFields DEF SendHello
<1>3. ASSUME NEW d \in Dnodes, Announce(d)
      PROVE  Is(d)
  <2>1. phase[d] = "copied"
    BY <1>3 DEF Announce, Send, Goto
  <2>2. uid[d] \in Uids /\ job[d].name \in Names /\ job[d].target \in Contents
    BY <2>1 DEF UidInv, UidOf, JobInv, JobOf
  <2>3. CASE Send(d, "copied",
                  UploadRequest(d, uid[d], job[d].name, job[d].target), "ready")
    BY <2>2, <2>3, SendSends, RequestsOfDnodes, RequestFields
  <2>4. CASE HubIsDown /\ Goto(d, "copied", "ready")
    BY <2>4, GotoWorks DEF HubIsDown, Works
  <2>5. QED
    BY <1>3, <2>3, <2>4 DEF Announce
<1>4. ASSUME NEW d \in Dnodes, NEW n \in Names, Download(d, n)
      PROVE  Is(d)
  <2>1. CASE Send(d, "ready", DownloadRequest(d, n), "asking")
    BY <2>1, SendSends, RequestsOfDnodes, RequestFields
  <2>2. CASE HubIsDown /\ Goto(d, "ready", "misled")
    BY <2>2, GotoWorks DEF HubIsDown, Works
  <2>3. QED
    BY <1>4, <2>1, <2>2 DEF Download
<1>5. ASSUME NEW d \in Dnodes, Acknowledge(d)
      PROVE  Is(d)
  <2>1. phase[d] = "fetched"
    BY <1>5 DEF Acknowledge, Send, Goto
  <2>2. uid[d] \in Uids /\ job[d].hash \in Hashes
    BY <2>1 DEF UidInv, UidOf, JobInv, JobOf
  <2>3. CASE Send(d, "fetched", AckOf(d), "ready")
    BY <2>2, <2>3, SendSends, RequestsOfDnodes, RequestFields DEF AckOf
  <2>4. CASE HubIsDown /\ Goto(d, "fetched", "ready")
    BY <2>4, GotoWorks DEF HubIsDown, Works
  <2>5. QED
    BY <1>5, <2>3, <2>4 DEF Acknowledge
<1>6. ASSUME NEW d \in Dnodes,
             Joined(d) \/ JoinFails(d) \/ Greeted(d) \/ StartHangs(d)
               \/ GotReply(d) \/ NoReplyComes(d)
      PROVE  Is(d)
  BY <1>6
  DEF Joined, JoinFails, Greeted, StartHangs, GotReply, NoReplyComes, Goto,
      HubIsDown, Takes, Works, OthersStay, DfsTypeOK
<1>7. ASSUME NEW d \in Dnodes,
             \/ StartUp(d) \/ SaveUid(d) \/ Copied(d) \/ Misled(d) \/ WriteFile(d)
             \/ \E n \in Names, x \in Contents : Upload(d, n, x)
      PROVE  Is(d)
  BY <1>7
  DEF StartUp, SaveUid, Copied, Misled, WriteFile, Upload, Goto, End, Works,
      OthersStay, DfsTypeOK
<1>8. ASSUME NEW d \in Dnodes,
             FetchPart(d) \/ FetchBroken(d) \/ FetchRefused(d)
               \/ FetchNothing(d) \/ Listen(d)
      PROVE  Is(d)
  BY <1>8
  DEF FetchPart, FetchBroken, FetchRefused, FetchNothing, GetPart, FetchHangs,
      Listen, Goto, Works, OthersStay, DfsTypeOK
<1>9. ASSUME NEW d \in Dnodes, Crash(d)
      PROVE  Is(d)
  BY <1>9 DEF Crash, End, Dies, OthersStay, DfsTypeOK
<1>10. CASE HubStep \/ HubDies \/ HubRestarts
  <2>1. UNCHANGED phase
    BY <1>10 DEF HubStep, HubDies, HubRestarts, dnodeVars
  <2>2. QED
    BY <1>10, <2>1, Zenon DEF HubStep, HubDies, HubRestarts, Serves
<1>11. CASE Quiet \/ UNCHANGED allVars
  BY <1>11 DEF Quiet, allVars, dnodeVars
<1>12. \A u \in Uploads : u[1] \in Names /\ u[2] \in Contents
  BY UploadsAssumption
<1> HIDE DEF Is
<1>13. ASSUME NEW d \in Dnodes, User(d)
       PROVE  Is(d)
  BY <1>4, <1>7, <1>12, <1>13 DEF User
<1>14. ASSUME NEW d \in Dnodes, Progress(d)
       PROVE  Is(d)
  BY <1>1, <1>2, <1>3, <1>5, <1>6, <1>7, <1>8, <1>14, Zenon DEF Progress
<1>15. QED
  BY <1>8, <1>9, <1>10, <1>11, <1>13, <1>14 DEF DfsNext, Is

\* And so each of its steps is one that the hub expects.
LEMMA DfsStepsAreHubSteps ==
  ASSUME DfsTypeOK, UidInv, JobInv, [DfsNext]_allVars
  PROVE  [HubNext]_vars
BY DfsSteps, Zenon
DEF Sends, Takes, Works, Dies, Serves, HubNext, Dnodes

-----------------------------------------------------------------------------
(* Types.                                                                  *)

\* A file that is written has some content.
LEMMA OverwrittenTyped ==
  ASSUME NEW old \in Contents \cup {None, Junk}, NEW new \in Contents \cup {Junk},
         NEW len
  PROVE  Overwritten(old, new, len) \subseteq Contents \cup {Junk}
BY DEF Overwritten

\* A start and what follows it keep the variables of the dnodes in their ranges.
LEMMA StartTyped ==
  ASSUME HubTypeOK, DfsTypeOK, NEW d \in Dnodes,
         \/ StartUp(d) \/ SendJoin(d) \/ Joined(d) \/ JoinFails(d)
         \/ SaveUid(d) \/ SendHello(d) \/ Greeted(d) \/ StartHangs(d)
         \/ Listen(d)
  PROVE  DfsTypeOK'
<1>1. InitialUid(d) \subseteq Uids
  BY JunkAssumption DEF DfsTypeOK, InitialUid
<1>2. reply[d].uid \in Uids \cup {None}
  BY DEF HubTypeOK, Replies, Dnodes
<1>3. phase' \in [Dnodes -> Phases]
  BY DEF StartUp, SendJoin, Joined, JoinFails, SaveUid, SendHello, Greeted,
         StartHangs, Listen, Goto, Send, End, DfsTypeOK, Phases, Starting
<1>4. uid' \in [Dnodes -> Uids \cup {None}] /\ listening' \subseteq Dnodes
  BY <1>1, <1>2, JunkAssumption
  DEF StartUp, SendJoin, Joined, JoinFails, SaveUid, SendHello, Greeted,
      StartHangs, Listen, Send, End, DfsTypeOK
<1>5. uid_file' \in [Dnodes -> Uids \cup {None, Junk}]
  BY DEF StartUp, SendJoin, Joined, JoinFails, SaveUid, SavedUid, SendHello,
         Greeted, StartHangs, Listen, DfsTypeOK
<1>6. UNCHANGED <<files, job, uploaded>>
  BY DEF StartUp, SendJoin, Joined, JoinFails, SaveUid, SendHello, Greeted,
         StartHangs, Listen
<1>7. QED
  BY <1>3, <1>4, <1>5, <1>6 DEF DfsTypeOK

\* What the dnodes' uses of the hub may do to their phases, sockets and uids.
LEMMA SendTyped ==
  ASSUME DfsTypeOK, NEW d \in Dnodes, NEW from, NEW to \in Phases, NEW r,
         \/ Send(d, from, r, to)
         \/ HubIsDown /\ Goto(d, from, to) /\ UNCHANGED <<listening, uid>>
  PROVE  /\ phase' \in [Dnodes -> Phases]
         /\ listening' \subseteq Dnodes
         /\ uid' \in [Dnodes -> Uids \cup {None}]
BY DEF Send, Goto, End, DfsTypeOK, Phases

\* A job that is begun, and none, are jobs.
LEMMA NewJobs ==
  /\ NoJob \in Jobs
  /\ \A n \in Names : [NoJob EXCEPT !.name = n] \in Jobs
  /\ \A n \in Names, x \in Contents, y \in Contents \cup {Junk} :
       [NoJob EXCEPT !.name = n, !.target = x, !.got = <<y>>] \in Jobs
<1>1. <<>> \in Seq(Dnodes) /\ <<>> \in Seq(Contents \cup {Junk})
  BY EmptySeq
<1>2. \A y \in Contents \cup {Junk} : <<y>> \in Seq(Contents \cup {Junk})
  OBVIOUS
<1>3. NoJob \in Jobs
  BY <1>1 DEF NoJob, Jobs
<1>4. ASSUME NEW n \in Names
      PROVE  [NoJob EXCEPT !.name = n] \in Jobs
  BY <1>3, Zenon DEF Jobs
<1>5. ASSUME NEW n \in Names, NEW x \in Contents, NEW y \in Contents \cup {Junk}
      PROVE  [NoJob EXCEPT !.name = n, !.target = x, !.got = <<y>>] \in Jobs
  BY <1>2, <1>3, Zenon DEF Jobs
<1>6. QED
  BY <1>3, <1>4, <1>5

\* An upload keeps the variables in their ranges.
LEMMA UploadTyped ==
  ASSUME DfsTypeOK, JobInv, NEW d \in Dnodes,
         \/ \E n \in Names, x \in Contents : Upload(d, n, x)
         \/ Copied(d) \/ Announce(d)
  PROVE  DfsTypeOK'
<1>1. /\ files \in [Dnodes -> [Names -> Contents \cup {None, Junk}]]
      /\ job \in [Dnodes -> Jobs]
      /\ uploaded \subseteq Dnodes \X Names \X Contents
  BY DEF DfsTypeOK
<1>2. ASSUME NEW n \in Names, NEW x \in Contents, Upload(d, n, x)
      PROVE  DfsTypeOK'
  <2>1. PICK y \in Overwritten(files[d][n], x, SizeOf[x]) :
          /\ job' = [job EXCEPT ![d] = [NoJob EXCEPT !.name = n, !.target = x,
                                                     !.got = <<y>>]]
          /\ files' = [files EXCEPT ![d][n] = HalfWritten(files[d][n], y, x)]
    BY <1>2 DEF Upload
  <2>2. y \in Contents \cup {Junk}
    BY <1>1, OverwrittenTyped
  <2>3. job' \in [Dnodes -> Jobs]
    BY <1>1, <2>1, <2>2, NewJobs
  <2>4. files' \in [Dnodes -> [Names -> Contents \cup {None, Junk}]]
    BY <1>1, <2>1, <2>2 DEF HalfWritten
  <2>5. phase' \in [Dnodes -> Phases]
    BY <1>2 DEF Upload, Goto, DfsTypeOK, Phases
  <2>6. QED
    BY <1>2, <2>3, <2>4, <2>5 DEF Upload, DfsTypeOK
<1>3. CASE Copied(d)
  <2>1. phase[d] = "copying" /\ job[d].name \in Names
    BY <1>3 DEF Copied, Goto, JobInv, JobOf
  <2>2. Len(job[d].got) = 1 /\ job[d].got \in Seq(Contents \cup {Junk})
    BY <1>1, <2>1 DEF JobInv, JobOf, Jobs
  <2>3. job[d].got[1] \in Contents \cup {Junk}
    BY <2>2, ElementOfSeq
  <2>4. files' \in [Dnodes -> [Names -> Contents \cup {None, Junk}]]
    BY <1>1, <1>3, <2>1, <2>3 DEF Copied
  <2>5. phase' \in [Dnodes -> Phases]
    BY <1>3 DEF Copied, Goto, DfsTypeOK, Phases
  <2>6. QED
    BY <1>3, <2>4, <2>5 DEF Copied, DfsTypeOK
<1>4. CASE Announce(d)
  <2>1. phase[d] = "copied" /\ job[d].name \in Names /\ job[d].target \in Contents
    BY <1>4 DEF Announce, Send, Goto, JobInv, JobOf
  <2>2. /\ phase' \in [Dnodes -> Phases] /\ listening' \subseteq Dnodes
        /\ uid' \in [Dnodes -> Uids \cup {None}]
    <3>1. "ready" \in Phases
      BY DEF Phases
    <3>2. QED
      BY <1>4, <3>1, SendTyped DEF Announce
  <2>3. job' \in [Dnodes -> Jobs]
    BY <1>1, <1>4, NewJobs DEF Announce
  <2>4. uploaded' \subseteq Dnodes \X Names \X Contents
    BY <1>1, <1>4, <2>1 DEF Announce
  <2>5. QED
    BY <1>4, <2>2, <2>3, <2>4 DEF Announce, DfsTypeOK
<1>5. QED
  BY <1>2, <1>3, <1>4

\* A job stays one whatever field of it is filled in.
LEMMA JobFilledIn ==
  ASSUME NEW j \in Jobs
  PROVE  /\ \A h \in Hashes \cup {None} : [j EXCEPT !.hash = h] \in Jobs
         /\ \A k \in Nat \ {0} : [j EXCEPT !.next = k] \in Jobs
         /\ \A y \in Contents \cup {Junk} :
              [j EXCEPT !.got = Append(j.got, y)] \in Jobs
         /\ \A x \in Contents \cup {None}, h \in Hashes \cup {None},
               s \in Seq(Dnodes) :
              [j EXCEPT !.target = x, !.hash = h, !.sources = s] \in Jobs
<1>1. ASSUME NEW h \in Hashes \cup {None}
      PROVE  [j EXCEPT !.hash = h] \in Jobs
  BY Zenon DEF Jobs
<1>2. ASSUME NEW k \in Nat \ {0}
      PROVE  [j EXCEPT !.next = k] \in Jobs
  BY Zenon DEF Jobs
<1>3. ASSUME NEW y \in Contents \cup {Junk}
      PROVE  [j EXCEPT !.got = Append(j.got, y)] \in Jobs
  <2>1. Append(j.got, y) \in Seq(Contents \cup {Junk})
    BY AppendProperties DEF Jobs
  <2>2. QED
    BY <2>1, Zenon DEF Jobs
<1>4. ASSUME NEW x \in Contents \cup {None}, NEW h \in Hashes \cup {None},
             NEW s \in Seq(Dnodes)
      PROVE  [j EXCEPT !.target = x, !.hash = h, !.sources = s] \in Jobs
  BY Zenon DEF Jobs
<1>5. QED
  BY <1>1, <1>2, <1>3, <1>4

\* A download keeps the variables in their ranges.
LEMMA DownloadTyped ==
  ASSUME HubTypeOK, DfsTypeOK, JobInv, NEW d \in Dnodes,
         \/ \E n \in Names : Download(d, n)
         \/ GotReply(d) \/ NoReplyComes(d) \/ Misled(d)
         \/ FetchPart(d) \/ FetchBroken(d) \/ FetchRefused(d) \/ FetchNothing(d)
         \/ WriteFile(d) \/ Acknowledge(d)
  PROVE  DfsTypeOK'
<1>1. /\ files \in [Dnodes -> [Names -> Contents \cup {None, Junk}]]
      /\ job \in [Dnodes -> Jobs] /\ job[d] \in Jobs
      /\ phase \in [Dnodes -> Phases]
  BY DEF DfsTypeOK
<1>2. ASSUME NEW n \in Names, Download(d, n)
      PROVE  DfsTypeOK'
  <2>1. "asking" \in Phases /\ "misled" \in Phases
    BY DEF Phases
  <2>2. /\ phase' \in [Dnodes -> Phases] /\ listening' \subseteq Dnodes
        /\ uid' \in [Dnodes -> Uids \cup {None}]
    BY <1>2, <2>1, SendTyped DEF Download
  <2>3. job' \in [Dnodes -> Jobs]
    BY <1>1, <1>2, NewJobs DEF Download
  <2>4. QED
    BY <1>2, <2>2, <2>3 DEF Download, DfsTypeOK
<1>3. CASE GotReply(d)
  <2>1. /\ reply[d].metadata \in Contents \cup {None}
        /\ reply[d].hash \in Hashes \cup {None}
        /\ reply[d].sources \in Seq(Dnodes)
    BY DEF HubTypeOK, Replies, Dnodes
  <2>2. job' = [job EXCEPT ![d] =
                  [job[d] EXCEPT !.target = reply[d].metadata,
                                 !.hash = reply[d].hash,
                                 !.sources = reply[d].sources]]
    BY <1>3, Zenon DEF GotReply
  <2>3. job' \in [Dnodes -> Jobs]
    BY <1>1, <2>1, <2>2, JobFilledIn
  <2>4. phase' \in [Dnodes -> Phases]
    BY <1>1, <1>3 DEF GotReply, Goto, Phases
  <2>5. QED
    BY <1>3, <2>3, <2>4 DEF GotReply, DfsTypeOK
<1>4. CASE NoReplyComes(d)
  BY <1>4 DEF NoReplyComes, Goto, Phases, DfsTypeOK
<1>5. CASE Misled(d)
  <2>1. /\ phase' \in [Dnodes -> Phases] /\ listening' \subseteq Dnodes
        /\ uid' \in [Dnodes -> Uids \cup {None}]
    BY <1>1, <1>5 DEF Misled, Goto, End, Phases, DfsTypeOK
  <2>2. job' \in [Dnodes -> Jobs]
    <3>1. ASSUME NEW h \in Hashes, job' = [job EXCEPT ![d].hash = h]
          PROVE  job' \in [Dnodes -> Jobs]
      <4>1. job' = [job EXCEPT ![d] = [job[d] EXCEPT !.hash = h]]
        BY <3>1, Zenon
      <4>2. QED
        BY <1>1, <4>1, JobFilledIn
    <3>2. QED
      BY <1>1, <1>5, <3>1, NewJobs DEF Misled
  <2>3. QED
    BY <1>5, <2>1, <2>2 DEF Misled, DfsTypeOK
<1>6. ASSUME NEW y \in Contents \cup {Junk}, GetPart(d, y)
      PROVE  DfsTypeOK'
  <2>1. job' = [job EXCEPT ![d] = [job[d] EXCEPT !.got = Append(job[d].got, y)]]
    BY <1>6, Zenon DEF GetPart
  <2>2. job' \in [Dnodes -> Jobs]
    BY <1>1, <2>1, JobFilledIn
  <2>3. QED
    BY <1>6, <2>2 DEF GetPart, DfsTypeOK
<1>7. ASSUME FetchHangs(d)
      PROVE  DfsTypeOK'
  BY <1>7 DEF FetchHangs, Goto, Phases, DfsTypeOK
<1>8. CASE FetchPart(d)
  <2>1. job[d].target \in Contents
    BY <1>8 DEF FetchPart, Fetching, JobInv, JobOf
  <2>2. QED
    BY <1>6, <1>7, <1>8, <2>1 DEF FetchPart
<1>9. CASE FetchBroken(d) \/ FetchNothing(d)
  BY <1>6, <1>7, <1>9 DEF FetchBroken, FetchNothing
<1>10. CASE FetchRefused(d)
  <2>1. ASSUME job' = [job EXCEPT ![d].next = @ + 1],
               UNCHANGED <<phase, listening, uid, uid_file, files, uploaded>>
        PROVE  DfsTypeOK'
    <3>1. job[d].next + 1 \in Nat \ {0}
      BY <1>1 DEF Jobs
    <3>2. job' = [job EXCEPT ![d] = [job[d] EXCEPT !.next = job[d].next + 1]]
      BY <2>1, Zenon
    <3>3. job' \in [Dnodes -> Jobs]
      BY <1>1, <3>1, <3>2, JobFilledIn
    <3>4. QED
      BY <2>1, <3>3 DEF DfsTypeOK
  <2>2. QED
    BY <1>7, <1>10, <2>1 DEF FetchRefused
<1>11. CASE WriteFile(d)
  <2>1. /\ phase[d] = "fetching" /\ job[d].name \in Names
        /\ job[d].target \in Contents
    BY <1>11 DEF WriteFile, Goto, JobInv, JobOf
  <2>2. files[d][job[d].name] \in Contents \cup {None, Junk}
    BY <1>1, <2>1
  <2>3. Assembled(job[d]) \in Contents \cup {Junk}
    BY <2>1 DEF Assembled
  <2>4. PICK len \in EndOffsets(job[d]) :
          \E y \in Overwritten(files[d][job[d].name], Assembled(job[d]), len) :
            files' = [files EXCEPT ![d][job[d].name] = y]
    BY <1>11 DEF WriteFile
  <2>5. PICK y \in Overwritten(files[d][job[d].name], Assembled(job[d]), len) :
          files' = [files EXCEPT ![d][job[d].name] = y]
    BY <2>4
  <2>6. y \in Contents \cup {Junk}
    BY <2>2, <2>3, OverwrittenTyped
  <2>7. files' \in [Dnodes -> [Names -> Contents \cup {None, Junk}]]
    BY <1>1, <2>1, <2>5, <2>6
  <2>8. phase' \in [Dnodes -> Phases]
    BY <1>1, <1>11 DEF WriteFile, Goto, Phases
  <2>9. QED
    BY <1>11, <2>7, <2>8 DEF WriteFile, DfsTypeOK
<1>12. CASE Acknowledge(d)
  <2>1. "ready" \in Phases
    BY DEF Phases
  <2>2. /\ phase' \in [Dnodes -> Phases] /\ listening' \subseteq Dnodes
        /\ uid' \in [Dnodes -> Uids \cup {None}]
    BY <1>12, <2>1, SendTyped DEF Acknowledge
  <2>3. job' \in [Dnodes -> Jobs]
    BY <1>1, <1>12, NewJobs DEF Acknowledge
  <2>4. QED
    BY <1>12, <2>2, <2>3 DEF Acknowledge, DfsTypeOK
<1>13. QED
  BY <1>2, <1>3, <1>4, <1>5, <1>8, <1>9, <1>10, <1>11, <1>12

\* What the next-state relation is made of, with the steps of dnodes in groups.
LEMMA DfsActions ==
  ASSUME [DfsNext]_allVars
  PROVE  \/ \E d \in Dnodes :
              \/ StartUp(d) \/ SendJoin(d) \/ Joined(d) \/ JoinFails(d)
              \/ SaveUid(d) \/ SendHello(d) \/ Greeted(d) \/ StartHangs(d)
              \/ Listen(d)
         \/ \E d \in Dnodes :
              \/ \E n \in Names, x \in Contents : Upload(d, n, x)
              \/ Copied(d) \/ Announce(d)
         \/ \E d \in Dnodes :
              \/ \E n \in Names : Download(d, n)
              \/ GotReply(d) \/ NoReplyComes(d) \/ Misled(d)
              \/ FetchPart(d) \/ FetchBroken(d) \/ FetchRefused(d)
              \/ FetchNothing(d) \/ WriteFile(d) \/ Acknowledge(d)
         \/ \E d \in Dnodes : Crash(d)
         \/ UNCHANGED dnodeVars
<1>1. \A u \in Uploads : u[1] \in Names /\ u[2] \in Contents
  BY UploadsAssumption
<1>2. CASE \E d \in Dnodes : User(d)
  BY <1>1, <1>2 DEF User
<1>3. CASE \E d \in Dnodes : Progress(d)
  BY <1>3, Zenon DEF Progress
<1>4. CASE HubStep \/ HubDies \/ HubRestarts \/ Quiet \/ UNCHANGED allVars
  BY <1>4 DEF HubStep, HubDies, HubRestarts, Quiet, allVars
<1>5. QED
  BY <1>2, <1>3, <1>4, Zenon DEF DfsNext

\* Every step keeps the variables of the dnodes in their ranges.
LEMMA DfsTypeStep ==
  ASSUME HubTypeOK, DfsTypeOK, JobInv, [DfsNext]_allVars
  PROVE  DfsTypeOK'
<1>1. ASSUME NEW d \in Dnodes, Crash(d)
      PROVE  DfsTypeOK'
  BY <1>1, NewJobs DEF Crash, End, DfsTypeOK, Phases
<1>2. CASE UNCHANGED dnodeVars
  BY <1>2 DEF dnodeVars, DfsTypeOK
<1>3. QED
  BY <1>1, <1>2, DfsActions, StartTyped, UploadTyped, DownloadTyped

-----------------------------------------------------------------------------
(* Uids and jobs.                                                          *)

\* Only a dnode that starts changes its uid, until it ends.
LEMMA UidStep ==
  ASSUME DfsTypeOK, RepliesFit, UidInv, [DfsNext]_allVars
  PROVE  UidInv'
<1> DEFINE Rest(d) ==
      \A e \in Dnodes \ {d} :
        phase'[e] = phase[e] /\ uid'[e] = uid[e] /\ uid_file'[e] = uid_file[e]
<1>1. /\ phase \in [Dnodes -> Phases]
      /\ uid \in [Dnodes -> Uids \cup {None}]
      /\ uid_file \in [Dnodes -> Uids \cup {None, Junk}]
  BY DEF DfsTypeOK
<1>2. \A d \in Dnodes : UidOf(d)
  BY DEF UidInv
<1>3. ASSUME NEW d \in Dnodes, Rest(d), UidOf(d)'
      PROVE  UidInv'
  BY <1>2, <1>3 DEF UidInv, UidOf
<1>4. ASSUME NEW d \in Dnodes,
             \/ StartUp(d) \/ SendJoin(d) \/ Joined(d) \/ JoinFails(d)
             \/ SaveUid(d) \/ SendHello(d) \/ Greeted(d) \/ StartHangs(d)
             \/ Listen(d)
      PROVE  UidInv'
  <2>1. CASE StartUp(d)
    <3>1. Rest(d)
      BY <1>1, <2>1 DEF StartUp
    <3>2. PICK u \in InitialUid(d) :
            /\ uid'[d] = u
            /\ phase'[d] = IF u = 0 THEN "join" ELSE "hello"
      BY <1>1, <2>1 DEF StartUp
    <3>3. uid_file'[d] = uid_file[d] /\ uid_file[d] \in Uids \cup {None, Junk}
      BY <1>1, <2>1 DEF StartUp
    <3>4. UidOf(d)'
      BY <3>2, <3>3, JunkAssumption DEF InitialUid, UidOf, HasUid
    <3>5. QED
      BY <1>3, <3>1, <3>4
  <2>2. CASE SendJoin(d) \/ SendHello(d)
    <3>1. Rest(d)
      BY <1>1, <2>2 DEF SendJoin, SendHello, Send, Goto, End
    <3>2. UidOf(d)'
      BY <1>1, <1>2, <2>2
      DEF SendJoin, SendHello, Send, Goto, End, UidOf, HasUid
    <3>3. QED
      BY <1>3, <3>1, <3>2
  <2>3. CASE Joined(d)
    <3>1. Rest(d)
      BY <1>1, <2>3 DEF Joined, Goto
    <3>2. /\ phase[d] = "joining" /\ phase'[d] = "joined"
          /\ uid'[d] = reply[d].uid
          /\ uid_file'[d] = IF uid_file[d] = None THEN Junk ELSE uid_file[d]
      BY <1>1, <2>3 DEF Joined, Goto
    <3>3. uid'[d] \in Uids
      BY <2>3, <3>2 DEF Joined, RepliesFit
    <3>4. UidOf(d)'
      BY <1>2, <3>2, <3>3 DEF UidOf, HasUid
    <3>5. QED
      BY <1>3, <3>1, <3>4
  <2>4. CASE JoinFails(d)
    <3>1. Rest(d)
      BY <1>1, <2>4 DEF JoinFails
    <3>2. /\ phase[d] \in {"join", "joining"} /\ phase'[d] = "joined"
          /\ uid'[d] \in Uids
          /\ uid_file'[d] = IF uid_file[d] = None THEN Junk ELSE uid_file[d]
      BY <1>1, <2>4, JunkAssumption DEF JoinFails
    <3>3. UidOf(d)'
      BY <1>2, <3>2 DEF UidOf, HasUid
    <3>4. QED
      BY <1>3, <3>1, <3>3
  <2>5. CASE SaveUid(d)
    <3>1. Rest(d)
      BY <1>1, <2>5 DEF SaveUid, Goto
    <3>2. UidOf(d)'
      BY <1>1, <1>2, <2>5 DEF SaveUid, SavedUid, Goto, UidOf, HasUid
    <3>3. QED
      BY <1>3, <3>1, <3>2
  <2>6. CASE Greeted(d) \/ StartHangs(d) \/ Listen(d)
    <3>1. Rest(d)
      BY <1>1, <2>6 DEF Greeted, StartHangs, Listen
    <3>2. UidOf(d)'
      BY <1>1, <1>2, <2>6 DEF Greeted, StartHangs, Listen, UidOf, HasUid
    <3>3. QED
      BY <1>3, <3>1, <3>2
  <2>7. QED
    BY <1>4, <2>1, <2>2, <2>3, <2>4, <2>5, <2>6
<1>5. ASSUME NEW d \in Dnodes, UNCHANGED uid_file, OthersStay(d),
             \/ UNCHANGED uid /\ phase[d] \in HasUid /\ phase'[d] \in HasUid
             \/ End(d)
      PROVE  UidInv'
  <2>1. Rest(d)
    BY <1>1, <1>5 DEF OthersStay, End
  <2>2. UidOf(d)'
    BY <1>1, <1>2, <1>5 DEF End, UidOf, HasUid
  <2>3. QED
    BY <1>3, <2>1, <2>2
<1>6. ASSUME NEW d \in Dnodes,
             \/ \E n \in Names, x \in Contents : Upload(d, n, x)
             \/ Copied(d) \/ Announce(d)
      PROVE  UidInv'
  BY <1>1, <1>5, <1>6
  DEF Upload, Copied, Announce, Send, Goto, End, OthersStay, HasUid
<1>7. ASSUME NEW d \in Dnodes,
             \/ \E n \in Names : Download(d, n)
             \/ GotReply(d) \/ NoReplyComes(d) \/ Misled(d)
             \/ FetchPart(d) \/ FetchBroken(d) \/ FetchRefused(d)
             \/ FetchNothing(d) \/ WriteFile(d) \/ Acknowledge(d)
      PROVE  UidInv'
  <2>1. CASE \/ \E n \in Names : Download(d, n)
             \/ GotReply(d) \/ NoReplyComes(d) \/ Misled(d)
    BY <1>1, <1>5, <2>1
    DEF Download, GotReply, NoReplyComes, Misled, Send, Goto, End, OthersStay,
        HasUid
  <2>2. CASE \/ FetchPart(d) \/ FetchBroken(d) \/ FetchRefused(d)
             \/ FetchNothing(d) \/ WriteFile(d) \/ Acknowledge(d)
    BY <1>1, <1>5, <2>2
    DEF FetchPart, FetchBroken, FetchRefused, FetchNothing, GetPart, FetchHangs,
        Fetching, WriteFile, Acknowledge, Send, Goto, End, OthersStay, HasUid
  <2>3. QED
    BY <1>7, <2>1, <2>2
<1>8. ASSUME NEW d \in Dnodes, Crash(d)
      PROVE  UidInv'
  BY <1>1, <1>5, <1>8 DEF Crash, End, OthersStay
<1>9. CASE UNCHANGED dnodeVars
  BY <1>9 DEF dnodeVars, UidInv, UidOf
<1>10. QED
  BY <1>4, <1>6, <1>7, <1>8, <1>9, DfsActions

\* A job is filled in before it is used.
LEMMA JobStep ==
  ASSUME HubTypeOK, DfsTypeOK, RepliesFit, JobInv, [DfsNext]_allVars
  PROVE  JobInv'
<1> DEFINE Rest(d) ==
      \A e \in Dnodes \ {d} : phase'[e] = phase[e] /\ job'[e] = job[e]
<1>1. /\ phase \in [Dnodes -> Phases]
      /\ job \in [Dnodes -> Jobs]
  BY DEF DfsTypeOK
<1>2. \A d \in Dnodes : JobOf(d)
  BY DEF JobInv, JobOf
<1>3. ASSUME NEW d \in Dnodes, Rest(d), JobOf(d)'
      PROVE  JobInv'
  BY <1>2, <1>3 DEF JobInv, JobOf
<1>4. ASSUME NEW d \in Dnodes, OthersStay(d), \A e \in Dnodes \ {d} : job'[e] = job[e],
             phase'[d] \notin {"copying", "copied", "asking", "misled",
                               "fetching", "fetched"}
      PROVE  JobInv'
  BY <1>3, <1>4 DEF OthersStay, JobOf
<1>5. ASSUME NEW d \in Dnodes,
             \/ StartUp(d) \/ SendJoin(d) \/ Joined(d) \/ JoinFails(d)
             \/ SaveUid(d) \/ SendHello(d) \/ Greeted(d) \/ StartHangs(d)
             \/ Listen(d)
      PROVE  JobInv'
  <2>1. CASE Listen(d)
    BY <2>1 DEF Listen, JobInv, JobOf
  <2>2. CASE ~Listen(d)
    <3>1. UNCHANGED job
      BY <1>5, <2>2
      DEF StartUp, SendJoin, Joined, JoinFails, SaveUid, SendHello, Greeted,
          StartHangs
    <3>2. OthersStay(d)
      BY <1>1, <1>5, <2>2
      DEF StartUp, SendJoin, Joined, JoinFails, SaveUid, SendHello, Greeted,
          StartHangs, Send, Goto, End, OthersStay
    <3>3. phase'[d] \in Starting \cup {"ready", "off"}
      BY <1>1, <1>5, <2>2
      DEF StartUp, SendJoin, Joined, JoinFails, SaveUid, SendHello, Greeted,
          StartHangs, Send, Goto, End, Starting
    <3>4. QED
      BY <1>4, <3>1, <3>2, <3>3 DEF Starting
  <2>3. QED
    BY <2>1, <2>2
<1>6. ASSUME NEW d \in Dnodes, NEW n \in Names, NEW x \in Contents, Upload(d, n, x)
      PROVE  JobInv'
  <2>1. PICK y : job' = [job EXCEPT ![d] = [NoJob EXCEPT !.name = n, !.target = x,
                                                         !.got = <<y>>]]
    BY <1>6 DEF Upload
  <2>2. Rest(d)
    BY <1>1, <1>6, <2>1 DEF Upload, Goto
  <2>3. job'[d] = [NoJob EXCEPT !.name = n, !.target = x, !.got = <<y>>]
    BY <1>1, <2>1
  <2>4. job'[d].name = n /\ job'[d].target = x /\ job'[d].got = <<y>>
    BY <2>3 DEF NoJob
  <2>5. phase'[d] = "copying"
    BY <1>1, <1>6 DEF Upload, Goto
  <2>6. JobOf(d)'
    BY <2>4, <2>5 DEF JobOf
  <2>7. QED
    BY <1>3, <2>2, <2>6
<1>7. ASSUME NEW d \in Dnodes, Copied(d)
      PROVE  JobInv'
  BY <1>1, <1>2, <1>3, <1>7 DEF Copied, Goto, JobOf
<1>8. ASSUME NEW d \in Dnodes, Announce(d) \/ Acknowledge(d) \/ Crash(d)
      PROVE  JobInv'
  BY <1>1, <1>4, <1>8
  DEF Announce, Acknowledge, Crash, Send, Goto, End, OthersStay
<1>9. ASSUME NEW d \in Dnodes, NEW n \in Names, Download(d, n)
      PROVE  JobInv'
  <2>1. Rest(d) /\ phase'[d] \in {"asking", "misled", "off"}
    BY <1>1, <1>9 DEF Download, Send, Goto, End
  <2>2. job'[d] = [NoJob EXCEPT !.name = n]
    BY <1>1, <1>9 DEF Download
  <2>3. job'[d].name = n
    BY <2>2 DEF NoJob
  <2>4. JobOf(d)'
    BY <2>1, <2>3 DEF JobOf
  <2>5. QED
    BY <1>3, <2>1, <2>4
<1>10. ASSUME NEW d \in Dnodes, GotReply(d)
       PROVE  JobInv'
  <2>1. /\ phase[d] = "asking" /\ phase'[d] = "fetching" /\ Rest(d)
        /\ conn[d] = "answered"
    BY <1>1, <1>10 DEF GotReply, Goto
  <2>2. reply[d].hash \in Hashes /\ reply[d].metadata \in Contents
    BY <2>1 DEF RepliesFit
  <2>3. job'[d] = [job[d] EXCEPT !.target = reply[d].metadata,
                                 !.hash = reply[d].hash,
                                 !.sources = reply[d].sources]
    BY <1>1, <1>10, Zenon DEF GotReply
  <2>4. /\ job'[d].name = job[d].name /\ job'[d].target = reply[d].metadata
        /\ job'[d].hash = reply[d].hash
    BY <1>1, <2>3 DEF Jobs
  <2>5. JobOf(d)'
    BY <1>2, <2>1, <2>2, <2>4 DEF JobOf
  <2>6. QED
    BY <1>3, <2>1, <2>5
<1>11. ASSUME NEW d \in Dnodes, NoReplyComes(d)
       PROVE  JobInv'
  BY <1>1, <1>2, <1>3, <1>11 DEF NoReplyComes, Goto, JobOf
<1>12. ASSUME NEW d \in Dnodes, Misled(d)
       PROVE  JobInv'
  <2>1. CASE phase'[d] \in {"off", "hung"}
    BY <1>1, <1>4, <1>12, <2>1 DEF Misled, Goto, End, OthersStay
  <2>2. CASE phase'[d] \notin {"off", "hung"}
    <3>1. PICK h \in Hashes :
            Goto(d, "misled", "fetched") /\ job' = [job EXCEPT ![d].hash = h]
      BY <1>1, <1>12, <2>2 DEF Misled, Goto, End
    <3>2. Rest(d) /\ phase[d] = "misled" /\ phase'[d] = "fetched"
      BY <1>1, <3>1 DEF Goto
    <3>3. job'[d] = [job[d] EXCEPT !.hash = h]
      BY <1>1, <3>1, Zenon
    <3>4. job'[d].name = job[d].name /\ job'[d].hash = h
      BY <1>1, <3>3 DEF Jobs
    <3>5. JobOf(d)'
      BY <1>2, <3>2, <3>4 DEF JobOf
    <3>6. QED
      BY <1>3, <3>2, <3>5
  <2>3. QED
    BY <2>1, <2>2
<1>13. ASSUME NEW d \in Dnodes, FetchHangs(d)
       PROVE  JobInv'
  BY <1>1, <1>4, <1>13 DEF FetchHangs, Goto, OthersStay
<1>14. ASSUME NEW d \in Dnodes, NEW y, phase[d] = "fetching", GetPart(d, y)
       PROVE  JobInv'
  <2>1. Rest(d) /\ phase'[d] = phase[d]
    BY <1>1, <1>14, Zenon DEF GetPart
  <2>2. job'[d] = [job[d] EXCEPT !.got = Append(job[d].got, y)]
    BY <1>1, <1>14, Zenon DEF GetPart
  <2>3. /\ job'[d].name = job[d].name /\ job'[d].target = job[d].target
        /\ job'[d].hash = job[d].hash
    BY <1>1, <2>2 DEF Jobs
  <2>4. JobOf(d)'
    BY <1>2, <1>14, <2>1, <2>3 DEF JobOf
  <2>5. QED
    BY <1>3, <2>1, <2>4
<1>15. ASSUME NEW d \in Dnodes,
              FetchPart(d) \/ FetchBroken(d) \/ FetchNothing(d)
       PROVE  JobInv'
  BY <1>13, <1>14, <1>15 DEF FetchPart, FetchBroken, FetchNothing, Fetching
<1>16. ASSUME NEW d \in Dnodes, FetchRefused(d)
       PROVE  JobInv'
  <2>1. ASSUME job' = [job EXCEPT ![d].next = @ + 1], UNCHANGED phase
        PROVE  JobInv'
    <3>1. Rest(d) /\ phase'[d] = phase[d]
      BY <1>1, <2>1, Zenon
    <3>2. job'[d] = [job[d] EXCEPT !.next = job[d].next + 1]
      BY <1>1, <2>1, Zenon
    <3>3. /\ job'[d].name = job[d].name /\ job'[d].target = job[d].target
          /\ job'[d].hash = job[d].hash /\ job'[d].got = job[d].got
      BY <1>1, <3>2 DEF Jobs
    <3>4. JobOf(d)'
      BY <1>2, <3>1, <3>3 DEF JobOf
    <3>5. QED
      BY <1>3, <3>1, <3>4
  <2>2. QED
    BY <1>13, <1>16, <2>1 DEF FetchRefused
<1>17. ASSUME NEW d \in Dnodes, WriteFile(d)
       PROVE  JobInv'
  BY <1>1, <1>2, <1>3, <1>17 DEF WriteFile, Goto, JobOf
<1>18. CASE UNCHANGED dnodeVars
  BY <1>18 DEF dnodeVars, JobInv, JobOf
<1>19. QED
  BY <1>5, <1>6, <1>7, <1>8, <1>9, <1>10, <1>11, <1>12, <1>15, <1>16, <1>17,
     <1>18, DfsActions

-----------------------------------------------------------------------------
(* Replies.                                                                *)

\* Who waits at the other end of an open connection is a dnode.
LEMMA OpenRequests ==
  ASSUME HubTypeOK
  PROVE  /\ Len(backlog) \in Nat /\ DOMAIN backlog = 1 .. Len(backlog)
         /\ \A i \in Positions : At(i) \in Requests \cup {NoRequest}
         /\ \A i \in Positions : At(i).open => At(i).client \in Dnodes
<1>1. /\ backlog \in Seq(Requests) /\ serving \in Requests \cup {NoRequest}
  BY DEF HubTypeOK
<1>2. Len(backlog) \in Nat /\ DOMAIN backlog = 1 .. Len(backlog)
  BY <1>1, LenProperties
<1>3. \A i \in Positions : At(i) \in Requests \cup {NoRequest}
  BY <1>1, <1>2, ElementOfSeq DEF Positions, At
<1>4. ~NoRequest.open
  BY DEF NoRequest
<1>5. \A r \in Requests : r.client \in Dnodes
  BY DEF Requests, Dnodes
<1>6. QED
  BY <1>2, <1>3, <1>4, <1>5

\* When the requests that can still be answered are some of the earlier ones, and
\* those of other dnodes than the ones something happens to, all is as expected.
LEMMA StillExpected ==
  ASSUME HubTypeOK, RepliesExpected, NEW D, NEW k \in {0, 1},
         \A e \in Dnodes \ D : phase'[e] = phase[e] /\ conn'[e] = conn[e],
         \A d \in Dnodes \cap D : conn'[d] # "none" => phase'[d] \in Waiting,
         \A i \in Positions' : At(i)'.open =>
           /\ i + k \in Positions /\ At(i + k).open
           /\ At(i)'.client = At(i + k).client /\ At(i)'.client \notin D
           /\ At(i)'.cmd = At(i + k).cmd
  PROVE  RepliesExpected'
<1>1. \A d \in Dnodes : conn'[d] # "none" => phase'[d] \in Waiting
  BY DEF RepliesExpected
<1>2. ASSUME NEW i \in Positions', At(i)'.open
      PROVE  conn'[At(i)'.client] = "waiting" /\ Awaits(At(i).client, At(i).cmd)'
  <2>1. /\ conn[At(i + k).client] = "waiting"
        /\ Awaits(At(i + k).client, At(i + k).cmd)
        /\ At(i)'.client \in Dnodes \ D
    BY <1>2, OpenRequests DEF RepliesExpected
  <2>2. QED
    BY <1>2, <2>1 DEF Awaits
<1>3. ASSUME NEW i \in Positions', NEW j \in Positions', i # j,
             At(i)'.open, At(j)'.open
      PROVE  At(i)'.client # At(j)'.client
  <2>1. i + k # j + k
    BY <1>3 DEF Positions
  <2>2. QED
    BY <1>3, <2>1 DEF RepliesExpected
<1>4. QED
  BY <1>1, <1>2, <1>3 DEF RepliesExpected

\* A request that arrives is the last one.
LEMMA ArrivePositions ==
  ASSUME HubTypeOK, NEW r \in Requests, Arrive(r)
  PROVE  \E last \in Nat :
           /\ Positions' = Positions \cup {last} /\ last \notin Positions
           /\ last # 0 /\ \A i \in Positions : At(i)' = At(i)
           /\ At(last)' = r
<1>1. /\ backlog \in Seq(Requests) /\ backlog' = Append(backlog, r)
      /\ Len(backlog) \in Nat /\ serving' = serving
  BY OpenRequests DEF Arrive, HubTypeOK
<1>2. /\ Len(backlog') = Len(backlog) + 1
      /\ backlog'[Len(backlog) + 1] = r
      /\ \A i \in 1 .. Len(backlog) : backlog'[i] = backlog[i]
  BY <1>1, AppendProperties
<1>3. PICK last \in Nat : last = Len(backlog) + 1
  BY <1>1
<1>4. /\ Positions' = Positions \cup {last} /\ last \notin Positions /\ last # 0
      /\ \A i \in Positions : At(i)' = At(i)
      /\ At(last)' = r
  BY <1>1, <1>2, <1>3 DEF Positions, At
<1>5. QED
  BY <1>4

\* When a request is accepted, the first becomes the one that is served.
LEMMA AcceptPositions ==
  ASSUME HubTypeOK, Accept
  PROVE  /\ \A i \in Positions' : i + 1 \in Positions /\ At(i)' = At(i + 1)
         /\ 1 \in Positions /\ serving' = At(1) /\ serving' = Head(backlog)
<1>1. /\ backlog \in Seq(Requests) /\ backlog # <<>>
      /\ serving' = Head(backlog) /\ backlog' = Tail(backlog)
  BY DEF Accept, HubTypeOK
<1>2. /\ serving' = backlog[1] /\ Len(backlog') = Len(backlog) - 1
      /\ \A i \in 1 .. Len(backlog') : backlog'[i] = backlog[i + 1]
      /\ Len(backlog) \in Nat /\ Len(backlog) # 0
  BY <1>1, HeadTailProperties, LenProperties, EmptySeq
<1>3. QED
  BY <1>1, <1>2 DEF Positions, At

\* A request that is sent is expected, by a dnode that nobody owes a reply.
LEMMA SendsExpected ==
  ASSUME HubTypeOK, RepliesExpected, RepliesFit, NEW d \in Dnodes, Sends(d)
  PROVE  RepliesExpected' /\ RepliesFit'
<1>1. PICK r \in DnodeRequests :
        /\ Arrive(r) /\ r.client = d /\ OthersStay(d)
        /\ r.open => Awaits(d, r.cmd)'
  BY DEF Sends
<1>2. conn[d] = "none" /\ conn \in [Dnodes -> {"none", "waiting", "answered", "broken"}]
  BY <1>1 DEF Arrive, HubTypeOK, Dnodes
<1>3. r \in Requests
  BY DnodeRequestsGenuine DEF Genuine
<1>4. PICK last \in Nat :
        /\ Positions' = Positions \cup {last} /\ last \notin Positions
        /\ last # 0 /\ \A i \in Positions : At(i)' = At(i)
        /\ At(last)' = r
  BY <1>1, <1>3, ArrivePositions
<1>5. \A i \in Positions : At(i).open => At(i).client \in Dnodes \ {d}
  BY <1>2, OpenRequests DEF RepliesExpected
<1>6. /\ \A e \in Dnodes \ {d} : conn'[e] = conn[e] /\ phase'[e] = phase[e]
      /\ conn'[d] = IF r.open THEN "waiting" ELSE "none"
  BY <1>1, <1>2, <1>3 DEF Arrive, OthersStay
<1>7. \A e \in Dnodes : conn'[e] # "none" => phase'[e] \in Waiting
  BY <1>1, <1>6 DEF RepliesExpected, Awaits, Waiting
<1>8. ASSUME NEW i \in Positions', At(i)'.open
      PROVE  conn'[At(i)'.client] = "waiting" /\ Awaits(At(i).client, At(i).cmd)'
  <2>1. CASE i \in Positions
    BY <1>4, <1>5, <1>6, <1>8, <2>1 DEF RepliesExpected, Awaits
  <2>2. CASE i = last
    BY <1>1, <1>4, <1>6, <1>8, <2>2 DEF Awaits
  <2>3. QED
    BY <1>4, <2>1, <2>2
<1>9. ASSUME NEW i \in Positions', NEW j \in Positions', i # j,
             At(i)'.open, At(j)'.open
      PROVE  At(i)'.client # At(j)'.client
  BY <1>1, <1>4, <1>5, <1>9 DEF RepliesExpected
<1>10. RepliesExpected'
  BY <1>7, <1>8, <1>9 DEF RepliesExpected
<1>11. RepliesFit'
  BY <1>1, <1>6 DEF Arrive, RepliesFit
<1>12. QED
  BY <1>10, <1>11

\* A dnode that reads its reply, works or dies is one that nobody owes a reply
\* afterwards.
LEMMA DnodeExpected ==
  ASSUME HubTypeOK, RequestsGenuine, RepliesExpected, RepliesFit,
         NEW d \in Dnodes, Takes(d) \/ Works(d) \/ Dies(d)
  PROVE  RepliesExpected' /\ RepliesFit'
<1>1. conn \in [Dnodes -> {"none", "waiting", "answered", "broken"}]
  BY DEF HubTypeOK, Dnodes
<1>2. \A i \in Positions : At(i).open => conn[At(i).client] = "waiting"
  BY DEF RepliesExpected
<1>3. CASE Takes(d)
  <2>1. /\ conn[d] \in {"answered", "broken"} /\ conn'[d] = "none"
        /\ \A e \in Dnodes \ {d} : phase'[e] = phase[e] /\ conn'[e] = conn[e]
        /\ \A e \in Dnodes \ {d} : reply'[e] = reply[e]
        /\ UNCHANGED <<backlog, serving>>
    BY <1>1, <1>3 DEF Takes, Take, OthersStay, HubTypeOK, Dnodes
  <2>2. Positions' = Positions /\ \A i \in Positions : At(i)' = At(i)
    BY <2>1 DEF Positions, At
  <2>3. \A i \in Positions' : At(i)'.open =>
          /\ i + 0 \in Positions /\ At(i + 0).open
          /\ At(i)'.client = At(i + 0).client /\ At(i)'.client \notin {d}
          /\ At(i)'.cmd = At(i + 0).cmd
    BY <1>2, <2>1, <2>2 DEF Positions
  <2>4. RepliesExpected'
    BY <2>1, <2>3, StillExpected
  <2>5. QED
    BY <2>1, <2>4 DEF RepliesFit
<1>4. CASE Works(d)
  <2>1. /\ UNCHANGED <<conn, reply, backlog, serving>>
        /\ \A e \in Dnodes \ {d} : phase'[e] = phase[e]
        /\ \/ phase'[d] = phase[d]
           \/ phase[d] \notin Waiting /\ phase'[d] \notin Waiting
    BY <1>4 DEF Works, OthersStay, vars, clientVars
  <2>2. Positions' = Positions /\ \A i \in Positions : At(i)' = At(i)
    BY <2>1 DEF Positions, At
  <2>3. \A e \in Dnodes : conn[e] # "none" => phase'[e] = phase[e]
    BY <2>1 DEF RepliesExpected
  <2>4. \A i \in Positions : At(i).open =>
          Awaits(At(i).client, At(i).cmd)' = Awaits(At(i).client, At(i).cmd)
    BY <1>2, <2>2, <2>3, OpenRequests DEF Awaits
  <2>5. RepliesExpected'
    BY <2>1, <2>2, <2>3, <2>4 DEF RepliesExpected
  <2>6. QED
    BY <2>1, <2>3, <2>5 DEF RepliesFit
<1>5. CASE Dies(d)
  <2>1. /\ conn'[d] = "none"
        /\ \A e \in Dnodes \ {d} : phase'[e] = phase[e] /\ conn'[e] = conn[e]
        /\ \A e \in Dnodes \ {d} : reply'[e] = reply[e]
        /\ serving' = Closed(d, serving)
        /\ backlog' = [i \in DOMAIN backlog |-> Closed(d, backlog[i])]
    BY <1>1, <1>5 DEF Dies, Vanish, OthersStay, HubTypeOK, Dnodes
  <2>2. Len(backlog) \in Nat /\ DOMAIN backlog = 1 .. Len(backlog)
    BY OpenRequests
  <2>3. Len(backlog') = Len(backlog)
    BY <2>1, <2>2, LenProperties
  <2>4. Positions' = Positions /\ \A i \in Positions : At(i)' = Closed(d, At(i))
    BY <2>1, <2>2, <2>3 DEF Positions, At
  <2>5. \A r \in Requests : /\ Closed(d, r).cmd = r.cmd
                            /\ Closed(d, r).client = r.client
                            /\ Closed(d, r).open => r.open /\ r.client # d
    BY DEF Closed, Requests
  <2>6. ~NoRequest.open
    BY DEF NoRequest
  <2>7. \A i \in Positions' : At(i)'.open =>
          /\ i + 0 \in Positions /\ At(i + 0).open
          /\ At(i)'.client = At(i + 0).client /\ At(i)'.client \notin {d}
          /\ At(i)'.cmd = At(i + 0).cmd
    BY <2>2, <2>4, <2>5, <2>6, OpenRequests, ClosedNoRequest DEF Positions
  <2>8. RepliesExpected'
    BY <2>1, <2>7, StillExpected
  <2>9. QED
    BY <2>1, <2>8 DEF RepliesFit
<1>6. QED
  BY <1>3, <1>4, <1>5

\* When the hub has served a request, it owes one reply less.
LEMMA FinishedExpected ==
  ASSUME HubTypeOK, RepliesExpected,
         UNCHANGED <<phase, backlog>>, serving' = NoRequest,
         \A e \in Dnodes :
           conn'[e] = conn[e] \/ (serving.open /\ serving.client = e)
  PROVE  RepliesExpected'
<1> DEFINE D == {e \in Dnodes : serving.open /\ serving.client = e}
<1>1. /\ Positions' = Positions /\ 0 \in Positions /\ At(0) = serving
      /\ At(0)' = NoRequest /\ ~NoRequest.open
      /\ \A i \in Positions : i # 0 => At(i)' = At(i)
  BY OpenRequests DEF Positions, At, NoRequest
<1>2. \A d \in Dnodes \cap D : conn'[d] # "none" => phase'[d] \in Waiting
  BY <1>1 DEF RepliesExpected
<1>3. \A e \in Dnodes \ D : phase'[e] = phase[e] /\ conn'[e] = conn[e]
  OBVIOUS
<1>4. \A i \in Positions' : At(i)'.open =>
        /\ i + 0 \in Positions /\ At(i + 0).open
        /\ At(i)'.client = At(i + 0).client /\ At(i)'.client \notin D
        /\ At(i)'.cmd = At(i + 0).cmd
  BY <1>1 DEF RepliesExpected, Positions
<1> HIDE DEF D
<1>5. QED
  BY <1>2, <1>3, <1>4, StillExpected

\* An answer is what the dnode at the other end waits for.
LEMMA AnswerFits ==
  ASSUME HubTypeOK, RepliesExpected, RepliesFit, Genuine(serving),
         NEW answer \in Replies, Answer(serving, answer),
         UNCHANGED <<phase, backlog>>, serving' = NoRequest,
         serving.cmd = "NODE_JOIN" => answer.uid \in Uids,
         serving.cmd = "FILE_DOWNLOAD" =>
           answer.hash \in Hashes /\ answer.metadata \in Contents
  PROVE  RepliesExpected' /\ RepliesFit'
<1>1. /\ conn \in [Dnodes -> {"none", "waiting", "answered", "broken"}]
      /\ reply \in [Dnodes -> Replies]
  BY DEF HubTypeOK, Dnodes
<1>2. CASE serving.open
  <2> DEFINE c == serving.client
  <2>1. c \in Dnodes /\ conn[c] = "waiting" /\ Awaits(c, serving.cmd)
    BY <1>2, OpenRequests DEF RepliesExpected, Positions, At, Genuine, Requests,
                              Dnodes
  <2>2. /\ \A e \in Dnodes \ {c} : conn'[e] = conn[e] /\ reply'[e] = reply[e]
        /\ reply'[c] = answer
    BY <1>1, <1>2, <2>1 DEF Answer
  <2>3. RepliesExpected'
    BY <1>2, <2>1, <2>2, FinishedExpected
  <2>4. RepliesFit'
    BY <2>1, <2>2 DEF RepliesFit, Awaits
  <2>5. QED
    BY <2>3, <2>4
<1>3. CASE ~serving.open
  <2>1. UNCHANGED <<conn, reply>>
    BY <1>3 DEF Answer, clientVars
  <2>2. RepliesExpected'
    BY <2>1, FinishedExpected
  <2>3. QED
    BY <2>1, <2>2 DEF RepliesFit
<1>4. QED
  BY <1>2, <1>3

\* The hub's own steps leave expected what was.
LEMMA HubExpected ==
  ASSUME IInv, RepliesExpected, RepliesFit, Serves
  PROVE  RepliesExpected' /\ RepliesFit'
<1>1. /\ HubTypeOK /\ UNCHANGED phase
      /\ dnode_thread # "accept" => Genuine(serving)
  BY DEF IInv, RequestsGenuine, Serves
<1>2. NoReply \in Replies /\ \A u \in Uids : [NoReply EXCEPT !.uid = u] \in Replies
  BY EmptySeq DEF NoReply, Replies
<1>3. \A u \in Uids : [NoReply EXCEPT !.uid = u].uid = u
  BY DEF NoReply
<1>4. CASE Accept
  <2>1. UNCHANGED <<conn, reply>>
    BY <1>4 DEF Accept, clientVars
  <2>2. \A i \in Positions' : i + 1 \in Positions /\ At(i)' = At(i + 1)
    BY <1>1, <1>4, AcceptPositions
  <2>3. RepliesExpected'
    <3> DEFINE D == {}
    <3>1. \A i \in Positions' : At(i)'.open =>
            /\ i + 1 \in Positions /\ At(i + 1).open
            /\ At(i)'.client = At(i + 1).client /\ At(i)'.client \notin D
            /\ At(i)'.cmd = At(i + 1).cmd
      BY <2>2
    <3>2. /\ \A e \in Dnodes \ D : phase'[e] = phase[e] /\ conn'[e] = conn[e]
          /\ \A d \in Dnodes \cap D : conn'[d] # "none" => phase'[d] \in Waiting
      BY <1>1, <2>1
    <3> HIDE DEF D
    <3>3. QED
      BY <1>1, <3>1, <3>2, StillExpected
  <2>4. QED
    BY <1>1, <2>1, <2>3 DEF RepliesFit
<1>5. CASE HandleNewNodeJoin
  <2>1. PICK u \in FreshUids : Answer(serving, [NoReply EXCEPT !.uid = u])
    BY <1>5 DEF HandleNewNodeJoin
  <2>2. u \in Uids /\ serving.cmd = "NODE_JOIN" /\ Genuine(serving)
    BY <1>1, <1>5 DEF HandleNewNodeJoin, Serve, FreshUids
  <2>3. QED
    BY <1>1, <1>2, <1>3, <1>5, <2>1, <2>2, AnswerFits
    DEF HandleNewNodeJoin, Serve, Finish
<1>6. CASE HandleNodeHello
  <2>1. /\ Answer(serving, [NoReply EXCEPT !.uid = serving.uid])
        /\ serving.cmd = "NODE_HELLO" /\ Genuine(serving)
        /\ serving.uid \in Uids
    BY <1>1, <1>6 DEF HandleNodeHello, Serve, Genuine
  <2>2. QED
    BY <1>1, <1>2, <1>6, <2>1, AnswerFits DEF HandleNodeHello, Serve, Finish
<1>7. CASE HandleFileDownload
  <2> DEFINE h == fname_map[serving.name]
  <2>1. /\ Answer(serving, FileReply(h)) /\ Answerable(serving.name)
        /\ serving.cmd = "FILE_DOWNLOAD" /\ Genuine(serving)
        /\ serving.name \in Names
    BY <1>1, <1>7 DEF HandleFileDownload, Serve, Genuine
  <2>2. FileReply(h) \in Replies
    BY <1>1, <2>1, FileReplyTyped
  <2>3. /\ FileReply(h).hash = h
        /\ FileReply(h).metadata = file_metadata_map[h]
    BY DEF FileReply
  <2>4. h \in Hashes /\ file_metadata_map[h] \in Contents
    BY <1>1, <2>1 DEF Answerable, HubTypeOK, IsTable
  <2>5. QED
    BY <1>1, <1>7, <2>1, <2>2, <2>3, <2>4, AnswerFits
    DEF HandleFileDownload, Serve, Finish
<1>8. CASE HandleUploadHeader \/ HandleUploadIndex \/ HandleFileDownloadedAck
  <2>1. UNCHANGED <<backlog, conn, reply>>
    BY <1>8
    DEF HandleUploadHeader, HandleUploadIndex, HandleFileDownloadedAck, Serve,
        clientVars
  <2>2. serving' = serving \/ serving' = NoRequest
    BY <1>8
    DEF HandleUploadHeader, HandleUploadIndex, HandleFileDownloadedAck, Finish
  <2>3. ASSUME serving' = serving
        PROVE  RepliesExpected'
    <3>1. Positions' = Positions /\ \A i \in Positions : At(i)' = At(i)
      BY <2>1, <2>3 DEF Positions, At
    <3>2. QED
      BY <1>1, <2>1, <3>1 DEF RepliesExpected, Awaits
  <2>4. ASSUME serving' = NoRequest
        PROVE  RepliesExpected'
    BY <1>1, <2>1, <2>4, FinishedExpected
  <2>5. RepliesExpected'
    BY <2>2, <2>3, <2>4
  <2>6. QED
    BY <1>1, <2>1, <2>5 DEF RepliesFit
<1>9. CASE Die
  <2>1. /\ \A d \in Dnodes : conn'[d] = IF conn[d] = "waiting" THEN "broken"
                                                               ELSE conn[d]
        /\ backlog' = <<>> /\ serving' = NoRequest /\ reply' = reply
    BY <1>9 DEF Die, Dnodes
  <2>2. Positions' = {0} /\ ~At(0)'.open
    BY <2>1, EmptySeq DEF Positions, At, NoRequest
  <2>3. RepliesExpected'
    BY <1>1, <2>1, <2>2 DEF RepliesExpected
  <2>4. QED
    BY <1>1, <2>1, <2>3 DEF RepliesFit
<1>10. CASE Restart
  BY <1>1, <1>10
  DEF Restart, clientVars, RepliesExpected, RepliesFit, Positions, At, Awaits
<1>11. \/ Accept \/ HandleNewNodeJoin \/ HandleNodeHello
       \/ HandleUploadHeader \/ HandleUploadIndex
       \/ HandleFileDownload \/ HandleFileDownloadedAck \/ Die \/ Restart
  BY Zenon DEF Serves, DnodeThread, DownloadKills
<1>12. QED
  BY <1>4, <1>5, <1>6, <1>7, <1>8, <1>9, <1>10, <1>11

\* Every step keeps replies and the waits for them together.
LEMMA RepliesStep ==
  ASSUME IInv, DInv, [DfsNext]_allVars
  PROVE  RepliesExpected' /\ RepliesFit'
<1>1. /\ HubTypeOK /\ RequestsGenuine /\ RepliesExpected /\ RepliesFit
  BY DEF IInv, DInv
<1>2. CASE UNCHANGED <<vars, phase>>
  BY <1>1, <1>2
  DEF vars, clientVars, RepliesExpected, RepliesFit, Positions, At, Awaits
<1>3. \/ \E d \in Dnodes : Sends(d) \/ Takes(d) \/ Works(d) \/ Dies(d)
      \/ Serves
      \/ UNCHANGED <<vars, phase>>
  BY DfsSteps, Zenon DEF DInv
<1>4. QED
  BY <1>1, <1>2, <1>3, SendsExpected, DnodeExpected, HubExpected, Zenon

-----------------------------------------------------------------------------
(* The theorems.                                                           *)

\* The invariants hold at the start.
LEMMA DfsInitInv == DfsInit => IInv /\ DInv
<1> SUFFICES ASSUME DfsInit
             PROVE  IInv /\ DInv
  OBVIOUS
<1>1. IInv
  BY InitInv DEF DfsInit
<1>2. DfsTypeOK
  BY NewJobs DEF DfsInit, DfsTypeOK, Phases
<1>3. Positions = {0} /\ ~At(0).open
  BY EmptySeq DEF DfsInit, HubInit, Positions, At, NoRequest
<1>4. RepliesExpected /\ RepliesFit
  BY <1>3 DEF DfsInit, HubInit, RepliesExpected, RepliesFit, Dnodes
<1>5. UidInv /\ JobInv
  BY DEF DfsInit, UidInv, UidOf, JobInv, JobOf, HasUid
<1>6. QED
  BY <1>1, <1>2, <1>4, <1>5 DEF DInv

\* And every step keeps them, and is one that the hub expects.
LEMMA DfsNextInv ==
  IInv /\ DInv /\ [DfsNext]_allVars => IInv' /\ DInv' /\ [HubNext]_vars
<1> SUFFICES ASSUME IInv, DInv, [DfsNext]_allVars
             PROVE  IInv' /\ DInv' /\ [HubNext]_vars
  OBVIOUS
<1>1. HubTypeOK /\ DfsTypeOK /\ RepliesFit /\ UidInv /\ JobInv
  BY DEF IInv, DInv
<1>2. [HubNext]_vars
  BY <1>1, DfsStepsAreHubSteps, Zenon
<1>3. IInv'
  BY <1>2, NextInv, Zenon
<1>4. DfsTypeOK' /\ RepliesExpected' /\ RepliesFit' /\ UidInv' /\ JobInv'
  BY <1>1, DfsTypeStep, RepliesStep, UidStep, JobStep, Zenon
<1>5. QED
  BY <1>2, <1>3, <1>4, Zenon DEF DInv

\* The invariants hold of every reachable state.
THEOREM DfsInvHolds == DfsSpec => [](IInv /\ DInv)
<1>1. IInv /\ DInv /\ [DfsNext]_allVars => (IInv /\ DInv)'
  BY DfsNextInv
<1>2. QED
  BY <1>1, DfsInitInv, PTL DEF DfsSpec

\* The hub of the system is the hub of Hub, whatever fails: dnodes send only what
\* their code can send.  What is proved of HubSpec is true of it.
THEOREM DfsImplementsHub == DfsSpec => HubServesDfs
<1>1. DfsInit => HubInit
  BY DEF DfsInit
<1>2. QED
  BY <1>1, DfsNextInv, DfsInvHolds, PTL DEF DfsSpec, HubServesDfs, HubSpec

\* Every variable of the dnodes keeps to its range (dnode.h:51-65).
THEOREM DfsTypeCorrect == DfsSpec => []DfsTypeOK
<1>1. DInv => DfsTypeOK
  BY DEF DInv
<1>2. QED
  BY <1>1, DfsInvHolds, PTL

\* A dnode that serves requests does so under the uid that is on its disk
\* (dnode.cpp:69-79, 107-110).
THEOREM UidsArePersistent == DfsSpec => []UidIsPersistent
<1>1. DInv => UidIsPersistent
  <2> SUFFICES ASSUME DInv, NEW d \in Dnodes, phase[d] \notin Starting \cup {"off"},
                      uid_file[d] # Junk
               PROVE  uid_file[d] = uid[d]
    BY DEF UidIsPersistent
  <2>1. phase[d] \in HasUid
    BY DEF DInv, DfsTypeOK, Phases, Starting, HasUid
  <2>2. QED
    BY <2>1 DEF DInv, UidInv, UidOf
<1>2. QED
  BY <1>1, DfsInvHolds, PTL

\* The uid a dnode has saved is never replaced (dnode.cpp:69-79, 108).
THEOREM UidsAreKept == DfsSpec => UidIsKept
<1> DEFINE Kept == \A d \in Dnodes : uid_file[d] \notin {None, Junk, 0} =>
                                       uid_file'[d] = uid_file[d]
<1>1. DInv /\ [DfsNext]_allVars => Kept
  <2> SUFFICES ASSUME DInv, [DfsNext]_allVars
               PROVE  Kept
    OBVIOUS
  <2>1. uid_file \in [Dnodes -> Uids \cup {None, Junk}]
    BY DEF DInv, DfsTypeOK
  <2>2. ASSUME NEW d \in Dnodes,
               \/ StartUp(d) \/ SendJoin(d) \/ Joined(d) \/ JoinFails(d)
               \/ SaveUid(d) \/ SendHello(d) \/ Greeted(d) \/ StartHangs(d)
               \/ Listen(d)
        PROVE  Kept
    <3>1. CASE Joined(d) \/ JoinFails(d)
      BY <2>1, <3>1 DEF Joined, JoinFails
    <3>2. CASE SaveUid(d)
      <4>1. uid_file[d] \in {None, Junk, 0}
        BY <3>2 DEF SaveUid, Goto, DInv, UidInv, UidOf
      <4>2. QED
        BY <2>1, <3>2, <4>1 DEF SaveUid
    <3>3. CASE \/ StartUp(d) \/ SendJoin(d) \/ SendHello(d) \/ Greeted(d)
               \/ StartHangs(d) \/ Listen(d)
      BY <3>3 DEF StartUp, SendJoin, SendHello, Greeted, StartHangs, Listen
    <3>4. QED
      BY <2>2, <3>1, <3>2, <3>3
  <2>3. ASSUME NEW d \in Dnodes,
               \/ \E n \in Names, x \in Contents : Upload(d, n, x)
               \/ Copied(d) \/ Announce(d) \/ Crash(d)
               \/ \E n \in Names : Download(d, n)
               \/ GotReply(d) \/ NoReplyComes(d) \/ Misled(d)
               \/ FetchPart(d) \/ FetchBroken(d) \/ FetchRefused(d)
               \/ FetchNothing(d) \/ WriteFile(d) \/ Acknowledge(d)
        PROVE  Kept
    BY <2>3
    DEF Upload, Copied, Announce, Crash, Download, GotReply, NoReplyComes,
        Misled, FetchPart, FetchBroken, FetchRefused, FetchNothing, GetPart,
        FetchHangs, WriteFile, Acknowledge
  <2>4. CASE UNCHANGED dnodeVars
    BY <2>4 DEF dnodeVars
  <2> HIDE DEF Kept
  <2>5. QED
    BY <2>2, <2>3, <2>4, DfsActions
<1>2. QED
  BY <1>1, DfsInvHolds, PTL DEF DfsSpec, UidIsKept

-----------------------------------------------------------------------------
(* Uids that hubs have given out.                                          *)

\* A reply to a join that has not been read.
JoinReply(d) == conn[d] = "answered" /\ phase[d] = "joining"

\* The uids that dnode d got from a hub: as its own, on disk, or in a reply it
\* has not read.
Held(d) ==
  {u \in Uids \ JunkUids :
     \/ u = uid[d] \/ u = uid_file[d]
     \/ conn[d] = "answered" /\ phase[d] = "joining" /\ u = reply[d].uid}

HeldApart ==
  /\ \A d \in Dnodes : Held(d) \subseteq issued
  /\ \A d, e \in Dnodes : d # e => Held(d) \cap Held(e) = {}

\* A dnode's uid comes from its disk, from a reply or from nowhere, and the one
\* on its disk from the dnode.
LEMMA OwnUids ==
  ASSUME DfsTypeOK, [DfsNext]_allVars, NEW d \in Dnodes
  PROVE  /\ \/ uid'[d] \in {uid[d], uid_file[d], None} \cup JunkUids
            \/ JoinReply(d) /\ uid'[d] = reply[d].uid
         /\ uid_file'[d] \in {uid[d], uid_file[d], Junk}
<1> DEFINE Goal == /\ \/ uid'[d] \in {uid[d], uid_file[d], None} \cup JunkUids
                      \/ JoinReply(d) /\ uid'[d] = reply[d].uid
                   /\ uid_file'[d] \in {uid[d], uid_file[d], Junk}
<1>1. uid \in [Dnodes -> Uids \cup {None}]
        /\ uid_file \in [Dnodes -> Uids \cup {None, Junk}]
  BY DEF DfsTypeOK
<1>2. ASSUME NEW e \in Dnodes,
             \/ StartUp(e) \/ SendJoin(e) \/ Joined(e) \/ JoinFails(e)
             \/ SaveUid(e) \/ SendHello(e) \/ Greeted(e) \/ StartHangs(e)
             \/ Listen(e)
      PROVE  Goal
  <2>1. CASE StartUp(e)
    BY <1>1, <2>1, JunkAssumption DEF StartUp, InitialUid
  <2>2. CASE Joined(e) \/ JoinFails(e)
    BY <1>1, <2>2 DEF Joined, JoinFails, Goto, JoinReply
  <2>3. CASE SendJoin(e) \/ SendHello(e)
    BY <1>1, <2>3 DEF SendJoin, SendHello, Send, End
  <2>4. CASE SaveUid(e) \/ Greeted(e) \/ StartHangs(e) \/ Listen(e)
    BY <1>1, <2>4 DEF SaveUid, SavedUid, Greeted, StartHangs, Listen
  <2>5. QED
    BY <1>2, <2>1, <2>2, <2>3, <2>4
<1>3. ASSUME NEW e \in Dnodes, UNCHANGED uid_file, UNCHANGED uid \/ End(e)
      PROVE  Goal
  BY <1>1, <1>3 DEF End
<1>4. ASSUME NEW e \in Dnodes,
             \/ \E n \in Names, x \in Contents : Upload(e, n, x)
             \/ Copied(e) \/ Announce(e) \/ Crash(e)
      PROVE  Goal
  BY <1>3, <1>4 DEF Upload, Copied, Announce, Crash, Send
<1>5. ASSUME NEW e \in Dnodes,
             \/ \E n \in Names : Download(e, n)
             \/ GotReply(e) \/ NoReplyComes(e) \/ Misled(e)
             \/ FetchPart(e) \/ FetchBroken(e) \/ FetchRefused(e)
             \/ FetchNothing(e) \/ WriteFile(e) \/ Acknowledge(e)
      PROVE  Goal
  BY <1>3, <1>5
  DEF Download, GotReply, NoReplyComes, Misled, FetchPart, FetchBroken,
      FetchRefused, FetchNothing, GetPart, FetchHangs, WriteFile, Acknowledge,
      Send
<1>6. CASE UNCHANGED dnodeVars
  BY <1>6 DEF dnodeVars
<1> HIDE DEF Goal
<1>7. Goal
  BY <1>2, <1>4, <1>5, <1>6, DfsActions DEF Goal
<1>8. QED
  BY <1>7 DEF Goal

\* A join gives its dnode, in the table and in the reply if it is still there, a
\* uid that was not issued before, unless two dnodes join within a second.
LEMMA JoinGives ==
  ASSUME IInv, DInv, ~SameSecond, Serves, HandleNewNodeJoin
  PROVE  \E c \in Dnodes, u \in Uids \ issued :
           /\ c = serving.client
           /\ issued' = issued \cup {u}
           /\ dnodes_map' = Put(dnodes_map, u, c)
           /\ \A d \in Dnodes :
                JoinReply(d)' => \/ JoinReply(d) /\ reply'[d] = reply[d]
                                 \/ d = c /\ reply'[d].uid = u
<1>1. /\ RequestsGenuine
      /\ conn \in [Dnodes -> {"none", "waiting", "answered", "broken"}]
      /\ reply \in [Dnodes -> Replies]
  BY DEF IInv, DInv, HubTypeOK, Dnodes
<1>2. PICK u \in FreshUids :
        /\ issued' = issued \cup {u}
        /\ dnodes_map' = Put(dnodes_map, u, serving.client)
        /\ Answer(serving, [NoReply EXCEPT !.uid = u])
  BY DEF HandleNewNodeJoin
<1>3. u \in Uids \ issued
  BY <1>2 DEF FreshUids
<1>4. serving.client \in Dnodes
  BY <1>1 DEF HandleNewNodeJoin, Serve, RequestsGenuine, Genuine, Requests, Dnodes
<1>5. [NoReply EXCEPT !.uid = u].uid = u
  BY DEF NoReply
<1>6. phase' = phase
  BY DEF Serves
<1>7. ASSUME NEW d \in Dnodes, JoinReply(d)'
      PROVE  \/ JoinReply(d) /\ reply'[d] = reply[d]
             \/ d = serving.client /\ reply'[d].uid = u
  BY <1>1, <1>2, <1>4, <1>5, <1>6, <1>7 DEF Answer, clientVars, JoinReply
<1>8. QED
  BY <1>2, <1>3, <1>4, <1>7

\* A reply to a join that was not there before carries a uid that was not issued
\* before, unless two dnodes join within a second.
LEMMA NewUids ==
  ASSUME IInv, DInv, ~SameSecond, [DfsNext]_allVars
  PROVE  \/ /\ issued \subseteq issued'
            /\ \A d \in Dnodes :
                 JoinReply(d)' => JoinReply(d) /\ reply'[d] = reply[d]
         \/ \E c \in Dnodes, u \in Uids \ issued :
              /\ issued' = issued \cup {u}
              /\ \A d \in Dnodes :
                   JoinReply(d)' => \/ JoinReply(d) /\ reply'[d] = reply[d]
                                    \/ d = c /\ reply'[d].uid = u
<1> DEFINE Old == /\ issued \subseteq issued'
                  /\ \A d \in Dnodes :
                       JoinReply(d)' => JoinReply(d) /\ reply'[d] = reply[d]
<1>1. /\ HubTypeOK /\ RepliesExpected /\ RequestsGenuine
      /\ conn \in [Dnodes -> {"none", "waiting", "answered", "broken"}]
      /\ reply \in [Dnodes -> Replies]
  BY DEF IInv, DInv, HubTypeOK, Dnodes
<1>2. ASSUME NEW d \in Dnodes, Sends(d)
      PROVE  Old
  BY <1>1, <1>2 DEF Sends, Arrive, OthersStay, JoinReply
<1>3. ASSUME NEW d \in Dnodes, Takes(d) \/ Works(d) \/ Dies(d)
      PROVE  Old
  BY <1>1, <1>3
  DEF Takes, Take, Works, Dies, Vanish, OthersStay, JoinReply, vars, clientVars,
      Waiting
<1>4. CASE Serves /\ HandleNewNodeJoin
  BY <1>4, JoinGives DEF FreshUids
<1>5. ASSUME Serves, HandleNodeHello \/ HandleFileDownload
      PROVE  Old
  <2>1. UNCHANGED <<phase, issued>>
    BY <1>5 DEF Serves, HandleNodeHello, HandleFileDownload
  <2>2. PICK answer : Answer(serving, answer)
    BY <1>5 DEF HandleNodeHello, HandleFileDownload
  <2>3. serving.cmd \in {"NODE_HELLO", "FILE_DOWNLOAD"}
    BY <1>5 DEF HandleNodeHello, HandleFileDownload, Serve
  <2>4. serving.open => phase[serving.client] # "joining"
    BY <2>3, OpenRequests, <1>1 DEF RepliesExpected, Positions, At, Awaits
  <2>5. QED
    BY <1>1, <2>1, <2>2, <2>4 DEF Answer, clientVars, JoinReply
<1>6. ASSUME Serves, \/ Accept \/ HandleUploadHeader \/ HandleUploadIndex
                     \/ HandleFileDownloadedAck \/ Die \/ Restart
      PROVE  Old
  <2>1. /\ UNCHANGED <<phase, reply>> /\ issued' = issued
        /\ \A d \in Dnodes : conn'[d] = "answered" => conn[d] = "answered"
    <3>1. CASE Die
      BY <1>6, <3>1 DEF Serves, Die, Dnodes
    <3>2. CASE ~Die
      BY <1>6, <3>2
      DEF Serves, Accept, HandleUploadHeader, HandleUploadIndex,
          HandleFileDownloadedAck, Serve, Restart, clientVars
    <3>3. QED
      BY <3>1, <3>2
  <2>2. QED
    BY <2>1 DEF JoinReply
<1>7. CASE UNCHANGED <<vars, phase>>
  BY <1>7 DEF vars, clientVars, JoinReply
<1>8. Serves => \/ Accept \/ HandleNewNodeJoin \/ HandleNodeHello
                \/ HandleUploadHeader \/ HandleUploadIndex
                \/ HandleFileDownload \/ HandleFileDownloadedAck
                \/ Die \/ Restart
  BY Zenon DEF Serves, DnodeThread, DownloadKills
<1>9. \/ \E d \in Dnodes : Sends(d) \/ Takes(d) \/ Works(d) \/ Dies(d)
      \/ Serves
      \/ UNCHANGED <<vars, phase>>
  BY DfsSteps, Zenon DEF DInv
<1>10. QED
  BY <1>2, <1>3, <1>4, <1>5, <1>6, <1>7, <1>8, <1>9

\* No uid that a hub has given out is at two dnodes.
LEMMA HeldStep ==
  ASSUME IInv, DInv, HeldApart, ~SameSecond, [DfsNext]_allVars
  PROVE  HeldApart'
<1> USE JunkAssumption, NoneAssumption
<1>1. DfsTypeOK
  BY DEF DInv
<1>2. ASSUME NEW d \in Dnodes,
             JoinReply(d)' => JoinReply(d) /\ reply'[d] = reply[d]
      PROVE  Held(d)' \subseteq Held(d)
  BY <1>1, <1>2, OwnUids DEF Held, JoinReply
<1>3. CASE /\ issued \subseteq issued'
           /\ \A d \in Dnodes :
                JoinReply(d)' => JoinReply(d) /\ reply'[d] = reply[d]
  <2>1. \A d \in Dnodes : Held(d)' \subseteq Held(d)
    BY <1>2, <1>3
  <2>2. QED
    BY <1>3, <2>1 DEF HeldApart
<1>4. ASSUME NEW c \in Dnodes, NEW u \in Uids \ issued,
             issued' = issued \cup {u},
             \A d \in Dnodes :
               JoinReply(d)' => \/ JoinReply(d) /\ reply'[d] = reply[d]
                                \/ d = c /\ reply'[d].uid = u
      PROVE  HeldApart'
  <2>1. \A d \in Dnodes \ {c} : Held(d)' \subseteq Held(d)
    BY <1>2, <1>4
  <2>2. Held(c)' \subseteq Held(c) \cup {u}
    BY <1>1, <1>4, OwnUids DEF Held, JoinReply
  <2>3. \A d \in Dnodes : Held(d) \subseteq issued
    BY DEF HeldApart
  <2>4. \A d \in Dnodes : Held(d)' \subseteq issued'
    BY <1>4, <2>1, <2>2, <2>3
  <2>5. ASSUME NEW d \in Dnodes, NEW e \in Dnodes, d # e
        PROVE  Held(d)' \cap Held(e)' = {}
    <3>1. Held(d) \cap Held(e) = {} /\ u \notin Held(d) /\ u \notin Held(e)
      BY <1>4, <2>3, <2>5 DEF HeldApart
    <3>2. QED
      BY <2>1, <2>2, <2>5, <3>1
  <2>6. QED
    BY <2>4, <2>5 DEF HeldApart
<1>5. QED
  BY <1>3, <1>4, NewUids

\* No two dnodes have the same uid from a hub, if random64bit is not called twice
\* within a second (hash.cpp:34-41, dnode.cpp:107).
THEOREM UidsAreUnique ==
  ASSUME ~SameSecond
  PROVE  DfsSpec => []UniqueUids
<1>1. DfsInit => HeldApart
  BY NoneAssumption DEF DfsInit, HubInit, HeldApart, Held, Dnodes
<1>2. IInv /\ DInv /\ HeldApart /\ [DfsNext]_allVars => HeldApart'
  BY HeldStep
<1>3. DInv /\ HeldApart => UniqueUids
  <2> SUFFICES ASSUME DInv, HeldApart, NEW d \in Dnodes, NEW e \in Dnodes, d # e,
                      uid[d] = uid[e], uid[d] \notin JunkUids \cup {None}
               PROVE  FALSE
    BY DEF UniqueUids
  <2>1. uid[d] \in Uids \ JunkUids
    BY DEF DInv, DfsTypeOK
  <2>2. uid[d] \in Held(d) \cap Held(e)
    BY <2>1 DEF Held
  <2>3. QED
    BY <2>2 DEF HeldApart
<1>4. QED
  BY <1>1, <1>2, <1>3, DfsInvHolds, PTL DEF DfsSpec

-----------------------------------------------------------------------------
(* Addresses.                                                              *)

\* The hub has heard of uid u from dnode c: c's address is in the table under u,
\* or a request of c under u has arrived and is not yet served.
HeardFrom(u, c) ==
  \/ u \in DOMAIN dnodes_map /\ dnodes_map[u] = c
  \/ \E i \in Positions : At(i).uid = u /\ At(i).client = c

\* Only from the dnode that holds a uid does the hub hear of it.
HeardFromOwner ==
  \A u \in Uids \ JunkUids, c \in Dnodes :
    HeardFrom(u, c) => /\ u \in issued
                       /\ \A d \in Dnodes : u \in Held(d) => d = c

\* But for a join, the hub hears of a uid from the dnode whose uid it is.
LEMMA NewlyHeard ==
  ASSUME IInv, DInv, [DfsNext]_allVars, ~(Serves /\ HandleNewNodeJoin),
         NEW u \in Uids, NEW c \in Dnodes, HeardFrom(u, c)'
  PROVE  HeardFrom(u, c) \/ u = uid[c]
<1> USE NoneAssumption
<1>1. HubTypeOK /\ RequestsGenuine
  BY DEF IInv
<1>2. NoRequest.uid = None /\ serving = At(0) /\ 0 \in Positions
  BY <1>1, OpenRequests DEF NoRequest, At, Positions
<1>3. ASSUME NEW d \in Dnodes, Sends(d)
      PROVE  HeardFrom(u, c) \/ u = uid[c]
  <2>1. PICK r \in DnodeRequests :
          Arrive(r) /\ r.client = d /\ r.uid \in {None, uid[d]}
    BY <1>3 DEF Sends
  <2>2. r \in Requests
    BY DnodeRequestsGenuine DEF Genuine
  <2>3. PICK last \in Nat :
          /\ Positions' = Positions \cup {last}
          /\ \A i \in Positions : At(i)' = At(i)
          /\ At(last)' = r
    BY <1>1, <2>1, <2>2, ArrivePositions
  <2>4. dnodes_map' = dnodes_map
    BY <2>1 DEF Arrive, tables
  <2>5. QED
    BY <2>1, <2>3, <2>4 DEF HeardFrom
<1>4. ASSUME NEW d \in Dnodes, Takes(d) \/ Works(d)
      PROVE  HeardFrom(u, c)
  <2>1. UNCHANGED <<dnodes_map, serving, backlog>>
    BY <1>4 DEF Takes, Take, Works, vars, tables
  <2>2. QED
    BY <2>1 DEF HeardFrom, Positions, At
<1>5. ASSUME NEW d \in Dnodes, Dies(d)
      PROVE  HeardFrom(u, c)
  <2>1. /\ dnodes_map' = dnodes_map
        /\ serving' = Closed(d, serving)
        /\ backlog' = [i \in DOMAIN backlog |-> Closed(d, backlog[i])]
    BY <1>5 DEF Dies, Vanish, tables
  <2>2. Positions' = Positions
    BY <1>1, <2>1, OpenRequests DEF Positions
  <2>3. \A i \in Positions : At(i)' = Closed(d, At(i))
    BY <1>1, <2>1, OpenRequests DEF Positions, At
  <2>4. \A i \in Positions : At(i)'.uid = At(i).uid /\ At(i)'.client = At(i).client
    BY <1>1, <2>3, OpenRequests DEF Closed, Requests, NoRequest
  <2>5. QED
    BY <2>1, <2>2, <2>4 DEF HeardFrom
<1>6. CASE Serves /\ Accept
  <2>1. \A i \in Positions' : i + 1 \in Positions /\ At(i)' = At(i + 1)
    BY <1>1, <1>6, AcceptPositions
  <2>2. dnodes_map' = dnodes_map
    BY <1>6 DEF Accept, tables
  <2>3. QED
    BY <2>1, <2>2 DEF HeardFrom
<1>7. ASSUME Serves, UNCHANGED <<dnodes_map, backlog>>,
             serving' \in {serving, NoRequest}
      PROVE  HeardFrom(u, c)
  <2>1. Positions' = Positions /\ \A i \in Positions : At(i)' \in {At(i), NoRequest}
    BY <1>7 DEF Positions, At
  <2>2. QED
    BY <1>2, <1>7, <2>1 DEF HeardFrom
<1>8. ASSUME Serves, HandleNodeHello
      PROVE  HeardFrom(u, c)
  <2>1. /\ dnodes_map' = Put(dnodes_map, serving.uid, serving.client)
        /\ backlog' = backlog /\ serving' = NoRequest
    BY <1>8 DEF HandleNodeHello, Serve, Finish
  <2>2. Positions' = Positions /\ \A i \in Positions : At(i)' \in {At(i), NoRequest}
    BY <2>1 DEF Positions, At
  <2>3. u \in DOMAIN dnodes_map' /\ dnodes_map'[u] = c =>
          HeardFrom(u, c)
    BY <1>2, <2>1 DEF HeardFrom, Put
  <2>4. QED
    BY <1>2, <2>2, <2>3 DEF HeardFrom
<1>9. CASE Serves /\ Die
  <2>1. dnodes_map' = EmptyTable /\ backlog' = <<>> /\ serving' = NoRequest
    BY <1>9 DEF Die
  <2>2. \A i \in Positions' : At(i)' = NoRequest
    BY <2>1, EmptySeq DEF Positions, At
  <2>3. QED
    BY <1>2, <2>1, <2>2 DEF HeardFrom, EmptyTable
<1>10. ASSUME Serves, \/ HandleUploadHeader \/ HandleUploadIndex
                      \/ HandleFileDownload \/ HandleFileDownloadedAck \/ Restart
       PROVE  HeardFrom(u, c)
  BY <1>7, <1>10
  DEF HandleUploadHeader, HandleUploadIndex, HandleFileDownload,
      HandleFileDownloadedAck, Restart, Serve, Finish, tables
<1>11. CASE UNCHANGED <<vars, phase>>
  BY <1>11 DEF vars, tables, HeardFrom, Positions, At
<1>12. Serves => \/ Accept \/ HandleNewNodeJoin \/ HandleNodeHello
                 \/ HandleUploadHeader \/ HandleUploadIndex
                 \/ HandleFileDownload \/ HandleFileDownloadedAck
                 \/ Die \/ Restart
  BY Zenon DEF Serves, DnodeThread, DownloadKills
<1>13. \/ \E d \in Dnodes : Sends(d) \/ Takes(d) \/ Works(d) \/ Dies(d)
       \/ Serves
       \/ UNCHANGED <<vars, phase>>
  BY DfsSteps, Zenon DEF DInv
<1>14. QED
  BY <1>3, <1>4, <1>5, <1>6, <1>8, <1>9, <1>10, <1>11, <1>12, <1>13

\* A uid that has been issued comes to no dnode that does not hold it.
LEMMA NothingNewHeld ==
  ASSUME IInv, DInv, ~SameSecond, [DfsNext]_allVars,
         NEW d \in Dnodes, NEW u \in issued, u \in Held(d)'
  PROVE  u \in issued' /\ u \in Held(d)
<1> USE JunkAssumption, NoneAssumption
<1>1. DfsTypeOK
  BY DEF DInv
<1>2. /\ issued \subseteq issued'
      /\ JoinReply(d)' /\ reply'[d].uid = u =>
           JoinReply(d) /\ reply[d].uid = u
  BY NewUids
<1>3. QED
  BY <1>1, <1>2, OwnUids DEF Held, JoinReply

\* Whom the hub has heard of a uid from stays the only one that holds it.
LEMMA HeardStep ==
  ASSUME IInv, DInv, HeldApart, HeardFromOwner, ~SameSecond, [DfsNext]_allVars
  PROVE  HeardFromOwner'
<1> SUFFICES ASSUME NEW u \in Uids \ JunkUids, NEW c \in Dnodes, HeardFrom(u, c)'
             PROVE  /\ u \in issued'
                    /\ \A d \in Dnodes : u \in Held(d)' => d = c
  BY DEF HeardFromOwner
<1>1. ASSUME u \in issued, \A d \in Dnodes : u \in Held(d) => d = c
      PROVE  /\ u \in issued'
             /\ \A d \in Dnodes : u \in Held(d)' => d = c
  BY <1>1, NewUids, NothingNewHeld
<1>2. CASE HeardFrom(u, c)
  BY <1>1, <1>2 DEF HeardFromOwner
<1>3. CASE u = uid[c]
  <2>1. u \in Held(c)
    BY <1>3 DEF Held
  <2>2. u \in issued /\ \A d \in Dnodes : u \in Held(d) => d = c
    BY <2>1 DEF HeldApart
  <2>3. QED
    BY <1>1, <2>2
<1>4. CASE Serves /\ HandleNewNodeJoin
  <2>1. PICK e \in Dnodes, v \in Uids \ issued :
          /\ issued' = issued \cup {v}
          /\ dnodes_map' = Put(dnodes_map, v, e)
          /\ \A d \in Dnodes :
               JoinReply(d)' => \/ JoinReply(d) /\ reply'[d] = reply[d]
                                \/ d = e /\ reply'[d].uid = v
    BY <1>4, JoinGives
  <2>2. backlog' = backlog /\ serving' = NoRequest /\ NoRequest.uid = None
    BY <1>4 DEF HandleNewNodeJoin, Serve, Finish, NoRequest
  <2>3. Positions' = Positions /\ \A i \in Positions : At(i)' \in {At(i), NoRequest}
    BY <2>2 DEF Positions, At
  <2>4. HeardFrom(u, c) \/ (u = v /\ c = e)
    BY <2>1, <2>2, <2>3, NoneAssumption DEF HeardFrom, Put
  <2>5. ASSUME u = v, c = e, NEW d \in Dnodes, u \in Held(d)', d # c
        PROVE  FALSE
    <3>1. u \in Held(d)
      BY <2>1, <2>5, OwnUids, JunkAssumption, NoneAssumption
      DEF Held, JoinReply, DInv
    <3>2. QED
      BY <2>1, <2>5, <3>1 DEF HeldApart
  <2>6. QED
    BY <1>2, <2>1, <2>4, <2>5
<1>5. QED
  BY <1>2, <1>3, <1>4, NewlyHeard

\* The address the hub has for a uid is that of the dnode that has it, whatever is
\* killed and restarted, if random64bit is not called twice within a second
\* (dnode_req_server.cpp:57-62, 88-99; hash.cpp:34-41).
THEOREM AddressesAreOwners ==
  ASSUME ~SameSecond
  PROVE  DfsSpec => []AddressIsOwner
<1> USE NoneAssumption, JunkAssumption
<1>1. DfsInit => HeldApart /\ HeardFromOwner
  <2>1. DfsInit => HeldApart
    BY DEF DfsInit, HubInit, HeldApart, Held, Dnodes
  <2>2. DfsInit => \A i \in Positions : At(i) = NoRequest
    BY EmptySeq DEF DfsInit, HubInit, Positions, At
  <2>3. DfsInit => DOMAIN dnodes_map = {}
    BY DEF DfsInit, HubInit, EmptyTable
  <2>4. NoRequest.uid = None
    BY DEF NoRequest
  <2>5. DfsInit => HeardFromOwner
    BY <2>2, <2>3, <2>4 DEF HeardFromOwner, HeardFrom
  <2>6. QED
    BY <2>1, <2>5
<1>2. IInv /\ DInv /\ HeldApart /\ HeardFromOwner /\ [DfsNext]_allVars
        => HeldApart' /\ HeardFromOwner'
  BY HeldStep, HeardStep
<1>3. IInv /\ DInv /\ HeardFromOwner => AddressIsOwner
  <2> SUFFICES ASSUME IInv, DInv, HeardFromOwner, NEW d \in Dnodes,
                      NEW u \in {uid[d], uid_file[d]} \ (JunkUids \cup {None, Junk}),
                      u \in DOMAIN dnodes_map
               PROVE  dnodes_map[u] = d
    BY DEF AddressIsOwner
  <2>1. u \in Uids \ JunkUids
    BY DEF DInv, DfsTypeOK
  <2>2. u \in Held(d)
    BY <2>1 DEF Held
  <2>3. dnodes_map[u] \in Dnodes /\ HeardFrom(u, dnodes_map[u])
    BY DEF IInv, HubTypeOK, IsTable, Dnodes, HeardFrom
  <2>4. QED
    BY <2>1, <2>2, <2>3 DEF HeardFromOwner
<1>4. QED
  BY <1>1, <1>2, <1>3, DfsInvHolds, PTL DEF DfsSpec
=============================================================================
