----------------------------- MODULE FileStore -----------------------------
(***************************************************************************)
(* What the file system as a whole promises its users: a file that was     *)
(* uploaded under a name can be fetched under that name, at any dnode,     *)
(* and is the same file for everybody and for ever.                        *)
(*                                                                         *)
(* This is the abstract specification that Dfs implements as long as       *)
(* nothing fails and files are shorter than a download's buffer; it knows  *)
(* nothing of the hub, of uids, hashes, sources, requests, parts or sizes. *)
(***************************************************************************)

CONSTANTS
  Nodes,      \* where the users are
  Names,
  Contents,
  None,       \* no content; no name
  Uploads     \* <<n, x>>: users upload content x under the name n

VARIABLES
  store,      \* name -> what everybody gets under it
  copies,     \* node -> name -> what the node holds under it
  wanted      \* node -> the name its user waits for

storeVars == <<store, copies, wanted>>

Init ==
  /\ store = [n \in Names |-> None]
  /\ copies = [d \in Nodes |-> [n \in Names |-> None]]
  /\ wanted = [d \in Nodes |-> None]

\* A file is put at a node.
Put(d, n, x) ==
  /\ <<n, x>> \in Uploads /\ wanted[d] = None
  /\ copies' = [copies EXCEPT ![d][n] = x]
  /\ UNCHANGED <<store, wanted>>

\* It becomes known to all, once, as what some node holds.
Publish(n) ==
  /\ store[n] = None
  /\ \E d \in Nodes :
       /\ copies[d][n] # None
       /\ store' = [store EXCEPT ![n] = copies[d][n]]
  /\ UNCHANGED <<copies, wanted>>

\* A user asks for a file that is known, and is made to wait until it is there.
Ask(d, n) ==
  /\ store[n] # None /\ wanted[d] = None
  /\ wanted' = [wanted EXCEPT ![d] = n]
  /\ UNCHANGED <<store, copies>>

Fetch(d) ==
  /\ wanted[d] # None
  /\ copies' = [copies EXCEPT ![d][wanted[d]] = store[wanted[d]]]
  /\ wanted' = [wanted EXCEPT ![d] = None]
  /\ UNCHANGED store

Next ==
  \/ \E d \in Nodes : \E n \in Names :
       (\E x \in Contents : Put(d, n, x)) \/ Ask(d, n)
  \/ \E n \in Names : Publish(n)
  \/ \E d \in Nodes : Fetch(d)

Spec == Init /\ [][Next]_storeVars
=============================================================================
