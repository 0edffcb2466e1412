------------------------------- MODULE MCHub -------------------------------
(***************************************************************************)
(* Instances of Hub for TLC.                                               *)
(***************************************************************************)
EXTENDS Hub, TLC

CONSTANTS c1, c2, x1, x2, x3, h1, h2

\* x1 and x2 have the same hash, as two files have that differ only after their
\* last multiple of eight bytes (hash.cpp:22).
Collide == x1 :> h1 @@ x2 :> h1 @@ x3 :> h2
OneFile == x1 :> h1

NoPeers == {}
Query(h) == [cmd |-> "HUB_QUERY_FILE_SRCS", uid |-> None, hash |-> h]
Queries == {Query(h1)}
PeerKinds ==
  {Query(h1),
   [cmd |-> "HUB_JOIN", uid |-> 1, hash |-> None],
   [cmd |-> "HUB_HELLO", uid |-> None, hash |-> None]}
=============================================================================
