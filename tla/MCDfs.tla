------------------------------- MODULE MCDfs -------------------------------
(***************************************************************************)
(* Instances of Dfs for TLC.                                               *)
(***************************************************************************)
EXTENDS Dfs, TLC

CONSTANTS d1, d2, n1, n2, x1, x2, h1, h2

OwnHash == x1 :> h1 @@ x2 :> h2
OneHash == x1 :> h1
OneSize == x1 :> 1
TwoSizes == x1 :> 1 @@ x2 :> 2

Swap == Permutations(Clients)

NoPeers == {}

\* What users upload: one file under one name, two files under two names, one
\* file under two names, two files under one name.
OneFile == {<<n1, x1>>}
TwoFiles == {<<n1, x1>>, <<n2, x2>>}
TwoNames == {<<n1, x1>>, <<n2, x1>>}
TwoVersions == {<<n1, x1>>, <<n1, x2>>}
=============================================================================
