----------------------------- MODULE ChunkPool -----------------------------
(***************************************************************************)
(* What a parallel download promises about the chunks its threads share:   *)
(* a chunk is held by at most one thread at a time, a held chunk is        *)
(* completed, handed back, or - only once no peer is left to ask -         *)
(* abandoned, and a completed chunk is never fetched again.                *)
(*                                                                         *)
(* This is the abstract specification that ChunkDownload implements; it    *)
(* knows nothing of locks, of program counters or of the transfer itself.  *)
(***************************************************************************)
CONSTANTS
  Chunks,    \* the chunks to fetch
  Threads,   \* the threads that fetch them
  Free,      \* owner of a chunk nobody has claimed
  Done,      \* owner of a chunk that is downloaded
  Lost       \* owner of a chunk claimed when no peer was left

\* Free, Done and Lost are distinct and are no threads.

VARIABLES
  owner,     \* chunk -> the thread that holds it, or Free, Done, Lost
  supply     \* is there a peer left that a chunk can be asked from?

poolVars == <<owner, supply>>

Init ==
  /\ owner = [c \in Chunks |-> Free]
  /\ supply \in BOOLEAN

\* Whatever a thread does with a chunk may use up the last peer; nothing
\* brings a peer back.
SupplyMayEnd == supply' \in {supply, FALSE}

Claim(t, c) ==
  /\ owner[c] = Free
  /\ \A d \in Chunks : owner[d] # t
  /\ owner' = [owner EXCEPT ![c] = t]
  /\ UNCHANGED supply

HandBack(t, c) ==
  /\ owner[c] = t
  /\ owner' = [owner EXCEPT ![c] = Free]
  /\ SupplyMayEnd

Complete(t, c) ==
  /\ owner[c] = t
  /\ owner' = [owner EXCEPT ![c] = Done]
  /\ SupplyMayEnd

Abandon(t, c) ==
  /\ owner[c] = t
  /\ ~supply
  /\ owner' = [owner EXCEPT ![c] = Lost]
  /\ UNCHANGED supply

Next ==
  \E t \in Threads, c \in Chunks :
    \/ Claim(t, c)
    \/ HandBack(t, c)
    \/ Complete(t, c)
    \/ Abandon(t, c)

Spec == Init /\ [][Next]_poolVars
=============================================================================
