---------------------------- MODULE DataService ----------------------------
(***************************************************************************)
(* What a dnode's data server promises to those who ask it for a chunk:    *)
(* each of them is sent the bytes of the chunk it asked for, in their      *)
(* order and none twice, or one refusal.                                   *)
(*                                                                         *)
(* The promise is kept until a descriptor is closed that belongs to        *)
(* somebody else; nothing is promised after that.  This is the abstract    *)
(* specification that DataServer implements; it knows nothing of threads,  *)
(* of descriptors or of the pieces a chunk is sent in.                     *)
(***************************************************************************)
EXTENDS Naturals, Sequences

CONSTANTS
  Requesters,  \* who asks for a chunk
  ChunkLen,    \* the length of a chunk
  Refusal      \* what is sent instead of a chunk

VARIABLES
  stage,       \* "off", "asked", "done" or "left"
  answer,      \* what a requester was sent
  harmed       \* has somebody's descriptor been closed by somebody else?

serviceVars == <<stage, answer, harmed>>

Init ==
  /\ stage = [c \in Requesters |-> "off"]
  /\ answer = [c \in Requesters |-> <<>>]
  /\ harmed = FALSE

Move(c, from, to) ==
  /\ stage[c] = from
  /\ stage' = [stage EXCEPT ![c] = to]
  /\ UNCHANGED <<answer, harmed>>

Ask(c) == Move(c, "off", "asked")

\* The next byte of c's own chunk.
SendNext(c) ==
  /\ stage[c] = "asked"
  /\ Len(answer[c]) < ChunkLen /\ answer[c] # Refusal
  /\ answer' = [answer EXCEPT ![c] = Append(@, <<c, Len(@) + 1>>)]
  /\ UNCHANGED <<stage, harmed>>

SendRefusal(c) ==
  /\ stage[c] = "asked" /\ answer[c] = <<>>
  /\ answer' = [answer EXCEPT ![c] = Refusal]
  /\ UNCHANGED <<stage, harmed>>

\* A requester is content with as many bytes as a chunk has.
Finish(c) == Len(answer[c]) >= ChunkLen /\ Move(c, "asked", "done")
GiveUp(c) == Move(c, "off", "left") \/ Move(c, "asked", "left")

Harm == harmed' = TRUE /\ UNCHANGED <<stage, answer>>

Next ==
  \/ \E c \in Requesters :
       Ask(c) \/ SendNext(c) \/ SendRefusal(c) \/ Finish(c) \/ GiveUp(c)
  \/ Harm
  \/ harmed /\ harmed'

Spec == Init /\ [][Next]_serviceVars
=============================================================================
