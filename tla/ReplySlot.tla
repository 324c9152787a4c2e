----------------------------- MODULE ReplySlot -----------------------------
(***************************************************************************)
(* What a voice connection promises about its reply slot, without threads, *)
(* generations or queues: at most one reply speaks at a time, a reply gets *)
(* the slot once, and it loses it only by finishing or by a barge-in.      *)
(* VoiceReply implements this specification.                               *)
(***************************************************************************)
EXTENDS Naturals

CONSTANT Replies   \* positive numbers: 0 stands for "no reply"

NoReply == 0

VARIABLES owner,   \* the reply that holds the slot, or NoReply
          phase    \* "fresh" until the reply gets the slot, then "holding", then "over"

slotVars == <<owner, phase>>

Phases == {"fresh", "holding", "over"}

TypeOK == /\ owner \in Replies \cup {NoReply}
          /\ phase \in [Replies -> Phases]

Init == /\ owner = NoReply
        /\ phase = [r \in Replies |-> "fresh"]

Acquire(r) == /\ owner = NoReply
              /\ phase[r] = "fresh"
              /\ owner' = r
              /\ phase' = [phase EXCEPT ![r] = "holding"]

\* The reply finished, or a barge-in took the slot away.
Lose(r) == /\ owner = r
           /\ owner' = NoReply
           /\ phase' = [phase EXCEPT ![r] = "over"]

\* A scheduled reply gives up: the connection closed while it was waiting.
GiveUp(r) == /\ phase[r] = "fresh"
             /\ phase' = [phase EXCEPT ![r] = "over"]
             /\ UNCHANGED owner

Next == \E r \in Replies : Acquire(r) \/ Lose(r) \/ GiveUp(r)

Spec == Init /\ [][Next]_slotVars
=============================================================================
