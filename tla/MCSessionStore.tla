--------------------------- MODULE MCSessionStore ---------------------------
(* What an older version may have left: one conversation, or an empty          *)
(* conversation.json, which the first start removes, beside one session.       *)
EXTENDS SessionStore

CONSTANTS o1, o2

MCOldFiles == {[one |-> {o1}, each |-> [i \in OldIds |-> None]],
               [one |-> {},   each |-> [i \in OldIds |-> {o2}]]}
=============================================================================
