------------------------------ MODULE MCMemory ------------------------------
(* What memory.json may hold: nothing; one text under two ids, only the second *)
(* of them core.                                                               *)
EXTENDS Memory, TLC

CONSTANTS a, b, d1, d2

MCOldFacts == {{}, {[id |-> 1, text |-> a, core |-> FALSE], [id |-> 2, text |-> a, core |-> TRUE]}}
MCSymmetry == Permutations({d1, d2})
=============================================================================
