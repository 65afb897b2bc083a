------------------------------ MODULE MCKeyPool ------------------------------
(* A pool of two slots at start, with capacity for them and no more, and   *)
(* two slots that an import may bring in while up to three requests run.   *)
EXTENDS KeyPool, TLC

CONSTANTS r1, r2, r3, a1, a2, b1, b2

MCRequests == {r1, r2, r3}
MCSlots == {a1, a2, b1, b2}
MCInitialQueue == <<a1, a2>>
MCSymmetry == Permutations(MCRequests) \cup Permutations({b1, b2})
=============================================================================
