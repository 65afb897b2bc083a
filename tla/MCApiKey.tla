------------------------------ MODULE MCApiKey ------------------------------
(* Values for the constants of ApiKeyAudit.  A tick stands for half a      *)
(* second, so that a second can be entered half way; the longer periods    *)
(* keep their order (1 s < 10 s < 60 s < 3600 s) and not their ratios.     *)
EXTENDS ApiKeyAudit, TLC

MCMidnights == {5, 10}
MCSymmetry == Permutations(Slots)
=============================================================================
