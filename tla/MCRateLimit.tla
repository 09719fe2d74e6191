----------------------------- MODULE MCRateLimit -----------------------------
(* Instances of RateLimit for TLC.                                         *)
EXTENDS RateLimit, TLC

MCSymmetry == Permutations(Task)
=============================================================================
