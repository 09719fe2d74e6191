----------------------------- MODULE MCOneTime -----------------------------
(* An instance of OneTimeTokens for TLC.                                   *)
EXTENDS OAuthRefinement, TLC

CONSTANTS e1, u1, k1, o1, b1, t1, t2

MCAddressOf == [u \in User |-> e1]

MCSymmetry == Permutations(Task)
=============================================================================
