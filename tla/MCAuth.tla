------------------------------- MODULE MCAuth -------------------------------
(* Instances of AuthTokens for TLC.                                        *)
EXTENDS RotationRefinement, TLC

MCSymmetry == Permutations(Bundle) \cup Permutations(Family)
                \cup Permutations(Uid) \cup Permutations(Task)
=============================================================================
