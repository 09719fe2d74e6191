----------------------------- MODULE MCStorage -----------------------------
(***************************************************************************)
(* An instance of ObjectStorage for TLC.  The name n1 leads each user to a *)
(* key of his own; up leads both to the key of u1 and is refused where     *)
(* names are checked.                                                      *)
(***************************************************************************)
EXTENDS ObjectStorage, TLC

CONSTANTS u1, u2, n1, up, k1, k2, d1, d2, x1, r1, r2, p1

MCWriterOf == [d \in Data |-> IF d = d2 THEN u2 ELSE u1]
MCKeyOf == [p \in User \X Name |-> IF p = <<u2, n1>> THEN k2 ELSE k1]

MCSymmetry == Permutations({r1, r2})
=============================================================================
