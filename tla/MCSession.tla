----------------------------- MODULE MCSession -----------------------------
(* Instances of SessionStore for TLC.                                      *)
EXTENDS SessionRefinement, TLC

CONSTANTS u1, u2, s1, s2, s3, t1, t2, p1, p2

MCOwner == [s \in Sid |-> IF s = s3 THEN u2 ELSE u1]
MCAt == [t \in Task |-> IF t = t2 /\ p2 \in Proc THEN p2 ELSE p1]

MCSymmetry == Permutations({s1, s2}) \cup Permutations({t1, t2})

\* With two processes a task is exchanged together with its process.
Exchange == [x \in {t1, t2, p1, p2} |->
  CASE x = t1 -> t2 [] x = t2 -> t1 [] x = p1 -> p2 [] x = p2 -> p1]
MCSymmetryProc == Permutations({s1, s2}) \cup {Exchange}
=============================================================================
