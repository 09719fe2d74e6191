------------------------------ MODULE MCHealth ------------------------------
(* An instance of HealthCache for TLC.                                     *)
EXTENDS HealthCache, TLC

CONSTANTS t1, t2

MCTimeout == [s \in Service |-> 1]
MCStatusOf == [s \in Service |-> Status]
=============================================================================
