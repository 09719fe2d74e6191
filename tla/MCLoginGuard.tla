---------------------------- MODULE MCLoginGuard ----------------------------
(* Instances of LoginGuard for TLC.                                        *)
EXTENDS LoginGuard

CONSTANTS EmailMax, IpMax

MCSlot == [k \in {"email", "ip"} |-> 1..(IF k = "email" THEN EmailMax ELSE IpMax)]
=============================================================================
