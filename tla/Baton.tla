-------------------------------- MODULE Baton --------------------------------
(***************************************************************************)
(* What a token that works once promises: it begins in one hand, in the    *)
(* name of somebody; it passes from the hand that has it to one other,     *)
(* along the ways there are, still in that name; it may be lost; and it is *)
(* never in two hands.                                                     *)
(***************************************************************************)
CONSTANTS
  Thing,  \* the tokens
  First,  \* the hands a token may begin in
  Way,    \* pairs of hands: a token passes from the one to the other
  Name    \* in whose name a token may be

VARIABLES
  hand,   \* who has each token: nobody or one
  name    \* in whose name it is, {} while nobody has it

vars == <<hand, name>>

Init ==
  /\ hand = [x \in Thing |-> {}]
  /\ name = [x \in Thing |-> {}]

Begin(x, h, n) ==
  /\ hand[x] = {}
  /\ hand' = [hand EXCEPT ![x] = {h}]
  /\ name' = [name EXCEPT ![x] = n]

Pass(x, g, h) ==
  /\ hand[x] = {g}
  /\ hand' = [hand EXCEPT ![x] = {h}]
  /\ name' = name

\* Tokens are lost, revoked or expire, any number of them at a time.
Lose(X) ==
  /\ hand' = [x \in Thing |-> IF x \in X THEN {} ELSE hand[x]]
  /\ name' = [x \in Thing |-> IF x \in X THEN {} ELSE name[x]]

Next ==
  \/ \E X \in SUBSET Thing : Lose(X)
  \/ \E x \in Thing, h \in First, n \in Name : Begin(x, h, n)
  \/ \E x \in Thing, w \in Way : Pass(x, w[1], w[2])

Spec == Init /\ [][Next]_vars
=============================================================================
