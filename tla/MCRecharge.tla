----------------------------- MODULE MCRecharge -----------------------------
(* Recharge with one user whose order of 2 fen can be refunded in parts.    *)
EXTENDS Recharge

CONSTANTS u1, o1, r1, k1, k2, h1

OneOwner == [o \in Orders |-> u1]
TwoFen == [o \in Orders |-> 2]
=============================================================================
