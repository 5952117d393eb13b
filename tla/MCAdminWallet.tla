---------------------------- MODULE MCAdminWallet ----------------------------
(* An order of 2 fen, refunded in parts by administrators, and adjustments  *)
(* of its owner's and another wallet, sent twice or under a name in use.    *)
EXTENDS AdminWallet, TLC

CONSTANTS u1, u2, o1, r1, r2, h1, a1, a2, n1, n2

FirstUser == [o \in Orders |-> u1]
TwoFen == [o \in Orders |-> 2]
TakeOrGive == {-2, 1}
SameRequests == Permutations(UserRequests) \cup Permutations(Admins)
=============================================================================
