--------------------------- MODULE MCOfficialChat ---------------------------
(* Two models, the fallback with the larger reserve, and charges below and   *)
(* above both reserves.                                                      *)
EXTENDS OfficialChat, TLC

CONSTANTS u1, c1, c2, a, b

OneUser == [c \in Calls |-> u1]
Ranked == (a :> 0) @@ (b :> 1)
Reserves == (a :> 1) @@ (b :> 2)
TwoOrOne == {{a, b}, {a}}
=============================================================================
