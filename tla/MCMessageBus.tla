---------------------------- MODULE MCMessageBus ----------------------------
(* Two publishers share a lane that holds fewer messages than they publish;  *)
(* nobody publishes on the other lane.                                       *)
EXTENDS MessageBus

CONSTANTS p1, p2, c1, c2, k1, k2

InThenOut == <<"inbound", "outbound">>
EmptyOutbound == [x \in Publishers \cup Consumers |->
                    IF x = c2 THEN "outbound" ELSE "inbound"]
=============================================================================
