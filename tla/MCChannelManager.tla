-------------------------- MODULE MCChannelManager --------------------------
(* Two channels that are removed, replaced and added; one has texts to send. *)
EXTENDS ChannelManager

CONSTANTS a, b

TwoNames == <<a, b>>
TextThenMedia == <<"text", "media">>
Loads == {[x \in Channels |-> IF x = a THEN v ELSE w] : <<v, w>> \in
            {<<1, 1>>, <<2, 1>>, <<0, 1>>, <<2, 0>>}}
Texts == [x \in Lanes \X Channels |-> IF x = <<"text", a>> THEN 2 ELSE 0]
=============================================================================
