-------------------------- MODULE MCMessageOutbound --------------------------
(* For TLC: pages of up to two tags, two addresses, and a short outage.   *)
EXTENDS MessageOutbound, TLC

Symmetry == Permutations(Caller)

SmallTexts == {"x", "y"}

Tag(k, t) == <<[kind |-> k, text |-> t]>>

Blocks == {Tag("og:title", "x"), Tag("og:title", "y"), Tag("og:description", "y"),
           Tag("description", "x"),
           <<[kind |-> "title"], [kind |-> "data", text |-> "x"], [kind |-> "end title"]>>,
           <<[kind |-> "body"]>>}

Pages == {b \o c : b, c \in Blocks \cup {<<>>}}
=============================================================================
