--------------------------- MODULE MCWecomOutbox ---------------------------
(* Instance of WecomOutbox for TLC: all deliveries go to one channel.       *)
EXTENDS WecomOutbox

CONSTANT group

OneChannel == [k \in Keys |-> group]
=============================================================================
