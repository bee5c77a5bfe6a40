------------------------- MODULE MCGatewayScheduler -------------------------
(* Two requests go through discovery and two rounds each: one declares a    *)
(* server that is not configured and calls a self-excluding tool twice, the *)
(* other searches the web and calls a tool without a handler.               *)
EXTENDS GatewayScheduler

CONSTANTS r1, r2, s1, s2, exclusive, search, missing

DeclareTwo == [r \in Requests |-> IF r = r1 THEN <<s1, s2>> ELSE <<s1>>]

PairBatches == [r \in Requests |-> IF r = r1 THEN {<<exclusive, exclusive>>} ELSE {<<search, missing>>}]
=============================================================================
