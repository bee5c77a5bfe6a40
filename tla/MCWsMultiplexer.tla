---------------------------- MODULE MCWsMultiplexer ----------------------------
(* Three lanes: short requests that queue behind one another, requests that *)
(* do not decode and run beside them, and requests that need all the bytes  *)
(* and no generation.                                                       *)
EXTENDS WsMultiplexer

CONSTANTS l1, l2, l3

Message(lane, bytes, valid, generate) ==
    [lane |-> lane, bytes |-> bytes, valid |-> valid, generate |-> generate]

MCMessages ==
    {Message(l1, 1, TRUE, TRUE), Message(l2, 2, FALSE, TRUE), Message(l3, 3, TRUE, FALSE)}
=============================================================================
