---------------------------- MODULE MCMessagesLoop ----------------------------
(* Three rounds, so that what one round leaves meets two others.  Two      *)
(* native declarations of different max_uses, an alias without a limit, a  *)
(* request for the proxy and a declaration the gateway refuses.            *)
EXTENDS MessagesLoop

MCToolLists ==
    {{Tool(TRUE, TRUE, TRUE, 2), Tool(TRUE, TRUE, TRUE, 3)},
     {Tool(TRUE, FALSE, TRUE, Unlimited), Tool(FALSE, FALSE, TRUE, Unlimited)},
     {Tool(FALSE, FALSE, TRUE, Unlimited)},
     {Tool(TRUE, TRUE, TRUE, 0)}}
=============================================================================
