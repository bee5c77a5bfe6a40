--------------------------- MODULE MCResponseStream ---------------------------
(***************************************************************************)
(* A turn of at most two rounds with one discovered server.  The first     *)
(* answers put a gateway call before, between and behind other items, the  *)
(* second ones end the turn or ask for more than the rounds allow.         *)
(***************************************************************************)
EXTENDS ResponseStream

MCOutputs ==
    << { <<"message", "gateway", "message">>,
         <<"function", "message", "gateway">>,
         <<"custom", "gateway", "message">>,
         <<"gateway", "custom", "gateway">>,
         <<"message", "custom", "function">>,
         <<"gateway", "handlerless">> },
       { <<"message">>, <<"gateway", "function">> } >>

=============================================================================
