------------------------- MODULE ConversationHistory -------------------------
(***************************************************************************)
(* What the durable conversation store promises: a conversation is one     *)
(* linear history of turns, and a turn joins it only directly after the    *)
(* history it was computed from.                                           *)
(***************************************************************************)
EXTENDS Sequences

CONSTANTS Convs, Turns, Unseen

VARIABLES
    history,   \* the turns of each conversation, in order
    seen       \* the history each turn was computed from, once it has joined

Init == history = [c \in Convs |-> <<>>] /\ seen = [t \in Turns |-> Unseen]

\* The turn was computed from everything the conversation holds.
Join(c, t) ==
    /\ seen[t] = Unseen
    /\ seen' = [seen EXCEPT ![t] = history[c]]
    /\ history' = [history EXCEPT ![c] = Append(@, t)]

Next == \E c \in Convs, t \in Turns : Join(c, t)

Spec == Init /\ [][Next]_<<history, seen>>
=============================================================================
