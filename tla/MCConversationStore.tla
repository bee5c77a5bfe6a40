------------------------- MODULE MCConversationStore -------------------------
(* Symmetry for the runs of ConversationStore.                             *)
EXTENDS ConversationStore, TLC

Symmetry == Permutations(Turns) \cup Permutations(Convs)
=============================================================================
