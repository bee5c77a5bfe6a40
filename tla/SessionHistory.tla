--------------------------- MODULE SessionHistory ---------------------------
(***************************************************************************)
(* The retained item history of a response and the operations that rewrite *)
(* it: the canonical compaction window, the parent items that survive a    *)
(* compaction, and the user messages a compaction keeps.                   *)
(*                                                                         *)
(* An item is abstracted to the turn whose text it carries and to the kind *)
(* that the window operations tell apart:                                  *)
(*   "user"        a user message as a client normally sends it            *)
(*   "kept"        a user message with an id and status "completed", which *)
(*                 is what a compaction writes and what a client may also  *)
(*                 send                                                    *)
(*   "other"       assistant messages, reasoning, calls and call outputs   *)
(*   "mcp_list"    an MCP tool-discovery record                            *)
(*   "compaction"  a compaction summary                                    *)
(***************************************************************************)
EXTENDS Naturals, Sequences, FiniteSets

Kinds == {"user", "kept", "other", "mcp_list", "compaction"}
Items == [text : Nat, kind : Kinds]

\* The j-th smallest of a set of indices.
Nth(kept, j) == CHOOSE i \in kept : Cardinality({k \in kept : k <= i}) = j

\* The items of h at the indices in kept, in order.
At(h, kept) == [j \in 1 .. Cardinality(kept) |-> h[Nth(kept, j)]]

CompactionsOf(h) == {i \in DOMAIN h : h[i].kind = "compaction"}

\* The largest index in a set of indices, 0 for the empty set.
LastOf(s) == IF s = {} THEN 0 ELSE CHOOSE i \in s : \A j \in s : j <= i

\* latest_compaction_window: the latest summary and the one before it.
LatestIndex(h) == LastOf(CompactionsOf(h))
RetainedStart(h) == LastOf(CompactionsOf(h) \ {LatestIndex(h)}) + 1

\* CompactionWindow::retains_user_item.
RetainsUserItem(h, i) ==
    /\ RetainedStart(h) <= i
    /\ i < LatestIndex(h)
    /\ h[i].kind = "kept"

\* canonical_session_history: everything from the latest summary on, the user
\* messages that summary retained, and every discovery record.
Canonical(h) ==
    IF CompactionsOf(h) = {}
      THEN h
      ELSE At(h, {i \in DOMAIN h : \/ LatestIndex(h) <= i
                                   \/ RetainsUserItem(h, i)
                                   \/ h[i].kind = "mcp_list"})

\* retained_user_window: a completed copy of every user message in the window.
RetainedUserWindow(h) ==
    LET kept == At(h, {i \in DOMAIN h : /\ h[i].kind \in {"user", "kept"}
                                        /\ \/ CompactionsOf(h) = {}
                                           \/ LatestIndex(h) <= i
                                           \/ RetainsUserItem(h, i)})
    IN [j \in DOMAIN kept |-> [kept[j] EXCEPT !.kind = "kept"]]

\* compact_items: the retained user messages followed by the summary.
CompactItems(h, text) ==
    Append(RetainedUserWindow(h), [text |-> text, kind |-> "compaction"])

DiscoveryItems(h) == At(h, {i \in DOMAIN h : h[i].kind = "mcp_list"})

\* No user message appears twice.
EachUserMessageOnce(h) ==
    \A i, j \in DOMAIN h : (/\ h[i].kind \in {"user", "kept"}
                            /\ h[j].kind \in {"user", "kept"}
                            /\ h[i].text = h[j].text) => i = j
=============================================================================
