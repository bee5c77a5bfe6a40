-------------------------- MODULE ConversationStore --------------------------
(***************************************************************************)
(* Durable conversations under concurrent turns, possibly of several       *)
(* gateway replicas on one database.                                       *)
(*                                                                         *)
(* A turn fetches (or creates) its conversation and, concurrently, reads a *)
(* one-statement snapshot of its items and latest-response pointer.  It    *)
(* infers without any lock, then persists in one transaction: lock the     *)
(* conversation row, compare the stored version with the snapshot's,       *)
(* insert the new items batch by batch with the next sequence numbers,     *)
(* insert the response row, move the latest-response pointer, commit.      *)
(* Nothing of a transaction is visible to others before its commit, and a  *)
(* crash, a cancellation or a database error rolls it back.                *)
(*                                                                         *)
(* The lock is PostgreSQL's row lock.  SQLite takes a database-wide lock   *)
(* instead, which only removes interleavings.                              *)
(***************************************************************************)
EXTENDS Integers, Sequences, FiniteSets

CONSTANTS
    Convs,      \* conversation identifiers
    Turns,      \* requests; a turn's identifier is also its response id
    MaxNew,     \* bound on the items a turn adds
    Batch,      \* MAX_ITEMS_PER_INSERT
    MaxLegacy,  \* bound on items stored before responses were linked
    None

ASSUME ConstantsAssumption ==
    /\ MaxNew \in Nat /\ MaxLegacy \in Nat
    /\ Batch \in Nat /\ Batch > 0
    /\ None \notin Turns

VARIABLES
    exists,     \* the conversation row exists
    tip,        \* conversations.latest_response_id
    rows,       \* items by sequence number: which turn wrote each
    responses,  \* committed response rows
    lock,       \* the transaction that holds the conversation row
    log,        \* the committed turns in order (history variable)
    conv, store, left,          \* a request: conversation, store flag, items still to insert
    pc, fetched, snapped,       \* progress of a turn
    base, version,              \* the snapshot it read
    baseLog,                    \* log at that moment (history variable)
    lockedTip, pend             \* its transaction: pointer read with the lock, new sequence numbers

dbVars == <<exists, tip, rows, responses, log>>
reqVars == <<conv, store>>
snapVars == <<base, version, baseLog>>
vars == <<dbVars, lock, reqVars, left, pc, fetched, snapped, snapVars, lockedTip, pend>>

States == {"rehydrate", "infer", "locked", "insert", "done", "conflict", "failed"}

\* MAX(seq), -1 standing for no rows.
LastSeq(seqs) == IF seqs = {} THEN -1 ELSE CHOOSE n \in seqs : \A m \in seqs : m <= n

\* ConversationVersion::from_snapshot.
FromSnapshot(last, latest) ==
    [kind |-> IF latest # None THEN "LastResponse" ELSE IF last # -1 THEN "LastSequence" ELSE "Empty",
     response |-> latest,
     last |-> last]

Versions == [kind : {"LastResponse", "LastSequence", "Empty"}, response : Turns \cup {None}, last : Int]

\* Items numbered from zero without a gap; None marks an item without a response.
IsItems(f) ==
    /\ LastSeq(DOMAIN f) \in Nat \cup {-1}
    /\ f \in [0 .. LastSeq(DOMAIN f) -> Turns \cup {None}]

TypeOK ==
    /\ exists \in [Convs -> BOOLEAN]
    /\ tip \in [Convs -> Turns \cup {None}]
    /\ DOMAIN rows = Convs /\ \A c \in Convs : IsItems(rows[c])
    /\ responses \subseteq Turns
    /\ lock \in [Convs -> Turns \cup {None}]
    /\ log \in [Convs -> Seq(Turns)]
    /\ conv \in [Turns -> Convs]
    /\ store \in [Turns -> BOOLEAN]
    /\ left \in [Turns -> Nat]
    /\ pc \in [Turns -> States]
    /\ fetched \in [Turns -> BOOLEAN]
    /\ snapped \in [Turns -> BOOLEAN]
    /\ DOMAIN base = Turns /\ \A t \in Turns : IsItems(base[t])
    /\ version \in [Turns -> Versions]
    /\ baseLog \in [Turns -> Seq(Turns)]
    /\ lockedTip \in [Turns -> Turns \cup {None}]
    /\ pend \in [Turns -> SUBSET Nat]

\* Conversations may start absent, empty, or with items of an older release,
\* which carry no response link (None).
Init ==
    /\ exists \in [Convs -> BOOLEAN]
    /\ \E legacy \in [Convs -> 0 .. MaxLegacy] :
         /\ \A c \in Convs : legacy[c] > 0 => exists[c]
         /\ rows = [c \in Convs |-> [n \in 0 .. legacy[c] - 1 |-> None]]
    /\ tip = [c \in Convs |-> None]
    /\ responses = {}
    /\ lock = [c \in Convs |-> None]
    /\ log = [c \in Convs |-> <<>>]
    /\ conv \in [Turns -> Convs]
    /\ store \in [Turns -> BOOLEAN]
    /\ left \in [Turns -> 0 .. MaxNew]
    /\ pc = [t \in Turns |-> "rehydrate"]
    /\ fetched = [t \in Turns |-> FALSE]
    /\ snapped = [t \in Turns |-> FALSE]
    /\ base = [t \in Turns |-> [n \in 0 .. -1 |-> None]]
    /\ version = [t \in Turns |-> FromSnapshot(-1, None)]
    /\ baseLog = [t \in Turns |-> <<>>]
    /\ lockedTip = [t \in Turns |-> None]
    /\ pend = [t \in Turns |-> {}]

-----------------------------------------------------------------------------
(* from_conversation: two concurrent queries.                              *)

\* get_or_create with store=true; get, which fails on an absent row, otherwise.
Fetch(t) ==
    /\ pc[t] = "rehydrate" /\ ~fetched[t]
    /\ store[t] \/ exists[conv[t]]
    /\ exists' = [exists EXCEPT ![conv[t]] = TRUE]
    /\ fetched' = [fetched EXCEPT ![t] = TRUE]
    /\ UNCHANGED <<tip, rows, responses, log, lock, reqVars, left, pc, snapped, snapVars, lockedTip, pend>>

\* rehydrate_snapshot: items and latest response in one statement.  An absent
\* row reads like an empty conversation.
Snapshot(t) ==
    /\ pc[t] = "rehydrate" /\ ~snapped[t]
    /\ base' = [base EXCEPT ![t] = rows[conv[t]]]
    /\ baseLog' = [baseLog EXCEPT ![t] = log[conv[t]]]
    /\ version' = [version EXCEPT ![t] = FromSnapshot(LastSeq(DOMAIN rows[conv[t]]), tip[conv[t]])]
    /\ snapped' = [snapped EXCEPT ![t] = TRUE]
    /\ UNCHANGED <<dbVars, lock, reqVars, left, pc, fetched, lockedTip, pend>>

\* Both queries are answered and inference starts.
Rehydrated(t) ==
    /\ pc[t] = "rehydrate" /\ fetched[t] /\ snapped[t]
    /\ pc' = [pc EXCEPT ![t] = "infer"]
    /\ UNCHANGED <<dbVars, lock, reqVars, left, fetched, snapped, snapVars, lockedTip, pend>>

-----------------------------------------------------------------------------
(* persist_impl: one transaction.                                          *)

\* A transaction that reads the pointer without waiting for the row.
LockWithoutWaiting(t) ==
    /\ pc[t] = "infer" /\ exists[conv[t]]
    /\ lock' = lock
    /\ lockedTip' = [lockedTip EXCEPT ![t] = tip[conv[t]]]
    /\ pc' = [pc EXCEPT ![t] = "locked"]
    /\ UNCHANGED <<dbVars, reqVars, left, fetched, snapped, snapVars, pend>>

\* lock_in_tx: wait for the row and read the pointer it holds.
Lock(t) ==
    /\ pc[t] = "infer" /\ exists[conv[t]]
    /\ lock[conv[t]] = None
    /\ lock' = [lock EXCEPT ![conv[t]] = t]
    /\ lockedTip' = [lockedTip EXCEPT ![t] = tip[conv[t]]]
    /\ pc' = [pc EXCEPT ![t] = "locked"]
    /\ UNCHANGED <<dbVars, reqVars, left, fetched, snapped, snapVars, pend>>

StoredVersion(t) == FromSnapshot(LastSeq(DOMAIN rows[conv[t]]), lockedTip[t])

\* A comparison by item sequence alone.
SameVersionBySequence(t) == StoredVersion(t).last = version[t].last

\* A comparison in which an equal sequence is not enough of a match.
SameVersionStrict(t) == StoredVersion(t) = version[t] /\ version[t].kind # "LastSequence"

SameVersion(t) == StoredVersion(t) = version[t]

CheckVersion(t) ==
    /\ pc[t] = "locked" /\ SameVersion(t)
    /\ pc' = [pc EXCEPT ![t] = "insert"]
    /\ UNCHANGED <<dbVars, lock, reqVars, left, fetched, snapped, snapVars, lockedTip, pend>>

\* What a transaction that does not commit leaves: nothing.
Rollback(t, outcome) ==
    /\ pc' = [pc EXCEPT ![t] = outcome]
    /\ lock' = [c \in Convs |-> IF lock[c] = t THEN None ELSE lock[c]]
    /\ pend' = [pend EXCEPT ![t] = {}]
    /\ UNCHANGED <<dbVars, reqVars, left, fetched, snapped, snapVars, lockedTip>>

\* ConversationConflict.
Conflict(t) == pc[t] = "locked" /\ ~SameVersion(t) /\ Rollback(t, "conflict")

\* COALESCE(MAX(seq), -1) + 1, which sees the transaction's earlier batches.
FirstSeq(t) == LastSeq(DOMAIN rows[conv[t]] \cup pend[t]) + 1

BatchSize(t) == IF left[t] < Batch THEN left[t] ELSE Batch

\* create_in_tx_with_next_conversation_seq, one batch.
InsertBatch(t) ==
    /\ pc[t] = "insert" /\ left[t] > 0
    /\ pend' = [pend EXCEPT ![t] = @ \cup (FirstSeq(t) .. FirstSeq(t) + BatchSize(t) - 1)]
    /\ left' = [left EXCEPT ![t] = @ - BatchSize(t)]
    /\ UNCHANGED <<dbVars, lock, reqVars, pc, fetched, snapped, snapVars, lockedTip>>

\* The response row, the pointer and the commit.  The unique index on
\* (conversation, sequence) would refuse a number already taken.
Commit(t) ==
    /\ pc[t] = "insert" /\ left[t] = 0
    /\ pend[t] \cap DOMAIN rows[conv[t]] = {}
    /\ rows' = [rows EXCEPT ![conv[t]] =
                  [n \in DOMAIN @ \cup pend[t] |-> IF n \in pend[t] THEN t ELSE @[n]]]
    /\ responses' = responses \cup {t}
    /\ tip' = [tip EXCEPT ![conv[t]] = t]
    /\ log' = [log EXCEPT ![conv[t]] = Append(@, t)]
    /\ lock' = [c \in Convs |-> IF lock[c] = t THEN None ELSE lock[c]]
    /\ pc' = [pc EXCEPT ![t] = "done"]
    /\ UNCHANGED <<exists, reqVars, left, fetched, snapped, snapVars, lockedTip, pend>>

\* A failed query or inference, a cancelled request, a replica that dies.
Fail(t) ==
    /\ pc[t] \in {"rehydrate", "infer", "locked", "insert"}
    /\ Rollback(t, "failed")

-----------------------------------------------------------------------------
Ended(t) == pc[t] \in {"done", "conflict", "failed"}

AllEnded == (\A t \in Turns : Ended(t)) /\ UNCHANGED vars

\* Every step of a turn that is not a failure.
Progress(t) ==
    \/ Fetch(t) \/ Snapshot(t) \/ Rehydrated(t)
    \/ Lock(t) \/ CheckVersion(t) \/ Conflict(t) \/ InsertBatch(t) \/ Commit(t)

Next == (\E t \in Turns : Progress(t) \/ Fail(t)) \/ AllEnded

Spec == Init /\ [][Next]_vars

-----------------------------------------------------------------------------
(* Properties.                                                             *)

\* A stored turn directly follows the history its model was shown: the items
\* of its snapshot are unchanged below its own, and its own take the next
\* sequence numbers without a gap (optimistic check and sequence allocation in
\* persist_impl against rehydrate_snapshot).
TurnFollowsWhatItSaw ==
    \A t \in Turns : pc[t] = "done" =>
      /\ \A n \in DOMAIN base[t] : n \in DOMAIN rows[conv[t]] /\ rows[conv[t]][n] = base[t][n]
      /\ pend[t] = {n \in DOMAIN rows[conv[t]] : rows[conv[t]][n] = t}
      /\ \A n \in pend[t] : \A m \in 0 .. n : m \in DOMAIN base[t] \cup pend[t]

\* ConversationLocked is never spurious: a turn is refused only when another
\* turn was stored in its conversation after the snapshot it was computed from.
ConflictHasCause ==
    \A t \in Turns : pc[t] = "conflict" => Len(baseLog[t]) < Len(log[conv[t]])

LastTurn(turns) == IF turns = <<>> THEN None ELSE turns[Len(turns)]

\* The settings a turn inherits are those of the last turn it was shown: the
\* response a captured version names is stored and ends the history that was
\* read with it (response_metadata_at_version after rehydrate_snapshot).
VersionNamesLastSeenTurn ==
    \A t \in Turns : snapped[t] =>
      /\ version[t].response = LastTurn(baseLog[t])
      /\ version[t].response \in responses \cup {None}

\* The stored turns of a conversation form the linear history of the abstract
\* specification; `seen` is what a stored turn was computed from.
Abstract == INSTANCE ConversationHistory
              WITH history <- log,
                   seen <- [t \in Turns |-> IF pc[t] = "done" THEN baseLog[t] ELSE None],
                   Unseen <- None

\* The store implements one linear history per conversation: no turn is lost,
\* duplicated or stored after a history its model did not see.
LinearHistory == Abstract!Spec
=============================================================================
