---------------------------- MODULE Stores_proofs ----------------------------
(***************************************************************************)
(* Theorems about what is stored: every property the runs check of         *)
(* ConversationStore, for every number of conversations, turns and items   *)
(* and every batch size; and, of StoredTurns, for every repertoire of the  *)
(* client, that a sealed context becomes one turn at most, which continues *)
(* what was sent for it, that the views of a turn's tools agree, that      *)
(* calls follow the definitions they name and that listings are announced  *)
(* once.                                                                   *)
(*                                                                         *)
(* The inductive invariant of the conversation store says what the row     *)
(* lock and the version check achieve together: while a turn holds the     *)
(* row, nothing of its conversation moves (RowHeld); a snapshot is a       *)
(* prefix of what the conversation holds now and equals it when no turn    *)
(* was stored since (Snapshots); so a turn that passed the check inserts   *)
(* directly after what it saw (Inserting), and the committed items say who *)
(* wrote them (Written).                                                   *)
(***************************************************************************)
EXTENDS ConversationStore, StoredTurns, FiniteSetTheorems, TLAPS

Placing == INSTANCE FoldTheorems WITH Op <- KeepPlaced
Joining == INSTANCE FoldTheorems WITH Op <- LoadMember
Defining == INSTANCE FoldTheorems WITH Op <- LoadDefinition
Declaring == INSTANCE FoldTheorems WITH Op <- LoadDeclared
Preparing == INSTANCE FoldTheorems WITH Op <- PrepareItem
Registering == INSTANCE FoldTheorems WITH Op <- InsertUnique
Pairing == INSTANCE FoldTheorems WITH Op <- PairCall

Contiguous(s) == \E k \in Nat \cup {-1} : s = 0 .. k

Snapped(t) ==
    /\ Len(baseLog[t]) <= Len(log[conv[t]])
    /\ \A i \in 1 .. Len(baseLog[t]) : baseLog[t][i] = log[conv[t]][i]
    /\ \A n \in DOMAIN base[t] : n \in DOMAIN rows[conv[t]] /\ rows[conv[t]][n] = base[t][n]
    /\ version[t] = FromSnapshot(LastSeq(DOMAIN base[t]), LastTurn(baseLog[t]))
    /\ Len(baseLog[t]) = Len(log[conv[t]]) => DOMAIN base[t] = DOMAIN rows[conv[t]]
    /\ LastTurn(baseLog[t]) \in responses \cup {None}

\* A turn past rehydration has a snapshot, and a snapshot only falls behind
\* when another turn is stored.
Snapshots ==
    /\ \A t \in Turns : snapped[t] => Snapped(t)
    /\ \A t \in Turns : pc[t] \notin {"rehydrate", "failed"} => snapped[t]

\* The pointer and the committed turns agree.
Logged ==
    /\ \A c \in Convs : tip[c] = LastTurn(log[c])
    /\ \A c \in Convs : \A i \in DOMAIN log[c] :
         pc[log[c][i]] = "done" /\ log[c][i] \in responses
    /\ \A c \in Convs : \A i, j \in DOMAIN log[c] : log[c][i] = log[c][j] => i = j

\* A transaction holds its row and the pointer it read is still current.
RowHeld ==
    \A t \in Turns : pc[t] \in {"locked", "insert"} =>
      lock[conv[t]] = t /\ lockedTip[t] = tip[conv[t]]

\* A turn that passed the version check extends what it saw, without a gap.
Inserting ==
    /\ \A t \in Turns : pc[t] = "insert" =>
         /\ Len(baseLog[t]) = Len(log[conv[t]])
         /\ pend[t] \cap DOMAIN rows[conv[t]] = {}
    /\ \A t \in Turns : pc[t] \in {"insert", "done"} => Contiguous(DOMAIN base[t] \cup pend[t])
    /\ \A t \in Turns : pc[t] \notin {"insert", "done"} => pend[t] = {}

\* The committed items name the committed turn that inserted them.
Written ==
    /\ \A c \in Convs : \A n \in DOMAIN rows[c] :
         rows[c][n] # None => /\ pc[rows[c][n]] = "done"
                              /\ conv[rows[c][n]] = c
                              /\ n \in pend[rows[c][n]]
    /\ \A t \in Turns : pc[t] = "done" =>
         \A n \in pend[t] : n \in DOMAIN rows[conv[t]] /\ rows[conv[t]][n] = t

\* A refused turn was overtaken.
Rejected == \A t \in Turns : pc[t] = "conflict" => Len(baseLog[t]) < Len(log[conv[t]])

IInv == TypeOK /\ Snapshots /\ Logged /\ RowHeld /\ Inserting /\ Written /\ Rejected

-----------------------------------------------------------------------------
(* Sequence numbers and versions.                                          *)

\* MAX(seq) of gapless items is the number of the last one.
LEMMA LastSeqOfRange ==
    ASSUME NEW k \in Nat \cup {-1}
    PROVE  LastSeq(0 .. k) = k
  <1>1. CASE k = -1
    <2>1. 0 .. k = {}
      BY <1>1
    <2> QED BY <1>1, <2>1 DEF LastSeq
  <1>2. CASE k \in Nat
    <2>1. k \in 0 .. k /\ \A m \in 0 .. k : m <= k
      BY <1>2
    <2>2. \A n \in 0 .. k : (\A m \in 0 .. k : m <= n) => n = k
      BY <1>2
    <2>3. 0 .. k # {}
      BY <2>1
    <2>4. (CHOOSE n \in 0 .. k : \A m \in 0 .. k : m <= n) = k
      BY <2>1, <2>2
    <2> QED BY <2>3, <2>4 DEF LastSeq
  <1> QED BY <1>1, <1>2

\* Gapless items are numbered 0 up to LastSeq.
LEMMA ContiguousIsRange ==
    ASSUME NEW s, Contiguous(s)
    PROVE  LastSeq(s) \in Nat \cup {-1} /\ s = 0 .. LastSeq(s)
  <1>1. PICK k \in Nat \cup {-1} : s = 0 .. k
    BY DEF Contiguous
  <1> QED BY <1>1, LastSeqOfRange

\* A well-formed item table is gapless.
LEMMA ItemsAreContiguous ==
    ASSUME NEW f, IsItems(f)
    PROVE  Contiguous(DOMAIN f) /\ f \in [DOMAIN f -> Turns \cup {None}]
  <1> QED BY DEF IsItems, Contiguous

LEMMA ContiguousIsItems ==
    ASSUME NEW s, Contiguous(s), NEW f \in [s -> Turns \cup {None}]
    PROVE  IsItems(f)
  <1> QED BY ContiguousIsRange DEF IsItems

\* One more batch leaves the numbers gapless and repeats none of them.
LEMMA NextBatch ==
    ASSUME NEW s, Contiguous(s), NEW b \in Nat
    PROVE  LET added == LastSeq(s) + 1 .. LastSeq(s) + 1 + b - 1
           IN Contiguous(s \cup added) /\ s \cap added = {} /\ added \in SUBSET Nat
  <1>1. PICK k \in Nat \cup {-1} : s = 0 .. k /\ LastSeq(s) = k
    BY LastSeqOfRange DEF Contiguous
  <1> DEFINE added == k + 1 .. k + 1 + b - 1
  <1>2. s \cup added = 0 .. k + b
    BY <1>1
  <1>3. k + b \in Nat \cup {-1}
    BY <1>1
  <1>4. Contiguous(s \cup added)
    BY <1>2, <1>3 DEF Contiguous
  <1>5. s \cap added = {} /\ added \in SUBSET Nat
    BY <1>1
  <1> QED BY <1>1, <1>4, <1>5

\* A version determines both of the values it was made from.
LEMMA VersionDetermines ==
    ASSUME NEW l1, NEW r1, NEW l2, NEW r2, FromSnapshot(l1, r1) = FromSnapshot(l2, r2)
    PROVE  l1 = l2 /\ r1 = r2
  <1>1. FromSnapshot(l1, r1).last = FromSnapshot(l2, r2).last
    OBVIOUS
  <1>2. FromSnapshot(l1, r1).response = FromSnapshot(l2, r2).response
    OBVIOUS
  <1> QED BY <1>1, <1>2 DEF FromSnapshot

LEMMA VersionType ==
    ASSUME NEW l \in Int, NEW r \in Turns \cup {None}
    PROVE  FromSnapshot(l, r) \in Versions
  <1> QED BY DEF FromSnapshot, Versions

\* Sequences of one length with the same elements are equal.
LEMMA SeqEqual ==
    ASSUME NEW S, NEW a \in Seq(S), NEW b \in Seq(S), Len(a) = Len(b),
           \A i \in 1 .. Len(a) : a[i] = b[i]
    PROVE  a = b
  <1>1. a = [i \in 1 .. Len(a) |-> a[i]] /\ b = [i \in 1 .. Len(b) |-> b[i]]
    OBVIOUS
  <1> QED BY <1>1, Zenon

\* Appending a turn leaves the earlier ones where they were.
LEMMA AppendIsNext ==
    ASSUME NEW turns \in Seq(Turns), NEW t \in Turns
    PROVE  /\ Append(turns, t) \in Seq(Turns)
           /\ Len(Append(turns, t)) = Len(turns) + 1
           /\ Append(turns, t)[Len(turns) + 1] = t
           /\ \A i \in 1 .. Len(turns) : Append(turns, t)[i] = turns[i]
           /\ LastTurn(Append(turns, t)) = t
  <1>1. Len(Append(turns, t)) = Len(turns) + 1
    OBVIOUS
  <1>2. Append(turns, t) # <<>>
    BY <1>1, Len(<<>>) = 0, Len(turns) \in Nat, Len(turns) + 1 # 0, Zenon
  <1> QED BY <1>1, <1>2 DEF LastTurn

-----------------------------------------------------------------------------
(* The invariant holds initially and every action keeps it.                *)

\* Init establishes the invariant, whatever an older release left behind.
LEMMA InitIInv == Init => IInv
  <1> SUFFICES ASSUME Init PROVE IInv
    OBVIOUS
  <1> USE DEF Init
  <1>1. PICK legacy \in [Convs -> 0 .. MaxLegacy] :
          rows = [c \in Convs |-> [n \in 0 .. legacy[c] - 1 |-> None]]
    OBVIOUS
  <1>2. \A c \in Convs : IsItems(rows[c])
    <2> SUFFICES ASSUME NEW c \in Convs PROVE IsItems(rows[c])
      OBVIOUS
    <2>1. legacy[c] - 1 \in Nat \cup {-1}
      BY ConstantsAssumption
    <2>2. Contiguous(0 .. legacy[c] - 1)
      BY <2>1 DEF Contiguous
    <2> QED BY <1>1, <2>2, ContiguousIsItems
  <1>3. \A t \in Turns : IsItems(base[t])
    <2>1. Contiguous(0 .. -1)
      BY DEF Contiguous
    <2> QED BY <2>1, ContiguousIsItems
  <1>4. FromSnapshot(-1, None) \in Versions
    BY VersionType
  <1>5. TypeOK
    BY <1>1, <1>2, <1>3, <1>4, ConstantsAssumption DEF TypeOK, States
  <1>6. Logged
    BY DEF Logged, LastTurn
  <1>7. Snapshots /\ RowHeld /\ Inserting /\ Rejected
    BY DEF Snapshots, RowHeld, Inserting, Rejected
  <1>8. Written
    BY <1>1 DEF Written
  <1> QED BY <1>5, <1>6, <1>7, <1>8 DEF IInv

\* Steps that leave the database and the snapshots alone.
LEMMA FetchIInv == ASSUME NEW t \in Turns, IInv, Fetch(t) PROVE IInv'
  <1> USE DEF IInv, Fetch, reqVars, snapVars
  <1>1. TypeOK'
    BY DEF TypeOK
  <1>2. Snapshots'
    BY DEF Snapshots, Snapped
  <1>3. Logged' /\ Written'
    BY DEF Logged, Written
  <1>4. RowHeld' /\ Inserting' /\ Rejected'
    BY DEF RowHeld, Inserting, Rejected
  <1> QED BY <1>1, <1>2, <1>3, <1>4

LEMMA RehydratedIInv == ASSUME NEW t \in Turns, IInv, Rehydrated(t) PROVE IInv'
  <1> USE DEF IInv, Rehydrated, dbVars, reqVars, snapVars
  <1>1. TypeOK'
    BY DEF TypeOK, States
  <1>2. Snapshots'
    BY DEF Snapshots, Snapped, TypeOK
  <1>3. Logged' /\ Written'
    BY DEF Logged, Written, TypeOK
  <1>4. RowHeld' /\ Inserting' /\ Rejected'
    BY DEF RowHeld, Inserting, Rejected, TypeOK
  <1> QED BY <1>1, <1>2, <1>3, <1>4

LEMMA LockIInv == ASSUME NEW t \in Turns, IInv, Lock(t) PROVE IInv'
  <1> USE DEF IInv, Lock, dbVars, reqVars, snapVars
  <1>1. TypeOK'
    BY DEF TypeOK, States
  <1>2. Snapshots'
    BY DEF Snapshots, Snapped, TypeOK
  <1>3. Logged' /\ Written'
    BY DEF Logged, Written, TypeOK
  <1>4. RowHeld'
    BY ConstantsAssumption DEF RowHeld, TypeOK
  <1>5. Inserting' /\ Rejected'
    BY DEF Inserting, Rejected, TypeOK
  <1> QED BY <1>1, <1>2, <1>3, <1>4, <1>5

\* A rollback touches only the turn's own progress, lock and numbers.
LEMMA RollbackIInv ==
    ASSUME NEW t \in Turns, NEW outcome \in {"conflict", "failed"}, IInv, Rollback(t, outcome),
           pc[t] \in {"rehydrate", "infer", "locked", "insert"},
           outcome = "conflict" => Len(baseLog[t]) < Len(log[conv[t]]) /\ snapped[t]
    PROVE  IInv'
  <1> USE DEF IInv, Rollback, dbVars, reqVars, snapVars
  <1>1. TypeOK'
    BY DEF TypeOK, States
  <1>2. Snapshots'
    BY DEF Snapshots, Snapped, TypeOK
  <1>3. Logged'
    BY DEF Logged, TypeOK
  <1>4. Written'
    BY DEF Written, TypeOK
  <1>5. RowHeld'
    BY DEF RowHeld, TypeOK
  <1>6. Inserting' /\ Rejected'
    BY DEF Inserting, Rejected, TypeOK
  <1> QED BY <1>1, <1>2, <1>3, <1>4, <1>5, <1>6

\* A snapshot reads the items and the pointer together.
LEMMA SnapshotIInv == ASSUME NEW t \in Turns, IInv, Snapshot(t) PROVE IInv'
  <1> USE DEF IInv, Snapshot, dbVars, reqVars
  <1> DEFINE c == conv[t]
  <1>1. c \in Convs /\ IsItems(rows[c]) /\ log[c] \in Seq(Turns)
    BY DEF TypeOK
  <1>2. LastSeq(DOMAIN rows[c]) \in Int
    BY <1>1, ItemsAreContiguous, ContiguousIsRange
  <1>3. FromSnapshot(LastSeq(DOMAIN rows[c]), tip[c]) \in Versions
    BY <1>1, <1>2, VersionType DEF TypeOK
  <1>4. TypeOK'
    BY <1>1, <1>3 DEF TypeOK
  <1>5. LastTurn(log[c]) \in responses \cup {None} /\ tip[c] = LastTurn(log[c])
    BY <1>1 DEF Logged, LastTurn
  <1>6. Snapped(t)'
    BY <1>1, <1>5 DEF Snapped, TypeOK
  <1>7. \A u \in Turns \ {t} : Snapped(u)' <=> Snapped(u)
    BY DEF Snapped, TypeOK
  <1>8. Snapshots'
    BY <1>6, <1>7 DEF Snapshots, TypeOK
  <1>9. Logged' /\ Written' /\ RowHeld'
    BY DEF Logged, Written, RowHeld
  <1>10. Inserting' /\ Rejected'
    BY DEF Inserting, Rejected, TypeOK
  <1> QED BY <1>4, <1>8, <1>9, <1>10

\* A snapshot as long as the log is the log: its version is the stored one.
LEMMA SameLength ==
    ASSUME NEW t \in Turns, IInv, pc[t] = "locked", Len(baseLog[t]) = Len(log[conv[t]])
    PROVE  SameVersion(t)
  <1> USE DEF IInv
  <1> DEFINE c == conv[t]
  <1>1. Snapped(t) /\ lockedTip[t] = tip[c] /\ tip[c] = LastTurn(log[c])
    BY DEF Snapshots, RowHeld, Logged, TypeOK
  <1>2. baseLog[t] = log[c]
    <2>1. baseLog[t] \in Seq(Turns) /\ log[c] \in Seq(Turns)
      BY DEF TypeOK
    <2>2. \A i \in 1 .. Len(baseLog[t]) : baseLog[t][i] = log[c][i]
      BY <1>1 DEF Snapped
    <2> QED BY <2>1, <2>2, SeqEqual
  <1>3. DOMAIN base[t] = DOMAIN rows[c]
    BY <1>1 DEF Snapped
  <1> QED BY <1>1, <1>2, <1>3 DEF SameVersion, StoredVersion, Snapped

\* The version check passes only if nothing was stored since the snapshot:
\* turns are stored once, so the same last turn means the same length.
LEMMA SameVersionSameLength ==
    ASSUME NEW t \in Turns, IInv, pc[t] = "locked", SameVersion(t)
    PROVE  Len(baseLog[t]) = Len(log[conv[t]])
  <1> USE DEF IInv
  <1> DEFINE c == conv[t]
  <1>1. Snapped(t) /\ lockedTip[t] = tip[c] /\ tip[c] = LastTurn(log[c])
    BY DEF Snapshots, RowHeld, Logged, TypeOK
  <1>2. LastTurn(baseLog[t]) = LastTurn(log[c])
    BY <1>1, VersionDetermines DEF Snapped, SameVersion, StoredVersion
  <1>3. baseLog[t] \in Seq(Turns) /\ log[c] \in Seq(Turns) /\ None \notin Turns
    BY ConstantsAssumption DEF TypeOK
  <1>4. CASE baseLog[t] = <<>>
    BY <1>2, <1>3, <1>4 DEF LastTurn
  <1>5. CASE baseLog[t] # <<>>
    <2>1. Len(baseLog[t]) \in DOMAIN log[c] /\ Len(log[c]) \in DOMAIN log[c]
      BY <1>1, <1>3, <1>5 DEF Snapped
    <2>2. log[c][Len(baseLog[t])] = log[c][Len(log[c])]
      BY <1>1, <1>2, <1>3, <1>5, <2>1 DEF Snapped, LastTurn
    <2> QED BY <2>1, <2>2 DEF Logged, TypeOK
  <1> QED BY <1>4, <1>5

LEMMA CheckVersionIInv == ASSUME NEW t \in Turns, IInv, CheckVersion(t) PROVE IInv'
  <1> USE DEF IInv, CheckVersion, dbVars, reqVars, snapVars
  <1>1. TypeOK'
    BY DEF TypeOK, States
  <1>2. Snapshots'
    BY DEF Snapshots, Snapped, TypeOK
  <1>3. Logged' /\ Written' /\ RowHeld' /\ Rejected'
    BY DEF Logged, Written, RowHeld, Rejected, TypeOK
  <1>4. Len(baseLog[t]) = Len(log[conv[t]])
    BY SameVersionSameLength
  <1>5. pend[t] = {} /\ Contiguous(DOMAIN base[t])
    BY ItemsAreContiguous DEF Inserting, TypeOK
  <1>6. Inserting'
    BY <1>4, <1>5, ZenonT(30) DEF Inserting, TypeOK
  <1> QED BY <1>1, <1>2, <1>3, <1>6

LEMMA ConflictIInv == ASSUME NEW t \in Turns, IInv, Conflict(t) PROVE IInv'
  <1>1. pc[t] = "locked" /\ ~SameVersion(t) /\ Rollback(t, "conflict")
    BY DEF Conflict
  <1>2. snapped[t] /\ Len(baseLog[t]) <= Len(log[conv[t]])
    BY <1>1 DEF IInv, Snapshots, Snapped
  <1>3. Len(baseLog[t]) # Len(log[conv[t]])
    BY <1>1, SameLength
  <1>4. Len(baseLog[t]) < Len(log[conv[t]])
    BY <1>2, <1>3 DEF IInv, TypeOK
  <1> QED BY <1>1, <1>2, <1>4, RollbackIInv

LEMMA FailIInv == ASSUME NEW t \in Turns, IInv, Fail(t) PROVE IInv'
  <1> QED BY RollbackIInv DEF Fail

\* The numbers a batch takes follow those of the stored and earlier items.
LEMMA InsertBatchIInv == ASSUME NEW t \in Turns, IInv, InsertBatch(t) PROVE IInv'
  <1> USE DEF IInv, InsertBatch, dbVars, reqVars, snapVars
  <1> DEFINE c == conv[t]
             seqs == DOMAIN rows[c] \cup pend[t]
             added == FirstSeq(t) .. FirstSeq(t) + BatchSize(t) - 1
  <1>1. BatchSize(t) \in Nat /\ left[t] - BatchSize(t) \in Nat
    BY ConstantsAssumption DEF BatchSize, TypeOK
  <1>2. DOMAIN base[t] = DOMAIN rows[c] /\ Contiguous(seqs)
    BY DEF Snapshots, Snapped, Inserting
  <1>3. Contiguous(seqs \cup added) /\ seqs \cap added = {} /\ added \in SUBSET Nat
    BY <1>1, <1>2, NextBatch DEF FirstSeq
  <1>4. pend'[t] = pend[t] \cup added /\ \A u \in Turns \ {t} : pend'[u] = pend[u]
    BY DEF TypeOK
  <1>5. TypeOK'
    BY <1>1, <1>3, <1>4 DEF TypeOK
  <1>6. Snapshots' /\ Logged' /\ RowHeld' /\ Rejected'
    BY DEF Snapshots, Snapped, Logged, RowHeld, Rejected
  <1>7. Written'
    BY <1>4 DEF Written, TypeOK
  <1>8. Contiguous(DOMAIN base[t] \cup pend'[t])
    BY <1>2, <1>3, <1>4, DOMAIN base[t] \cup pend'[t] = seqs \cup added
  <1>9. pend'[t] \cap DOMAIN rows[c] = {}
    BY <1>3, <1>4 DEF Inserting
  <1>10. Inserting'
    BY <1>4, <1>8, <1>9 DEF Inserting
  <1> QED BY <1>5, <1>6, <1>7, <1>10

\* A commit extends its own conversation and disturbs no snapshot of another.
LEMMA CommitIInv == ASSUME NEW t \in Turns, IInv, Commit(t) PROVE IInv'
  <1> USE DEF IInv, Commit, reqVars, snapVars
  <1> DEFINE c == conv[t]
             table == [n \in DOMAIN rows[c] \cup pend[t] |-> IF n \in pend[t] THEN t ELSE rows[c][n]]
  <1>1. c \in Convs /\ rows'[c] = table /\ (\A d \in Convs \ {c} : rows'[d] = rows[d])
        /\ DOMAIN rows' = Convs
    BY DEF TypeOK
  <1>2. log'[c] = Append(log[c], t) /\ \A d \in Convs \ {c} : log'[d] = log[d]
    BY DEF TypeOK
  <1>3. DOMAIN base[t] = DOMAIN rows[c] /\ Contiguous(DOMAIN rows[c] \cup pend[t])
    BY DEF Snapshots, Snapped, Inserting
  <1>4. table \in [DOMAIN rows[c] \cup pend[t] -> Turns \cup {None}]
    BY <1>1, ItemsAreContiguous DEF TypeOK
  <1>5. IsItems(table)
    BY <1>3, <1>4, ContiguousIsItems
  <1>6. TypeOK'
    <2>1. \A d \in Convs : IsItems(rows'[d])
      BY <1>1, <1>5 DEF TypeOK
    <2>2. log' \in [Convs -> Seq(Turns)]
      BY <1>1, <1>2 DEF TypeOK
    <2>3. tip' \in [Convs -> Turns \cup {None}] /\ lock' \in [Convs -> Turns \cup {None}]
      BY DEF TypeOK
    <2>4. responses' \subseteq Turns /\ pc' \in [Turns -> States]
      BY DEF TypeOK, States
    <2> QED BY <1>1, <2>1, <2>2, <2>3, <2>4 DEF TypeOK
  <1>7. \A d \in Convs : \A n \in DOMAIN rows[d] : n \in DOMAIN rows'[d] /\ rows'[d][n] = rows[d][n]
    BY <1>1
  <1>8. Logged'
    <2>1. tip'[c] = t /\ \A d \in Convs \ {c} : tip'[d] = tip[d]
      BY DEF TypeOK
    <2>2. /\ log'[c] \in Seq(Turns) /\ Len(log'[c]) = Len(log[c]) + 1 /\ log'[c][Len(log[c]) + 1] = t
          /\ \A i \in 1 .. Len(log[c]) : log'[c][i] = log[c][i]
          /\ LastTurn(log'[c]) = t
      <3>1. log[c] \in Seq(Turns)
        BY <1>1 DEF TypeOK
      <3> QED BY <1>2, <3>1, AppendIsNext
    <2>3. \A d \in Convs : tip'[d] = LastTurn(log'[d])
      BY <1>2, <2>1, <2>2 DEF Logged, LastTurn
    <2>4. \A d \in Convs : \A i \in DOMAIN log[d] : log[d][i] # t
      BY DEF Logged
    <2>5. \A d \in Convs : \A i \in DOMAIN log'[d] :
            pc'[log'[d][i]] = "done" /\ log'[d][i] \in responses'
      BY <1>1, <1>2 DEF Logged, TypeOK
    <2>6. \A d \in Convs : \A i, j \in DOMAIN log'[d] : log'[d][i] = log'[d][j] => i = j
      <3> SUFFICES ASSUME NEW d \in Convs PROVE \A i, j \in DOMAIN log'[d] :
                            log'[d][i] = log'[d][j] => i = j
        OBVIOUS
      <3>1. CASE d # c
        BY <1>2, <3>1 DEF Logged
      <3>2. CASE d = c
        <4>1. log[c] \in Seq(Turns) /\ \A i \in 1 .. Len(log[c]) : log[c][i] # t
          BY <1>1, <2>4, SMTT(20) DEF TypeOK
        <4>2. \A i, j \in 1 .. Len(log[c]) : log[c][i] = log[c][j] => i = j
          BY <1>1, <4>1 DEF Logged
        <4>3. DOMAIN log'[c] = 1 .. Len(log[c]) + 1
          BY <2>2
        <4> QED BY <2>2, <3>2, <4>1, <4>2, <4>3
      <3> QED BY <3>1, <3>2
    <2> QED BY <2>3, <2>5, <2>6 DEF Logged
  <1>9. \A u \in Turns : snapped[u] => Snapped(u)'
    <2> SUFFICES ASSUME NEW u \in Turns, snapped[u] PROVE Snapped(u)'
      OBVIOUS
    <2>1. Snapped(u) /\ conv[u] \in Convs
      BY DEF Snapshots, TypeOK
    <2>2. /\ Len(baseLog[u]) <= Len(log'[conv[u]])
          /\ \A i \in 1 .. Len(baseLog[u]) : baseLog[u][i] = log'[conv[u]][i]
      BY <1>1, <1>2, <2>1, SMTT(20) DEF Snapped, TypeOK
    <2>3. Len(baseLog[u]) = Len(log'[conv[u]]) => DOMAIN base[u] = DOMAIN rows'[conv[u]]
      BY <1>1, <1>2, <2>1 DEF Snapped, TypeOK
    <2> QED BY <1>7, <2>1, <2>2, <2>3 DEF Snapped
  <1>10. Snapshots'
    BY <1>9 DEF Snapshots, TypeOK
  <1>11. RowHeld'
    BY ConstantsAssumption DEF RowHeld, TypeOK
  <1>12. \A u \in Turns \ {t} : pc[u] = "insert" => conv[u] # c
    BY DEF RowHeld
  <1>13. Inserting'
    BY <1>1, <1>2, <1>3, <1>12 DEF Inserting, TypeOK
  <1>14. Written'
    <2>1. \A d \in Convs : \A n \in DOMAIN rows'[d] : rows'[d][n] # None =>
            pc'[rows'[d][n]] = "done" /\ conv[rows'[d][n]] = d /\ n \in pend[rows'[d][n]]
      BY <1>1, <1>7 DEF Written, TypeOK
    <2>2. \A u \in Turns : pc'[u] = "done" =>
            \A n \in pend[u] : n \in DOMAIN rows'[conv[u]] /\ rows'[conv[u]][n] = u
      BY <1>1, <1>7 DEF Written, TypeOK
    <2>3. conv' = conv /\ pend' = pend
      OBVIOUS
    <2> QED BY ONLY <2>1, <2>2, <2>3 DEF Written
  <1>15. Rejected'
    BY <1>1, <1>2 DEF Rejected, TypeOK
  <1> QED BY <1>6, <1>8, <1>10, <1>11, <1>13, <1>14, <1>15

-----------------------------------------------------------------------------
(* Theorems.                                                               *)

\* Every step keeps the invariant: the row lock, the version check and the
\* numbering together, whatever the interleaving of the turns and their failures.
THEOREM Invariant == Spec => []IInv
  <1>1. Init => IInv
    BY InitIInv
  <1>2. IInv /\ [Next]_vars => IInv'
    <2> SUFFICES ASSUME IInv, [Next]_vars PROVE IInv'
      OBVIOUS
    <2>1. CASE UNCHANGED vars
      BY <2>1 DEF IInv, vars, dbVars, reqVars, snapVars, TypeOK, Snapshots, Snapped, Logged, RowHeld,
                  Inserting, Written, Rejected
    <2>2. CASE AllEnded
      BY <2>1, <2>2 DEF AllEnded
    <2>3. CASE \E t \in Turns : Progress(t) \/ Fail(t)
      <3> PICK t \in Turns : Progress(t) \/ Fail(t)
        BY <2>3
      <3> QED BY FetchIInv, SnapshotIInv, RehydratedIInv, LockIInv, CheckVersionIInv, ConflictIInv,
                 InsertBatchIInv, CommitIInv, FailIInv DEF Progress
    <2> QED BY <2>1, <2>2, <2>3 DEF Next
  <1> QED BY <1>1, <1>2, PTL DEF Spec

\* Type correctness, with items numbered from zero without a gap (FirstSeq).
THEOREM TypeCorrect == Spec => []TypeOK
  <1>1. IInv => TypeOK
    BY DEF IInv
  <1> QED BY <1>1, Invariant, PTL

\* A turn refused with ConversationLocked was overtaken by a stored turn.
THEOREM ConflictsAreReal == Spec => []ConflictHasCause
  <1>1. IInv => ConflictHasCause
    BY DEF IInv, Rejected, ConflictHasCause
  <1> QED BY <1>1, Invariant, PTL

\* The response a captured version names is stored and ends the history read with it.
THEOREM VersionsAreConsistent == Spec => []VersionNamesLastSeenTurn
  <1>1. IInv => VersionNamesLastSeenTurn
    <2> SUFFICES ASSUME IInv, NEW t \in Turns, snapped[t]
                 PROVE  /\ version[t].response = LastTurn(baseLog[t])
                        /\ version[t].response \in responses \cup {None}
      BY DEF VersionNamesLastSeenTurn
    <2>1. /\ version[t] = FromSnapshot(LastSeq(DOMAIN base[t]), LastTurn(baseLog[t]))
          /\ LastTurn(baseLog[t]) \in responses \cup {None}
      BY DEF IInv, Snapshots, Snapped
    <2> QED BY <2>1 DEF FromSnapshot
  <1> QED BY <1>1, Invariant, PTL

\* Stored items directly follow, without a gap, the items their turn was shown.
THEOREM StoredTurnsFollow == Spec => []TurnFollowsWhatItSaw
  <1>1. IInv => TurnFollowsWhatItSaw
    <2> SUFFICES ASSUME IInv, NEW t \in Turns, pc[t] = "done" PROVE
          /\ \A n \in DOMAIN base[t] : n \in DOMAIN rows[conv[t]] /\ rows[conv[t]][n] = base[t][n]
          /\ pend[t] = {n \in DOMAIN rows[conv[t]] : rows[conv[t]][n] = t}
          /\ \A n \in pend[t] : \A m \in 0 .. n : m \in DOMAIN base[t] \cup pend[t]
      BY DEF TurnFollowsWhatItSaw
    <2>1. \A n \in DOMAIN base[t] : n \in DOMAIN rows[conv[t]] /\ rows[conv[t]][n] = base[t][n]
      BY DEF IInv, Snapshots, Snapped
    <2>2. pend[t] = {n \in DOMAIN rows[conv[t]] : rows[conv[t]][n] = t}
      BY ConstantsAssumption DEF IInv, Written, TypeOK
    <2>3. PICK k \in Nat \cup {-1} : DOMAIN base[t] \cup pend[t] = 0 .. k
      BY DEF IInv, Inserting, Contiguous
    <2>4. \A n \in 0 .. k : \A m \in 0 .. n : m \in 0 .. k
      BY <2>3
    <2> QED BY <2>1, <2>2, <2>3, <2>4
  <1> QED BY <1>1, Invariant, PTL

\* The store implements the linear history: a commit is Join, and nothing else
\* changes what the abstract specification sees.
THEOREM Linear == Spec => LinearHistory
  <1> DEFINE seen == [t \in Turns |-> IF pc[t] = "done" THEN baseLog[t] ELSE None]
  <1>1. Init => Abstract!Init
    BY DEF Init, Abstract!Init
  <1>2. IInv /\ [Next]_vars => [Abstract!Next]_<<log, seen>>
    <2> SUFFICES ASSUME IInv, [Next]_vars PROVE Abstract!Next \/ UNCHANGED <<log, seen>>
      OBVIOUS
    <2>1. CASE UNCHANGED vars
      BY <2>1 DEF vars, dbVars, snapVars
    <2>2. ASSUME NEW t \in Turns, Commit(t) PROVE Abstract!Next
      <3>1. conv[t] \in Convs /\ pc[t] = "insert"
        BY <2>2 DEF Commit, IInv, TypeOK
      <3>2. baseLog[t] = log[conv[t]]
        <4>1. baseLog[t] \in Seq(Turns) /\ log[conv[t]] \in Seq(Turns)
          BY <3>1 DEF IInv, TypeOK
        <4>2. Snapped(t) /\ Len(baseLog[t]) = Len(log[conv[t]])
          BY <3>1 DEF IInv, Snapshots, Inserting
        <4> QED BY <4>1, <4>2, SeqEqual DEF Snapped
      <3>3. seen[t] = None /\ seen' = [seen EXCEPT ![t] = log[conv[t]]]
        BY <2>2, <3>1, <3>2 DEF Commit, IInv, TypeOK, snapVars
      <3>4. log' = [log EXCEPT ![conv[t]] = Append(@, t)]
        BY <2>2 DEF Commit
      <3> QED BY <3>1, <3>3, <3>4 DEF Abstract!Next, Abstract!Join
    <2>3. ASSUME NEW t \in Turns, Snapshot(t) PROVE UNCHANGED <<log, seen>>
      BY <2>3 DEF Snapshot, dbVars, IInv, TypeOK
    <2>4. ASSUME NEW t \in Turns, Fetch(t) PROVE UNCHANGED <<log, seen>>
      BY <2>4 DEF Fetch, snapVars
    <2>5. ASSUME NEW t \in Turns,
                 Rehydrated(t) \/ Lock(t) \/ CheckVersion(t) \/ InsertBatch(t) \/ Conflict(t) \/ Fail(t)
          PROVE  UNCHANGED <<log, seen>>
      BY <2>5 DEF Rehydrated, Lock, CheckVersion, InsertBatch, Conflict, Fail, Rollback, dbVars, snapVars,
                  IInv, TypeOK
    <2> QED BY <2>1, <2>2, <2>3, <2>4, <2>5 DEF Next, Progress, AllEnded
  <1> QED BY <1>1, <1>2, Invariant, PTL DEF Spec, LinearHistory, Abstract!Spec

-----------------------------------------------------------------------------
(* Picking places of a sequence.                                           *)

\* Each item with the verdict on its place.
Placed(items, places) == [i \in DOMAIN items |-> [item |-> items[i], keep |-> i \in places]]

\* At is a left fold.
LEMMA AtFold == \A items, places : At(items, places) = Placing!Fold(<< >>, Placed(items, places))
  BY DEF At, Placed, FoldLeft, MapThenFoldSet, Placing!Fold, Placing!Part, Placing!Folds, Placing!Greatest, Max

\* The kept items as they are collected.
Collects(tr, b, s) ==
    /\ tr[0] = b /\ tr[Len(s)] = Placing!Fold(b, s)
    /\ \A i \in 1 .. Len(s) : tr[i] = KeepPlaced(tr[i - 1], s[i])

\* The fold can be followed step by step.
LEMMA PlacingTrace ==
  ASSUME NEW b, NEW Q, NEW s \in Seq(Q) PROVE \E tr : Collects(tr, b, s)
BY Placing!FoldTrace DEF Collects

\* f says where the kept items stood among the first i.
Stood(f, kept, items, places, i) ==
    /\ \A k \in 1 .. Len(kept) : f[k] \in 1 .. i /\ f[k] \in places /\ kept[k] = items[f[k]]
    /\ \A k \in 1 .. Len(kept) : \A j \in 1 .. (k - 1) : f[j] < f[k]
    /\ \A p \in 1 .. i : p \in places => \E k \in 1 .. Len(kept) : f[k] = p

\* At returns the items at these places, in their order.
LEMMA AtPicks ==
  ASSUME NEW S, NEW items \in Seq(S), NEW places
  PROVE  /\ At(items, places) \in Seq(S)
         /\ \E f : Stood(f, At(items, places), items, places, Len(items))
<1> DEFINE n == Len(items)
           P == Placed(items, places)
           Q == [item : S, keep : BOOLEAN]
<1>1. n \in Nat /\ DOMAIN items = 1 .. n
  OBVIOUS
<1>2. P \in Seq(Q) /\ Len(P) = n /\ \A i \in 1 .. n : P[i] = [item |-> items[i], keep |-> i \in places]
  <2>1. P = [i \in 1 .. n |-> [item |-> items[i], keep |-> i \in places]]
    BY <1>1 DEF Placed
  <2>2. \A i \in 1 .. n : items[i] \in S
    OBVIOUS
  <2>3. \A i \in 1 .. n : [item |-> items[i], keep |-> i \in places] \in Q
    BY <2>2
  <2>4. P \in [1 .. n -> Q]
    BY <2>1, <2>3
  <2> HIDE DEF P, Q
  <2>5. P \in Seq(Q) /\ Len(P) = n
    BY <1>1, <2>4
  <2> QED BY <2>1, <2>5
<1> HIDE DEF P, Q, n
<1>3. PICK tr : /\ tr[0] = << >> /\ tr[n] = Placing!Fold(<< >>, P)
                /\ \A i \in 1 .. n : tr[i] = KeepPlaced(tr[i - 1], P[i])
  <2>1. P \in Seq(Q) /\ Len(P) = n
    BY <1>2
  <2>2. PICK tr : Collects(tr, << >>, P)
    BY <2>1, PlacingTrace, Zenon
  <2> QED BY <2>1, <2>2 DEF Collects
<1> DEFINE B == {i \in 0 .. n : tr[i] \in Seq(S) /\ \E f : Stood(f, tr[i], items, places, i)}
<1>4. 0 \in B
  <2>1. tr[0] \in Seq(S) /\ Len(tr[0]) = 0
    BY <1>3
  <2>2. Stood(<< >>, tr[0], items, places, 0)
    BY <2>1 DEF Stood
  <2> QED BY <1>1, <2>1, <2>2 DEF n
<1>5. ASSUME NEW i \in 1 .. n, i - 1 \in B PROVE i \in B
  <2>1. tr[i - 1] \in Seq(S) /\ i - 1 \in Nat /\ i \in 0 .. n
    BY <1>1, <1>5
  <2>0. \E f : Stood(f, tr[i - 1], items, places, i - 1)
    BY <1>5
  <2> HIDE DEF B
  <2>2. PICK f : Stood(f, tr[i - 1], items, places, i - 1)
    BY <2>0
  <2>a. P[i] = [item |-> items[i], keep |-> i \in places] /\ tr[i] = KeepPlaced(tr[i - 1], P[i])
    BY <1>2, <1>3
  <2>b. P[i].keep = (i \in places) /\ P[i].item = items[i]
    BY <2>a
  <2>3. tr[i] = IF i \in places THEN Append(tr[i - 1], items[i]) ELSE tr[i - 1]
    BY <2>a, <2>b DEF KeepPlaced
  <2>4. items[i] \in S
    BY <1>1 DEF n
  <2>5. CASE i \notin places
    <3>0. tr[i] = tr[i - 1]
      BY <2>3, <2>5
    <3>1. \A k \in 1 .. Len(tr[i - 1]) : f[k] \in 1 .. (i - 1) /\ f[k] \in places /\ tr[i - 1][k] = items[f[k]]
      BY <2>2 DEF Stood
    <3>2. \A k \in 1 .. Len(tr[i - 1]) : f[k] \in 1 .. i
      BY <2>1, <3>1
    <3>3. \A p \in 1 .. i : p \in places => p \in 1 .. (i - 1)
      BY <2>1, <2>5
    <3>4. Stood(f, tr[i - 1], items, places, i)
      BY <2>2, <3>1, <3>2, <3>3 DEF Stood
    <3> QED BY <2>1, <3>0, <3>4 DEF B
  <2>6. CASE i \in places
    <3> DEFINE c == Len(tr[i - 1])
               t == Append(tr[i - 1], items[i])
               g == [k \in 1 .. c + 1 |-> IF k = c + 1 THEN i ELSE f[k]]
    <3>1. /\ c \in Nat /\ t \in Seq(S) /\ Len(t) = c + 1 /\ t[c + 1] = items[i]
          /\ \A k \in 1 .. c : t[k] = tr[i - 1][k]
      BY <2>1, <2>4
    <3>2. g[c + 1] = i /\ \A k \in 1 .. c : g[k] = f[k]
      BY <3>1
    <3> HIDE DEF g, t
    <3>3. \A k \in 1 .. c : f[k] \in 1 .. (i - 1) /\ f[k] \in places /\ tr[i - 1][k] = items[f[k]]
      BY <2>2 DEF Stood, c
    <3> HIDE DEF c
    <3>a. \A k \in 1 .. c + 1 : k \in 1 .. c \/ k = c + 1
      BY <3>1
    <3>b. \A k \in 1 .. c : g[k] \in 1 .. i /\ g[k] \in places /\ t[k] = items[g[k]] /\ f[k] < i
      BY <2>1, <3>1, <3>2, <3>3
    <3>c. g[c + 1] \in 1 .. i /\ g[c + 1] \in places /\ t[c + 1] = items[g[c + 1]]
      BY <2>1, <2>6, <3>1, <3>2
    <3>4. \A k \in 1 .. c + 1 : g[k] \in 1 .. i /\ g[k] \in places /\ t[k] = items[g[k]]
      BY <3>a, <3>b, <3>c
    <3>5. \A k \in 1 .. c + 1 : \A j \in 1 .. (k - 1) : g[j] < g[k]
      <4>1. \A k \in 1 .. c : \A j \in 1 .. (k - 1) : f[j] < f[k]
        BY <2>2 DEF Stood, c
      <4>2. \A k \in 1 .. c : \A j \in 1 .. (k - 1) : g[j] < g[k]
        BY <3>1, <3>2, <4>1
      <4>3. \A j \in 1 .. ((c + 1) - 1) : g[j] < g[c + 1]
        <5> SUFFICES ASSUME NEW j \in 1 .. ((c + 1) - 1) PROVE g[j] < g[c + 1]
          BY <3>1
        <5>1. j \in 1 .. c
          BY <3>1
        <5> QED BY <3>2, <3>b, <5>1
      <4>4. ASSUME NEW k \in 1 .. c + 1, NEW j \in 1 .. (k - 1) PROVE g[j] < g[k]
        <5>1. CASE k \in 1 .. c
          BY <4>2, <5>1
        <5>2. CASE k = c + 1
          BY <3>1, <4>3, <5>2
        <5> QED BY <3>a, <5>1, <5>2
      <4> QED BY <4>4
    <3>6. \A p \in 1 .. i : p \in places => \E k \in 1 .. c + 1 : g[k] = p
      <4>1. \A p \in 1 .. (i - 1) : p \in places => \E k \in 1 .. c : f[k] = p
        BY <2>2 DEF Stood, c
      <4>2. c + 1 \in 1 .. c + 1 /\ \A k \in 1 .. c : k \in 1 .. c + 1
        BY <3>1
      <4>3. \A p \in 1 .. i : p = i \/ p \in 1 .. (i - 1)
        BY <2>1
      <4>4. ASSUME NEW p \in 1 .. i, p \in places PROVE \E k \in 1 .. c + 1 : g[k] = p
        <5>1. CASE p = i
          BY <3>2, <4>2, <5>1
        <5>2. CASE p \in 1 .. (i - 1)
          <6>1. PICK k \in 1 .. c : f[k] = p
            BY <4>1, <4>4, <5>2
          <6> QED BY <3>2, <4>2, <6>1
        <5> QED BY <4>3, <5>1, <5>2
      <4> QED BY <4>4
    <3>7. Stood(g, t, items, places, i)
      BY <3>1, <3>4, <3>5, <3>6 DEF Stood
    <3> QED BY <2>1, <2>3, <2>6, <3>1, <3>7 DEF t, B
  <2> QED BY <2>5, <2>6
<1>6. n \in B
  <2> HIDE DEF B
  <2> QED BY <1>1, <1>4, <1>5, Placing!Upwards
<1> QED BY <1>3, <1>6, AtFold DEF n, P

\* What is picked is what stands at the places.
LEMMA AtRange ==
  ASSUME NEW S, NEW items \in Seq(S), NEW places
  PROVE  /\ At(items, places) \in Seq(S)
         /\ \A k \in DOMAIN At(items, places) :
                \E i \in DOMAIN items : i \in places /\ At(items, places)[k] = items[i]
         /\ \A i \in DOMAIN items : i \in places =>
                \E k \in DOMAIN At(items, places) : At(items, places)[k] = items[i]
<1> DEFINE r == At(items, places)
<1>1. r \in Seq(S)
  BY AtPicks
<1>2. PICK f : Stood(f, r, items, places, Len(items))
  BY AtPicks
<1> HIDE DEF r
<1>3. DOMAIN r = 1 .. Len(r) /\ DOMAIN items = 1 .. Len(items)
  BY <1>1
<1>4. \A k \in DOMAIN r : \E i \in DOMAIN items : i \in places /\ r[k] = items[i]
  BY <1>2, <1>3 DEF Stood
<1>5. \A i \in DOMAIN items : i \in places => \E k \in DOMAIN r : r[k] = items[i]
  BY <1>2, <1>3 DEF Stood
<1> QED BY <1>1, <1>4, <1>5 DEF r

-----------------------------------------------------------------------------
(* The names that a list of declarations defines.                          *)

\* Some declaration is a function of this name.
HasFunction(tools, n) == \E i \in DOMAIN tools : tools[i].kind = "function" /\ tools[i].name = n

\* Some member has this flat name.
HasMember(tools, n) == \E p \in MembersOf(tools) : Flat(p[1], p[2]) = n

\* No two members have one flat name.
Apart(tools) ==
    \A p, q \in MembersOf(tools) : Flat(p[1], p[2]) = Flat(q[1], q[2]) => p = q

\* The name is defined.
Has(tools, n) == HasFunction(tools, n) \/ HasMember(tools, n)

\* The name is a deferred function's.
Deferred(tools, n) ==
    \E i \in DOMAIN tools : tools[i].kind = "function" /\ tools[i].name = n /\ tools[i].defer

\* The flat names of a namespace, member by member.
LEMMA FlatNamesAre ==
  \A tool, n : n \in FlatNames(tool) <=> \E k \in DOMAIN tool.members : Flat(tool.name, tool.members[k].name) = n
  BY DEF FlatNames, MemberNames

\* The members, namespace by namespace.
LEMMA PairsAre ==
  \A tools, p : p \in MembersOf(tools) <=>
      \E i \in DOMAIN tools : tools[i].kind = "namespace" /\ \E m \in MemberNames(tools[i]) : p = <<tools[i].name, m>>
  BY DEF MembersOf

\* A pair is a member if its namespace has a member of its name.
LEMMA PairIs ==
  \A tools, x, y : <<x, y>> \in MembersOf(tools) <=>
      \E i \in DOMAIN tools : tools[i].kind = "namespace" /\ tools[i].name = x /\ y \in MemberNames(tools[i])
  BY PairsAre

\* And the flat names of all of them.
LEMMA MembersFlat ==
  \A tools, n : HasMember(tools, n) <=>
      \E i \in DOMAIN tools : tools[i].kind = "namespace" /\ n \in FlatNames(tools[i])
<1> SUFFICES ASSUME NEW tools, NEW n
             PROVE  HasMember(tools, n) <=>
                      \E i \in DOMAIN tools : tools[i].kind = "namespace" /\ n \in FlatNames(tools[i])
  OBVIOUS
<1>1. ASSUME HasMember(tools, n)
      PROVE  \E i \in DOMAIN tools : tools[i].kind = "namespace" /\ n \in FlatNames(tools[i])
  <2>1. PICK p \in MembersOf(tools) : Flat(p[1], p[2]) = n
    BY <1>1 DEF HasMember
  <2>2. PICK i \in DOMAIN tools : tools[i].kind = "namespace" /\ \E m \in MemberNames(tools[i]) : p = <<tools[i].name, m>>
    BY PairsAre
  <2> QED BY <2>1, <2>2 DEF FlatNames
<1>2. ASSUME NEW i \in DOMAIN tools, tools[i].kind = "namespace", n \in FlatNames(tools[i])
      PROVE  HasMember(tools, n)
  <2>1. PICK m \in MemberNames(tools[i]) : Flat(tools[i].name, m) = n
    BY <1>2 DEF FlatNames
  <2>2. <<tools[i].name, m>> \in MembersOf(tools)
    BY <1>2, PairsAre
  <2> QED BY <2>1, <2>2 DEF HasMember
<1> QED BY <1>1, <1>2

\* What one declaration defines.
LEMMA DefinitionsAre ==
  \A tool, n : n \in Definitions(tool) <=>
                 \/ tool.kind = "function" /\ tool.name = n
                 \/ tool.kind = "namespace" /\ n \in FlatNames(tool)
<1> SUFFICES ASSUME NEW tool, NEW n
             PROVE  n \in Definitions(tool) <=>
                      \/ tool.kind = "function" /\ tool.name = n
                      \/ tool.kind = "namespace" /\ n \in FlatNames(tool)
  OBVIOUS
<1>1. CASE tool.kind = "function"
  BY <1>1 DEF Definitions
<1>2. CASE tool.kind = "namespace"
  BY <1>2 DEF Definitions
<1>3. CASE tool.kind \notin {"function", "namespace"}
  BY <1>3 DEF Definitions
<1> QED BY <1>1, <1>2, <1>3

\* DefinedNames, name by name.
LEMMA DefinedAre == \A tools, n : n \in DefinedNames(tools) <=> Has(tools, n)
<1> SUFFICES ASSUME NEW tools, NEW n PROVE n \in DefinedNames(tools) <=> Has(tools, n)
  OBVIOUS
<1>1. n \in DefinedNames(tools) <=> \E i \in DOMAIN tools : n \in Definitions(tools[i])
  BY DEF DefinedNames
<1>2. \A i \in DOMAIN tools : n \in Definitions(tools[i]) <=>
        \/ tools[i].kind = "function" /\ tools[i].name = n
        \/ tools[i].kind = "namespace" /\ n \in FlatNames(tools[i])
  BY DefinitionsAre
<1> QED BY <1>1, <1>2, MembersFlat DEF Has, HasFunction

\* A name that is both a function's and a member's, or that two members have, is
\* the collision the registry refuses.
LEMMA Collides ==
  \A tools : ~NamespaceCollision(tools) =>
      /\ \A n : ~(HasFunction(tools, n) /\ HasMember(tools, n))
      /\ Apart(tools)
<1> SUFFICES ASSUME NEW tools, ~NamespaceCollision(tools)
             PROVE  (\A n : ~(HasFunction(tools, n) /\ HasMember(tools, n))) /\ Apart(tools)
  OBVIOUS
<1>1. \A n : HasFunction(tools, n) => n \in TopLevelKeys(tools)
  BY DEF TopLevelKeys, HasFunction
<1> QED BY <1>1 DEF NamespaceCollision, HasMember, Apart

\* Declarations grow: a function stays, a namespace gains members.
Grown(old, new) ==
    \A i \in DOMAIN old :
        /\ i \in DOMAIN new
        /\ new[i].kind = old[i].kind /\ new[i].name = old[i].name
        /\ \A m : m \in MemberNames(old[i]) => m \in MemberNames(new[i])

\* What was a member stays one.
LEMMA MembersStay ==
  ASSUME NEW old, NEW new, Grown(old, new), NEW p \in MembersOf(old)
  PROVE  p \in MembersOf(new)
<1>1. PICK i \in DOMAIN old : old[i].kind = "namespace" /\ \E m \in MemberNames(old[i]) : p = <<old[i].name, m>>
  BY PairsAre
<1>2. i \in DOMAIN new /\ new[i].kind = "namespace" /\ \E m \in MemberNames(new[i]) : p = <<new[i].name, m>>
  BY <1>1 DEF Grown
<1> QED BY <1>2, PairsAre

\* A collision does not go away as declarations grow.
LEMMA GrownCollides ==
  ASSUME NEW old, NEW new, Grown(old, new), NamespaceCollision(old)
  PROVE  NamespaceCollision(new)
<1>1. \A k : k \in TopLevelKeys(old) => k \in TopLevelKeys(new)
  BY DEF Grown, TopLevelKeys
<1>2. \A p : p \in MembersOf(old) => p \in MembersOf(new)
  BY MembersStay
<1> QED BY <1>1, <1>2 DEF NamespaceCollision

\* Growth is transitive.
LEMMA GrownTrans ==
  ASSUME NEW a, NEW b, NEW c, Grown(a, b), Grown(b, c)
  PROVE  Grown(a, c)
  BY DEF Grown

\* The members of one declaration.
LEMMA SingleMembers ==
  \A tool, p : p \in MembersOf(<<tool>>) <=>
      tool.kind = "namespace" /\ \E m \in MemberNames(tool) : p = <<tool.name, m>>
<1> SUFFICES ASSUME NEW tool, NEW p
             PROVE  p \in MembersOf(<<tool>>) <=>
                      tool.kind = "namespace" /\ \E m \in MemberNames(tool) : p = <<tool.name, m>>
  OBVIOUS
<1>1. DOMAIN <<tool>> = {1} /\ <<tool>>[1] = tool
  OBVIOUS
<1> QED BY <1>1, PairsAre

\* A declaration is added.
LEMMA Added ==
  ASSUME NEW tools \in Seq(AnyTool), NEW tool \in AnyTool
  PROVE  LET new == Append(tools, tool) IN
         /\ new \in Seq(AnyTool)
         /\ Grown(tools, new)
         /\ \A n : HasFunction(new, n) <=> HasFunction(tools, n) \/ (tool.kind = "function" /\ tool.name = n)
         /\ \A p : p \in MembersOf(new) <=> p \in MembersOf(tools) \/ p \in MembersOf(<<tool>>)
         /\ \A n : Deferred(new, n) <=> Deferred(tools, n) \/ (tool.kind = "function" /\ tool.name = n /\ tool.defer)
<1> DEFINE new == Append(tools, tool)
           c == Len(tools)
<1>1. /\ new \in Seq(AnyTool) /\ DOMAIN tools = 1 .. c /\ DOMAIN new = 1 .. (c + 1) /\ c \in Nat
      /\ new[c + 1] = tool /\ \A i \in 1 .. c : new[i] = tools[i]
  OBVIOUS
<1> HIDE DEF new, c
<1>2. \A i \in DOMAIN tools : i \in DOMAIN new /\ new[i] = tools[i]
  BY <1>1
<1>3. \A i \in DOMAIN new : (i \in DOMAIN tools /\ new[i] = tools[i]) \/ new[i] = tool
  BY <1>1
<1>4. c + 1 \in DOMAIN new
  BY <1>1
<1>5. Grown(tools, new)
  BY <1>2 DEF Grown
<1>6. \A n : HasFunction(new, n) <=> HasFunction(tools, n) \/ (tool.kind = "function" /\ tool.name = n)
  BY <1>1, <1>2, <1>3, <1>4 DEF HasFunction
<1>7. \A n : Deferred(new, n) <=> Deferred(tools, n) \/ (tool.kind = "function" /\ tool.name = n /\ tool.defer)
  BY <1>1, <1>2, <1>3, <1>4 DEF Deferred
<1>8. \A p : p \in MembersOf(<<tool>>) <=> tool.kind = "namespace" /\ \E m \in MemberNames(tool) : p = <<tool.name, m>>
  BY SingleMembers
<1>9. \A p : p \in MembersOf(new) <=> p \in MembersOf(tools) \/ p \in MembersOf(<<tool>>)
  BY <1>1, <1>2, <1>3, <1>4, <1>8, PairsAre
<1> QED BY <1>1, <1>5, <1>6, <1>7, <1>9 DEF new

\* The declarations with a member appended to one namespace.
WithMember(tools, at, m) == [tools EXCEPT ![at].members = Append(@, m)]

\* What changes when a namespace gains a member.
Gains(tools, new, at, m) ==
    /\ new \in Seq(AnyTool)
    /\ DOMAIN new = DOMAIN tools
    /\ \A i \in DOMAIN tools : i # at => new[i] = tools[i]
    /\ new[at].kind = tools[at].kind /\ new[at].name = tools[at].name
    /\ MemberNames(new[at]) = MemberNames(tools[at]) \cup {m.name}
    /\ Grown(tools, new)
    /\ \A n : HasFunction(new, n) <=> HasFunction(tools, n)
    /\ \A n : Deferred(new, n) <=> Deferred(tools, n)
    /\ \A p : p \in MembersOf(new) <=> p \in MembersOf(tools) \/ p = <<tools[at].name, m.name>>

\* A member appended to a namespace is one more member and nothing else changes.
LEMMA MemberAdded ==
  ASSUME NEW tools \in Seq(AnyTool), NEW at \in DOMAIN tools, tools[at].kind = "namespace", NEW m \in AnyMember
  PROVE  Gains(tools, WithMember(tools, at, m), at, m)
<1> DEFINE new == WithMember(tools, at, m)
           old == tools[at]
           t == [old EXCEPT !.members = Append(@, m)]
<1>1. old \in AnyTool /\ old.members \in Seq(AnyMember)
  BY DEF AnyTool
<1>2. /\ t.kind = old.kind /\ t.name = old.name /\ t.members = Append(old.members, m)
      /\ t.defer = old.defer
  BY <1>1 DEF AnyTool
<1>3. t \in AnyTool
  <2>1. Append(old.members, m) \in Seq(AnyMember)
    BY <1>1
  <2> QED BY <1>1, <2>1 DEF AnyTool
<1>4. DOMAIN new = DOMAIN tools /\ (\A i \in DOMAIN tools : i # at => new[i] = tools[i]) /\ new[at] = t
  BY DEF WithMember
<1>5. new \in Seq(AnyTool)
  <2> HIDE DEF t, old
  <2>1. new = [tools EXCEPT ![at] = t]
    BY DEF WithMember, t, old
  <2> QED BY <1>3, <2>1
<1>6. \A k : k \in MemberNames(t) <=> k \in MemberNames(old) \/ k = m.name
  <2> DEFINE c == Len(old.members)
             new2 == Append(old.members, m)
  <2>1. /\ DOMAIN old.members = 1 .. c /\ DOMAIN new2 = 1 .. (c + 1) /\ c \in Nat
        /\ new2[c + 1] = m /\ \A i \in 1 .. c : new2[i] = old.members[i]
    BY <1>1
  <2> HIDE DEF new2, c, t, old
  <2>2. t.members = new2
    BY <1>2 DEF new2
  <2>3. \A i \in DOMAIN old.members : i \in DOMAIN new2 /\ new2[i] = old.members[i]
    BY <2>1
  <2>4. \A i \in DOMAIN new2 : (i \in DOMAIN old.members /\ new2[i] = old.members[i]) \/ new2[i] = m
    BY <2>1
  <2>5. c + 1 \in DOMAIN new2
    BY <2>1
  <2> QED BY <2>1, <2>2, <2>3, <2>4, <2>5 DEF MemberNames
<1> HIDE DEF new, t
<1>8. Grown(tools, new)
  BY <1>2, <1>4, <1>6 DEF Grown, old
<1>9. \A n : HasFunction(new, n) <=> HasFunction(tools, n)
  BY <1>2, <1>4 DEF HasFunction, old
<1>10. \A n : Deferred(new, n) <=> Deferred(tools, n)
  BY <1>2, <1>4 DEF Deferred, old
<1>11. tools[at].kind = "namespace" /\ at \in DOMAIN tools
  OBVIOUS
<1>12. \A p : p \in MembersOf(new) <=> p \in MembersOf(tools) \/ p = <<old.name, m.name>>
  <2> HIDE DEF old
  <2>1. ASSUME NEW p \in MembersOf(new) PROVE p \in MembersOf(tools) \/ p = <<old.name, m.name>>
    <3>1. PICK i \in DOMAIN new : new[i].kind = "namespace" /\ \E x \in MemberNames(new[i]) : p = <<new[i].name, x>>
      BY PairsAre
    <3>2. PICK x \in MemberNames(new[i]) : p = <<new[i].name, x>>
      BY <3>1
    <3>3. CASE i = at
      BY <1>2, <1>4, <1>6, <1>11, <3>2, <3>3, PairsAre DEF old
    <3>4. CASE i # at
      BY <1>4, <3>1, <3>2, <3>4, PairsAre
    <3> QED BY <3>3, <3>4
  <2>2. ASSUME NEW p \in MembersOf(tools) PROVE p \in MembersOf(new)
    BY <1>8, MembersStay
  <2>3. <<old.name, m.name>> \in MembersOf(new)
    BY <1>2, <1>4, <1>6, <1>11, PairsAre DEF old
  <2> QED BY <2>1, <2>2, <2>3
<1>13. MemberNames(new[at]) = MemberNames(tools[at]) \cup {m.name}
  BY <1>4, <1>6 DEF old
<1>14. new[at].kind = tools[at].kind /\ new[at].name = tools[at].name
  BY <1>2, <1>4 DEF old
<1>15. Gains(tools, new, at, m)
  BY <1>4, <1>5, <1>8, <1>9, <1>10, <1>12, <1>13, <1>14 DEF Gains, old
<1> QED BY <1>15, Zenon DEF new

-----------------------------------------------------------------------------
(* One definition is loaded.                                               *)

\* The records of a request in preparation.
AnyAcc ==
    [tools : Seq(AnyTool), ready : SUBSET AnyName, members : SUBSET (AnyName \X AnyName),
     loaded : Seq(AnyTool), withheld : SUBSET AnyName,
     unknown : SUBSET (AnyName \X AnyName), called : SUBSET AnyName,
     pending : Nat, completed : SUBSET Nat, ids : SUBSET Nat, input : Seq(AnyItem),
     error : BOOLEAN]

\* Each definition has its own name.
Unique(tools) ==
    \A i, j \in DOMAIN tools :
        Definition(tools[i]) /\ Definition(tools[j]) /\ tools[i].name = tools[j].name => i = j

\* What is deferred is ready or withheld, and only what is defined and not
\* available is withheld.
Coherent(acc) ==
    /\ Unique(acc.tools)
    /\ \A n : Deferred(acc.tools, n) => n \in acc.ready \cup acc.withheld
    /\ \A p \in MembersOf(acc.tools) : p \in acc.members \/ Flat(p[1], p[2]) \in acc.withheld
    /\ \A n \in acc.withheld :
            \/ Deferred(acc.tools, n) /\ n \notin acc.ready
            \/ \E p \in MembersOf(acc.tools) : Flat(p[1], p[2]) = n /\ p \notin acc.members

\* Names that collide fail the request in the end, and till then anything goes.
Sound(acc) == Coherent(acc) \/ NamespaceCollision(acc.tools)

\* A definition that is not withheld.
Usable(acc, n) == Has(acc.tools, n) /\ n \notin acc.withheld

\* b is what loading definitions of the names D makes of a.
Loads(a, b, D) ==
    /\ b \in AnyAcc
    /\ b.error \/
       /\ ~a.error
       /\ /\ b.called = a.called /\ b.unknown = a.unknown /\ b.input = a.input
          /\ b.pending = a.pending /\ b.completed = a.completed /\ b.ids = a.ids
       /\ Grown(a.tools, b.tools)
       /\ Sound(a) => Sound(b)
       /\ \A n : Usable(b, n) => Usable(a, n) \/ n \in D
       /\ \A n \in a.called : Has(b.tools, n) => Has(a.tools, n)
       /\ \A p \in a.unknown : p \in MembersOf(b.tools) => p \in MembersOf(a.tools)

\* Loading nothing.
LEMMA LoadsNothing == ASSUME NEW a \in AnyAcc, NEW D PROVE Loads(a, a, D)
<1>1. Grown(a.tools, a.tools)
  BY DEF Grown
<1>2. a.error \in BOOLEAN
  BY DEF AnyAcc
<1> QED BY <1>1, <1>2 DEF Loads

\* Loading one after the other.
LEMMA LoadsTrans ==
  ASSUME NEW a, NEW b, NEW c, NEW D, Loads(a, b, D), Loads(b, c, D)
  PROVE  Loads(a, c, D)
<1>1. CASE c.error
  BY <1>1 DEF Loads
<1>2. CASE ~c.error
  <2>1. ~b.error /\ ~a.error
    BY <1>2 DEF Loads
  <2>2. Grown(a.tools, c.tools)
    BY <1>2, <2>1, GrownTrans DEF Loads
  <2> QED BY <1>2, <2>1, <2>2 DEF Loads
<1> QED BY <1>1, <1>2

\* A rejection loads nothing.
LEMMA RejectLoads == ASSUME NEW a \in AnyAcc, NEW D PROVE Loads(a, Reject(a), D)
<1>1. Reject(a) \in AnyAcc /\ Reject(a).error
  BY DEF Reject, AnyAcc
<1> QED BY <1>1 DEF Loads

\* The fields of a declaration.
LEMMA ToolIs ==
  \A t \in AnyTool :
      /\ t.kind \in STRING /\ t.defer \in BOOLEAN /\ t.members \in Seq(AnyMember)
      /\ t.name \in AnyName
      /\ t.kind = "namespace" => t.name # Absent
  BY DEF AnyTool

\* A one-element sequence is a sequence.
LEMMA NameTyped == ASSUME NEW S, NEW x \in S PROVE <<x>> \in Seq(S) /\ <<x>> # << >> /\ Len(<<x>>) = 1
<1>1. Len(<<x>>) = 1
  OBVIOUS
<1>2. <<x>> # << >>
  BY <1>1
<1> QED BY <1>1, <1>2

\* Sequences joined are a sequence.
LEMMA JoinedTyped ==
  ASSUME NEW S, NEW r \in Seq(S), NEW s \in Seq(S), r # << >>
  PROVE  r \o s \in Seq(S) /\ r \o s # << >>
<1>1. r \o s \in Seq(S) /\ Len(r \o s) = Len(r) + Len(s)
  OBVIOUS
<1>2. Len(r) # 0 /\ Len(r) \in Nat /\ Len(s) \in Nat
  OBVIOUS
<1>3. Len(r \o s) # 0
  BY <1>1, <1>2
<1> QED BY <1>1, <1>3

\* A flat name is a name.
LEMMA FlatTyped == \A name, m \in AnyName : Flat(name, m) \in AnyName
<1> SUFFICES ASSUME NEW name \in AnyName, NEW m \in AnyName PROVE Flat(name, m) \in AnyName
  OBVIOUS
<1>1. name \in Seq(Atom) /\ m \in Seq(Atom) /\ "agentic_ns" \in Atom
  BY DEF AnyName, Atom
<1> DEFINE p == <<"agentic_ns">>
<1>2. p \in Seq(Atom) /\ p # << >>
  BY <1>1, NameTyped
<1> HIDE DEF p
<1> DEFINE q == p \o name
<1>3. q \in Seq(Atom) /\ q # << >>
  BY <1>1, <1>2, JoinedTyped
<1> HIDE DEF q
<1>4. q \o m \in Seq(Atom) /\ q \o m # << >>
  BY <1>1, <1>3, JoinedTyped
<1> QED BY <1>4 DEF Flat, AnyName, q, p

\* Members have names.
LEMMA MemberNamesTyped == \A t \in AnyTool : \A m \in MemberNames(t) : m \in AnyName
<1> SUFFICES ASSUME NEW t \in AnyTool, NEW m \in MemberNames(t) PROVE m \in AnyName
  OBVIOUS
<1>1. PICK k \in DOMAIN t.members : t.members[k].name = m
  BY DEF MemberNames
<1>2. t.members \in Seq(AnyMember)
  BY ToolIs
<1>3. t.members[k] \in AnyMember
  BY <1>2
<1> QED BY <1>1, <1>3 DEF AnyMember

\* And so are those of a declaration.
LEMMA FlatNamesTyped == \A t \in AnyTool : FlatNames(t) \in SUBSET AnyName
  BY ToolIs, MemberNamesTyped, FlatTyped DEF FlatNames

\* Members are pairs of names.
LEMMA MembersTyped ==
  ASSUME NEW tools, \A i \in DOMAIN tools : tools[i] \in AnyTool
  PROVE  MembersOf(tools) \in SUBSET (AnyName \X AnyName)
<1> SUFFICES ASSUME NEW p \in MembersOf(tools) PROVE p \in AnyName \X AnyName
  OBVIOUS
<1>1. PICK i \in DOMAIN tools : tools[i].kind = "namespace" /\ \E m \in MemberNames(tools[i]) : p = <<tools[i].name, m>>
  BY PairsAre
<1>2. PICK m \in MemberNames(tools[i]) : p = <<tools[i].name, m>>
  BY <1>1
<1>3. tools[i].name \in AnyName /\ m \in AnyName
  BY ToolIs, MemberNamesTyped
<1> QED BY <1>2, <1>3

\* A known function is made ready.
LEMMA LoadsFunction ==
  ASSUME NEW a \in AnyAcc, ~a.error, NEW at \in DOMAIN a.tools, NEW D, NEW b,
         a.tools[at].kind = "function",
         b = [a EXCEPT !.ready = @ \cup {a.tools[at].name},
                       !.withheld = @ \ {a.tools[at].name},
                       !.loaded = Append(@, a.tools[at])],
         a.tools[at].name \in D
  PROVE  Loads(a, b, D)
<1> DEFINE f == a.tools[at].name
<1>1. a.tools[at] \in AnyTool /\ f \in AnyName
  BY DEF AnyAcc, AnyTool
<1>2. b \in AnyAcc
  <2>1. a.loaded \in Seq(AnyTool)
    BY DEF AnyAcc
  <2>2. Append(a.loaded, a.tools[at]) \in Seq(AnyTool)
    BY <1>1, <2>1
  <2>3. a.ready \cup {f} \in SUBSET AnyName /\ a.withheld \ {f} \in SUBSET AnyName
    BY <1>1 DEF AnyAcc
  <2> QED BY <2>2, <2>3 DEF AnyAcc
<1>3. /\ b.tools = a.tools /\ b.members = a.members /\ b.error = a.error
      /\ b.called = a.called /\ b.unknown = a.unknown /\ b.input = a.input
      /\ b.pending = a.pending /\ b.completed = a.completed /\ b.ids = a.ids
      /\ b.ready = a.ready \cup {f} /\ b.withheld = a.withheld \ {f}
  BY DEF AnyAcc
<1>4. HasFunction(a.tools, f)
  BY DEF HasFunction
<1> HIDE DEF f
<1>5. Grown(a.tools, b.tools)
  BY <1>3 DEF Grown
<1>6. ASSUME Coherent(a), ~NamespaceCollision(a.tools) PROVE Coherent(b)
  <2>1. ~HasMember(a.tools, f)
    BY <1>4, <1>6, Collides
  <2>2. \A p \in MembersOf(a.tools) : Flat(p[1], p[2]) # f
    BY <2>1 DEF HasMember
  <2>3. \A n : Deferred(b.tools, n) => n \in b.ready \cup b.withheld
    BY <1>3, <1>6 DEF Coherent
  <2>4. \A p \in MembersOf(b.tools) : p \in b.members \/ Flat(p[1], p[2]) \in b.withheld
    BY <1>3, <1>6, <2>2 DEF Coherent
  <2>5. \A n \in b.withheld :
          \/ Deferred(b.tools, n) /\ n \notin b.ready
          \/ \E p \in MembersOf(b.tools) : Flat(p[1], p[2]) = n /\ p \notin b.members
    BY <1>3, <1>6 DEF Coherent
  <2> QED BY <1>3, <1>6, <2>3, <2>4, <2>5 DEF Coherent
<1>7. Sound(a) => Sound(b)
  BY <1>3, <1>6 DEF Sound
<1>8. \A n : Usable(b, n) => Usable(a, n) \/ n \in D
  BY <1>3 DEF Usable, f
<1> QED BY <1>2, <1>3, <1>5, <1>7, <1>8 DEF Loads

\* A new definition is added.
LEMMA LoadsNew ==
  ASSUME NEW a \in AnyAcc, ~a.error, NEW tool \in AnyTool, Definition(tool), IndexOf(a, tool.name) = {}
  PROVE  Loads(a, LoadNew(a, tool), Definitions(tool))
<1> DEFINE b == [a EXCEPT !.tools = Append(@, tool), !.loaded = Append(@, tool),
                     !.ready = IF tool.kind = "function" THEN @ \cup {tool.name} ELSE @,
                     !.members = IF tool.kind = "namespace" THEN @ \cup MembersOf(<<tool>>) ELSE @]
           Fails == \/ tool.kind = "function" /\ tool.name \in a.called
                    \/ tool.kind = "namespace" /\ ResolvesPriorCalls(a, tool.name, MemberNames(tool))
                    \/ BadNamespace(tool)
<1>1. CASE Fails
  BY <1>1, RejectLoads DEF LoadNew
<1>2. CASE ~Fails
  <2>1. LoadNew(a, tool) = b
    BY <1>2 DEF LoadNew
  <2>2. a.tools \in Seq(AnyTool) /\ a.loaded \in Seq(AnyTool) /\ a.ready \in SUBSET AnyName
        /\ a.members \in SUBSET (AnyName \X AnyName) /\ a.withheld \in SUBSET AnyName
    BY DEF AnyAcc
  <2>3. tool.name \in AnyName /\ tool.kind \in {"function", "namespace"}
    BY ToolIs DEF Definition
  <2>4. MembersOf(<<tool>>) \in SUBSET (AnyName \X AnyName)
    <3>1. \A i \in DOMAIN <<tool>> : <<tool>>[i] \in AnyTool
      OBVIOUS
    <3> QED BY <3>1, MembersTyped
  <2> DEFINE ts == Append(a.tools, tool)
             rs == IF tool.kind = "function" THEN a.ready \cup {tool.name} ELSE a.ready
             ms == IF tool.kind = "namespace" THEN a.members \cup MembersOf(<<tool>>) ELSE a.members
             ls == Append(a.loaded, tool)
  <2>5. ts \in Seq(AnyTool) /\ ls \in Seq(AnyTool)
    BY <2>2
  <2>6. rs \in SUBSET AnyName /\ ms \in SUBSET (AnyName \X AnyName)
    BY <2>2, <2>3, <2>4
  <2>7. b = [a EXCEPT !.tools = ts, !.loaded = ls, !.ready = rs, !.members = ms]
    OBVIOUS
  <2> HIDE DEF b, ts, rs, ms, ls
  <2>8. b \in AnyAcc
    BY <2>5, <2>6, <2>7 DEF AnyAcc
  <2>9. /\ b.tools = ts /\ b.members = ms /\ b.ready = rs /\ b.error = a.error /\ b.withheld = a.withheld
        /\ b.called = a.called /\ b.unknown = a.unknown /\ b.input = a.input
        /\ b.pending = a.pending /\ b.completed = a.completed /\ b.ids = a.ids
    BY <2>7 DEF AnyAcc
  <2>10. /\ Grown(a.tools, ts)
         /\ \A n : HasFunction(ts, n) <=> HasFunction(a.tools, n) \/ (tool.kind = "function" /\ tool.name = n)
         /\ \A p : p \in MembersOf(ts) <=> p \in MembersOf(a.tools) \/ p \in MembersOf(<<tool>>)
         /\ \A n : Deferred(ts, n) <=> Deferred(a.tools, n) \/ (tool.kind = "function" /\ tool.name = n /\ tool.defer)
    BY <2>2, Added DEF ts
  <2>11. tool.kind = "function" => ~HasFunction(a.tools, tool.name)
    BY DEF IndexOf, HasFunction, Definition
  <2>a. \A p : p \in MembersOf(<<tool>>) <=>
            tool.kind = "namespace" /\ \E m \in MemberNames(tool) : p = <<tool.name, m>>
    BY SingleMembers
  <2>b. \A n : HasMember(<<tool>>, n) => tool.kind = "namespace" /\ n \in FlatNames(tool)
    <3> SUFFICES ASSUME NEW n, HasMember(<<tool>>, n) PROVE tool.kind = "namespace" /\ n \in FlatNames(tool)
      OBVIOUS
    <3>1. PICK p \in MembersOf(<<tool>>) : Flat(p[1], p[2]) = n
      BY DEF HasMember
    <3>2. PICK m \in MemberNames(tool) : p = <<tool.name, m>>
      BY <2>a
    <3> QED BY <2>a, <3>1, <3>2 DEF FlatNames
  <2>c. \A n : HasMember(ts, n) => HasMember(a.tools, n) \/ HasMember(<<tool>>, n)
    BY <2>10 DEF HasMember
  <2>12. \A p \in MembersOf(<<tool>>) : p \notin MembersOf(a.tools)
    <3> SUFFICES ASSUME NEW p \in MembersOf(<<tool>>), p \in MembersOf(a.tools) PROVE FALSE
      OBVIOUS
    <3>1. PICK m \in MemberNames(tool) : p = <<tool.name, m>>
      BY <2>a
    <3>2. PICK i \in DOMAIN a.tools : a.tools[i].kind = "namespace" /\ a.tools[i].name = tool.name
      BY <3>1, PairIs
    <3> QED BY <3>2 DEF IndexOf, Definition
  <2>13. Unique(a.tools) => Unique(ts)
    <3>1. /\ DOMAIN ts = 1 .. (Len(a.tools) + 1) /\ DOMAIN a.tools = 1 .. Len(a.tools) /\ Len(a.tools) \in Nat
          /\ ts[Len(a.tools) + 1] = tool /\ \A i \in 1 .. Len(a.tools) : ts[i] = a.tools[i]
      BY <2>2 DEF ts
    <3>2. \A i \in DOMAIN a.tools : ~(Definition(a.tools[i]) /\ a.tools[i].name = tool.name)
      BY DEF IndexOf
    <3>3. \A i \in DOMAIN ts : i \in DOMAIN a.tools \/ i = Len(a.tools) + 1
      BY <3>1
    <3> QED BY <3>1, <3>2, <3>3 DEF Unique
  <2>14. Coherent(a) => Coherent(b)
    <3> SUFFICES ASSUME Coherent(a) PROVE Coherent(b)
      OBVIOUS
    <3>1. Unique(b.tools)
      BY <2>9, <2>13 DEF Coherent
    <3>2. \A n : Deferred(b.tools, n) => n \in b.ready \cup b.withheld
      BY <2>9, <2>10 DEF Coherent, rs
    <3>3. \A p \in MembersOf(b.tools) : p \in b.members \/ Flat(p[1], p[2]) \in b.withheld
      BY <2>9, <2>10, <2>a DEF Coherent, ms
    <3>4. \A n \in b.withheld :
            \/ Deferred(b.tools, n) /\ n \notin b.ready
            \/ \E p \in MembersOf(b.tools) : Flat(p[1], p[2]) = n /\ p \notin b.members
      <4>1. \A n : Deferred(a.tools, n) => HasFunction(a.tools, n)
        BY DEF Deferred, HasFunction
      <4> QED BY <2>9, <2>10, <2>11, <2>12, <4>1 DEF Coherent, ms, rs
    <3> QED BY <3>1, <3>2, <3>3, <3>4 DEF Coherent
  <2>15. Sound(a) => Sound(b)
    BY <2>9, <2>10, <2>14, GrownCollides DEF Sound
  <2>16. \A n : n \in Definitions(tool) <=>
                   \/ tool.kind = "function" /\ tool.name = n
                   \/ tool.kind = "namespace" /\ n \in FlatNames(tool)
    BY DefinitionsAre
  <2>17. \A n : Usable(b, n) => Usable(a, n) \/ n \in Definitions(tool)
    BY <2>9, <2>10, <2>16, <2>b, <2>c DEF Usable, Has
  <2>18. /\ \A n \in FlatNames(tool) : tool.kind = "namespace" => n \notin a.called
         /\ \A p \in MembersOf(<<tool>>) : p \notin a.unknown
    BY <1>2, <2>a DEF ResolvesPriorCalls, FlatNames
  <2>19. \A n \in a.called : Has(b.tools, n) => Has(a.tools, n)
    BY <1>2, <2>9, <2>10, <2>18, <2>b, <2>c DEF Has
  <2>20. \A p \in a.unknown : p \in MembersOf(b.tools) => p \in MembersOf(a.tools)
    BY <2>9, <2>10, <2>18
  <2> QED BY <2>1, <2>8, <2>9, <2>10, <2>15, <2>17, <2>19, <2>20 DEF Loads
<1> QED BY <1>1, <1>2

\* A member that the namespace did not have.
LEMMA LoadsNewMember ==
  ASSUME NEW a \in AnyAcc, ~a.error, NEW at \in DOMAIN a.tools, a.tools[at].kind = "namespace",
         NEW m \in AnyMember, NEW D, Flat(a.tools[at].name, m.name) \in D,
         ~ \E k \in DOMAIN a.tools[at].members : a.tools[at].members[k].name = m.name,
         Flat(a.tools[at].name, m.name) \notin a.called, <<a.tools[at].name, m.name>> \notin a.unknown
  PROVE  Loads(a, [a EXCEPT !.members = @ \cup {<<a.tools[at].name, m.name>>},
                            !.tools[at].members = Append(@, m)], D)
<1> DEFINE tool == a.tools[at]
           flat == Flat(tool.name, m.name)
           pair == <<tool.name, m.name>>
           new == [a EXCEPT !.members = @ \cup {pair}, !.tools[at].members = Append(@, m)]
<1>0. a.tools \in Seq(AnyTool) /\ tool \in AnyTool /\ tool.kind = "namespace" /\ flat \in D
  <2>1. a.tools \in Seq(AnyTool)
    BY DEF AnyAcc
  <2> QED BY <2>1
<1> DEFINE ts == WithMember(a.tools, at, m)
           ms == a.members \cup {pair}
<1>1. new = [a EXCEPT !.tools = ts, !.members = ms]
  BY DEF WithMember
<1>2. /\ ts \in Seq(AnyTool) /\ Grown(a.tools, ts) /\ DOMAIN ts = DOMAIN a.tools
      /\ \A i \in DOMAIN a.tools : i # at => ts[i] = a.tools[i]
      /\ ts[at].kind = tool.kind /\ ts[at].name = tool.name
      /\ \A n : HasFunction(ts, n) <=> HasFunction(a.tools, n)
      /\ \A n : Deferred(ts, n) <=> Deferred(a.tools, n)
      /\ \A p : p \in MembersOf(ts) <=> p \in MembersOf(a.tools) \/ p = pair
  <2>1. Gains(a.tools, ts, at, m)
    BY <1>0, MemberAdded
  <2> QED BY <2>1 DEF Gains
<1>3. pair \in AnyName \X AnyName
  <2>1. m.name \in AnyName
    BY DEF AnyMember
  <2> QED BY <1>0, <2>1, ToolIs
<1>4. ms \in SUBSET (AnyName \X AnyName)
  BY <1>3 DEF AnyAcc
<1>5. flat \notin a.called /\ pair \notin a.unknown /\ Flat(pair[1], pair[2]) = flat
  OBVIOUS
<1>6. \A i \in DOMAIN a.tools : a.tools[i] \in AnyTool
  BY <1>0
<1>7. Unique(a.tools) => pair \notin MembersOf(a.tools)
  <2> SUFFICES ASSUME Unique(a.tools), pair \in MembersOf(a.tools) PROVE FALSE
    OBVIOUS
  <2>1. PICK i \in DOMAIN a.tools : a.tools[i].kind = "namespace" /\ a.tools[i].name = tool.name
                                       /\ m.name \in MemberNames(a.tools[i])
    BY PairIs
  <2>2. i = at
    BY <1>0, <2>1 DEF Unique, Definition
  <2> QED BY <2>1, <2>2 DEF MemberNames
<1> HIDE DEF new, ts, ms, tool, flat, pair
<1>9. new \in AnyAcc
  BY <1>1, <1>2, <1>4 DEF AnyAcc
<1>10. /\ new.tools = ts /\ new.members = ms /\ new.ready = a.ready /\ new.error = a.error
       /\ new.withheld = a.withheld
       /\ new.called = a.called /\ new.unknown = a.unknown /\ new.input = a.input
       /\ new.pending = a.pending /\ new.completed = a.completed /\ new.ids = a.ids
  BY <1>1 DEF AnyAcc
<1>11. Unique(a.tools) => Unique(ts)
  <2>1. \A i \in DOMAIN a.tools : ts[i].kind = a.tools[i].kind /\ ts[i].name = a.tools[i].name
    BY <1>2 DEF tool
  <2> QED BY <1>2, <2>1 DEF Unique, Definition
<1>12. NamespaceCollision(a.tools) => NamespaceCollision(ts)
  BY <1>2, GrownCollides
<1>13. Coherent(a) => Coherent(new)
  <2> SUFFICES ASSUME Coherent(a) PROVE Coherent(new)
    OBVIOUS
  <2>1. pair \notin MembersOf(a.tools)
    BY <1>7 DEF Coherent
  <2>2. \A p \in MembersOf(new.tools) : p \in new.members \/ Flat(p[1], p[2]) \in new.withheld
    BY <1>2, <1>10 DEF Coherent, ms
  <2>3. \A n \in new.withheld :
          \/ Deferred(new.tools, n) /\ n \notin new.ready
          \/ \E p \in MembersOf(new.tools) : Flat(p[1], p[2]) = n /\ p \notin new.members
    BY <1>2, <1>10, <2>1 DEF Coherent, ms
  <2> QED BY <1>2, <1>10, <1>11, <2>2, <2>3 DEF Coherent
<1>14. Sound(a) => Sound(new)
  BY <1>10, <1>12, <1>13 DEF Sound
<1>15. \A n : Usable(new, n) => Usable(a, n) \/ n \in D
  BY <1>0, <1>2, <1>5, <1>10 DEF Usable, Has, HasMember
<1>16. \A n \in a.called : Has(new.tools, n) => Has(a.tools, n)
  BY <1>2, <1>5, <1>10 DEF Has, HasMember
<1>17. \A p \in a.unknown : p \in MembersOf(new.tools) => p \in MembersOf(a.tools)
  BY <1>2, <1>5, <1>10
<1>18. Loads(a, new, D)
  BY <1>2, <1>9, <1>10, <1>14, <1>15, <1>16, <1>17 DEF Loads
<1> QED BY <1>18, Zenon DEF new, pair, tool

\* A member that was declared with the namespace.
LEMMA LoadsKnownMember ==
  ASSUME NEW a \in AnyAcc, ~a.error, NEW at \in DOMAIN a.tools, a.tools[at].kind = "namespace",
         NEW m \in AnyMember, NEW D, Flat(a.tools[at].name, m.name) \in D,
         \E k \in DOMAIN a.tools[at].members : a.tools[at].members[k].name = m.name
  PROVE  Loads(a, [a EXCEPT !.members = @ \cup {<<a.tools[at].name, m.name>>},
                            !.withheld = @ \ {Flat(a.tools[at].name, m.name)}], D)
<1> DEFINE tool == a.tools[at]
           flat == Flat(tool.name, m.name)
           pair == <<tool.name, m.name>>
           back == [a EXCEPT !.members = @ \cup {pair}, !.withheld = @ \ {flat}]
<1>0. a.tools \in Seq(AnyTool) /\ tool \in AnyTool /\ tool.kind = "namespace" /\ flat \in D
  <2>1. a.tools \in Seq(AnyTool)
    BY DEF AnyAcc
  <2> QED BY <2>1
<1>1. pair \in MembersOf(a.tools) /\ Flat(pair[1], pair[2]) = flat
  BY <1>0, PairIs DEF MemberNames
<1>2. pair \in AnyName \X AnyName
  <2>1. m.name \in AnyName
    BY DEF AnyMember
  <2> QED BY <1>0, <2>1, ToolIs
<1> HIDE DEF back, tool, flat, pair
<1>3. a.members \cup {pair} \in SUBSET (AnyName \X AnyName) /\ a.withheld \ {flat} \in SUBSET AnyName
  BY <1>2 DEF AnyAcc
<1>4. back \in AnyAcc
  BY <1>3 DEF AnyAcc, back
<1>5. /\ back.tools = a.tools /\ back.members = a.members \cup {pair} /\ back.ready = a.ready
      /\ back.withheld = a.withheld \ {flat} /\ back.error = a.error
      /\ back.called = a.called /\ back.unknown = a.unknown /\ back.input = a.input
      /\ back.pending = a.pending /\ back.completed = a.completed /\ back.ids = a.ids
  BY DEF AnyAcc, back
<1>6. Grown(a.tools, back.tools)
  BY <1>5 DEF Grown
<1>7. Coherent(a) /\ ~NamespaceCollision(a.tools) => Coherent(back)
  <2> SUFFICES ASSUME Coherent(a), ~NamespaceCollision(a.tools) PROVE Coherent(back)
    OBVIOUS
  <2>1. ~HasFunction(a.tools, flat)
    BY <1>1, Collides DEF HasMember
  <2>2. \A n : Deferred(a.tools, n) => HasFunction(a.tools, n)
    BY DEF Deferred, HasFunction
  <2>3. \A p \in MembersOf(a.tools) : Flat(p[1], p[2]) = flat => p = pair
    BY <1>1, Collides DEF Apart
  <2>4. \A n : Deferred(back.tools, n) => n \in back.ready \cup back.withheld
    BY <1>5, <2>1, <2>2 DEF Coherent
  <2>5. \A p \in MembersOf(back.tools) : p \in back.members \/ Flat(p[1], p[2]) \in back.withheld
    BY <1>5, <2>3 DEF Coherent
  <2>6. \A n \in back.withheld :
          \/ Deferred(back.tools, n) /\ n \notin back.ready
          \/ \E p \in MembersOf(back.tools) : Flat(p[1], p[2]) = n /\ p \notin back.members
    <3> SUFFICES ASSUME NEW n \in a.withheld, n # flat
                 PROVE  \/ Deferred(a.tools, n) /\ n \notin a.ready
                        \/ \E p \in MembersOf(a.tools) : Flat(p[1], p[2]) = n /\ p \notin a.members /\ p # pair
      BY <1>5
    <3> QED BY <1>1 DEF Coherent
  <2> QED BY <1>5, <2>4, <2>5, <2>6 DEF Coherent
<1>8. Sound(a) => Sound(back)
  BY <1>5, <1>7 DEF Sound
<1>9. \A n : Usable(back, n) => Usable(a, n) \/ n \in D
  BY <1>0, <1>5 DEF Usable
<1>10. Loads(a, back, D)
  BY <1>4, <1>5, <1>6, <1>8, <1>9 DEF Loads, Has
<1> QED BY <1>10, Zenon DEF back, flat, pair, tool

\* One returned member is loaded into the namespace at this place.
LEMMA LoadsMember ==
  ASSUME NEW st, st.acc \in AnyAcc, NEW newly, st = [acc |-> st.acc, at |-> st.at, newly |-> newly],
         newly \in Seq(AnyMember), NEW m \in AnyMember, NEW D,
         ~st.acc.error => /\ st.at \in DOMAIN st.acc.tools
                          /\ st.acc.tools[st.at].kind = "namespace"
                          /\ Flat(st.acc.tools[st.at].name, m.name) \in D
                          /\ \/ m.name \in MemberNames(st.acc.tools[st.at])
                             \/ /\ Flat(st.acc.tools[st.at].name, m.name) \notin st.acc.called
                                /\ <<st.acc.tools[st.at].name, m.name>> \notin st.acc.unknown
  PROVE  /\ Loads(st.acc, LoadMember(st, m).acc, D)
         /\ LoadMember(st, m) = [acc |-> LoadMember(st, m).acc, at |-> st.at, newly |-> LoadMember(st, m).newly]
         /\ LoadMember(st, m).newly \in Seq(AnyMember)
<1> DEFINE a == st.acc
           at == st.at
           tool == a.tools[at]
           flat == Flat(tool.name, m.name)
           pair == <<tool.name, m.name>>
           known == {k \in DOMAIN tool.members : tool.members[k].name = m.name}
           more == Append(newly, m)
           new == [a EXCEPT !.members = @ \cup {pair}, !.tools[at].members = Append(@, m)]
           back == [a EXCEPT !.members = @ \cup {pair}, !.withheld = @ \ {flat}]
<1>0. st.newly = newly /\ more \in Seq(AnyMember)
  OBVIOUS
<1>1. CASE a.error
  <2>1. LoadMember(st, m) = st
    BY <1>1 DEF LoadMember
  <2> QED BY <1>0, <2>1, LoadsNothing
<1>2. CASE ~a.error /\ \E k \in known : tool.members[k] # m
  <2>1. LoadMember(st, m) = [st EXCEPT !.acc = Reject(a)]
    BY <1>2 DEF LoadMember
  <2>2. LoadMember(st, m) = [acc |-> Reject(a), at |-> at, newly |-> newly]
    BY <2>1
  <2> HIDE DEF at, a
  <2> QED BY <1>0, <2>2, RejectLoads DEF at, a
<1>3. CASE ~a.error /\ known = {}
  <2>1. LoadMember(st, m) = [st EXCEPT !.acc = new, !.newly = Append(@, m)]
    BY <1>3, Zenon DEF LoadMember
  <2>2. LoadMember(st, m) = [acc |-> new, at |-> at, newly |-> more]
    <3> HIDE DEF at, a, new
    <3> QED BY <1>0, <2>1 DEF at
  <2>3. Loads(a, new, D)
    BY <1>3, LoadsNewMember DEF MemberNames
  <2> HIDE DEF at, a, new, more
  <2> QED BY <1>0, <2>2, <2>3 DEF at, a
<1>4. CASE ~a.error /\ known # {} /\ (\A k \in known : tool.members[k] = m) /\ pair \in a.members
  <2>1. LoadMember(st, m) = st
    BY <1>4 DEF LoadMember
  <2> QED BY <1>0, <2>1, LoadsNothing
<1>5. CASE ~a.error /\ known # {} /\ (\A k \in known : tool.members[k] = m) /\ pair \notin a.members
  <2>1. LoadMember(st, m) = [st EXCEPT !.acc = back, !.newly = Append(@, m)]
    BY <1>5 DEF LoadMember
  <2>2. LoadMember(st, m) = [acc |-> back, at |-> at, newly |-> more]
    <3> HIDE DEF at, a, back
    <3> QED BY <1>0, <2>1 DEF at
  <2>3. Loads(a, back, D)
    BY <1>5, LoadsKnownMember DEF MemberNames
  <2> HIDE DEF at, a, back, more
  <2> QED BY <1>0, <2>2, <2>3 DEF at, a
<1> QED BY <1>1, <1>2, <1>3, <1>4, <1>5

\* load_namespace_members is a left fold.
LEMMA JoinFold ==
  \A b, s : FoldLeft(LoadMember, b, s) = Joining!Fold(b, s)
  BY DEF FoldLeft, MapThenFoldSet, Joining!Fold, Joining!Part, Joining!Folds, Joining!Greatest, Max

\* Loading a list of definitions is a left fold.
LEMMA DefineFold ==
  \A b, s : FoldLeft(LoadDefinition, b, s) = Defining!Fold(b, s)
  BY DEF FoldLeft, MapThenFoldSet, Defining!Fold, Defining!Part, Defining!Folds, Defining!Greatest, Max

\* So is loading those of a list that are declared.
LEMMA DeclareFold ==
  \A b, s : FoldLeft(LoadDeclared, b, s) = Declaring!Fold(b, s)
  BY DEF FoldLeft, MapThenFoldSet, Declaring!Fold, Declaring!Part, Declaring!Folds, Declaring!Greatest, Max

\* A namespace keeps its members as declarations grow.
LEMMA MemberNamesGrow ==
  ASSUME NEW old, NEW new, Grown(old, new), NEW i \in DOMAIN old
  PROVE  MemberNames(old[i]) \subseteq MemberNames(new[i])
  BY DEF Grown

\* The members of a known namespace are loaded one by one.
LEMMA JoinsMembers ==
  ASSUME NEW a \in AnyAcc, ~a.error, NEW at \in DOMAIN a.tools, a.tools[at].kind = "namespace",
         NEW members \in Seq(AnyMember), NEW D,
         \A k \in DOMAIN members :
            /\ Flat(a.tools[at].name, members[k].name) \in D
            /\ \/ members[k].name \in MemberNames(a.tools[at])
               \/ /\ Flat(a.tools[at].name, members[k].name) \notin a.called
                  /\ <<a.tools[at].name, members[k].name>> \notin a.unknown
  PROVE  LET end == FoldLeft(LoadMember, [acc |-> a, at |-> at, newly |-> << >>], members) IN
         /\ end \in [acc : AnyAcc, at : {at}, newly : Seq(AnyMember)]
         /\ Loads(a, end.acc, D)
<1> DEFINE name == a.tools[at].name
           R == [acc : AnyAcc, at : {at}, newly : Seq(AnyMember)]
           T == {st \in R : Loads(a, st.acc, D)}
           S == {m \in AnyMember :
                    /\ Flat(name, m.name) \in D
                    /\ \/ m.name \in MemberNames(a.tools[at])
                       \/ Flat(name, m.name) \notin a.called /\ <<name, m.name>> \notin a.unknown}
           b == [acc |-> a, at |-> at, newly |-> << >>]
<1>1. b \in T
  <2>1. Loads(a, a, D)
    BY LoadsNothing
  <2> QED BY <2>1
<1>2. ASSUME NEW st \in T, NEW m \in S PROVE LoadMember(st, m) \in T
  <2>1. /\ st \in R /\ Loads(a, st.acc, D) /\ m \in AnyMember /\ Flat(name, m.name) \in D
        /\ \/ m.name \in MemberNames(a.tools[at])
           \/ Flat(name, m.name) \notin a.called /\ <<name, m.name>> \notin a.unknown
    OBVIOUS
  <2> HIDE DEF T, S
  <2>2. /\ st.acc \in AnyAcc /\ st.at = at /\ st.newly \in Seq(AnyMember)
        /\ st = [acc |-> st.acc, at |-> st.at, newly |-> st.newly]
    BY <2>1
  <2>3. ~st.acc.error =>
            /\ at \in DOMAIN st.acc.tools
            /\ st.acc.tools[at].kind = "namespace"
            /\ st.acc.tools[at].name = name
            /\ MemberNames(a.tools[at]) \subseteq MemberNames(st.acc.tools[at])
            /\ st.acc.called = a.called /\ st.acc.unknown = a.unknown
    <3> SUFFICES ASSUME ~st.acc.error
                 PROVE  /\ at \in DOMAIN st.acc.tools
                        /\ st.acc.tools[at].kind = "namespace"
                        /\ st.acc.tools[at].name = name
                        /\ MemberNames(a.tools[at]) \subseteq MemberNames(st.acc.tools[at])
                        /\ st.acc.called = a.called /\ st.acc.unknown = a.unknown
      OBVIOUS
    <3>1. Grown(a.tools, st.acc.tools) /\ st.acc.called = a.called /\ st.acc.unknown = a.unknown
      BY <2>1 DEF Loads
    <3>2. MemberNames(a.tools[at]) \subseteq MemberNames(st.acc.tools[at])
      BY <3>1, MemberNamesGrow
    <3> QED BY <3>1, <3>2 DEF Grown
  <2>4. /\ Loads(st.acc, LoadMember(st, m).acc, D)
        /\ LoadMember(st, m) = [acc |-> LoadMember(st, m).acc, at |-> st.at, newly |-> LoadMember(st, m).newly]
        /\ LoadMember(st, m).newly \in Seq(AnyMember)
    <3>1. ~st.acc.error => /\ st.at \in DOMAIN st.acc.tools
                           /\ st.acc.tools[st.at].kind = "namespace"
                           /\ Flat(st.acc.tools[st.at].name, m.name) \in D
                           /\ \/ m.name \in MemberNames(st.acc.tools[st.at])
                              \/ /\ Flat(st.acc.tools[st.at].name, m.name) \notin st.acc.called
                                 /\ <<st.acc.tools[st.at].name, m.name>> \notin st.acc.unknown
      BY <2>1, <2>2, <2>3
    <3> HIDE DEF name
    <3> QED BY <2>1, <2>2, <3>1, LoadsMember
  <2>5. Loads(a, LoadMember(st, m).acc, D)
    BY <2>1, <2>4, LoadsTrans
  <2>6. LoadMember(st, m).acc \in AnyAcc
    BY <2>4 DEF Loads
  <2>7. LoadMember(st, m) \in R
    BY <2>2, <2>4, <2>6
  <2> QED BY <2>5, <2>7 DEF T
<1>3. members \in Seq(S)
  <2>1. \A k \in DOMAIN members : members[k] \in AnyMember
    OBVIOUS
  <2>2. \A k \in DOMAIN members : members[k] \in S
    BY <2>1
  <2> HIDE DEF S
  <2>3. members = [k \in 1 .. Len(members) |-> members[k]] /\ Len(members) \in Nat /\ DOMAIN members = 1 .. Len(members)
    OBVIOUS
  <2>4. members \in [1 .. Len(members) -> S]
    BY <2>2, <2>3
  <2> QED BY <2>3, <2>4
<1>4. FoldLeft(LoadMember, b, members) \in T
  <2> HIDE DEF T, S, b
  <2>1. \A st \in T, m \in S : LoadMember(st, m) \in T
    BY <1>2
  <2>2. Joining!Fold(b, members) \in T
    BY <1>1, <1>3, <2>1, Joining!FoldIn
  <2> QED BY <2>2, JoinFold
<1> QED BY <1>4

\* Recording what was loaded changes nothing else.
LEMMA RecordsMembers ==
  ASSUME NEW a, NEW at, NEW D, NEW end \in [acc : AnyAcc, at : {at}, newly : Seq(AnyMember)],
         Loads(a, end.acc, D), ~end.acc.error => at \in DOMAIN end.acc.tools
  PROVE  Loads(a, RecordMembers(end), D)
<1> DEFINE acc == end.acc
           part == [acc.tools[at] EXCEPT !.members = end.newly]
           all == Append(acc.loaded, part)
           r == [acc EXCEPT !.loaded = all]
<1>0. end.at = at /\ acc \in AnyAcc
  OBVIOUS
<1>1. CASE acc.error \/ end.newly = << >>
  BY <1>1 DEF RecordMembers
<1>2. CASE ~(acc.error \/ end.newly = << >>)
  <2>1. RecordMembers(end) = r
    BY <1>0, <1>2 DEF RecordMembers
  <2>2. acc.tools[at] \in AnyTool /\ acc.loaded \in Seq(AnyTool)
    <3>1. acc.tools \in Seq(AnyTool) /\ acc.loaded \in Seq(AnyTool)
      BY <1>0 DEF AnyAcc
    <3> QED BY <1>2, <3>1
  <2>3. part \in AnyTool
    <3>1. end.newly \in Seq(AnyMember)
      OBVIOUS
    <3> HIDE DEF acc
    <3> QED BY <2>2, <3>1 DEF AnyTool
  <2> HIDE DEF part
  <2>4. all \in Seq(AnyTool)
    BY <2>2, <2>3
  <2> HIDE DEF all, acc
  <2>5. r \in AnyAcc
    BY <1>0, <2>4 DEF AnyAcc
  <2>6. /\ r.tools = acc.tools /\ r.members = acc.members /\ r.ready = acc.ready /\ r.error = acc.error
        /\ r.withheld = acc.withheld
        /\ r.called = acc.called /\ r.unknown = acc.unknown /\ r.input = acc.input
        /\ r.pending = acc.pending /\ r.completed = acc.completed /\ r.ids = acc.ids
    BY <1>0 DEF AnyAcc
  <2> HIDE DEF r
  <2>7. Sound(acc) <=> Sound(r)
    BY <2>6 DEF Sound, Coherent
  <2>8. \A n : Usable(acc, n) <=> Usable(r, n)
    BY <2>6 DEF Usable
  <2>9. Loads(a, acc, D)
    BY DEF acc
  <2>10. Loads(a, r, D)
    BY <1>2, <2>5, <2>6, <2>7, <2>8, <2>9 DEF Loads
  <2> QED BY <2>1, <2>10
<1> QED BY <1>1, <1>2

\* A returned namespace is loaded into the one that is declared.
LEMMA MembersLoad ==
  ASSUME NEW a \in AnyAcc, ~a.error, NEW at \in DOMAIN a.tools, a.tools[at].kind = "namespace",
         NEW returned \in AnyTool, returned.name = a.tools[at].name
  PROVE  Loads(a, LoadMembers(a, at, returned), FlatNames(returned))
<1> DEFINE Fails == \/ returned.members = << >>
                    \/ ResolvesPriorCalls(a, returned.name, MemberNames(returned) \ MemberNames(a.tools[at]))
           end == FoldLeft(LoadMember, [acc |-> a, at |-> at, newly |-> << >>], returned.members)
           D == FlatNames(returned)
<1>1. CASE Fails
  BY <1>1, RejectLoads DEF LoadMembers
<1>2. CASE ~Fails
  <2>1. LoadMembers(a, at, returned) = RecordMembers(end)
    BY <1>2 DEF LoadMembers
  <2>2. returned.members \in Seq(AnyMember)
    BY ToolIs
  <2>3. \A k \in DOMAIN returned.members :
            /\ Flat(a.tools[at].name, returned.members[k].name) \in D
            /\ \/ returned.members[k].name \in MemberNames(a.tools[at])
               \/ /\ Flat(a.tools[at].name, returned.members[k].name) \notin a.called
                  /\ <<a.tools[at].name, returned.members[k].name>> \notin a.unknown
    BY <1>2 DEF ResolvesPriorCalls, FlatNames, MemberNames
  <2> HIDE DEF D
  <2>4. end \in [acc : AnyAcc, at : {at}, newly : Seq(AnyMember)] /\ Loads(a, end.acc, D)
    BY <2>2, <2>3, JoinsMembers
  <2> HIDE DEF end
  <2>5. ~end.acc.error => at \in DOMAIN end.acc.tools
    BY <2>4 DEF Loads, Grown
  <2>6. Loads(a, RecordMembers(end), D)
    BY <2>4, <2>5, RecordsMembers
  <2> QED BY <2>1, <2>6 DEF D
<1> QED BY <1>1, <1>2

\* One definition of a search output, or of the restored list, is loaded.
LEMMA DefinitionLoads ==
  ASSUME NEW a \in AnyAcc, NEW tool \in AnyTool
  PROVE  Loads(a, LoadDefinition(a, tool), Definitions(tool))
<1> DEFINE at == CHOOSE i \in IndexOf(a, tool.name) : TRUE
<1>1. CASE a.error
  BY <1>1, LoadsNothing DEF LoadDefinition
<1>2. CASE ~a.error /\ (~Definition(tool) \/ tool.name = ToolSearchName)
  BY <1>2, RejectLoads DEF LoadDefinition
<1>3. CASE ~a.error /\ Definition(tool) /\ tool.name # ToolSearchName /\ IndexOf(a, tool.name) = {}
  BY <1>3, LoadsNew DEF LoadDefinition
<1>4. CASE ~a.error /\ Definition(tool) /\ tool.name # ToolSearchName /\ IndexOf(a, tool.name) # {}
  <2>1. LoadDefinition(a, tool) = LoadKnown(a, at, tool)
    BY <1>4 DEF LoadDefinition
  <2>2. at \in DOMAIN a.tools /\ Definition(a.tools[at]) /\ a.tools[at].name = tool.name
    BY <1>4 DEF IndexOf
  <2> HIDE DEF at
  <2>3. CASE Canonical(a.tools[at]) # Canonical(tool)
    BY <2>1, <2>3, RejectLoads DEF LoadKnown
  <2>4. CASE Canonical(a.tools[at]) = Canonical(tool)
    <3>1. a.tools[at] \in AnyTool
      <4>1. a.tools \in Seq(AnyTool)
        BY DEF AnyAcc
      <4> QED BY <2>2, <4>1
    <3>2. a.tools[at].kind = tool.kind
      <4> DEFINE u == a.tools[at]
      <4>1. \A t \in AnyTool : Canonical(t).kind = t.kind
        BY DEF Canonical, AnyTool
      <4> HIDE DEF u
      <4> QED BY <2>4, <3>1, <4>1 DEF u
    <3>3. CASE tool.kind = "namespace"
      <4>1. LoadKnown(a, at, tool) = LoadMembers(a, at, tool)
        BY <2>4, <3>3 DEF LoadKnown
      <4>2. \A n : n \in FlatNames(tool) => n \in Definitions(tool)
        BY <3>3, DefinitionsAre
      <4>3. Loads(a, LoadMembers(a, at, tool), FlatNames(tool))
        BY <1>4, <2>2, <3>2, <3>3, MembersLoad
      <4> HIDE DEF Definition
      <4> QED BY <2>1, <4>1, <4>2, <4>3 DEF Loads
    <3>4. CASE tool.kind # "namespace" /\ tool.name \in a.ready
      <4>1. LoadDefinition(a, tool) = a
        BY <2>1, <2>4, <3>4 DEF LoadKnown
      <4> QED BY <4>1, LoadsNothing
    <3>5. CASE tool.kind # "namespace" /\ tool.name \notin a.ready /\ tool.name \in a.withheld \cap a.called
      BY <2>1, <2>4, <3>5, RejectLoads DEF LoadKnown
    <3>6. CASE tool.kind # "namespace" /\ tool.name \notin a.ready /\ tool.name \notin a.withheld \cap a.called
      <4> DEFINE b == [a EXCEPT !.ready = @ \cup {a.tools[at].name},
                                !.withheld = @ \ {a.tools[at].name},
                                !.loaded = Append(@, a.tools[at])]
      <4>1. LoadDefinition(a, tool) = b
        BY <2>1, <2>2, <2>4, <3>6 DEF LoadKnown
      <4>2. a.tools[at].kind = "function"
        BY <1>4, <3>2, <3>6 DEF Definition
      <4>3. a.tools[at].name \in Definitions(tool)
        BY <2>2, <3>2, <4>2, DefinitionsAre
      <4> HIDE DEF b
      <4>4. Loads(a, b, Definitions(tool))
        BY <1>4, <2>2, <4>2, <4>3, LoadsFunction DEF b
      <4> QED BY <4>1, <4>4
    <3> QED BY <3>3, <3>4, <3>5, <3>6
  <2> QED BY <2>3, <2>4
<1> QED BY <1>1, <1>2, <1>3, <1>4

\* One definition of the restored list is loaded if it is declared.
LEMMA DeclaredLoads ==
  ASSUME NEW a \in AnyAcc, NEW tool \in AnyTool
  PROVE  Loads(a, LoadDeclared(a, tool), Definitions(tool))
  BY DefinitionLoads, LoadsNothing DEF LoadDeclared

\* Definitions are loaded one by one.
LEMMA LoadsAll ==
  ASSUME NEW a \in AnyAcc, NEW tools \in Seq(AnyTool)
  PROVE  /\ Loads(a, FoldLeft(LoadDefinition, a, tools), DefinedNames(tools))
         /\ Loads(a, FoldLeft(LoadDeclared, a, tools), DefinedNames(tools))
<1> DEFINE D == DefinedNames(tools)
           T == {b \in AnyAcc : Loads(a, b, D)}
           S == {t \in AnyTool : Definitions(t) \subseteq D}
<1>1. a \in T
  BY LoadsNothing
<1>2. tools \in Seq(S)
  <2>1. \A k \in DOMAIN tools : tools[k] \in S
    BY DEF DefinedNames
  <2> HIDE DEF S
  <2>2. tools = [k \in 1 .. Len(tools) |-> tools[k]] /\ Len(tools) \in Nat /\ DOMAIN tools = 1 .. Len(tools)
    OBVIOUS
  <2>3. tools \in [1 .. Len(tools) -> S]
    BY <2>1, <2>2
  <2> QED BY <2>2, <2>3
<1>3. \A b, c, E : Loads(b, c, E) /\ E \subseteq D => Loads(b, c, D)
  BY DEF Loads
<1>4. ASSUME NEW b \in T, NEW t \in S PROVE LoadDefinition(b, t) \in T /\ LoadDeclared(b, t) \in T
  <2>1. Loads(b, LoadDefinition(b, t), Definitions(t)) /\ Loads(b, LoadDeclared(b, t), Definitions(t))
    BY DefinitionLoads, DeclaredLoads
  <2>2. Loads(a, b, D) /\ Definitions(t) \subseteq D
    OBVIOUS
  <2> HIDE DEF T, D, S
  <2>3. Loads(b, LoadDefinition(b, t), D) /\ Loads(b, LoadDeclared(b, t), D)
    BY <1>3, <2>1, <2>2
  <2>4. Loads(a, LoadDefinition(b, t), D) /\ Loads(a, LoadDeclared(b, t), D)
    BY <2>2, <2>3, LoadsTrans
  <2>5. LoadDefinition(b, t) \in AnyAcc /\ LoadDeclared(b, t) \in AnyAcc
    BY <2>3 DEF Loads
  <2> QED BY <2>4, <2>5 DEF T
<1>5. \A b \in T, t \in S : LoadDefinition(b, t) \in T /\ LoadDeclared(b, t) \in T
  BY <1>4
<1> HIDE DEF T, S, D
<1>6. Defining!Fold(a, tools) \in T
  BY <1>1, <1>2, <1>5, Defining!FoldIn
<1>7. Declaring!Fold(a, tools) \in T
  BY <1>1, <1>2, <1>5, Declaring!FoldIn
<1> QED BY <1>6, <1>7, DefineFold, DeclareFold DEF T, D

-----------------------------------------------------------------------------
(* One item of the history.                                                *)

\* The names the model fixes are names.
LEMMA FixedNames == Absent \in AnyName /\ ToolSearchName \in AnyName
<1>1. "absent" \in Atom /\ "tool_search" \in Atom
  BY DEF Atom
<1>2. <<"absent">> \in Seq(Atom) /\ <<"absent">> # << >>
  BY <1>1, NameTyped
<1>3. <<"tool_search">> \in Seq(Atom) /\ <<"tool_search">> # << >>
  BY <1>1, NameTyped
<1> QED BY <1>2, <1>3 DEF Absent, ToolSearchName, AnyName

\* The fields of an item.
LEMMA ItemIs ==
  \A x \in AnyItem :
      /\ x.type \in ItemTypes /\ x.id \in Nat /\ x.call \in Nat
      /\ x.namespace \in AnyName /\ x.name \in AnyName
      /\ x.tools \in Seq(AnyTool) /\ x.completed \in BOOLEAN
      /\ x.listing \in SUBSET AnyName /\ x.error \in BOOLEAN
  BY DEF AnyItem

\* The items the gateway makes.
LEMMA ItemsTyped ==
  /\ \A type \in ItemTypes : Item(type) \in AnyItem
  /\ \A call \in Nat, public \in AnyCall : FunctionCall(call, public) \in AnyItem
  /\ \A call \in Nat : FunctionCallOutput(call) \in AnyItem /\ SearchCall(call) \in AnyItem
  /\ \A call \in Nat, tools \in Seq(AnyTool) : SearchOutput(call, tools) \in AnyItem
  /\ \A label \in AnyName, listing \in SUBSET AnyName, error \in BOOLEAN :
        McpListTools(label, listing, error) \in AnyItem
<1>1. ASSUME NEW type \in ItemTypes PROVE Item(type) \in AnyItem
  <2>1. << >> \in Seq(AnyTool)
    OBVIOUS
  <2> QED BY <2>1, FixedNames DEF Item, AnyItem, NoId
<1>2. /\ "function_call" \in ItemTypes /\ "function_call_output" \in ItemTypes
      /\ "tool_search_call" \in ItemTypes /\ "tool_search_output" \in ItemTypes
      /\ "mcp_list_tools" \in ItemTypes
  BY DEF ItemTypes
<1>3. ASSUME NEW call \in Nat, NEW public \in AnyCall PROVE FunctionCall(call, public) \in AnyItem
  <2>1. Item("function_call") \in AnyItem
    BY <1>1, <1>2
  <2> DEFINE x == Item("function_call")
  <2>2. public.namespace \in AnyName /\ public.name \in AnyName
    BY DEF AnyCall
  <2>3. FunctionCall(call, public) = [x EXCEPT !.call = call, !.namespace = public.namespace, !.name = public.name]
    BY DEF FunctionCall
  <2> HIDE DEF x
  <2> QED BY <2>1, <2>2, <2>3 DEF AnyItem, x
<1>4. ASSUME NEW call \in Nat PROVE FunctionCallOutput(call) \in AnyItem /\ SearchCall(call) \in AnyItem
  <2>1. \A x \in AnyItem : [x EXCEPT !.call = call] \in AnyItem /\ [x EXCEPT !.id = call, !.call = call] \in AnyItem
    BY DEF AnyItem
  <2>2. Item("function_call_output") \in AnyItem /\ Item("tool_search_call") \in AnyItem
    BY <1>1, <1>2
  <2> QED BY <2>1, <2>2 DEF FunctionCallOutput, SearchCall
<1>5. ASSUME NEW call \in Nat, NEW tools \in Seq(AnyTool) PROVE SearchOutput(call, tools) \in AnyItem
  <2>1. \A x \in AnyItem : [x EXCEPT !.call = call, !.tools = tools] \in AnyItem
    BY DEF AnyItem
  <2>2. Item("tool_search_output") \in AnyItem
    BY <1>1, <1>2
  <2> QED BY <2>1, <2>2 DEF SearchOutput
<1>6. ASSUME NEW label \in AnyName, NEW listing \in SUBSET AnyName, NEW error \in BOOLEAN
      PROVE  McpListTools(label, listing, error) \in AnyItem
  <2>1. \A x \in AnyItem : [x EXCEPT !.name = label, !.listing = listing, !.error = error] \in AnyItem
    BY DEF AnyItem
  <2>2. Item("mcp_list_tools") \in AnyItem
    BY <1>1, <1>2
  <2> QED BY <2>1, <2>2 DEF McpListTools
<1> QED BY <1>1, <1>3, <1>4, <1>5, <1>6

\* A call the history holds is of something callable, or of nothing known, which
\* stays unknown from then on.
Admits(a, b, x) ==
    x.type = "function_call" =>
        /\ b.tools = a.tools
        /\ x.namespace = Absent => x.name \in b.called /\ (Has(a.tools, x.name) => Usable(a, x.name))
        /\ x.namespace # Absent =>
            LET member == <<x.namespace, x.name>>
            IN  \/ member \in a.members /\ member \in MembersOf(a.tools)
                \/ member \in b.unknown /\ member \notin MembersOf(a.tools)

\* What the item adds to the input of the model.
Extends(a, b, x) ==
    \/ x.type # "mcp_list_tools" /\ b.input = a.input
    \/ \E y \in AnyItem : /\ b.input = Append(a.input, y)
                          /\ (x.type = "mcp_list_tools" \/ y.type = "mcp_list_tools") => y = x

\* b is what one item of the history makes of a.
Prepares(a, b, x) ==
    /\ b \in AnyAcc
    /\ b.error \/
       /\ ~a.error
       /\ Grown(a.tools, b.tools)
       /\ Sound(a) => Sound(b)
       /\ \A n : Usable(b, n) => Usable(a, n) \/ n \in DefinedNames(x.tools)
       /\ a.called \subseteq b.called /\ a.unknown \subseteq b.unknown
       /\ \A n \in a.called : Has(b.tools, n) => Has(a.tools, n)
       /\ \A p \in a.unknown : p \in MembersOf(b.tools) => p \in MembersOf(a.tools)
       /\ Admits(a, b, x)
       /\ Extends(a, b, x)

\* After a rejection nothing happens.
LEMMA PreparesNothing ==
  ASSUME NEW a \in AnyAcc, NEW x, a.error PROVE Prepares(a, a, x)
  BY DEF Prepares

\* A rejection prepares nothing.
LEMMA PreparesReject ==
  ASSUME NEW a \in AnyAcc, NEW x PROVE Prepares(a, Reject(a), x)
<1>1. Reject(a) \in AnyAcc /\ Reject(a).error
  BY DEF Reject, AnyAcc
<1> QED BY <1>1 DEF Prepares

\* An item that defines nothing.
LEMMA PreparesSame ==
  ASSUME NEW a \in AnyAcc, NEW b \in AnyAcc, NEW x, ~a.error,
         b.tools = a.tools, b.ready = a.ready, b.members = a.members, b.withheld = a.withheld,
         a.called \subseteq b.called, a.unknown \subseteq b.unknown, Admits(a, b, x), Extends(a, b, x)
  PROVE  Prepares(a, b, x)
<1>1. Grown(a.tools, b.tools)
  BY DEF Grown
<1>2. Sound(a) => Sound(b)
  BY DEF Sound, Coherent
<1>3. \A n : Usable(b, n) => Usable(a, n)
  BY DEF Usable
<1> QED BY <1>1, <1>2, <1>3 DEF Prepares

\* prepare_history is a left fold.
LEMMA PrepareFold ==
  \A b, s : FoldLeft(PrepareItem, b, s) = Preparing!Fold(b, s)
  BY DEF FoldLeft, MapThenFoldSet, Preparing!Fold, Preparing!Part, Preparing!Folds, Preparing!Greatest, Max

\* A search call of the history.
LEMMA ItemSearchCall ==
  ASSUME NEW a \in AnyAcc, ~a.error, NEW x \in AnyItem, x.type = "tool_search_call"
  PROVE  Prepares(a, HistorySearchCall(a, x), x)
<1> DEFINE Fails == \/ NoId \in {x.id, x.call}
                    \/ x.id \in a.ids
                    \/ a.pending # NoId
                    \/ x.call \in a.completed
           y == FunctionCall(x.call, [namespace |-> Absent, name |-> ToolSearchName])
           s == Append(a.input, y)
           b == [a EXCEPT !.ids = @ \cup {x.id}, !.pending = x.call, !.input = s]
<1>1. CASE Fails
  BY <1>1, PreparesReject DEF HistorySearchCall
<1>2. CASE ~Fails
  <2>1. HistorySearchCall(a, x) = b
    BY <1>2 DEF HistorySearchCall
  <2>2. y \in AnyItem /\ y.type = "function_call"
    <3>1. [namespace |-> Absent, name |-> ToolSearchName] \in AnyCall
      BY FixedNames DEF AnyCall
    <3>2. y \in AnyItem
      BY <3>1, ItemIs, ItemsTyped
    <3> QED BY <3>2 DEF FunctionCall, Item
  <2>3. s \in Seq(AnyItem)
    <3>1. a.input \in Seq(AnyItem)
      BY DEF AnyAcc
    <3> HIDE DEF y
    <3> QED BY <2>2, <3>1
  <2>4. x.id \in Nat /\ x.call \in Nat
    BY ItemIs
  <2> HIDE DEF y, s
  <2>5. b \in AnyAcc
    BY <2>3, <2>4 DEF AnyAcc
  <2>6. /\ b.tools = a.tools /\ b.ready = a.ready /\ b.members = a.members /\ b.withheld = a.withheld
        /\ b.called = a.called /\ b.unknown = a.unknown /\ b.input = s
    BY DEF AnyAcc
  <2> HIDE DEF b
  <2>7. Extends(a, b, x)
    BY <2>2, <2>6 DEF Extends, s
  <2>8. Admits(a, b, x)
    BY DEF Admits
  <2> QED BY <2>1, <2>5, <2>6, <2>7, <2>8, PreparesSame
<1> QED BY <1>1, <1>2

\* A search output of the history: its definitions are loaded.
LEMMA ItemSearchOutput ==
  ASSUME NEW a \in AnyAcc, ~a.error, NEW x \in AnyItem, x.type = "tool_search_output"
  PROVE  Prepares(a, HistorySearchOutput(a, x), x)
<1> DEFINE Fails == \/ x.call = NoId
                    \/ x.call \in a.completed
                    \/ a.pending # x.call
                    \/ ~x.completed
           start == [a EXCEPT !.pending = NoId]
           end == FoldLeft(LoadDefinition, start, x.tools)
           y == FunctionCallOutput(x.call)
           s == Append(end.input, y)
           c == end.completed \cup {x.call}
           b == [end EXCEPT !.completed = c, !.input = s]
           D == DefinedNames(x.tools)
<1>1. CASE Fails
  BY <1>1, PreparesReject DEF HistorySearchOutput
<1>2. CASE ~Fails
  <2>1. HistorySearchOutput(a, x) = b
    BY <1>2, Zenon DEF HistorySearchOutput
  <2>2. /\ start \in AnyAcc
        /\ start.tools = a.tools /\ start.ready = a.ready /\ start.members = a.members
        /\ start.withheld = a.withheld /\ start.called = a.called /\ start.unknown = a.unknown
        /\ start.input = a.input /\ start.error = a.error
    BY DEF AnyAcc, NoId
  <2>3. x.tools \in Seq(AnyTool) /\ x.call \in Nat
    BY ItemIs
  <2> HIDE DEF start
  <2>4. Loads(start, end, D)
    BY <2>2, <2>3, LoadsAll
  <2>5. end \in AnyAcc
    BY <2>4 DEF Loads
  <2>6. y \in AnyItem /\ y.type = "function_call_output"
    BY <2>3, ItemsTyped DEF FunctionCallOutput, Item
  <2>7. s \in Seq(AnyItem)
    <3>1. end.input \in Seq(AnyItem)
      BY <2>5 DEF AnyAcc
    <3> HIDE DEF y, end
    <3> QED BY <2>6, <3>1
  <2>8. c \in SUBSET Nat
    BY <2>3, <2>5 DEF AnyAcc
  <2> HIDE DEF end, y, s, c, D
  <2>9. b \in AnyAcc
    BY <2>5, <2>7, <2>8 DEF AnyAcc
  <2>10. /\ b.tools = end.tools /\ b.ready = end.ready /\ b.members = end.members /\ b.withheld = end.withheld
         /\ b.called = end.called /\ b.unknown = end.unknown /\ b.input = s /\ b.error = end.error
    BY <2>5 DEF AnyAcc
  <2> HIDE DEF b
  <2>11. CASE end.error
    BY <2>1, <2>9, <2>10, <2>11 DEF Prepares
  <2>12. CASE ~end.error
    <3>1. Extends(a, b, x)
      <4>1. b.input = Append(a.input, y)
        BY <2>2, <2>4, <2>10, <2>12 DEF Loads, s
      <4> QED BY <2>6, <4>1 DEF Extends
    <3>2. Admits(a, b, x)
      BY DEF Admits
    <3>3. Grown(a.tools, b.tools)
      BY <2>2, <2>4, <2>10, <2>12 DEF Loads
    <3>4. Sound(a) => Sound(b)
      <4>1. Sound(a) <=> Sound(start)
        BY <2>2 DEF Sound, Coherent
      <4>2. Sound(b) <=> Sound(end)
        BY <2>10 DEF Sound, Coherent
      <4> QED BY <2>4, <2>12, <4>1, <4>2 DEF Loads
    <3>5. \A n : Usable(b, n) => Usable(a, n) \/ n \in D
      <4>1. \A n : Usable(b, n) <=> Usable(end, n)
        BY <2>10 DEF Usable
      <4>2. \A n : Usable(a, n) <=> Usable(start, n)
        BY <2>2 DEF Usable
      <4> QED BY <2>4, <2>12, <4>1, <4>2 DEF Loads
    <3>6. a.called = b.called /\ a.unknown = b.unknown
      BY <2>2, <2>4, <2>10, <2>12 DEF Loads
    <3>7. /\ \A n \in a.called : Has(b.tools, n) => Has(a.tools, n)
          /\ \A p \in a.unknown : p \in MembersOf(b.tools) => p \in MembersOf(a.tools)
      BY <2>2, <2>4, <2>10, <2>12 DEF Loads
    <3> QED BY <2>1, <2>9, <3>1, <3>2, <3>3, <3>4, <3>5, <3>6, <3>7 DEF Prepares, D
  <2> QED BY <2>11, <2>12
<1> QED BY <1>1, <1>2

\* A call that is let through, with what it leaves on record.
LEMMA CallAdmitted ==
  ASSUME NEW a \in AnyAcc, ~a.error, NEW x \in AnyItem, x.type = "function_call",
         NEW c \in SUBSET AnyName, NEW u \in SUBSET (AnyName \X AnyName), a.called \subseteq c, a.unknown \subseteq u,
         NEW b, b = [a EXCEPT !.input = Append(a.input, x), !.called = c, !.unknown = u],
         Admits(a, b, x)
  PROVE  Prepares(a, b, x)
<1> DEFINE s == Append(a.input, x)
<1>1. s \in Seq(AnyItem)
  <2>1. a.input \in Seq(AnyItem)
    BY DEF AnyAcc
  <2> QED BY <2>1
<1>2. b = [a EXCEPT !.input = s, !.called = c, !.unknown = u]
  OBVIOUS
<1> HIDE DEF s
<1>3. b \in AnyAcc
  BY <1>1, <1>2 DEF AnyAcc
<1>4. /\ b.tools = a.tools /\ b.ready = a.ready /\ b.members = a.members /\ b.withheld = a.withheld
      /\ b.called = c /\ b.unknown = u /\ b.input = s
  BY <1>2 DEF AnyAcc
<1>5. Extends(a, b, x)
  BY <1>4 DEF Extends, s
<1> QED BY <1>3, <1>4, <1>5, PreparesSame

\* A function call of the history.
LEMMA ItemCall ==
  ASSUME NEW a \in AnyAcc, ~a.error, NEW x \in AnyItem, x.type = "function_call"
  PROVE  Prepares(a, HistoryCall(a, x), x)
<1> DEFINE s == Append(a.input, x)
           next0 == [a EXCEPT !.input = s]
           member == <<x.namespace, x.name>>
<1>1. x.name \in AnyName /\ x.namespace \in AnyName
  BY ItemIs
<1>2. s \in Seq(AnyItem)
  <2>1. a.input \in Seq(AnyItem)
    BY DEF AnyAcc
  <2> QED BY <2>1
<1>3. member \in AnyName \X AnyName
  BY <1>1
<1>6. a.called \in SUBSET AnyName /\ a.unknown \in SUBSET (AnyName \X AnyName)
  BY DEF AnyAcc
<1>7. CASE x.namespace = Absent /\ x.name \in a.withheld
  BY <1>7, PreparesReject DEF HistoryCall
<1>8. CASE x.namespace = Absent /\ x.name \notin a.withheld
  <2> DEFINE c == a.called \cup {x.name}
             b == [a EXCEPT !.input = s, !.called = c, !.unknown = a.unknown]
  <2>1. HistoryCall(a, x) = b
    <3>1. HistoryCall(a, x) = [next0 EXCEPT !.called = @ \cup {x.name}]
      BY <1>8, Zenon DEF HistoryCall
    <3>2. [next0 EXCEPT !.called = @ \cup {x.name}] = b
      BY DEF AnyAcc
    <3> QED BY <3>1, <3>2
  <2>2. Has(a.tools, x.name) => Usable(a, x.name)
    BY <1>8 DEF Usable
  <2>3. c \in SUBSET AnyName /\ a.called \subseteq c /\ x.name \in c
    BY <1>1, <1>6
  <2>4. b.called = c /\ b.tools = a.tools
    BY DEF AnyAcc
  <2>5. Admits(a, b, x)
    BY <1>8, <2>2, <2>3, <2>4 DEF Admits
  <2>6. a.unknown \in SUBSET (AnyName \X AnyName) /\ a.unknown \subseteq a.unknown
    BY <1>6
  <2>7. b = [a EXCEPT !.input = Append(a.input, x), !.called = c, !.unknown = a.unknown]
    OBVIOUS
  <2> HIDE DEF c, b, s, next0, member
  <2>8. Prepares(a, b, x)
    BY <2>3, <2>5, <2>6, <2>7, CallAdmitted
  <2> QED BY <2>1, <2>8
<1>9. CASE x.namespace # Absent /\ member \notin MembersOf(a.tools)
  <2> DEFINE u == a.unknown \cup {member}
             b == [a EXCEPT !.input = s, !.called = a.called, !.unknown = u]
  <2>1. HistoryCall(a, x) = b
    <3>1. HistoryCall(a, x) = [next0 EXCEPT !.unknown = @ \cup {member}]
      BY <1>9, Zenon DEF HistoryCall
    <3>2. [next0 EXCEPT !.unknown = @ \cup {member}] = b
      BY DEF AnyAcc
    <3> QED BY <3>1, <3>2
  <2>2. u \in SUBSET (AnyName \X AnyName) /\ a.unknown \subseteq u /\ member \in u
    BY <1>3, <1>6
  <2>4. b.unknown = u /\ b.tools = a.tools
    BY DEF AnyAcc
  <2>5. Admits(a, b, x)
    BY <1>9, <2>2, <2>4 DEF Admits
  <2>6. a.called \in SUBSET AnyName /\ a.called \subseteq a.called
    BY <1>6
  <2>7. b = [a EXCEPT !.input = Append(a.input, x), !.called = a.called, !.unknown = u]
    OBVIOUS
  <2> HIDE DEF u, b, s, next0, member
  <2>8. Prepares(a, b, x)
    BY <2>2, <2>5, <2>6, <2>7, CallAdmitted
  <2> QED BY <2>1, <2>8
<1>10. CASE x.namespace # Absent /\ member \in MembersOf(a.tools) /\ member \in a.members
  <2> DEFINE b == [a EXCEPT !.input = s, !.called = a.called, !.unknown = a.unknown]
  <2>1. HistoryCall(a, x) = b
    <3>1. HistoryCall(a, x) = next0
      BY <1>10, Zenon DEF HistoryCall
    <3>2. next0 = b
      BY DEF AnyAcc
    <3> QED BY <3>1, <3>2
  <2>4. b.tools = a.tools
    BY DEF AnyAcc
  <2>5. Admits(a, b, x)
    BY <1>10, <2>4 DEF Admits
  <2>6. a.called \subseteq a.called /\ a.unknown \subseteq a.unknown
    OBVIOUS
  <2>7. b = [a EXCEPT !.input = Append(a.input, x), !.called = a.called, !.unknown = a.unknown]
    OBVIOUS
  <2> HIDE DEF b, s, next0, member
  <2>8. Prepares(a, b, x)
    BY <1>6, <2>5, <2>6, <2>7, CallAdmitted
  <2> QED BY <2>1, <2>8
<1>11. CASE x.namespace # Absent /\ member \in MembersOf(a.tools) /\ member \notin a.members
  <2>1. HistoryCall(a, x) = Reject(a)
    BY <1>11, Zenon DEF HistoryCall
  <2> QED BY <2>1, PreparesReject
<1> QED BY <1>7, <1>8, <1>9, <1>10, <1>11

\* Any item of the history.
LEMMA ItemPrepares ==
  ASSUME NEW a \in AnyAcc, NEW x \in AnyItem
  PROVE  Prepares(a, PrepareItem(a, x), x)
<1>1. CASE a.error
  BY <1>1, PreparesNothing DEF PrepareItem
<1>2. CASE ~a.error /\ x.type = "tool_search_call"
  BY <1>2, ItemSearchCall DEF PrepareItem
<1>3. CASE ~a.error /\ x.type = "tool_search_output"
  BY <1>3, ItemSearchOutput DEF PrepareItem
<1>4. CASE ~a.error /\ x.type = "function_call"
  BY <1>4, ItemCall DEF PrepareItem
<1>5. CASE ~a.error /\ x.type = "compaction_trigger"
  <2>1. PrepareItem(a, x) = a
    BY <1>5 DEF PrepareItem
  <2>2. Admits(a, a, x) /\ Extends(a, a, x)
    BY <1>5 DEF Admits, Extends
  <2> QED BY <1>5, <2>1, <2>2, PreparesSame
<1>6. CASE ~a.error /\ x.type \notin {"tool_search_call", "tool_search_output", "function_call", "compaction_trigger"}
  <2> DEFINE s == Append(a.input, x)
             b == [a EXCEPT !.input = s]
  <2>1. PrepareItem(a, x) = b
    BY <1>6 DEF PrepareItem
  <2>2. s \in Seq(AnyItem)
    <3>1. a.input \in Seq(AnyItem)
      BY DEF AnyAcc
    <3> QED BY <3>1
  <2>3. b \in AnyAcc
    <3> HIDE DEF s
    <3> QED BY <2>2 DEF AnyAcc
  <2>4. /\ b.tools = a.tools /\ b.ready = a.ready /\ b.members = a.members /\ b.withheld = a.withheld
        /\ b.called = a.called /\ b.unknown = a.unknown /\ b.input = s
    BY DEF AnyAcc
  <2> HIDE DEF b
  <2>5. Admits(a, b, x) /\ Extends(a, b, x)
    BY <1>6, <2>4 DEF Admits, Extends
  <2> QED BY <1>6, <2>1, <2>3, <2>4, <2>5, PreparesSame
<1> QED BY <1>1, <1>2, <1>3, <1>4, <1>5, <1>6

-----------------------------------------------------------------------------
(* The request as it was declared.                                         *)

\* A sequence with as many values as places has no value twice.
LEMMA AllDifferent ==
  ASSUME NEW s, NEW n \in Nat, DOMAIN s = 1 .. n, NEW V, V = {s[i] : i \in 1 .. n}, Cardinality(V) = n,
         NEW i \in 1 .. n, NEW j \in 1 .. n, s[i] = s[j]
  PROVE  i = j
<1> DEFINE g == [k \in 1 .. n |-> s[k]]
<1>1. IsFiniteSet(1 .. n) /\ Cardinality(1 .. n) = n
  BY FS_Interval
<1>2. g \in Surjection(1 .. n, V)
  BY DEF Surjection
<1>3. g \in Injection(1 .. n, V)
  BY <1>1, <1>2, FS_SurjSameCardinalityImpliesInj
<1> QED BY <1>3 DEF Injection, IsInjective

\* The members of a declared namespace have different names.
LEMMA NamespaceMembersDiffer ==
  ASSUME NEW t \in AnyTool, t.kind = "namespace", ~BadNamespace(t),
         NEW k \in DOMAIN t.members, NEW l \in DOMAIN t.members, t.members[k].name = t.members[l].name
  PROVE  k = l
<1> DEFINE n == Len(t.members)
           s == [i \in 1 .. n |-> t.members[i].name]
<1>1. t.members \in Seq(AnyMember)
  BY ToolIs
<1>2. n \in Nat /\ DOMAIN t.members = 1 .. n
  BY <1>1
<1>3. MemberNames(t) = {s[i] : i \in 1 .. n}
  BY <1>2 DEF MemberNames
<1>4. Cardinality(MemberNames(t)) = n
  BY DEF BadNamespace
<1>5. s[k] = s[l] /\ DOMAIN s = 1 .. n
  BY <1>2
<1> HIDE DEF n, s
<1> QED BY <1>2, <1>3, <1>4, <1>5, AllDifferent

\* A member with or without deferral.
MemberWhere(tools, p, d) ==
    \E i \in DOMAIN tools :
        /\ tools[i].kind = "namespace"
        /\ \E k \in DOMAIN tools[i].members :
                tools[i].members[k].defer = d /\ <<tools[i].name, tools[i].members[k].name>> = p

\* MembersWhere, member by member.
LEMMA MembersAre ==
  /\ \A tools, p : p \in MembersWhere(tools, TRUE) <=> MemberWhere(tools, p, TRUE)
  /\ \A tools, p : p \in MembersWhere(tools, FALSE) <=> MemberWhere(tools, p, FALSE)
  BY DEF MembersWhere, MemberWhere

\* What is withheld at first is what is deferred.
LEMMA WithheldAre ==
  \A tools, n : n \in InitiallyWithheld(tools) <=>
      Deferred(tools, n) \/ \E p \in MembersWhere(tools, TRUE) : Flat(p[1], p[2]) = n
  BY DEF InitiallyWithheld, Deferred

\* It is a member all the same.
LEMMA WhereMembers ==
  ASSUME NEW tools, NEW p, NEW d, MemberWhere(tools, p, d) PROVE p \in MembersOf(tools)
BY PairsAre DEF MemberWhere, MemberNames

\* A defined name is a name.
LEMMA HasTyped ==
  ASSUME NEW tools \in Seq(AnyTool), NEW n, Has(tools, n)
  PROVE  n \in AnyName
<1>1. \A i \in DOMAIN tools : tools[i] \in AnyTool
  OBVIOUS
<1>2. CASE HasFunction(tools, n)
  BY <1>1, <1>2, ToolIs DEF HasFunction
<1>3. CASE HasMember(tools, n)
  <2>1. PICK i \in DOMAIN tools : tools[i].kind = "namespace" /\ n \in FlatNames(tools[i])
    BY <1>3, MembersFlat
  <2> QED BY <1>1, <2>1, FlatNamesTyped
<1> QED BY <1>2, <1>3 DEF Has

\* The records start well-formed.
LEMMA StartTyped == ASSUME NEW tools \in Seq(AnyTool) PROVE Start(tools) \in AnyAcc
<1>1. \A p : p \in MembersWhere(tools, TRUE) \cup MembersWhere(tools, FALSE) => p \in MembersOf(tools)
  BY MembersAre, WhereMembers
<1>a. \A i \in DOMAIN tools : tools[i] \in AnyTool
  OBVIOUS
<1>2. \A n : Deferred(tools, n) => HasFunction(tools, n)
  BY DEF Deferred, HasFunction
<1>3. MembersWhere(tools, FALSE) \in SUBSET (AnyName \X AnyName)
  BY <1>1, <1>a, MembersTyped
<1>4. InitiallyWithheld(tools) \in SUBSET AnyName
  BY <1>1, <1>2, HasTyped, WithheldAre DEF Has, HasMember
<1>5. << >> \in Seq(AnyTool) /\ << >> \in Seq(AnyItem)
  OBVIOUS
<1>6. DefinitionsInvalid(tools) \in BOOLEAN
  BY DEF DefinitionsInvalid
<1> QED BY <1>3, <1>4, <1>5, <1>6 DEF Start, AnyAcc, NoId

\* What the records start from is coherent.
LEMMA StartSound ==
  ASSUME NEW tools \in Seq(AnyTool), ~DefinitionsInvalid(tools)
  PROVE  Coherent(Start(tools))
<1>0. \A i \in DOMAIN tools : tools[i] \in AnyTool
  OBVIOUS
<1>1. Unique(tools)
  <2> SUFFICES ASSUME NEW i \in DOMAIN tools, NEW j \in DOMAIN tools, i < j,
                      Definition(tools[i]), Definition(tools[j]), tools[i].name = tools[j].name
               PROVE  FALSE
    <3>1. \A i, j \in DOMAIN tools : i < j \/ i = j \/ j < i
      OBVIOUS
    <3> QED BY <3>1 DEF Unique
  <2>1. i \in 1 .. (j - 1)
    OBVIOUS
  <2> QED BY <2>1 DEF DefinitionsInvalid
<1>2. /\ Start(tools).tools = tools /\ Start(tools).ready = {}
      /\ Start(tools).members = MembersWhere(tools, FALSE)
      /\ Start(tools).withheld = InitiallyWithheld(tools)
  BY DEF Start
<1>3. \A p \in MembersOf(tools) : p \in MembersWhere(tools, FALSE) \cup MembersWhere(tools, TRUE)
  <2> SUFFICES ASSUME NEW p \in MembersOf(tools) PROVE p \in MembersWhere(tools, FALSE) \cup MembersWhere(tools, TRUE)
    OBVIOUS
  <2>1. PICK i \in DOMAIN tools : tools[i].kind = "namespace" /\ \E m \in MemberNames(tools[i]) : p = <<tools[i].name, m>>
    BY PairsAre
  <2>2. PICK k \in DOMAIN tools[i].members : <<tools[i].name, tools[i].members[k].name>> = p
    BY <2>1 DEF MemberNames
  <2>3. tools[i].members[k] \in AnyMember
    <3>1. tools[i].members \in Seq(AnyMember)
      BY <1>0, ToolIs
    <3> QED BY <3>1
  <2>4. tools[i].members[k].defer \in BOOLEAN
    BY <2>3 DEF AnyMember
  <2>5. CASE tools[i].members[k].defer = TRUE
    BY <2>1, <2>2, <2>5, MembersAre DEF MemberWhere
  <2>6. CASE tools[i].members[k].defer = FALSE
    BY <2>1, <2>2, <2>6, MembersAre DEF MemberWhere
  <2> QED BY <2>4, <2>5, <2>6
<1>4. \A p : p \in MembersWhere(tools, TRUE) => p \in MembersOf(tools) /\ p \notin MembersWhere(tools, FALSE)
  <2> SUFFICES ASSUME NEW p, p \in MembersWhere(tools, TRUE), p \in MembersWhere(tools, FALSE) PROVE FALSE
    BY MembersAre, WhereMembers
  <2>0. MemberWhere(tools, p, TRUE) /\ MemberWhere(tools, p, FALSE)
    BY MembersAre
  <2>1. PICK i \in DOMAIN tools : tools[i].kind = "namespace"
                /\ \E k \in DOMAIN tools[i].members :
                        tools[i].members[k].defer = TRUE /\ <<tools[i].name, tools[i].members[k].name>> = p
    BY <2>0 DEF MemberWhere
  <2>2. PICK k \in DOMAIN tools[i].members :
                tools[i].members[k].defer = TRUE /\ <<tools[i].name, tools[i].members[k].name>> = p
    BY <2>1
  <2>3. PICK j \in DOMAIN tools : tools[j].kind = "namespace"
                /\ \E l \in DOMAIN tools[j].members :
                        tools[j].members[l].defer = FALSE /\ <<tools[j].name, tools[j].members[l].name>> = p
    BY <2>0 DEF MemberWhere
  <2>4. PICK l \in DOMAIN tools[j].members :
                tools[j].members[l].defer = FALSE /\ <<tools[j].name, tools[j].members[l].name>> = p
    BY <2>3
  <2>5. tools[i].name = tools[j].name /\ tools[i].members[k].name = tools[j].members[l].name
    BY <2>2, <2>4
  <2>6. i = j
    BY <1>1, <2>1, <2>3, <2>5 DEF Unique, Definition
  <2>7. ~BadNamespace(tools[i])
    BY <2>1 DEF DefinitionsInvalid, Definition
  <2>8. k = l
    BY <1>0, <2>1, <2>2, <2>4, <2>5, <2>6, <2>7, NamespaceMembersDiffer
  <2> QED BY <2>2, <2>4, <2>6, <2>8
<1>5. \A p \in MembersOf(tools) : p \in MembersWhere(tools, FALSE) \/ Flat(p[1], p[2]) \in InitiallyWithheld(tools)
  BY <1>3, WithheldAre
<1>6. \A n \in InitiallyWithheld(tools) :
        Deferred(tools, n) \/ \E p \in MembersOf(tools) : Flat(p[1], p[2]) = n /\ p \notin MembersWhere(tools, FALSE)
  BY <1>4, WithheldAre
<1> QED BY <1>1, <1>2, <1>5, <1>6, WithheldAre DEF Coherent

\* What is usable at first was declared without deferral.
LEMMA StartUsable ==
  \A tools, n : Usable(Start(tools), n) <=> n \in Immediate(tools)
<1>1. \A tools : Start(tools).tools = tools /\ Start(tools).withheld = InitiallyWithheld(tools)
  BY DEF Start
<1> QED BY <1>1, DefinedAre DEF Usable, Immediate

-----------------------------------------------------------------------------
(* The history and the items it is prepared from.                          *)

\* y is among the items.
Lists(items, y) == \E i \in DOMAIN items : items[i] = y

\* The same listings are among both.
SameListings(s, t) ==
    \A y \in AnyItem : y.type = "mcp_list_tools" => (Lists(s, y) <=> Lists(t, y))

\* What is among two sequences together.
LEMMA ListsBoth ==
  ASSUME NEW S, NEW s \in Seq(S), NEW t \in Seq(S), NEW y
  PROVE  Lists(s \o t, y) <=> Lists(s, y) \/ Lists(t, y)
<1>1. /\ DOMAIN (s \o t) = 1 .. (Len(s) + Len(t)) /\ DOMAIN s = 1 .. Len(s) /\ DOMAIN t = 1 .. Len(t)
      /\ Len(s) \in Nat /\ Len(t) \in Nat
  OBVIOUS
<1>2. \A i \in DOMAIN (s \o t) : (s \o t)[i] = IF i <= Len(s) THEN s[i] ELSE t[i - Len(s)]
  OBVIOUS
<1>3. ASSUME Lists(s, y) PROVE Lists(s \o t, y)
  <2>1. PICK i \in DOMAIN s : s[i] = y
    BY <1>3 DEF Lists
  <2>2. i \in DOMAIN (s \o t) /\ (s \o t)[i] = y
    BY <1>1, <1>2, <2>1
  <2> QED BY <2>2 DEF Lists
<1>4. ASSUME Lists(t, y) PROVE Lists(s \o t, y)
  <2>1. PICK i \in DOMAIN t : t[i] = y
    BY <1>4 DEF Lists
  <2>2. i + Len(s) \in DOMAIN (s \o t) /\ (s \o t)[i + Len(s)] = t[(i + Len(s)) - Len(s)]
    BY <1>1, <1>2, <2>1
  <2>3. (i + Len(s)) - Len(s) = i
    BY <1>1, <2>1
  <2> QED BY <2>1, <2>2, <2>3 DEF Lists
<1>5. ASSUME Lists(s \o t, y) PROVE Lists(s, y) \/ Lists(t, y)
  <2>1. PICK i \in DOMAIN (s \o t) : (s \o t)[i] = y
    BY <1>5 DEF Lists
  <2>2. CASE i <= Len(s)
    <3>1. i \in DOMAIN s /\ s[i] = y
      BY <1>1, <1>2, <2>1, <2>2
    <3> QED BY <3>1 DEF Lists
  <2>3. CASE ~(i <= Len(s))
    <3>1. i - Len(s) \in DOMAIN t /\ t[i - Len(s)] = y
      BY <1>1, <1>2, <2>1, <2>3
    <3> QED BY <3>1 DEF Lists
  <2> QED BY <2>2, <2>3
<1> QED BY <1>3, <1>4, <1>5

\* The model is shown no listing.
LEMMA ModelInputIs ==
  ASSUME NEW items \in Seq(AnyItem)
  PROVE  /\ ModelInput(items) \in Seq(AnyItem)
         /\ \A k \in DOMAIN ModelInput(items) : ModelInput(items)[k].type # "mcp_list_tools"
<1> DEFINE last == Max({0} \cup {i \in DOMAIN items : items[i].type = "compaction"})
           places == {i \in DOMAIN items :
                        i >= last /\ items[i].type \notin {"mcp_list_tools", "compaction_trigger"}}
<1>1. ModelInput(items) = At(items, places)
  BY DEF ModelInput
<1>2. \A i \in places : items[i].type # "mcp_list_tools"
  OBVIOUS
<1> HIDE DEF places
<1>3. At(items, places) \in Seq(AnyItem)
  BY AtRange
<1>4. \A k \in DOMAIN At(items, places) : \E i \in DOMAIN items : i \in places /\ At(items, places)[k] = items[i]
  BY AtRange
<1> QED BY <1>1, <1>2, <1>3, <1>4

\* The listings of a history are all its listings.
LEMMA ListingsAre ==
  ASSUME NEW items \in Seq(AnyItem)
  PROVE  /\ At(items, Listings(items)) \in Seq(AnyItem)
         /\ SameListings(At(items, Listings(items)), items)
<1> DEFINE places == Listings(items)
           r == At(items, places)
<1>1. r \in Seq(AnyItem)
  BY AtRange
<1>2. \A k \in DOMAIN r : \E i \in DOMAIN items : r[k] = items[i]
  BY AtRange
<1>3. \A i \in places : i \in Listings(items)
  OBVIOUS
<1> HIDE DEF places
<1>4. \A i \in DOMAIN items : i \in places => \E k \in DOMAIN r : r[k] = items[i]
  BY <1>3, AtRange
<1> HIDE DEF r
<1>5. \A y : Lists(r, y) => Lists(items, y)
  BY <1>2 DEF Lists
<1>6. \A y : y.type = "mcp_list_tools" /\ Lists(items, y) => Lists(r, y)
  BY <1>4 DEF Lists, Listings, places
<1> QED BY <1>1, <1>5, <1>6 DEF SameListings, r, places

\* The active input keeps every listing.
LEMMA ActiveInputIs ==
  ASSUME NEW items \in Seq(AnyItem)
  PROVE  ActiveInput(items) \in Seq(AnyItem) /\ SameListings(ActiveInput(items), items)
<1> DEFINE m == ModelInput(items)
           r == At(items, Listings(items))
<1>1. m \in Seq(AnyItem) /\ \A k \in DOMAIN m : m[k].type # "mcp_list_tools"
  BY ModelInputIs
<1>2. r \in Seq(AnyItem) /\ SameListings(r, items)
  BY ListingsAre
<1>3. ActiveInput(items) = m \o r
  BY DEF ActiveInput
<1> HIDE DEF m, r
<1>4. m \o r \in Seq(AnyItem)
  BY <1>1, <1>2
<1>5. \A y : Lists(m \o r, y) <=> Lists(m, y) \/ Lists(r, y)
  BY <1>1, <1>2, ListsBoth
<1>6. \A y : y.type = "mcp_list_tools" => ~Lists(m, y)
  BY <1>1 DEF Lists
<1> QED BY <1>2, <1>3, <1>4, <1>5, <1>6 DEF SameListings

\* So does the history of a session.
LEMMA CanonicalizedIs ==
  ASSUME NEW items \in Seq(AnyItem)
  PROVE  Canonicalized(items) \in Seq(AnyItem) /\ SameListings(Canonicalized(items), items)
<1> DEFINE last == Max({0} \cup {i \in DOMAIN items : items[i].type = "compaction"})
           places == {i \in DOMAIN items : i >= last} \cup Listings(items)
           r == At(items, places)
<1>1. Canonicalized(items) = r
  BY DEF Canonicalized
<1>2. \A i \in Listings(items) : i \in places
  OBVIOUS
<1> HIDE DEF places
<1>3. r \in Seq(AnyItem)
  BY AtRange
<1>4. \A k \in DOMAIN r : \E i \in DOMAIN items : r[k] = items[i]
  BY AtRange
<1>5. \A i \in DOMAIN items : i \in Listings(items) => \E k \in DOMAIN r : r[k] = items[i]
  BY <1>2, AtRange
<1> HIDE DEF r
<1>6. \A y : Lists(r, y) => Lists(items, y)
  BY <1>4 DEF Lists
<1>7. \A y : y.type = "mcp_list_tools" /\ Lists(items, y) => Lists(r, y)
  BY <1>5 DEF Lists, Listings
<1> QED BY <1>1, <1>3, <1>6, <1>7 DEF SameListings

\* The records on the way through the history.
Walk(tr, acc, items) ==
    /\ tr[0] = acc
    /\ \A i \in 0 .. Len(items) : tr[i] \in AnyAcc
    /\ \A i \in 1 .. Len(items) : Prepares(tr[i - 1], tr[i], items[i])

\* A history leads from record to record.
LEMMA HistoryWalk ==
  ASSUME NEW acc \in AnyAcc, NEW items \in Seq(AnyItem)
  PROVE  \E tr : Walk(tr, acc, items) /\ PrepareHistory(acc, items) = Settled(tr[Len(items)])
<1> DEFINE n == Len(items)
<1>1. PICK tr : /\ tr[0] = acc /\ tr[n] = Preparing!Fold(acc, items)
                /\ \A i \in 1 .. n : tr[i] = PrepareItem(tr[i - 1], items[i])
  BY Preparing!FoldTrace
<1>2. n \in Nat /\ \A i \in 1 .. n : items[i] \in AnyItem
  OBVIOUS
<1> DEFINE B == {i \in 0 .. n : \A j \in 0 .. i : tr[j] \in AnyAcc}
<1> HIDE DEF n
<1>3. 0 \in B
  <2>1. \A j \in 0 .. 0 : j = 0
    OBVIOUS
  <2> QED BY <1>1, <1>2, <2>1
<1>4. ASSUME NEW i \in 1 .. n, i - 1 \in B PROVE i \in B
  <2>0. i - 1 \in 0 .. (i - 1)
    BY <1>2
  <2>1. tr[i - 1] \in AnyAcc
    BY <1>4, <2>0
  <2>2. tr[i] \in AnyAcc
    <3>1. Prepares(tr[i - 1], PrepareItem(tr[i - 1], items[i]), items[i])
      BY <1>2, <2>1, ItemPrepares
    <3> QED BY <1>1, <3>1 DEF Prepares
  <2>3. \A j \in 0 .. i : j = i \/ j \in 0 .. (i - 1)
    BY <1>2
  <2>4. i \in 0 .. n
    BY <1>2
  <2> QED BY <1>4, <2>2, <2>3, <2>4
<1>5. n \in B
  <2> HIDE DEF B
  <2> QED BY <1>2, <1>3, <1>4, Preparing!Upwards
<1>6. \A i \in 0 .. n : tr[i] \in AnyAcc
  BY <1>5
<1>7. ASSUME NEW i \in 1 .. n PROVE Prepares(tr[i - 1], tr[i], items[i])
  <2>1. i - 1 \in 0 .. n
    BY <1>2
  <2>2. Prepares(tr[i - 1], PrepareItem(tr[i - 1], items[i]), items[i])
    BY <1>2, <1>6, <2>1, ItemPrepares
  <2> QED BY <1>1, <2>2
<1>8. PrepareHistory(acc, items) = Settled(tr[n])
  BY <1>1, PrepareFold DEF PrepareHistory
<1> QED BY <1>1, <1>6, <1>7, <1>8 DEF Walk, n

-----------------------------------------------------------------------------
(* What the history leaves.                                                *)

\* What was called or unknown at some point is not defined from then on.
Follows(a, b) ==
    /\ ~a.error
    /\ Grown(a.tools, b.tools)
    /\ Sound(a) => Sound(b)
    /\ a.called \subseteq b.called /\ a.unknown \subseteq b.unknown
    /\ \A n \in a.called : Has(b.tools, n) => Has(a.tools, n)
    /\ \A p \in a.unknown : p \in MembersOf(b.tools) => p \in MembersOf(a.tools)

\* Nothing happened.
LEMMA FollowsItself == ASSUME NEW a, ~a.error PROVE Follows(a, a)
  BY DEF Follows, Grown

\* One stretch of the history after another.
LEMMA FollowsOn ==
  ASSUME NEW a, NEW b, NEW c, Follows(a, b), Follows(b, c)
  PROVE  Follows(a, c)
<1>1. Grown(a.tools, c.tools)
  BY GrownTrans DEF Follows
<1> QED BY <1>1 DEF Follows

\* Every record of an accepted history leads to the last.
LEMMA WalkFollows ==
  ASSUME NEW tr, NEW acc, NEW items \in Seq(AnyItem), Walk(tr, acc, items),
         NEW i \in 0 .. Len(items), ~tr[Len(items)].error
  PROVE  Follows(tr[i], tr[Len(items)])
<1> DEFINE n == Len(items)
           B == {k \in 0 .. n : ~tr[k].error => \A j \in 0 .. k : Follows(tr[j], tr[k])}
<1>1. n \in Nat
  OBVIOUS
<1>2. \A k \in 1 .. n : Prepares(tr[k - 1], tr[k], items[k])
  BY DEF Walk
<1> HIDE DEF n
<1>3. 0 \in B
  <2>1. \A j \in 0 .. 0 : j = 0
    OBVIOUS
  <2> QED BY <1>1, <2>1, FollowsItself
<1>4. ASSUME NEW k \in 1 .. n, k - 1 \in B PROVE k \in B
  <2>1. k \in 0 .. n
    BY <1>1
  <2> SUFFICES ASSUME ~tr[k].error, NEW j \in 0 .. k PROVE Follows(tr[j], tr[k])
    BY <2>1
  <2>2. Follows(tr[k - 1], tr[k])
    BY <1>2 DEF Follows, Prepares
  <2>3. CASE j = k
    BY <2>3, FollowsItself
  <2>4. CASE j # k
    <3>1. j \in 0 .. (k - 1)
      BY <1>1, <2>4
    <3>2. ~tr[k - 1].error
      BY <2>2 DEF Follows
    <3>3. Follows(tr[j], tr[k - 1])
      BY <1>4, <3>1, <3>2
    <3> QED BY <2>2, <3>3, FollowsOn
  <2> QED BY <2>3, <2>4
<1>5. n \in B
  <2> HIDE DEF B
  <2> QED BY <1>1, <1>3, <1>4, Preparing!Upwards
<1> QED BY <1>5 DEF n

\* What can be called was callable from the start or was found by a search.
LEMMA WalkUsable ==
  ASSUME NEW tr, NEW acc, NEW items \in Seq(AnyItem), Walk(tr, acc, items),
         NEW i \in 0 .. Len(items), ~tr[i].error, NEW m, Usable(tr[i], m)
  PROVE  Usable(acc, m) \/ \E j \in 1 .. i : m \in DefinedNames(items[j].tools)
<1> DEFINE n == Len(items)
           Found(k) == Usable(acc, m) \/ \E j \in 1 .. k : m \in DefinedNames(items[j].tools)
           B == {k \in 0 .. n : ~tr[k].error /\ Usable(tr[k], m) => Found(k)}
<1>1. n \in Nat /\ i \in Nat /\ i <= n
  OBVIOUS
<1>2. tr[0] = acc /\ \A k \in 1 .. n : Prepares(tr[k - 1], tr[k], items[k])
  BY DEF Walk
<1> HIDE DEF n
<1>3. 0 \in B
  BY <1>1, <1>2
<1>4. ASSUME NEW k \in 1 .. i, k - 1 \in B PROVE k \in B
  <2>1. k \in 0 .. n /\ k \in 1 .. n /\ k \in 1 .. k /\ \A j \in 1 .. (k - 1) : j \in 1 .. k
    BY <1>1
  <2> SUFFICES ASSUME ~tr[k].error, Usable(tr[k], m) PROVE Found(k)
    BY <2>1
  <2>2. ~tr[k - 1].error /\ (Usable(tr[k - 1], m) \/ m \in DefinedNames(items[k].tools))
    BY <1>2, <2>1 DEF Prepares
  <2>3. CASE m \in DefinedNames(items[k].tools)
    BY <2>1, <2>3
  <2>4. CASE Usable(tr[k - 1], m)
    <3>1. Found(k - 1)
      BY <1>4, <2>2, <2>4
    <3> QED BY <2>1, <3>1
  <2> QED BY <2>2, <2>3, <2>4
<1>5. i \in B
  <2> HIDE DEF B
  <2> QED BY <1>1, <1>3, <1>4, Preparing!Upwards
<1> QED BY <1>5

\* What is among the items after one more.
LEMMA ListsAppended ==
  ASSUME NEW S, NEW s \in Seq(S), NEW e \in S, NEW y
  PROVE  Lists(Append(s, e), y) <=> Lists(s, y) \/ e = y
<1> DEFINE t == Append(s, e)
           c == Len(s)
<1>1. /\ c \in Nat /\ DOMAIN s = 1 .. c /\ DOMAIN t = 1 .. (c + 1) /\ t[c + 1] = e
      /\ \A i \in 1 .. c : t[i] = s[i]
  OBVIOUS
<1> HIDE DEF t, c
<1>2. c + 1 \in 1 .. (c + 1) /\ \A i \in 1 .. (c + 1) : i = c + 1 \/ i \in 1 .. c
  BY <1>1
<1>3. \A i \in 1 .. c : i \in 1 .. (c + 1)
  BY <1>1
<1> QED BY <1>1, <1>2, <1>3 DEF Lists, t

\* The listings are passed on, each of them and no other.
LEMMA WalkListings ==
  ASSUME NEW tr, NEW acc, NEW items \in Seq(AnyItem), Walk(tr, acc, items), acc.input = << >>,
         ~tr[Len(items)].error
  PROVE  SameListings(tr[Len(items)].input, items)
<1> DEFINE n == Len(items)
<1>1. n \in Nat /\ DOMAIN items = 1 .. n
  OBVIOUS
<1>2. /\ tr[0] = acc /\ \A k \in 1 .. n : Prepares(tr[k - 1], tr[k], items[k])
      /\ \A k \in 0 .. n : tr[k] \in AnyAcc
  BY DEF Walk
<1> SUFFICES ASSUME NEW y \in AnyItem, y.type = "mcp_list_tools"
             PROVE  Lists(tr[n].input, y) <=> Lists(items, y)
  BY DEF SameListings
<1> DEFINE Seen(k) == \E j \in 1 .. k : items[j] = y
           B == {k \in 0 .. n : ~tr[k].error => (Lists(tr[k].input, y) <=> Seen(k))}
<1> HIDE DEF n
<1>3. 0 \in B
  <2>1. \A j \in 1 .. 0 : FALSE
    OBVIOUS
  <2>2. ~Lists(<< >>, y)
    BY DEF Lists
  <2> QED BY <1>1, <1>2, <2>1, <2>2
<1>4. ASSUME NEW k \in 1 .. n, k - 1 \in B PROVE k \in B
  <2>1. k \in 0 .. n /\ k - 1 \in 0 .. n
    BY <1>1
  <2> SUFFICES ASSUME ~tr[k].error PROVE Lists(tr[k].input, y) <=> Seen(k)
    BY <2>1
  <2>2. ~tr[k - 1].error /\ Extends(tr[k - 1], tr[k], items[k])
    BY <1>2 DEF Prepares
  <2>3. Lists(tr[k - 1].input, y) <=> Seen(k - 1)
    BY <1>4, <2>2
  <2>4. Seen(k) <=> Seen(k - 1) \/ items[k] = y
    <3>1. k \in 1 .. k /\ (\A j \in 1 .. (k - 1) : j \in 1 .. k) /\ \A j \in 1 .. k : j = k \/ j \in 1 .. (k - 1)
      BY <1>1
    <3> QED BY <3>1
  <2> HIDE DEF Seen, B
  <2>5. CASE items[k].type # "mcp_list_tools" /\ tr[k].input = tr[k - 1].input
    BY <2>3, <2>4, <2>5
  <2>6. ASSUME NEW z \in AnyItem, tr[k].input = Append(tr[k - 1].input, z),
               (items[k].type = "mcp_list_tools" \/ z.type = "mcp_list_tools") => z = items[k]
        PROVE  Lists(tr[k].input, y) <=> Seen(k)
    <3>1. tr[k - 1].input \in Seq(AnyItem)
      <4>1. tr[k - 1] \in AnyAcc
        BY <1>2, <2>1
      <4> QED BY <4>1 DEF AnyAcc
    <3>2. Lists(tr[k].input, y) <=> Lists(tr[k - 1].input, y) \/ z = y
      BY <2>6, <3>1, ListsAppended
    <3>3. z = y <=> items[k] = y
      BY <2>6
    <3> QED BY <2>3, <2>4, <3>2, <3>3
  <2> QED BY <2>2, <2>5, <2>6 DEF Extends
<1>5. n \in B
  <2> HIDE DEF B
  <2> QED BY <1>1, <1>3, <1>4, Preparing!Upwards
<1>6. Lists(items, y) <=> Seen(n)
  BY <1>1 DEF Lists
<1> QED BY <1>5, <1>6 DEF n

-----------------------------------------------------------------------------
(* What the gateway makes of a request.                                    *)

\* restore_loaded_definitions loads the restored definitions at most.
LEMMA RestoresTyped ==
  ASSUME NEW tools \in Seq(AnyTool), NEW restored \in Seq(AnyTool), NEW only
  PROVE  Loads(Start(tools), RestoreDefinitions(Start(tools), restored, only), DefinedNames(restored))
<1>1. Start(tools) \in AnyAcc
  BY StartTyped
<1>2. /\ Loads(Start(tools), FoldLeft(LoadDefinition, Start(tools), restored), DefinedNames(restored))
      /\ Loads(Start(tools), FoldLeft(LoadDeclared, Start(tools), restored), DefinedNames(restored))
  BY <1>1, LoadsAll
<1> QED BY <1>2 DEF RestoreDefinitions

\* The definitions after a declaration and a restoration that went well.
LEMMA RestoredIs ==
  ASSUME NEW tools \in Seq(AnyTool), NEW restored \in Seq(AnyTool), NEW only, NEW acc,
         acc = RestoreDefinitions(Start(tools), restored, only)
  PROVE  /\ acc \in AnyAcc
         /\ ~acc.error => /\ Sound(acc) /\ acc.input = << >>
                          /\ \A n : Usable(acc, n) => n \in Immediate(tools) \cup DefinedNames(restored)
<1> DEFINE start == Start(tools)
<1>1. Loads(start, acc, DefinedNames(restored))
  BY RestoresTyped
<1>2. acc \in AnyAcc
  BY <1>1 DEF Loads
<1>3. ASSUME ~acc.error PROVE /\ Sound(acc) /\ acc.input = << >>
                              /\ \A n : Usable(acc, n) => n \in Immediate(tools) \cup DefinedNames(restored)
  <2>1. /\ ~start.error /\ acc.input = start.input /\ (Sound(start) => Sound(acc))
        /\ \A n : Usable(acc, n) => Usable(start, n) \/ n \in DefinedNames(restored)
    BY <1>1, <1>3 DEF Loads
  <2>2. start.error = DefinitionsInvalid(tools) /\ start.input = << >>
    BY DEF Start
  <2>3. Sound(start)
    BY <2>1, <2>2, StartSound DEF Sound
  <2>4. \A n : Usable(start, n) => n \in Immediate(tools)
    BY StartUsable
  <2> HIDE DEF start
  <2> QED BY <2>1, <2>2, <2>3, <2>4
<1> QED BY <1>2, <1>3

\* Each call of the history the model is shown comes after what it names.
Ordered(known, items, tools, restored) ==
    LET window == ModelInput(items)
    IN  \A i \in DOMAIN window :
            window[i].type = "function_call" /\ Names(known, window[i]) # {}
            => Names(known, window[i])
                \cap (Immediate(tools)
                        \cup DefinedNames(restored)
                        \cup UNION {DefinedNames(window[j].tools) : j \in 1..(i - 1)}) # {}

\* The names a call stands for are the names the gateway takes it for.
LEMMA NamesAre ==
  ASSUME NEW tools, NEW x
  PROVE  \A n : n \in Names(tools, x) <=>
                  \/ x.namespace = Absent /\ n = x.name /\ Has(tools, n)
                  \/ x.namespace # Absent /\ n = Flat(x.namespace, x.name) /\ <<x.namespace, x.name>> \in MembersOf(tools)
<1>1. CASE x.namespace = Absent
  BY <1>1, DefinedAre DEF Names
<1>2. CASE x.namespace # Absent
  BY <1>2 DEF Names
<1> QED BY <1>1, <1>2

\* A call is of something that could be called when it came.
LEMMA CallUsable ==
  ASSUME NEW a, NEW b, NEW end, NEW x \in AnyItem, x.type = "function_call",
         Prepares(a, b, x), Follows(a, end), Follows(b, end), Sound(a), ~NamespaceCollision(end.tools),
         NEW n, n \in Names(end.tools, x)
  PROVE  Usable(a, n)
<1>1. Admits(a, b, x) /\ ~a.error
  BY DEF Prepares, Follows
<1>2. CASE x.namespace = Absent
  <2>1. n = x.name /\ Has(end.tools, n)
    BY <1>2, NamesAre
  <2>2. n \in b.called /\ b.tools = a.tools
    BY <1>1, <1>2, <2>1 DEF Admits
  <2>3. Has(a.tools, n)
    BY <2>1, <2>2 DEF Follows
  <2> QED BY <1>1, <1>2, <2>1, <2>3 DEF Admits
<1>3. CASE x.namespace # Absent
  <2> DEFINE member == <<x.namespace, x.name>>
  <2>1. n = Flat(member[1], member[2]) /\ member \in MembersOf(end.tools)
    BY <1>3, NamesAre
  <2>2. b.tools = a.tools
    BY <1>1 DEF Admits
  <2>3. \/ member \in a.members /\ member \in MembersOf(a.tools)
        \/ member \in b.unknown /\ member \notin MembersOf(a.tools)
    BY <1>1, <1>3 DEF Admits
  <2> HIDE DEF member
  <2>4. member \in b.unknown => member \in MembersOf(b.tools)
    BY <2>1 DEF Follows
  <2>5. member \in a.members /\ member \in MembersOf(a.tools)
    BY <2>2, <2>3, <2>4
  <2>6. ~NamespaceCollision(a.tools)
    BY GrownCollides DEF Follows
  <2>7. Coherent(a)
    BY <2>6 DEF Sound
  <2>a. HasMember(a.tools, n)
    BY <2>1, <2>5 DEF HasMember
  <2>8. ~Deferred(a.tools, n)
    <3>1. ~HasFunction(a.tools, n)
      BY <2>a, <2>6, Collides
    <3> QED BY <3>1 DEF Deferred, HasFunction
  <2>b. \A p \in MembersOf(a.tools) : Flat(p[1], p[2]) = n => p = member
    BY <2>1, <2>5, <2>6, Collides DEF Apart
  <2>9. n \notin a.withheld
    BY <2>5, <2>7, <2>8, <2>b DEF Coherent
  <2> QED BY <2>a, <2>9 DEF Usable, Has
<1> QED BY <1>2, <1>3

\* Every record of an accepted history is coherent, unless names collide.
LEMMA WalkSound ==
  ASSUME NEW tr, NEW acc, NEW items \in Seq(AnyItem), Walk(tr, acc, items), Sound(acc),
         NEW i \in 0 .. Len(items), ~tr[i].error
  PROVE  Sound(tr[i])
<1> DEFINE n == Len(items)
           B == {k \in 0 .. n : ~tr[k].error => Sound(tr[k])}
<1>1. n \in Nat /\ i \in Nat /\ i <= n
  OBVIOUS
<1>2. tr[0] = acc /\ \A k \in 1 .. n : Prepares(tr[k - 1], tr[k], items[k])
  BY DEF Walk
<1> HIDE DEF n
<1>3. 0 \in B
  BY <1>1, <1>2
<1>4. ASSUME NEW k \in 1 .. i, k - 1 \in B PROVE k \in B
  <2>1. k \in 0 .. n /\ k \in 1 .. n
    BY <1>1
  <2> QED BY <1>2, <1>4, <2>1 DEF Prepares
<1>5. i \in B
  <2> HIDE DEF B
  <2> QED BY <1>1, <1>3, <1>4, Preparing!Upwards
<1> QED BY <1>5

\* So each call of an accepted history comes after what it names.
LEMMA WalkOrdered ==
  ASSUME NEW tools \in Seq(AnyTool), NEW restored, NEW items \in Seq(AnyItem), NEW tr, NEW acc,
         Walk(tr, acc, ActiveInput(items)), Sound(acc),
         \A n : Usable(acc, n) => n \in Immediate(tools) \cup DefinedNames(restored),
         NEW end, end = tr[Len(ActiveInput(items))], ~end.error, ~NamespaceCollision(end.tools)
  PROVE  Ordered(end.tools, items, tools, restored)
<1> DEFINE window == ModelInput(items)
           history == ActiveInput(items)
<1>1. window \in Seq(AnyItem) /\ history \in Seq(AnyItem)
  BY ModelInputIs, ActiveInputIs
<1>2. /\ \A j \in DOMAIN window : j \in DOMAIN history /\ history[j] = window[j]
      /\ DOMAIN window = 1 .. Len(window) /\ DOMAIN history = 1 .. Len(history)
      /\ Len(window) \in Nat /\ Len(history) \in Nat
  <2>1. At(items, Listings(items)) \in Seq(AnyItem)
    BY ListingsAre
  <2>2. history = window \o At(items, Listings(items))
    BY DEF ActiveInput
  <2> HIDE DEF window, history
  <2> QED BY <1>1, <2>1, <2>2
<1> HIDE DEF window, history
<1>3. Walk(tr, acc, history) /\ end = tr[Len(history)]
  BY DEF history
<1> SUFFICES ASSUME NEW i \in DOMAIN window, window[i].type = "function_call", NEW n,
                    n \in Names(end.tools, window[i]),
                    n \notin Immediate(tools), n \notin DefinedNames(restored)
             PROVE  \E j \in 1 .. (i - 1) : n \in DefinedNames(window[j].tools)
  <2> HIDE DEF Names
  <2> QED BY DEF Ordered, window
<1>4. /\ i \in 1 .. Len(history) /\ i \in 0 .. Len(history) /\ i - 1 \in 0 .. Len(history)
      /\ i \in Nat /\ Len(history) \in 0 .. Len(history)
  BY <1>2
<1>5. Prepares(tr[i - 1], tr[i], window[i])
  BY <1>2, <1>3, <1>4 DEF Walk
<1>6. Follows(tr[i - 1], end) /\ Follows(tr[i], end)
  BY <1>1, <1>3, <1>4, WalkFollows
<1>7. ~tr[i - 1].error
  BY <1>6 DEF Follows
<1>8. Sound(tr[i - 1])
  BY <1>1, <1>3, <1>4, <1>7, WalkSound
<1>9. window[i] \in AnyItem
  BY <1>1
<1>10. Usable(tr[i - 1], n)
  BY <1>5, <1>6, <1>8, <1>9, CallUsable
<1>11. Usable(acc, n) \/ \E j \in 1 .. (i - 1) : n \in DefinedNames(history[j].tools)
  BY <1>1, <1>3, <1>4, <1>7, <1>10, WalkUsable
<1>12. \A j \in 1 .. (i - 1) : j \in DOMAIN window
  BY <1>2, <1>4
<1> QED BY <1>2, <1>11, <1>12

\* A request that is left alone, or the views of coherent definitions.
Viewed(v, end) ==
    /\ end \in AnyAcc /\ Coherent(end) /\ ~NamespaceCollision(end.tools)
    /\ v.active = TRUE
    /\ v.effective = end.tools /\ v.private = PrivateTools(end) /\ v.loaded = end.loaded
    /\ v.withheld = end.withheld /\ v.catalog = Catalog(end) /\ v.input = end.input

\* What build_with_loaded_tools makes of a request that it accepts.
LEMMA BuildIs ==
  ASSUME NEW tools \in Seq(AnyTool), NEW restored \in Seq(AnyTool), NEW items \in Seq(AnyItem),
         NEW only, NEW parallel, NEW choice, NEW v,
         v = Build(tools, items, restored, only, parallel, choice), ~v.error
  PROVE  \/ v = Inactive(tools, items)
         \/ \E end : /\ Viewed(v, end)
                     /\ SameListings(end.input, items)
                     /\ Ordered(end.tools, items, tools, restored)
<1> DEFINE history == ActiveInput(items)
           acc == RestoreDefinitions(Start(tools), restored, only)
           last == PrepareHistory(acc, history)
<1>1. CASE ~Activates(tools, history)
  BY <1>1 DEF Build
<1>2. CASE Activates(tools, history) /\ RequestInvalid(tools, history, parallel)
  <2>1. v = Failed
    BY <1>2 DEF Build
  <2> QED BY <2>1 DEF Failed
<1>3. CASE Activates(tools, history) /\ ~RequestInvalid(tools, history, parallel)
  <2> DEFINE synthetic == Declarations(tools) # {}
  <2>1. v = Views(last, choice, synthetic)
    BY <1>3, Zenon DEF Build
  <2>2. history \in Seq(AnyItem) /\ SameListings(history, items)
    BY ActiveInputIs
  <2>3. acc \in AnyAcc /\ (~acc.error => /\ Sound(acc) /\ acc.input = << >>
                                         /\ \A n : Usable(acc, n) => n \in Immediate(tools) \cup DefinedNames(restored))
    BY RestoredIs
  <2>4. PICK tr : Walk(tr, acc, history) /\ last = Settled(tr[Len(history)])
    BY <2>2, <2>3, HistoryWalk
  <2> HIDE DEF acc, synthetic
  <2> DEFINE end == tr[Len(history)]
  <2>5. ~(last.error \/ NamespaceCollision(last.tools) \/ ChoiceWithheld(last, choice))
    <3> HIDE DEF last
    <3> QED BY <2>1 DEF Views, Failed
  <2>6. /\ v.active = TRUE
        /\ v.effective = last.tools /\ v.private = PrivateTools(last) /\ v.loaded = last.loaded
        /\ v.withheld = last.withheld /\ v.catalog = Catalog(last) /\ v.input = last.input
    <3> HIDE DEF last
    <3> QED BY <2>1, <2>5 DEF Views
  <2>7. Len(history) \in 0 .. Len(history) /\ 0 \in 0 .. Len(history)
    <3> HIDE DEF history
    <3> QED BY <2>2
  <2>8. end \in AnyAcc
    BY <2>4, <2>7, Zenon DEF Walk
  <2> HIDE DEF last, history
  <2>9. last = end /\ ~end.error
    <3>1. \A a \in AnyAcc : Settled(a) = a \/ Settled(a).error
      BY DEF Settled, Reject, AnyAcc
    <3>2. last = end
      BY <2>4, <2>5, <2>8, <3>1
    <3> QED BY <2>5, <3>2
  <2>10. ~acc.error
    <3>1. Follows(tr[0], end)
      BY <2>2, <2>4, <2>7, <2>9, WalkFollows
    <3> QED BY <2>4, <3>1 DEF Follows, Walk
  <2>11. Sound(end)
    BY <2>2, <2>3, <2>4, <2>7, <2>9, <2>10, WalkSound
  <2>12. Coherent(end) /\ ~NamespaceCollision(end.tools)
    BY <2>5, <2>9, <2>11 DEF Sound
  <2>13. SameListings(end.input, items)
    <3>1. SameListings(end.input, history)
      BY <2>2, <2>3, <2>4, <2>9, <2>10, WalkListings
    <3> QED BY <2>2, <3>1 DEF SameListings
  <2>14. Ordered(end.tools, items, tools, restored)
    <3> HIDE DEF end
    <3>1. Walk(tr, acc, ActiveInput(items)) /\ end = tr[Len(ActiveInput(items))]
      BY <2>4 DEF history, end
    <3> QED BY <2>3, <2>9, <2>10, <2>12, <3>1, WalkOrdered
  <2>15. Viewed(v, end)
    BY <2>6, <2>8, <2>9, <2>12 DEF Viewed
  <2> QED BY <2>13, <2>14, <2>15
<1> QED BY <1>1, <1>2, <1>3

-----------------------------------------------------------------------------
(* The private tools.                                                      *)

\* A sequence mapped place by place.
LEMMA MappedTyped ==
  ASSUME NEW S, NEW s \in Seq(S), NEW f, DOMAIN f = DOMAIN s, f = [i \in DOMAIN s |-> f[i]],
         \A i \in DOMAIN s : f[i] \in S
  PROVE  f \in Seq(S)
<1>1. DOMAIN s = 1 .. Len(s) /\ Len(s) \in Nat
  OBVIOUS
<1>2. f = [i \in 1 .. Len(s) |-> f[i]] /\ \A i \in 1 .. Len(s) : f[i] \in S
  BY <1>1
<1>3. f \in [1 .. Len(s) -> S]
  BY <1>2
<1> QED BY <1>1, <1>3

\* At misses none of the places.
LEMMA AtHas ==
  ASSUME NEW S, NEW items \in Seq(S), NEW places, NEW i \in DOMAIN items, i \in places
  PROVE  \E k \in DOMAIN At(items, places) : At(items, places)[k] = items[i]
<1> DEFINE r == At(items, places)
<1>1. r \in Seq(S)
  BY AtPicks
<1>2. PICK f : Stood(f, r, items, places, Len(items))
  BY AtPicks
<1> HIDE DEF r
<1>3. DOMAIN r = 1 .. Len(r) /\ DOMAIN items = 1 .. Len(items)
  BY <1>1
<1>4. \E k \in 1 .. Len(r) : f[k] = i
  BY <1>2, <1>3 DEF Stood
<1>5. \E k \in DOMAIN r : r[k] = items[i]
  BY <1>2, <1>3, <1>4 DEF Stood
<1> QED BY <1>5 DEF r

\* A private definition keeps its kind, its name and the available members.
LEMMA PrivateToolIs ==
  ASSUME NEW acc, NEW tool \in AnyTool
  PROVE  /\ PrivateTool(acc, tool) \in AnyTool
         /\ PrivateTool(acc, tool).kind = tool.kind /\ PrivateTool(acc, tool).name = tool.name
         /\ tool.kind = "namespace" =>
              \A k \in DOMAIN tool.members :
                 Available(acc, tool, tool.members[k])
                    => Flat(tool.name, tool.members[k].name) \in FlatNames(PrivateTool(acc, tool))
<1> DEFINE p == PrivateTool(acc, tool)
           places == {k \in DOMAIN tool.members : Available(acc, tool, tool.members[k])}
           here == At(tool.members, places)
           ms == [k \in DOMAIN here |-> Undeferred(here[k])]
<1>1. CASE tool.kind = "namespace"
  <2>1. p = [tool EXCEPT !.members = ms]
    BY <1>1 DEF PrivateTool
  <2>2. tool.members \in Seq(AnyMember)
    BY ToolIs
  <2>3. \A k \in DOMAIN tool.members : Available(acc, tool, tool.members[k]) => k \in places
    OBVIOUS
  <2> HIDE DEF places
  <2>4. here \in Seq(AnyMember)
    BY <2>2, AtRange
  <2>5. \A i \in DOMAIN tool.members : i \in places => \E k \in DOMAIN here : here[k] = tool.members[i]
    BY <2>2, AtHas
  <2> HIDE DEF here
  <2>6. \A m \in AnyMember : Undeferred(m) \in AnyMember /\ Undeferred(m).name = m.name
    BY DEF Undeferred, AnyMember
  <2>7. ms \in Seq(AnyMember)
    <3>1. \A k \in DOMAIN here : ms[k] \in AnyMember
      BY <2>4, <2>6
    <3>2. DOMAIN ms = DOMAIN here /\ ms = [k \in DOMAIN here |-> ms[k]]
      OBVIOUS
    <3> HIDE DEF ms
    <3> QED BY <2>4, <3>1, <3>2, MappedTyped
  <2>8. \A k \in DOMAIN here : k \in DOMAIN ms /\ ms[k].name = here[k].name
    BY <2>4, <2>6
  <2> HIDE DEF ms
  <2>9. p \in AnyTool /\ p.kind = tool.kind /\ p.name = tool.name /\ p.members = ms
    <3> HIDE DEF p
    <3> QED BY <2>1, <2>7 DEF AnyTool
  <2>10. ASSUME NEW k \in DOMAIN tool.members, Available(acc, tool, tool.members[k])
         PROVE  Flat(tool.name, tool.members[k].name) \in FlatNames(p)
    <3>1. PICK l \in DOMAIN here : here[l] = tool.members[k]
      BY <2>3, <2>5, <2>10
    <3>2. l \in DOMAIN p.members /\ p.members[l].name = tool.members[k].name
      BY <2>8, <2>9, <3>1
    <3> HIDE DEF p
    <3> QED BY <2>9, <3>2, FlatNamesAre
  <2> QED BY <2>9, <2>10
<1>2. CASE tool.kind = "function"
  <2>1. p = [tool EXCEPT !.defer = FALSE]
    BY <1>2 DEF PrivateTool, Undeferred
  <2> HIDE DEF p
  <2>2. p \in AnyTool /\ p.kind = tool.kind /\ p.name = tool.name
    BY <2>1 DEF AnyTool
  <2> QED BY <1>2, <2>2 DEF p
<1>3. CASE tool.kind \notin {"namespace", "function"}
  BY <1>3 DEF PrivateTool
<1> QED BY <1>1, <1>2, <1>3

\* The private tools hold every definition that is offered.
LEMMA PrivateIs ==
  ASSUME NEW acc \in AnyAcc
  PROVE  /\ PrivateTools(acc) \in Seq(AnyTool)
         /\ \A i \in DOMAIN acc.tools : Offered(acc, acc.tools[i]) =>
                \E k \in DOMAIN PrivateTools(acc) : PrivateTools(acc)[k] = PrivateTool(acc, acc.tools[i])
<1> DEFINE places == {i \in DOMAIN acc.tools : Offered(acc, acc.tools[i])}
           here == At(acc.tools, places)
           p == [i \in DOMAIN here |-> PrivateTool(acc, here[i])]
<1>1. PrivateTools(acc) = p
  BY DEF PrivateTools
<1>2. acc.tools \in Seq(AnyTool)
  BY DEF AnyAcc
<1>3. \A i \in DOMAIN acc.tools : Offered(acc, acc.tools[i]) => i \in places
  OBVIOUS
<1> HIDE DEF places
<1>4. here \in Seq(AnyTool)
  BY <1>2, AtRange
<1>5. \A i \in DOMAIN acc.tools : i \in places => \E k \in DOMAIN here : here[k] = acc.tools[i]
  BY <1>2, AtHas
<1> HIDE DEF here
<1>6. p \in Seq(AnyTool)
  <2>1. \A i \in DOMAIN here : p[i] \in AnyTool
    BY <1>4, PrivateToolIs
  <2>2. DOMAIN p = DOMAIN here /\ p = [i \in DOMAIN here |-> p[i]]
    OBVIOUS
  <2> HIDE DEF p
  <2> QED BY <1>4, <2>1, <2>2, MappedTyped
<1>7. \A k \in DOMAIN here : k \in DOMAIN p /\ p[k] = PrivateTool(acc, here[k])
  OBVIOUS
<1> HIDE DEF p
<1> QED BY <1>1, <1>3, <1>5, <1>6, <1>7

\* The registry entries and the upstream functions of one declaration.
LEMMA EntriesAre ==
  \A t : /\ t.kind = "function" => EntryNames(t) = {t.name} /\ UpstreamNames(t) = {t.name}
         /\ t.kind = "namespace" => EntryNames(t) = FlatNames(t) /\ UpstreamNames(t) = FlatNames(t)
         /\ UpstreamNames(t) \subseteq EntryNames(t)
<1>1. \A t : t.kind = "function" => EntryNames(t) = {t.name}
  BY DEF EntryNames, Builtins
<1>2. \A t : t.kind = "namespace" => EntryNames(t) = FlatNames(t)
  BY DEF EntryNames, Builtins
<1> QED BY <1>1, <1>2 DEF UpstreamNames

\* Every name that is defined goes upstream.
LEMMA DefinedUpstream ==
  ASSUME NEW tools, NEW n, Has(tools, n) PROVE n \in Upstream(tools)
<1>1. CASE HasFunction(tools, n)
  BY <1>1, EntriesAre DEF HasFunction, Upstream
<1>2. CASE HasMember(tools, n)
  <2>1. PICK i \in DOMAIN tools : tools[i].kind = "namespace" /\ n \in FlatNames(tools[i])
    BY <1>2, MembersFlat
  <2> QED BY <2>1, EntriesAre DEF Upstream
<1> QED BY <1>1, <1>2 DEF Has

\* Discovery fills in what the MCP servers list and nothing else.
LEMMA DiscoverIs ==
  ASSUME NEW tools \in Seq(AnyTool), NEW listing \in SUBSET AnyName
  PROVE  /\ Discover(tools, listing) \in Seq(AnyTool)
         /\ DOMAIN Discover(tools, listing) = DOMAIN tools
         /\ \A i \in DOMAIN tools :
               /\ Discover(tools, listing)[i].kind = tools[i].kind
               /\ Discover(tools, listing)[i].name = tools[i].name
               /\ Discover(tools, listing)[i].members = tools[i].members
               /\ tools[i].kind = "mcp" => Discover(tools, listing)[i].discovered = listing
<1> DEFINE d == Discover(tools, listing)
           One(t) == IF t.kind = "mcp" THEN [t EXCEPT !.discovered = listing] ELSE t
<1>1. d = [i \in DOMAIN tools |-> One(tools[i])]
  BY DEF Discover
<1>2. \A t \in AnyTool : /\ One(t) \in AnyTool /\ One(t).kind = t.kind /\ One(t).name = t.name
                         /\ One(t).members = t.members /\ (t.kind = "mcp" => One(t).discovered = listing)
  BY DEF AnyTool
<1>3. \A i \in DOMAIN tools : tools[i] \in AnyTool
  OBVIOUS
<1> HIDE DEF d, One
<1>4. DOMAIN d = DOMAIN tools /\ d = [i \in DOMAIN tools |-> d[i]] /\ \A i \in DOMAIN tools : d[i] = One(tools[i])
  BY <1>1
<1>5. d \in Seq(AnyTool)
  BY <1>2, <1>3, <1>4, MappedTyped
<1> QED BY <1>2, <1>3, <1>4, <1>5 DEF d

\* Discovery defines nothing.
LEMMA DiscoverHas ==
  ASSUME NEW tools \in Seq(AnyTool), NEW listing \in SUBSET AnyName, NEW n
  PROVE  Has(tools, n) <=> Has(Discover(tools, listing), n)
<1> DEFINE d == Discover(tools, listing)
<1>1. /\ DOMAIN d = DOMAIN tools
      /\ \A i \in DOMAIN tools : d[i].kind = tools[i].kind /\ d[i].name = tools[i].name /\ d[i].members = tools[i].members
  BY DiscoverIs
<1> HIDE DEF d
<1>2. HasFunction(tools, n) <=> HasFunction(d, n)
  BY <1>1 DEF HasFunction
<1>3. HasMember(tools, n) <=> HasMember(d, n)
  <2>1. \A i \in DOMAIN tools : FlatNames(d[i]) = FlatNames(tools[i])
    BY <1>1 DEF FlatNames, MemberNames
  <2> QED BY <1>1, <2>1, MembersFlat
<1> QED BY <1>2, <1>3 DEF Has, d

-----------------------------------------------------------------------------
(* The registry.                                                           *)

\* build_tool_registry is a left fold.
LEMMA RegisterFold ==
  \A b, s : FoldLeft(InsertUnique, b, s) = Registering!Fold(b, s)
  BY DEF FoldLeft, MapThenFoldSet, Registering!Fold, Registering!Part, Registering!Folds, Registering!Greatest, Max

\* The entries of the first k declarations.
Entered(r, tools, k) ==
    /\ r = [entries |-> r.entries, error |-> r.error]
    /\ r.error \in BOOLEAN
    /\ ~r.error =>
        /\ \A n : n \in DOMAIN r.entries <=> \E i \in 1 .. k : n \in EntryNames(tools[i])
        /\ \A i \in 1 .. k : \A n \in EntryNames(tools[i]) : r.entries[n].type = tools[i].kind

\* A registry without an error holds each entry of each declaration, by its kind.
LEMMA RegistryIs ==
  ASSUME NEW tools \in Seq(AnyTool), ~Registry(tools).error
  PROVE  /\ \A n : n \in DOMAIN Registry(tools).entries <=> \E i \in DOMAIN tools : n \in EntryNames(tools[i])
         /\ \A i \in DOMAIN tools : \A n \in EntryNames(tools[i]) : Registry(tools).entries[n].type = tools[i].kind
<1> DEFINE c == Len(tools)
           start == [entries |-> << >>, error |-> FALSE]
<1>1. c \in Nat /\ DOMAIN tools = 1 .. c
  OBVIOUS
<1>2. Registry(tools) = Registering!Fold(start, tools)
  BY RegisterFold DEF Registry
<1>3. PICK tr : /\ tr[0] = start /\ tr[c] = Registering!Fold(start, tools)
                /\ \A i \in 1 .. c : tr[i] = InsertUnique(tr[i - 1], tools[i])
  BY Registering!FoldTrace
<1> HIDE DEF c
<1> DEFINE B == {k \in 0 .. c : Entered(tr[k], tools, k)}
<1>4. 0 \in B
  <2>1. \A i \in 1 .. 0 : FALSE
    OBVIOUS
  <2>2. DOMAIN << >> = {}
    OBVIOUS
  <2>3. start.entries = << >> /\ start.error = FALSE /\ start = [entries |-> start.entries, error |-> start.error]
    OBVIOUS
  <2> HIDE DEF start
  <2>4. Entered(start, tools, 0)
    BY <2>1, <2>2, <2>3 DEF Entered
  <2> QED BY <1>1, <1>3, <2>4
<1>5. ASSUME NEW k \in 1 .. c, k - 1 \in B PROVE k \in B
  <2> DEFINE r == tr[k - 1]
             t == tools[k]
             names == EntryNames(t)
             es == [n \in DOMAIN r.entries \cup names |-> IF n \in names THEN Entry(t) ELSE r.entries[n]]
  <2>1. k \in 0 .. c /\ k \in 1 .. k /\ (\A i \in 1 .. (k - 1) : i \in 1 .. k)
        /\ \A i \in 1 .. k : i = k \/ i \in 1 .. (k - 1)
    BY <1>1
  <2>2. Entered(r, tools, k - 1)
    BY <1>5
  <2>3. tr[k] = InsertUnique(r, t)
    BY <1>3
  <2> HIDE DEF B, r, t
  <2>4. CASE r.error \/ DOMAIN r.entries \cap names # {}
    <3>1. tr[k] = [r EXCEPT !.error = TRUE]
      BY <2>3, <2>4 DEF InsertUnique
    <3>2. tr[k] = [entries |-> r.entries, error |-> TRUE]
      BY <2>2, <3>1 DEF Entered
    <3>3. Entered(tr[k], tools, k)
      BY <3>2 DEF Entered
    <3> QED BY <2>1, <3>3 DEF B
  <2>5. CASE ~r.error /\ DOMAIN r.entries \cap names = {}
    <3>1. tr[k] = [r EXCEPT !.entries = es]
      BY <2>3, <2>5 DEF InsertUnique
    <3>2. tr[k] = [entries |-> es, error |-> r.error]
      <4> HIDE DEF es
      <4> QED BY <2>2, <3>1 DEF Entered
    <3>3. DOMAIN es = DOMAIN r.entries \cup names
      OBVIOUS
    <3>4. (\A n \in names : es[n].type = t.kind)
      BY DEF Entry
    <3>5. \A n \in DOMAIN r.entries : es[n] = r.entries[n]
      BY <2>5
    <3> HIDE DEF es
    <3>6. tr[k].entries = es /\ tr[k].error = r.error
      BY <3>2
    <3>7. \A n : n \in DOMAIN es <=> \E i \in 1 .. k : n \in EntryNames(tools[i])
      <4>1. \A n : n \in DOMAIN r.entries <=> \E i \in 1 .. (k - 1) : n \in EntryNames(tools[i])
        BY <2>2, <2>5 DEF Entered
      <4> QED BY <2>1, <3>3, <4>1 DEF t
    <3>8. ASSUME NEW i \in 1 .. k, NEW n \in EntryNames(tools[i]) PROVE es[n].type = tools[i].kind
      <4>1. CASE i = k
        BY <3>4, <3>8, <4>1 DEF t
      <4>2. CASE i # k
        <5>1. i \in 1 .. (k - 1)
          BY <2>1, <4>2
        <5>2. n \in DOMAIN r.entries /\ r.entries[n].type = tools[i].kind
          BY <2>2, <2>5, <3>8, <5>1 DEF Entered
        <5> QED BY <3>5, <5>2
      <4> QED BY <4>1, <4>2
    <3>9. Entered(tr[k], tools, k)
      BY <2>2, <3>2, <3>6, <3>7, <3>8 DEF Entered
    <3> QED BY <2>1, <3>9 DEF B
  <2> QED BY <2>2, <2>4, <2>5 DEF Entered
<1>6. c \in B
  <2> HIDE DEF B
  <2> QED BY <1>1, <1>4, <1>5, Registering!Upwards
<1>7. Entered(Registry(tools), tools, c)
  BY <1>2, <1>3, <1>6
<1> QED BY <1>1, <1>7 DEF Entered

-----------------------------------------------------------------------------
(* The views of one request.                                               *)

\* v is what Build makes of a request it accepts.
Accepted(v, tools, items, restored) ==
    \/ v = Inactive(tools, items)
    \/ \E end : /\ Viewed(v, end)
                /\ SameListings(end.input, items)
                /\ Ordered(end.tools, items, tools, restored)

\* The views of an accepted request are well-formed, with the listings of its items.
LEMMA AcceptedTyped ==
  ASSUME NEW tools \in Seq(AnyTool), NEW items \in Seq(AnyItem), NEW restored, NEW v,
         Accepted(v, tools, items, restored)
  PROVE  /\ v.private \in Seq(AnyTool) /\ v.effective \in Seq(AnyTool) /\ v.loaded \in Seq(AnyTool)
         /\ SameListings(v.input, items)
<1>1. CASE v = Inactive(tools, items)
  <2>1. << >> \in Seq(AnyTool)
    OBVIOUS
  <2>2. v.private = tools /\ v.effective = tools /\ v.loaded = << >> /\ v.input = items
    BY <1>1 DEF Inactive
  <2> QED BY <2>1, <2>2 DEF SameListings
<1>2. ASSUME NEW end, Viewed(v, end), SameListings(end.input, items)
      PROVE  /\ v.private \in Seq(AnyTool) /\ v.effective \in Seq(AnyTool) /\ v.loaded \in Seq(AnyTool)
             /\ SameListings(v.input, items)
  <2>1. end \in AnyAcc
    BY <1>2 DEF Viewed
  <2>2. end.tools \in Seq(AnyTool) /\ end.loaded \in Seq(AnyTool)
    BY <2>1 DEF AnyAcc
  <2>3. PrivateTools(end) \in Seq(AnyTool)
    BY <2>1, PrivateIs
  <2> QED BY <1>2, <2>2, <2>3 DEF Viewed
<1> QED BY <1>1, <1>2 DEF Accepted

\* What is defined goes to the model or is withheld, and then it can be found.
Reachable(v) ==
    /\ \A n : Has(v.effective, n) => Has(v.private, n) \/ n \in v.withheld
    /\ \A n \in v.withheld : \E i \in DOMAIN v.effective :
            n \in Definitions(v.effective[i]) /\ v.effective[i].name \in v.catalog

\* A function that is not withheld is offered.
LEMMA FunctionOffered ==
  ASSUME NEW end \in AnyAcc, Coherent(end), NEW n, HasFunction(end.tools, n), n \notin end.withheld
  PROVE  Has(PrivateTools(end), n)
<1>1. PICK i \in DOMAIN end.tools : end.tools[i].kind = "function" /\ end.tools[i].name = n
  BY DEF HasFunction
<1> DEFINE t == end.tools[i]
           P == PrivateTools(end)
<1>2. t \in AnyTool
  <2>1. end.tools \in Seq(AnyTool)
    BY DEF AnyAcc
  <2> QED BY <2>1
<1>3. t.defer => n \in end.ready
  <2>1. t.defer => Deferred(end.tools, n)
    BY <1>1 DEF Deferred
  <2> QED BY <2>1 DEF Coherent
<1>4. Offered(end, t)
  <2> HIDE DEF t
  <2>1. t.kind = "function" /\ t.name = n
    BY <1>1 DEF t
  <2> QED BY <1>3, <2>1 DEF Offered
<1>5. PICK k \in DOMAIN P : P[k] = PrivateTool(end, t)
  BY <1>4, PrivateIs
<1>6. P[k].kind = "function" /\ P[k].name = n
  BY <1>1, <1>2, <1>5, PrivateToolIs
<1> QED BY <1>6 DEF Has, HasFunction

\* A member that is not withheld is offered.
LEMMA MemberOffered ==
  ASSUME NEW end \in AnyAcc, Coherent(end), NEW n, HasMember(end.tools, n), n \notin end.withheld
  PROVE  Has(PrivateTools(end), n)
<1>1. PICK p \in MembersOf(end.tools) : Flat(p[1], p[2]) = n
  BY DEF HasMember
<1>2. PICK i \in DOMAIN end.tools : end.tools[i].kind = "namespace"
            /\ \E x \in MemberNames(end.tools[i]) : p = <<end.tools[i].name, x>>
  BY PairsAre
<1>a. PICK m \in DOMAIN end.tools[i].members : p = <<end.tools[i].name, end.tools[i].members[m].name>>
  BY <1>2 DEF MemberNames
<1> DEFINE t == end.tools[i]
           P == PrivateTools(end)
<1>3. t \in AnyTool
  <2>1. end.tools \in Seq(AnyTool)
    BY DEF AnyAcc
  <2> QED BY <2>1
<1>4. p \in end.members
  BY <1>1 DEF Coherent
<1>5. m \in DOMAIN t.members /\ Available(end, t, t.members[m])
  BY <1>a, <1>4 DEF Available
<1>6. Offered(end, t)
  <2> HIDE DEF t
  <2>1. t.kind = "namespace"
    BY <1>2 DEF t
  <2> QED BY <1>5, <2>1 DEF Offered
<1>7. PICK k \in DOMAIN P : P[k] = PrivateTool(end, t)
  BY <1>6, PrivateIs
<1>8. n \in FlatNames(P[k]) /\ P[k].kind = "namespace"
  <2>1. t.kind = "namespace" /\ Flat(t.name, t.members[m].name) = n
    BY <1>1, <1>2, <1>a
  <2> HIDE DEF t, P
  <2> QED BY <1>3, <1>5, <1>7, <2>1, PrivateToolIs
<1>9. HasMember(P, n)
  <2> HIDE DEF P
  <2> QED BY <1>7, <1>8, MembersFlat
<1> QED BY <1>9 DEF Has

\* What is withheld belongs to a definition in the catalogue.
LEMMA WithheldListed ==
  ASSUME NEW end \in AnyAcc, Coherent(end), NEW n \in end.withheld
  PROVE  \E i \in DOMAIN end.tools : n \in Definitions(end.tools[i]) /\ end.tools[i].name \in Catalog(end)
<1>1. CASE Deferred(end.tools, n) /\ n \notin end.ready
  <2>1. PICK i \in DOMAIN end.tools :
            end.tools[i].kind = "function" /\ end.tools[i].name = n /\ end.tools[i].defer
    BY <1>1 DEF Deferred
  <2>2. n \in Catalog(end)
    BY <1>1, <2>1 DEF Catalog
  <2> QED BY <2>1, <2>2, DefinitionsAre
<1>2. ASSUME NEW p \in MembersOf(end.tools), Flat(p[1], p[2]) = n, p \notin end.members
      PROVE  \E i \in DOMAIN end.tools : n \in Definitions(end.tools[i]) /\ end.tools[i].name \in Catalog(end)
  <2>1. PICK i \in DOMAIN end.tools : end.tools[i].kind = "namespace"
              /\ \E x \in MemberNames(end.tools[i]) : p = <<end.tools[i].name, x>>
    BY PairsAre
  <2>2. PICK x \in MemberNames(end.tools[i]) : p = <<end.tools[i].name, x>>
    BY <2>1
  <2>3. n \in FlatNames(end.tools[i])
    BY <1>2, <2>2 DEF FlatNames
  <2>4. end.tools[i].name \in Catalog(end)
    BY <1>2, <2>1, <2>2 DEF Catalog
  <2> QED BY <2>1, <2>3, <2>4, DefinitionsAre
<1> QED BY <1>1, <1>2 DEF Coherent

\* In an accepted request every definition can be called or be found.
LEMMA AcceptedReachable ==
  ASSUME NEW tools \in Seq(AnyTool), NEW items, NEW restored, NEW v, Accepted(v, tools, items, restored)
  PROVE  Reachable(v)
<1>1. CASE v = Inactive(tools, items)
  BY <1>1 DEF Inactive, Reachable
<1>2. ASSUME NEW end, Viewed(v, end) PROVE Reachable(v)
  <2>1. end \in AnyAcc /\ Coherent(end) /\ v.effective = end.tools /\ v.private = PrivateTools(end)
        /\ v.withheld = end.withheld /\ v.catalog = Catalog(end)
    BY <1>2 DEF Viewed
  <2>2. \A n : Has(end.tools, n) => Has(PrivateTools(end), n) \/ n \in end.withheld
    BY <2>1, FunctionOffered, MemberOffered DEF Has
  <2>3. \A n \in end.withheld : \E i \in DOMAIN end.tools :
            n \in Definitions(end.tools[i]) /\ end.tools[i].name \in Catalog(end)
    BY <2>1, WithheldListed
  <2> QED BY <2>1, <2>2, <2>3 DEF Reachable
<1> QED BY <1>1, <1>2 DEF Accepted

\* A name has a public member if it is a member's.
LEMMA PublicMemberIs ==
  \A tools, n : HasMember(tools, n) <=> PublicMember(tools, n) # {}
  BY DEF PublicMember, HasMember

\* The public call of a name, and back.
LEMMA PublicCallIs ==
  ASSUME NEW tools \in Seq(AnyTool), NEW n \in AnyName
  PROVE  /\ PublicCall(tools, n) \in AnyCall
         /\ CalledAs(tools, PublicCall(tools, n)) = n
         /\ PublicCall(tools, n).namespace # Absent <=> HasMember(tools, n)
<1> DEFINE S == PublicMember(tools, n)
           c == PublicCall(tools, n)
<1>0. \A i \in DOMAIN tools : tools[i] \in AnyTool
  OBVIOUS
<1>a. \A x, y : <<x, y>> \in MembersOf(tools) => x # Absent
  BY <1>0, PairIs, ToolIs
<1>1. CASE S = {}
  <2>1. c = [namespace |-> Absent, name |-> n]
    BY <1>1 DEF PublicCall
  <2> HIDE DEF c
  <2>2. c \in AnyCall
    BY <2>1, FixedNames DEF AnyCall
  <2>3. CalledAs(tools, c) = n
    BY <1>a, <2>1 DEF CalledAs
  <2>4. ~HasMember(tools, n)
    BY <1>1, PublicMemberIs
  <2> QED BY <2>1, <2>2, <2>3, <2>4 DEF c
<1>2. CASE S # {}
  <2> DEFINE p == CHOOSE p \in S : TRUE
  <2>1. p \in S
    BY <1>2
  <2>2. c = [namespace |-> p[1], name |-> p[2]]
    BY <1>2 DEF PublicCall
  <2> HIDE DEF p
  <2>3. p \in MembersOf(tools) /\ Flat(p[1], p[2]) = n
    BY <2>1 DEF PublicMember
  <2>4. p \in AnyName \X AnyName
    BY <1>0, <2>3, MembersTyped
  <2>5. p = <<p[1], p[2]>> /\ p[1] \in AnyName /\ p[2] \in AnyName
    BY <2>4
  <2>6. c \in AnyCall
    BY <2>2, <2>5 DEF AnyCall
  <2> HIDE DEF c
  <2>7. c.namespace = p[1] /\ c.name = p[2]
    BY <2>2
  <2>8. CalledAs(tools, c) = n
    BY <2>3, <2>5, <2>7 DEF CalledAs
  <2>9. c.namespace # Absent
    BY <1>a, <2>3, <2>5, <2>7
  <2>10. HasMember(tools, n)
    BY <1>2, PublicMemberIs
  <2> QED BY <2>6, <2>8, <2>9, <2>10 DEF c
<1> QED BY <1>1, <1>2

\* Unless names collide, the public call of a member's name is that member's.
LEMMA MemberCallIs ==
  ASSUME NEW tools, ~NamespaceCollision(tools), NEW p \in MembersOf(tools)
  PROVE  PublicCall(tools, Flat(p[1], p[2])) = [namespace |-> p[1], name |-> p[2]]
<1> DEFINE S == PublicMember(tools, Flat(p[1], p[2]))
<1>1. p \in S /\ \A q \in S : q = p
  BY Collides DEF Apart, PublicMember
<1>2. S # {} /\ (CHOOSE q \in S : TRUE) = p
  BY <1>1
<1> QED BY <1>2 DEF PublicCall

\* A registry key is a name.
LEMMA EntryNamesTyped ==
  ASSUME NEW t \in AnyTool, NEW n \in EntryNames(t) PROVE n \in AnyName
<1>0. t.kind \in STRING /\ t.name \in AnyName /\ t.discovered \in SUBSET AnyName
  BY DEF AnyTool
<1>1. BuiltinName(t.kind) \in AnyName
  <2>1. t.kind \in Atom
    BY <1>0 DEF Atom
  <2> QED BY <2>1, NameTyped DEF BuiltinName, AnyName
<1>2. CASE t.kind = "namespace"
  BY <1>2, EntriesAre, FlatNamesTyped
<1>3. CASE t.kind # "namespace"
  <2>1. n \in t.discovered \/ n = BuiltinName(t.kind) \/ n = t.name
    BY <1>3 DEF EntryNames, Builtins
  <2> QED BY <1>0, <1>1, <2>1
<1> QED BY <1>2, <1>3

\* An upstream function is a name.
LEMMA UpstreamTyped ==
  ASSUME NEW tools \in Seq(AnyTool) PROVE Upstream(tools) \in SUBSET AnyName
<1> SUFFICES ASSUME NEW n \in Upstream(tools) PROVE n \in AnyName
  OBVIOUS
<1>1. PICK i \in DOMAIN tools : n \in UpstreamNames(tools[i])
  BY DEF Upstream
<1>2. n \in EntryNames(tools[i])
  BY <1>1, EntriesAre
<1>3. tools[i] \in AnyTool
  OBVIOUS
<1> QED BY <1>2, <1>3, EntryNamesTyped

\* What ViewsAgree says of the tools of a turn and its build.
Agree(tools, v) ==
    LET offered  == Upstream(tools)
        entries  == Registry(tools).entries
        withheld == v.withheld
    IN  /\ \A n \in offered :
            /\ n \in DOMAIN entries
            /\ CalledAs(tools, PublicCall(tools, n)) = n
            /\ PublicCall(tools, n).namespace # Absent <=> entries[n].type = "namespace"
        /\ \A p \in MembersOf(tools) :
            PublicCall(tools, Flat(p[1], p[2])) = [namespace |-> p[1], name |-> p[2]]
        /\ offered \cap withheld = {}
        /\ DefinedNames(v.effective) \subseteq offered \cup withheld
        /\ \A n \in withheld : \E i \in DOMAIN v.effective :
            n \in Definitions(v.effective[i]) /\ v.effective[i].name \in v.catalog

\* What the registry accepts is offered, routed and withheld consistently.
LEMMA ViewsMeet ==
  ASSUME NEW v, v.private \in Seq(AnyTool), Reachable(v), NEW listing \in SUBSET AnyName,
         NEW tools, tools = Discover(v.private, listing), ~RegistryRejects(v, Registry(tools))
  PROVE  Agree(tools, v)
<1>1. tools \in Seq(AnyTool)
  BY DiscoverIs
<1>2. ~Registry(tools).error /\ DOMAIN Registry(tools).entries \cap v.withheld = {}
  BY DEF RegistryRejects
<1>3. /\ \A n : n \in DOMAIN Registry(tools).entries <=> \E i \in DOMAIN tools : n \in EntryNames(tools[i])
      /\ \A i \in DOMAIN tools : \A n \in EntryNames(tools[i]) : Registry(tools).entries[n].type = tools[i].kind
  BY <1>1, <1>2, RegistryIs
<1> DEFINE entries == Registry(tools).entries
<1> HIDE DEF entries
<1>4. ASSUME NEW n \in Upstream(tools)
      PROVE  \E i \in DOMAIN tools : n \in EntryNames(tools[i]) /\ n \in UpstreamNames(tools[i])
  <2>1. PICK i \in DOMAIN tools : n \in UpstreamNames(tools[i])
    BY <1>4 DEF Upstream
  <2> QED BY <2>1, EntriesAre
<1>5. ASSUME NEW n \in Upstream(tools)
      PROVE  HasMember(tools, n) <=> entries[n].type = "namespace"
  <2>1. PICK i \in DOMAIN tools : n \in EntryNames(tools[i]) /\ n \in UpstreamNames(tools[i])
    BY <1>4
  <2>2. entries[n].type = tools[i].kind
    BY <1>3, <2>1 DEF entries
  <2>3. ASSUME tools[i].kind = "namespace" PROVE HasMember(tools, n)
    <3>1. n \in FlatNames(tools[i])
      BY <2>1, <2>3, EntriesAre
    <3> QED BY <2>1, <2>3, <3>1, MembersFlat
  <2>4. ASSUME HasMember(tools, n) PROVE entries[n].type = "namespace"
    <3>1. PICK k \in DOMAIN tools : tools[k].kind = "namespace" /\ n \in FlatNames(tools[k])
      BY <2>4, MembersFlat
    <3>2. n \in EntryNames(tools[k])
      BY <3>1, EntriesAre
    <3> QED BY <1>3, <3>1, <3>2 DEF entries
  <2> QED BY <2>2, <2>3, <2>4
<1>6. \A n \in Upstream(tools) : n \in DOMAIN entries
  BY <1>3, <1>4 DEF entries
<1>7. \A n \in Upstream(tools) :
        /\ CalledAs(tools, PublicCall(tools, n)) = n
        /\ PublicCall(tools, n).namespace # Absent <=> entries[n].type = "namespace"
  BY <1>1, <1>5, UpstreamTyped, PublicCallIs
<1>8. Upstream(tools) \cap v.withheld = {}
  BY <1>2, <1>6 DEF entries
<1>9. DefinedNames(v.effective) \subseteq Upstream(tools) \cup v.withheld
  <2> SUFFICES ASSUME NEW n \in DefinedNames(v.effective), n \notin v.withheld PROVE n \in Upstream(tools)
    OBVIOUS
  <2>1. Has(v.private, n)
    BY DefinedAre DEF Reachable
  <2>2. Has(tools, n)
    BY <2>1, DiscoverHas
  <2> QED BY <2>2, DefinedUpstream
<1>10. \A n \in v.withheld : \E i \in DOMAIN v.effective :
            n \in Definitions(v.effective[i]) /\ v.effective[i].name \in v.catalog
  BY DEF Reachable
<1>11. ~NamespaceCollision(tools)
  BY <1>2 DEF Registry
<1>12. \A p \in MembersOf(tools) : PublicCall(tools, Flat(p[1], p[2])) = [namespace |-> p[1], name |-> p[2]]
  BY <1>11, MemberCallIs
<1> QED BY <1>6, <1>7, <1>8, <1>9, <1>10, <1>12 DEF Agree, entries

-----------------------------------------------------------------------------
(* What is stored, and what is in process.                                 *)

\* A history of items, none of whose listings is repeated.
Once(items) ==
    \A i, j \in DOMAIN items :
        i < j /\ items[i].type = "mcp_list_tools" /\ ~items[i].error => items[i] # items[j]

\* The items are no listings.
NoListing(items) == \A i \in DOMAIN items : items[i].type # "mcp_list_tools"

\* Listings that are new to a history can follow it.
LEMMA OnceBoth ==
  ASSUME NEW s \in Seq(AnyItem), NEW t \in Seq(AnyItem), Once(s), Once(t),
         \A i \in DOMAIN t : t[i].type = "mcp_list_tools" /\ ~t[i].error => ~Lists(s, t[i])
  PROVE  Once(s \o t)
<1> DEFINE r == s \o t
<1>1. /\ DOMAIN r = 1 .. (Len(s) + Len(t)) /\ DOMAIN s = 1 .. Len(s) /\ DOMAIN t = 1 .. Len(t)
      /\ Len(s) \in Nat /\ Len(t) \in Nat
  OBVIOUS
<1>2. \A i \in DOMAIN r : r[i] = IF i <= Len(s) THEN s[i] ELSE t[i - Len(s)]
  OBVIOUS
<1> HIDE DEF r
<1> SUFFICES ASSUME NEW i \in DOMAIN r, NEW j \in DOMAIN r, i < j, r[i].type = "mcp_list_tools", ~r[i].error,
                    r[i] = r[j]
             PROVE  FALSE
  BY DEF Once, r
<1>3. i \in Nat /\ j \in Nat
  BY <1>1
<1>4. CASE j <= Len(s)
  <2>1. i \in DOMAIN s /\ j \in DOMAIN s /\ r[i] = s[i] /\ r[j] = s[j]
    BY <1>1, <1>2, <1>3, <1>4
  <2> QED BY <2>1 DEF Once
<1>5. CASE i <= Len(s) /\ ~(j <= Len(s))
  <2>1. i \in DOMAIN s /\ j - Len(s) \in DOMAIN t /\ r[i] = s[i] /\ r[j] = t[j - Len(s)]
    BY <1>1, <1>2, <1>3, <1>5
  <2>2. Lists(s, t[j - Len(s)])
    BY <2>1 DEF Lists
  <2> QED BY <2>1, <2>2
<1>6. CASE ~(i <= Len(s))
  <2>1. i - Len(s) \in DOMAIN t /\ j - Len(s) \in DOMAIN t /\ r[i] = t[i - Len(s)] /\ r[j] = t[j - Len(s)]
        /\ i - Len(s) < j - Len(s)
    BY <1>1, <1>2, <1>3, <1>6
  <2> QED BY <2>1 DEF Once
<1> QED BY <1>3, <1>4, <1>5, <1>6

\* Without listings none is repeated.
LEMMA NoListingOnce == \A items : NoListing(items) => Once(items)
  BY DEF NoListing, Once

\* Items that are picked repeat nothing.
LEMMA OnceAt ==
  ASSUME NEW items \in Seq(AnyItem), Once(items), NEW places
  PROVE  Once(At(items, places))
<1> DEFINE r == At(items, places)
<1>1. r \in Seq(AnyItem)
  BY AtPicks
<1>2. PICK f : Stood(f, r, items, places, Len(items))
  BY AtPicks
<1> HIDE DEF r
<1>3. DOMAIN r = 1 .. Len(r) /\ DOMAIN items = 1 .. Len(items) /\ Len(r) \in Nat
  BY <1>1
<1> SUFFICES ASSUME NEW i \in DOMAIN r, NEW j \in DOMAIN r, i < j, r[i].type = "mcp_list_tools", ~r[i].error,
                    r[i] = r[j]
             PROVE  FALSE
  BY DEF Once, r
<1>4. i \in 1 .. (j - 1)
  BY <1>3
<1>5. f[i] < f[j] /\ f[i] \in DOMAIN items /\ f[j] \in DOMAIN items /\ r[i] = items[f[i]] /\ r[j] = items[f[j]]
  BY <1>2, <1>3, <1>4 DEF Stood
<1> QED BY <1>5 DEF Once

-----------------------------------------------------------------------------
(* A set of listings as a sequence.                                        *)

\* SetToSeq orders a finite set, each element once.
LEMMA SetToSeqIs ==
  ASSUME NEW S, IsFiniteSet(S)
  PROVE  /\ SetToSeq(S) \in Seq(S)
         /\ \A i, j \in DOMAIN SetToSeq(S) : SetToSeq(S)[i] = SetToSeq(S)[j] => i = j
<1> DEFINE n == Cardinality(S)
           q == SetToSeq(S)
<1>1. n \in Nat /\ ExistsBijection(1 .. n, S)
  BY FS_CardinalityType
<1>2. \E g : g \in [1 .. n -> S] /\ IsInjective(g)
  BY <1>1 DEF ExistsBijection, Bijection, Injection
<1>3. q \in [1 .. n -> S] /\ IsInjective(q)
  BY <1>2 DEF SetToSeq
<1> HIDE DEF q, n
<1>4. DOMAIN q = 1 .. n
  BY <1>3
<1> QED BY <1>1, <1>3, <1>4 DEF IsInjective, q

\* A part of a finite set is finite.
LEMMA FilterFinite ==
  ASSUME NEW S, IsFiniteSet(S), NEW T, T \subseteq S PROVE IsFiniteSet(T)
  BY FS_Subset

\* The listings a turn announces are new to the history.
LEMMA NewListingsAre ==
  ASSUME NEW tools \in Seq(AnyTool), NEW listing \in SUBSET AnyName, NEW down \in BOOLEAN, NEW input
  PROVE  /\ IsFiniteSet(NewListings(tools, listing, down, input))
         /\ \A y \in NewListings(tools, listing, down, input) :
               y \in AnyItem /\ y.type = "mcp_list_tools" /\ (~y.error => ~Lists(input, y))
         /\ \A i \in DOMAIN tools : tools[i].kind = "mcp" =>
               \E y \in AnyItem :
                  /\ y.type = "mcp_list_tools" /\ y.name = tools[i].name /\ y.listing = listing
                  /\ y \in NewListings(tools, listing, down, input) \/ Lists(input, y)
<1> DEFINE L == NewListings(tools, listing, down, input)
           I == {j \in DOMAIN tools : tools[j].kind = "mcp"}
           one(i) == McpListTools(tools[i].name, listing, down)
           All == {one(i) : i \in I}
           g == [i \in I |-> one(i)]
<1>1. L = {y \in All : ~(~y.error /\ Lists(input, y))}
  BY DEF NewListings, McpLabels, Lists
<1>2. \A i \in I : one(i) \in AnyItem
  <2>1. \A i \in DOMAIN tools : tools[i].name \in AnyName
    <3>1. \A i \in DOMAIN tools : tools[i] \in AnyTool
      OBVIOUS
    <3> QED BY <3>1, ToolIs
  <2> QED BY <2>1, ItemsTyped
<1>3. \A i \in I : one(i).type = "mcp_list_tools" /\ one(i).name = tools[i].name /\ one(i).listing = listing
  BY DEF McpListTools, Item
<1>4. IsFiniteSet(L)
  <2>1. IsFiniteSet(DOMAIN tools)
    <3>1. DOMAIN tools = 1 .. Len(tools) /\ Len(tools) \in Nat
      OBVIOUS
    <3> QED BY <3>1, FS_Interval
  <2>2. IsFiniteSet(I)
    BY <2>1, FilterFinite
  <2>3. g \in Surjection(I, All)
    BY DEF Surjection
  <2>4. IsFiniteSet(All)
    <3> HIDE DEF g, I, All
    <3> QED BY <2>2, <2>3, FS_Surjection
  <2>5. L \subseteq All
    BY <1>1
  <2> HIDE DEF L, All
  <2> QED BY <2>4, <2>5, FilterFinite
<1> HIDE DEF one, L
<1>5. \A y \in L : y \in AnyItem /\ y.type = "mcp_list_tools" /\ (~y.error => ~Lists(input, y))
  BY <1>1, <1>2, <1>3
<1>6. ASSUME NEW i \in DOMAIN tools, tools[i].kind = "mcp"
      PROVE  \E y \in AnyItem : /\ y.type = "mcp_list_tools" /\ y.name = tools[i].name /\ y.listing = listing
                                /\ y \in L \/ Lists(input, y)
  <2>1. i \in I
    BY <1>6
  <2>2. one(i) \in L \/ Lists(input, one(i))
    BY <1>1, <2>1
  <2> QED BY <1>2, <1>3, <2>1, <2>2
<1> QED BY <1>4, <1>5, <1>6 DEF L

-----------------------------------------------------------------------------
(* Ids.                                                                    *)

\* An id belongs to one response or to one sealed context and the turn it becomes.
Identified ==
    /\ next \in Nat \ {0}
    /\ \A id \in DOMAIN turnRows : id \in Nat /\ id < next
    /\ \A c \in sealed : "id" \in DOMAIN c /\ "sent" \in DOMAIN c /\ c.id \in Nat /\ c.id < next
    /\ \A c, d \in sealed : c.id = d.id => c = d

\* A turn that runs in process, and a compacted window, takes the next id.
LEMMA NextId ==
  ASSUME Identified, next' = next + 1, sealed' = sealed,
         NEW row, turnRows' = Storing(next, row)
  PROVE  /\ Identified'
         /\ \A id \in DOMAIN turnRows : id \in DOMAIN turnRows' /\ turnRows'[id] = turnRows[id]
         /\ \A c \in sealed : c.id \in DOMAIN turnRows' => c.id \in DOMAIN turnRows
<1>1. DOMAIN turnRows' = DOMAIN turnRows \cup {next}
  BY DEF Storing
<1>2. \A id \in DOMAIN turnRows : id # next
  BY DEF Identified
<1>3. \A id \in DOMAIN turnRows : turnRows'[id] = turnRows[id]
  BY <1>2 DEF Storing
<1>4. \A c \in sealed : c.id # next
  BY DEF Identified
<1>5. Identified'
  BY <1>1 DEF Identified
<1> QED BY <1>1, <1>3, <1>4, <1>5

\* Every step keeps what is stored, and every context keeps its id and what was
\* sent for it.
LEMMA SealedStep ==
  ASSUME Identified, TurnsNext
  PROVE  /\ Identified'
         /\ \A id \in DOMAIN turnRows : id \in DOMAIN turnRows' /\ turnRows'[id] = turnRows[id]
         /\ \A c \in sealed : \E d \in sealed' : d.id = c.id /\ d.sent = c.sent
<1>1. CASE UNCHANGED <<turnRows, sealed, next>>
  BY <1>1 DEF Identified
<1>2. CASE Respond
  <2>1. PICK answer \in Answers(turn.tools, next) :
           turnRows' = Storing(next, PreparedRow(turn, turn.new, SetToSeq(turn.listings) \o answer))
    BY <1>2 DEF Respond
  <2>2. next' = next + 1 /\ sealed' = sealed
    BY <1>2 DEF Respond
  <2> QED BY <2>1, <2>2, NextId
<1>3. ASSUME NEW prev, NEW new, CompactResponse(prev, new)
      PROVE  /\ Identified'
             /\ \A id \in DOMAIN turnRows : id \in DOMAIN turnRows' /\ turnRows'[id] = turnRows[id]
             /\ sealed' = sealed
  <2>1. \E row : turnRows' = Storing(next, row)
    BY <1>3 DEF CompactResponse
  <2>2. next' = next + 1 /\ sealed' = sealed
    BY <1>3 DEF CompactResponse
  <2> QED BY <2>1, <2>2, NextId
<1>4. ASSUME NEW prev, NEW explicit, NEW new, Hydrate(prev, explicit, new)
      PROVE  Identified' /\ turnRows' = turnRows /\ sealed \subseteq sealed'
  <2>1. /\ next' = next + 1 /\ turnRows' = turnRows
        /\ \E tools, choice, sent : sealed' = sealed \cup
              {[id |-> next, prev |-> prev, new |-> new, answered |-> new, tools |-> tools,
                choice |-> choice, kept |-> TRUE, sent |-> sent, clock |-> "before"]}
    BY <1>4 DEF Hydrate
  <2>2. PICK tools, choice, sent : sealed' = sealed \cup
              {[id |-> next, prev |-> prev, new |-> new, answered |-> new, tools |-> tools,
                choice |-> choice, kept |-> TRUE, sent |-> sent, clock |-> "before"]}
    BY <2>1
  <2> DEFINE s == [id |-> next, prev |-> prev, new |-> new, answered |-> new, tools |-> tools,
                   choice |-> choice, kept |-> TRUE, sent |-> sent, clock |-> "before"]
  <2>3. s.id = next /\ "id" \in DOMAIN s /\ "sent" \in DOMAIN s
    OBVIOUS
  <2>4. sealed' = sealed \cup {s}
    BY <2>2
  <2> HIDE DEF s
  <2> QED BY <2>1, <2>3, <2>4 DEF Identified
<1>5. CASE Expire
  <2>1. PICK c \in sealed : \E clock : sealed' = (sealed \ {c}) \cup {[c EXCEPT !.clock = clock]}
    BY <1>5 DEF Expire
  <2>7. PICK clock : sealed' = (sealed \ {c}) \cup {[c EXCEPT !.clock = clock]}
    BY <2>1
  <2>2. UNCHANGED <<turnRows, next>>
    BY <1>5 DEF Expire
  <2> DEFINE d == [c EXCEPT !.clock = clock]
  <2>3. "id" \in DOMAIN c /\ "sent" \in DOMAIN c
    BY DEF Identified
  <2>4. "id" \in DOMAIN d /\ "sent" \in DOMAIN d /\ d.id = c.id /\ d.sent = c.sent
    BY <2>3
  <2>5. sealed' = (sealed \ {c}) \cup {d}
    BY <2>7
  <2> HIDE DEF d
  <2>6. Identified'
    BY <2>2, <2>4, <2>5 DEF Identified
  <2> QED BY <2>2, <2>4, <2>5, <2>6
<1>6. CASE Persist
  <2>1. /\ UNCHANGED <<sealed, next>>
        /\ \E c \in sealed : \E row : c.id \notin DOMAIN turnRows /\ turnRows' = Storing(c.id, row)
    BY <1>6 DEF Persist, AlreadyStored
  <2>2. PICK c \in sealed : \E row : c.id \notin DOMAIN turnRows /\ turnRows' = Storing(c.id, row)
    BY <2>1
  <2>3. PICK row : c.id \notin DOMAIN turnRows /\ turnRows' = Storing(c.id, row)
    BY <2>2
  <2>4. DOMAIN turnRows' = DOMAIN turnRows \cup {c.id}
    BY <2>3 DEF Storing
  <2>5. \A id \in DOMAIN turnRows : turnRows'[id] = turnRows[id]
    BY <2>3 DEF Storing
  <2>7. Identified'
    BY <2>1, <2>4 DEF Identified
  <2> QED BY <2>1, <2>4, <2>5, <2>7
<1>7. \/ UNCHANGED <<turnRows, sealed, next>> \/ Respond \/ Expire \/ Persist
      \/ \E prev, new : CompactResponse(prev, new)
      \/ \E prev, explicit, new : Hydrate(prev, explicit, new)
  BY DEF TurnsNext, Submit, Refused, Compact, Abort
<1> QED BY <1>1, <1>2, <1>3, <1>4, <1>5, <1>6, <1>7

-----------------------------------------------------------------------------
(* The state.                                                              *)

\* A stored row.
RowTyped(row) ==
    /\ row.history \in Seq(AnyItem) /\ Once(row.history)
    /\ row.tools \in AnySetting /\ row.loaded \in AnySetting

\* A turn can continue it.
Continuable(prev) == prev \in {First} \cup DOMAIN turnRows

\* A turn that runs, with the views and the listings it was admitted with.
Running(t) ==
    /\ Continuable(t.prev)
    /\ "new" \in DOMAIN t /\ t.new \in Seq(AnyItem) /\ NoListing(t.new)
    /\ t.declared \in AnySetting /\ t.tools \in Seq(AnyTool)
    /\ t.build.effective \in Seq(AnyTool) /\ t.build.loaded \in Seq(AnyTool)
    /\ IsFiniteSet(t.listings)
    /\ \A y \in t.listings : /\ y \in AnyItem /\ y.type = "mcp_list_tools"
                             /\ ~y.error => ~Lists(Parent(t.prev).history, y)
    /\ Agree(t.tools, t.build)
    /\ t.build.active => Ordered(t.build.effective, t.items, t.declared.value, t.restored)
    /\ \A i \in DOMAIN t.tools : t.tools[i].kind = "mcp" =>
            \E y \in AnyItem : /\ y.name = t.tools[i].name /\ y.listing = t.tools[i].discovered
                               /\ y \in t.listings \/ Lists(Parent(t.prev).history, y)

\* A sealed context: what hydrate sent is the stored parent's history with the new
\* input, and the turn that was stored for it, if any, continues that.
Sealed(c) ==
    /\ Client.mode = "split"
    /\ Continuable(c.prev)
    /\ c.new \in Seq(AnyItem) /\ NoListing(c.new)
    /\ c.tools \in AnySetting
    /\ c.sent = Parent(c.prev).history \o c.new
    /\ c.id \in DOMAIN turnRows => IsPrefix(c.sent, turnRows[c.id].history)

\* What every step preserves: the stored histories, the sealed contexts, and the
\* views and listings of the turn in process.
TurnsInvariant ==
    /\ menu \in DOMAIN Menus
    /\ Identified
    /\ \A id \in DOMAIN turnRows : RowTyped(turnRows[id])
    /\ \A c \in sealed : Sealed(c)
    /\ turn.phase = "running" => Running(turn)

\* What the client may use.
LEMMA ClientIs ==
  ASSUME TurnsInvariant
  PROVE  /\ Client.declares \subseteq AnySetting
         /\ Client.returns \subseteq Seq(AnyTool)
         /\ Client.replays \subseteq AnyCall
         /\ Client.listings \subseteq SUBSET AnyName
         /\ Client.down \subseteq BOOLEAN
         /\ Client.turns \in Nat
  BY MenusAssumption DEF Client, TurnsInvariant

\* An optional tool list, absent or present.
LEMMA NotGivenTyped == NotGiven \in AnySetting /\ \A s \in Seq(AnyTool) : Given(s) \in AnySetting
<1>1. << >> \in Seq(AnyTool)
  OBVIOUS
<1> QED BY <1>1 DEF NotGiven, Given, AnySetting

\* And its fields.
LEMMA SettingIs == \A s \in AnySetting : s.given \in BOOLEAN /\ s.value \in Seq(AnyTool)
  BY DEF AnySetting

\* A chain starts from a well-formed row.
LEMMA OriginTyped == RowTyped(Origin)
<1>1. << >> \in Seq(AnyItem) /\ Once(<< >>)
  BY DEF Once
<1> QED BY <1>1, NotGivenTyped DEF Origin, RowTyped

\* A turn continues a well-formed row.
LEMMA ParentTyped ==
  ASSUME TurnsInvariant, NEW prev, Continuable(prev) PROVE RowTyped(Parent(prev))
<1>1. CASE prev = First
  BY <1>1, OriginTyped DEF Parent
<1>2. CASE prev # First
  <2>1. prev \in DOMAIN turnRows /\ Parent(prev) = turnRows[prev]
    BY <1>2 DEF Parent, Continuable
  <2> QED BY <2>1 DEF TurnsInvariant
<1> QED BY <1>1, <1>2

\* Rehydration keeps the listings of the history.
LEMMA RehydratedTyped ==
  ASSUME NEW parent, RowTyped(parent), NEW new \in Seq(AnyItem), NoListing(new)
  PROVE  /\ RehydratedItems(parent, new) \in Seq(AnyItem)
         /\ SameListings(RehydratedItems(parent, new), parent.history)
<1> DEFINE s == parent.history \o new
<1>1. parent.history \in Seq(AnyItem)
  BY DEF RowTyped
<1>2. s \in Seq(AnyItem)
  BY <1>1
<1>3. SameListings(s, parent.history)
  <2>1. \A y : Lists(s, y) <=> Lists(parent.history, y) \/ Lists(new, y)
    BY <1>1, ListsBoth
  <2>2. \A y : y.type = "mcp_list_tools" => ~Lists(new, y)
    BY DEF Lists, NoListing
  <2> HIDE DEF s
  <2> QED BY <2>1, <2>2 DEF SameListings
<1> HIDE DEF s
<1>4. CASE Client.mode = "session"
  <2>1. RehydratedItems(parent, new) = Canonicalized(s)
    BY <1>4 DEF RehydratedItems, s
  <2>2. Canonicalized(s) \in Seq(AnyItem) /\ SameListings(Canonicalized(s), s)
    BY <1>2, CanonicalizedIs
  <2> QED BY <1>3, <2>1, <2>2 DEF SameListings
<1>5. CASE Client.mode # "session"
  BY <1>2, <1>3, <1>5 DEF RehydratedItems, s
<1> QED BY <1>4, <1>5

-----------------------------------------------------------------------------
(* The new input.                                                          *)

\* pending_calls is a left fold.
LEMMA PairFold ==
  \A b, s : FoldLeft(PairCall, b, s) = Pairing!Fold(b, s)
  BY DEF FoldLeft, MapThenFoldSet, Pairing!Fold, Pairing!Part, Pairing!Folds, Pairing!Greatest, Max

\* The pending calls are call ids.
LEMMA PendingTyped ==
  ASSUME NEW items \in Seq(AnyItem) PROVE PendingCalls(items).pending \in SUBSET Nat
<1> DEFINE T == [seen : SUBSET Nat, pending : SUBSET Nat, error : BOOLEAN]
           b == [seen |-> {}, pending |-> {}, error |-> FALSE]
<1>1. b \in T
  OBVIOUS
<1>2. \A scan \in T, item \in AnyItem : PairCall(scan, item) \in T
  <2> SUFFICES ASSUME NEW scan \in T, NEW item \in AnyItem PROVE PairCall(scan, item) \in T
    OBVIOUS
  <2>1. item.call \in Nat
    BY ItemIs
  <2>2. CASE item.type = "function_call"
    BY <2>1, <2>2 DEF PairCall
  <2>3. CASE item.type = "function_call_output"
    BY <2>1, <2>3 DEF PairCall
  <2>4. CASE item.type \notin {"function_call", "function_call_output"}
    BY <2>4 DEF PairCall
  <2> QED BY <2>2, <2>3, <2>4
<1> HIDE DEF T, b
<1>3. Pairing!Fold(b, items) \in T
  BY <1>1, <1>2, Pairing!FoldIn
<1>4. PendingCalls(items) = Pairing!Fold(b, items)
  BY PairFold DEF PendingCalls, b
<1> QED BY <1>3, <1>4 DEF T

\* A single item is a sequence, and so are two.
LEMMA SingleTyped == \A S : \A x \in S : <<x>> \in Seq(S)
  OBVIOUS

LEMMA PairTyped == \A S : \A x, y \in S : <<x, y>> \in Seq(S)
  OBVIOUS

\* The new input is items, none of them a listing.
LEMMA InputsTyped ==
  ASSUME TurnsInvariant, NEW prev, Continuable(prev), NEW new \in Inputs(prev)
  PROVE  new \in Seq(AnyItem) /\ NoListing(new)
<1> DEFINE h == Parent(prev).history
           open == PendingCalls(h).pending
           search == {h[i].call : i \in {j \in DOMAIN h : h[j].type = "tool_search_call"}}
           id == Client.turns + next
<1>1. h \in Seq(AnyItem)
  BY ParentTyped DEF RowTyped
<1>2. open \in SUBSET Nat
  BY <1>1, PendingTyped
<1>3. search \in SUBSET Nat
  <2>1. \A i \in DOMAIN h : h[i] \in AnyItem
    BY <1>1
  <2> QED BY <2>1, ItemIs
<1>4. \/ new = << >>
      \/ \E c \in open : new = <<FunctionCallOutput(c)>>
      \/ \E c \in search, tools \in Client.returns : new = <<SearchOutput(c, tools)>>
      \/ \E call \in Client.replays :
            \/ new = <<FunctionCall(id, call)>>
            \/ new = <<FunctionCall(id, call), FunctionCallOutput(id)>>
  BY DEF Inputs
<1>11. id \in Nat
  BY ClientIs DEF TurnsInvariant, Identified
<1> HIDE DEF h, open, search, id
<1>5. /\ \A c : FunctionCallOutput(c).type = "function_call_output"
      /\ \A c, tools : SearchOutput(c, tools).type = "tool_search_output"
      /\ \A c, call : FunctionCall(c, call).type = "function_call"
  BY DEF FunctionCallOutput, SearchOutput, FunctionCall, Item
<1>6. \A x : x.type # "mcp_list_tools" => NoListing(<<x>>)
  BY DEF NoListing
<1>7. CASE new = << >>
  BY <1>7 DEF NoListing
<1>8. ASSUME NEW c \in open, new = <<FunctionCallOutput(c)>> PROVE new \in Seq(AnyItem) /\ NoListing(new)
  <2>1. FunctionCallOutput(c) \in AnyItem
    BY <1>2, ItemsTyped
  <2> QED BY <1>5, <1>6, <1>8, <2>1, SingleTyped
<1>9. ASSUME NEW c \in search, NEW tools \in Client.returns, new = <<SearchOutput(c, tools)>>
      PROVE  new \in Seq(AnyItem) /\ NoListing(new)
  <2>1. tools \in Seq(AnyTool)
    BY ClientIs
  <2>2. SearchOutput(c, tools) \in AnyItem
    BY <1>3, <2>1, ItemsTyped
  <2> QED BY <1>5, <1>6, <1>9, <2>2, SingleTyped
<1>10. ASSUME NEW call \in Client.replays,
              new = <<FunctionCall(id, call)>> \/ new = <<FunctionCall(id, call), FunctionCallOutput(id)>>
       PROVE  new \in Seq(AnyItem) /\ NoListing(new)
  <2>1. call \in AnyCall
    BY ClientIs
  <2> DEFINE x == FunctionCall(id, call)
             y == FunctionCallOutput(id)
  <2>2. x \in AnyItem /\ y \in AnyItem
    BY <1>11, <2>1, ItemsTyped
  <2>3. x.type # "mcp_list_tools" /\ y.type # "mcp_list_tools"
    BY <1>5
  <2>4. new = <<x>> \/ new = <<x, y>>
    BY <1>10
  <2> HIDE DEF x, y
  <2>5. CASE new = <<x>>
    BY <1>6, <2>2, <2>3, <2>5, SingleTyped
  <2>6. CASE new = <<x, y>>
    <3>1. new \in Seq(AnyItem)
      BY <2>2, <2>6, PairTyped
    <3>2. NoListing(new)
      BY <2>3, <2>6 DEF NoListing
    <3> QED BY <3>1, <3>2
  <2> QED BY <2>4, <2>5, <2>6
<1> QED BY <1>4, <1>7, <1>8, <1>9, <1>10

\* A client continues what is stored.
LEMMA ContinuedAre ==
  ASSUME TurnsInvariant, NEW prev \in Continued PROVE Continuable(prev)
<1> DEFINE D == {First} \cup DOMAIN turnRows
           Bounds == {k \in Nat : \A d \in D : d <= k}
<1>1. D \subseteq 0 .. next /\ 0 \in D /\ next \in Nat
  BY DEF TurnsInvariant, Identified, First
<1>2. Max(D) \in D
  <2> HIDE DEF D
  <2>1. next \in Bounds
    BY <1>1
  <2>2. PICK m \in Bounds : \A k \in Bounds : m <= k
    <3> HIDE DEF Bounds
    <3>1. Bounds \in SUBSET Nat
      BY DEF Bounds
    <3> QED BY <2>1, <3>1, Pairing!Least
  <2>3. m \in D
    <3> SUFFICES ASSUME m \notin D PROVE FALSE
      OBVIOUS
    <3>1. m # 0 /\ m \in Nat
      BY <1>1
    <3>2. \A d \in D : d \in Nat /\ d <= m /\ d # m
      BY <1>1
    <3>3. m - 1 \in Bounds
      BY <3>1, <3>2
    <3> QED BY <2>2, <3>1, <3>3
  <2>4. \A y \in D : m >= y
    BY <1>1
  <2> QED BY <2>3, <2>4 DEF Max
<1> QED BY <1>2 DEF Continued, Continuable

-----------------------------------------------------------------------------
(* A turn is admitted.                                                     *)

\* The effective and the restored tools are tool lists.
LEMMA EffectiveTyped ==
  ASSUME NEW parent, RowTyped(parent), NEW explicit \in AnySetting, NEW items
  PROVE  /\ EffectiveTools(parent, explicit, items) \in AnySetting
         /\ EffectiveTools(parent, explicit, items).value \in Seq(AnyTool)
         /\ RestoredLoadedTools(parent, items) \in Seq(AnyTool)
<1>1. parent.tools \in AnySetting /\ parent.loaded \in AnySetting
  BY DEF RowTyped
<1>2. EffectiveTools(parent, explicit, items) \in AnySetting
  BY <1>1, NotGivenTyped DEF EffectiveTools, Inherits
<1>3. RestoredLoadedTools(parent, items) \in Seq(AnyTool)
  <2>1. << >> \in Seq(AnyTool)
    OBVIOUS
  <2> QED BY <1>1, <2>1, SettingIs DEF RestoredLoadedTools
<1> QED BY <1>2, <1>3, SettingIs

\* The context once the turn runs.
Started(p, seen, listings) == [p EXCEPT !.phase = "running", !.tools = seen, !.listings = listings]

\* The context once the turn is rejected.
Over(p, cause) == [p EXCEPT !.phase = "rejected", !.cause = cause]

\* What a context holds.
Holds(t, prev, new, items, declared, restored, v) ==
    /\ t.prev = prev /\ "new" \in DOMAIN t /\ t.new = new /\ t.items = items /\ t.declared = declared
    /\ t.restored = restored /\ t.build = v

\* What it holds once it is prepared, and when the turn runs.
LEMMA PreparedIs ==
  ASSUME NEW prev, NEW explicit, NEW choice, NEW new, NEW parent, NEW items, NEW tools, NEW p,
         p = Prepared(prev, explicit, choice, new, parent, items, tools),
         NEW restored, restored = RestoredLoadedTools(parent, items),
         NEW v, v = Build(tools.value, items, restored, explicit.given, FALSE, EffectiveChoice(parent, choice, items))
  PROVE  /\ Holds(p, prev, new, items, tools, restored, v)
         /\ \A seen, listings :
               /\ Holds(Started(p, seen, listings), prev, new, items, tools, restored, v)
               /\ Started(p, seen, listings).tools = seen
               /\ Started(p, seen, listings).listings = listings
         /\ \A cause : Over(p, cause).phase = "rejected"
  BY DEF Prepared, Holds, Started, Over

\* A turn runs only if the build and the registry accept it.
LEMMA AdmittedIs ==
  ASSUME NEW p, NEW calls, NEW listed, NEW down, NEW t, t = Admitted(p, calls, listed, down),
         t.phase = "running",
         \A cause : Over(p, cause).phase = "rejected"
  PROVE  /\ ~p.build.error
         /\ ~RegistryRejects(p.build, Registry(Discover(p.build.private, listed)))
         /\ t = Started(p, Discover(p.build.private, listed),
                        NewListings(Discover(p.build.private, listed), listed, down, p.build.input))
<1> DEFINE seen == Discover(p.build.private, listed)
           new(s) == NewListings(s, listed, down, p.build.input)
<1>1. CASE p.build.error
  <2>1. t = Checked(p, Cause(p, calls, << >>), << >>, listed, down)
    BY <1>1 DEF Admitted
  <2>2. Cause(p, calls, << >>) # "none"
    BY <1>1 DEF Cause
  <2>3. t = Over(p, Cause(p, calls, << >>))
    BY <2>1, <2>2, Zenon DEF Checked, Over, Started
  <2> QED BY <2>3
<1>2. CASE ~p.build.error
  <2>1. t = Checked(p, Cause(p, calls, seen), seen, listed, down)
    BY <1>2 DEF Admitted
  <2>2. CASE Cause(p, calls, seen) # "none"
    <3>1. t = Over(p, Cause(p, calls, seen))
      BY <2>1, <2>2, Zenon DEF Checked, Over, Started
    <3> QED BY <3>1
  <2>3. CASE Cause(p, calls, seen) = "none"
    <3>1. t = Started(p, seen, new(seen))
      BY <2>1, <2>3, Zenon DEF Checked, Over, Started
    <3>2. ~RegistryRejects(p.build, Registry(seen))
      <4> HIDE DEF seen
      <4> QED BY <2>3 DEF Cause
    <3> QED BY <1>2, <3>1, <3>2
  <2> QED BY <2>2, <2>3
<1> QED BY <1>1, <1>2

\* A turn that is admitted has the views and the listings that Running says.
LEMMA SubmitRuns ==
  ASSUME TurnsInvariant, NEW prev, Continuable(prev), NEW explicit \in AnySetting, NEW choice,
         NEW new \in Seq(AnyItem), NoListing(new), NEW listing \in SUBSET AnyName, NEW down \in BOOLEAN,
         NEW t, t.phase = "running", NEW calls,
         t = Admitted(Prepared(prev, explicit, choice, new, Parent(prev), RehydratedItems(Parent(prev), new),
                               EffectiveTools(Parent(prev), explicit, RehydratedItems(Parent(prev), new))),
                      calls, IF down THEN {} ELSE listing, down)
  PROVE  Running(t)
<1> DEFINE parent == Parent(prev)
           items == RehydratedItems(parent, new)
           tools == EffectiveTools(parent, explicit, items)
           restored == RestoredLoadedTools(parent, items)
           p == Prepared(prev, explicit, choice, new, parent, items, tools)
           listed == IF down THEN {} ELSE listing
           v == p.build
           seen == Discover(v.private, listed)
           L == NewListings(seen, listed, down, v.input)
<1>1. RowTyped(parent)
  BY ParentTyped
<1> HIDE DEF parent
<1>2. items \in Seq(AnyItem) /\ SameListings(items, parent.history)
  BY <1>1, RehydratedTyped
<1> HIDE DEF items
<1>3. tools \in AnySetting /\ tools.value \in Seq(AnyTool) /\ restored \in Seq(AnyTool)
  BY <1>1, EffectiveTyped
<1>4. listed \in SUBSET AnyName
  OBVIOUS
<1> HIDE DEF tools, listed
<1> DEFINE w == Build(tools.value, items, restored, explicit.given, FALSE, EffectiveChoice(parent, choice, items))
<1>5. t = Admitted(p, calls, listed, down)
  BY DEF listed, tools, items, parent
<1>6. p = Prepared(prev, explicit, choice, new, parent, items, tools)
  OBVIOUS
<1> HIDE DEF p, restored, w
<1>7. /\ Holds(p, prev, new, items, tools, restored, w)
      /\ \A s, l : /\ Holds(Started(p, s, l), prev, new, items, tools, restored, w)
                   /\ Started(p, s, l).tools = s /\ Started(p, s, l).listings = l
      /\ \A cause : Over(p, cause).phase = "rejected"
  <2>1. p = [prev |-> prev, new |-> new, answered |-> new, items |-> items, declared |-> tools,
             choice |-> EffectiveChoice(parent, choice, items), restored |-> restored, build |-> w,
             kept |-> parent.kept /\ Keeps(parent, explicit),
             phase |-> "prepared", cause |-> "none", tools |-> << >>, listings |-> {}]
    BY <1>6, Zenon DEF Prepared, restored, w
  <2> HIDE DEF v, seen, L
  <2> QED BY <2>1 DEF Holds, Started, Over
<1>8. v = w
  BY <1>7 DEF Holds
<1>9. ~v.error /\ ~RegistryRejects(v, Registry(seen)) /\ t = Started(p, seen, L)
  <2>1. /\ ~p.build.error
        /\ ~RegistryRejects(p.build, Registry(Discover(p.build.private, listed)))
        /\ t = Started(p, Discover(p.build.private, listed),
                       NewListings(Discover(p.build.private, listed), listed, down, p.build.input))
    BY <1>5, <1>7, AdmittedIs
  <2> QED BY <2>1
<1> HIDE DEF v, seen, L
<1>10. /\ t.prev = prev /\ "new" \in DOMAIN t /\ t.new = new /\ t.items = items /\ t.declared = tools
       /\ t.restored = restored /\ t.build = v /\ t.tools = seen /\ t.listings = L
  BY <1>7, <1>8, <1>9 DEF Holds
<1>11. Accepted(v, tools.value, items, restored)
  <2>1. v = Build(tools.value, items, restored, explicit.given, FALSE, EffectiveChoice(parent, choice, items))
    BY <1>8 DEF w
  <2> QED BY <1>2, <1>3, <1>9, <2>1, BuildIs DEF Accepted
<1>12. /\ v.private \in Seq(AnyTool) /\ v.effective \in Seq(AnyTool) /\ v.loaded \in Seq(AnyTool)
       /\ SameListings(v.input, items)
  BY <1>2, <1>3, <1>11, AcceptedTyped
<1>13. /\ seen \in Seq(AnyTool) /\ seen = Discover(v.private, listed)
       /\ \A i \in DOMAIN seen : seen[i].kind = "mcp" => seen[i].discovered = listed
  <2>1. \A i \in DOMAIN seen : i \in DOMAIN v.private /\ seen[i].kind = v.private[i].kind
    BY <1>4, <1>12, DiscoverIs DEF seen
  <2> QED BY <1>4, <1>12, <2>1, DiscoverIs DEF seen
<1>14. Agree(seen, v)
  BY <1>3, <1>4, <1>9, <1>11, <1>12, <1>13, AcceptedReachable, ViewsMeet
<1>15. v.active => Ordered(v.effective, items, tools.value, restored)
  BY <1>11 DEF Accepted, Inactive, Viewed
<1>16. \A y \in AnyItem : y.type = "mcp_list_tools" => (Lists(v.input, y) <=> Lists(parent.history, y))
  BY <1>2, <1>12 DEF SameListings
<1>17. /\ IsFiniteSet(L)
       /\ \A y \in L : y \in AnyItem /\ y.type = "mcp_list_tools" /\ (~y.error => ~Lists(v.input, y))
       /\ \A i \in DOMAIN seen : seen[i].kind = "mcp" =>
             \E y \in AnyItem : /\ y.type = "mcp_list_tools" /\ y.name = seen[i].name /\ y.listing = listed
                                /\ y \in L \/ Lists(v.input, y)
  BY <1>4, <1>13, NewListingsAre DEF L
<1>18. \A i \in DOMAIN seen : seen[i].kind = "mcp" =>
             \E y \in AnyItem : /\ y.name = seen[i].name /\ y.listing = seen[i].discovered
                                /\ y \in L \/ Lists(parent.history, y)
  BY <1>13, <1>16, <1>17
<1>19. \A y \in L : y \in AnyItem /\ y.type = "mcp_list_tools" /\ (~y.error => ~Lists(parent.history, y))
  BY <1>16, <1>17
<1>20. Parent(t.prev) = parent
  BY <1>10 DEF parent
<1> HIDE DEF items, p
<1>21. /\ Continuable(t.prev) /\ "new" \in DOMAIN t /\ t.new \in Seq(AnyItem) /\ NoListing(t.new)
       /\ t.declared \in AnySetting /\ t.tools \in Seq(AnyTool)
       /\ t.build.effective \in Seq(AnyTool) /\ t.build.loaded \in Seq(AnyTool)
       /\ IsFiniteSet(t.listings)
  BY <1>3, <1>10, <1>12, <1>13, <1>17
<1>22. \A y \in t.listings : /\ y \in AnyItem /\ y.type = "mcp_list_tools"
                             /\ ~y.error => ~Lists(Parent(t.prev).history, y)
  BY <1>10, <1>19, <1>20
<1>23. /\ Agree(t.tools, t.build)
       /\ t.build.active => Ordered(t.build.effective, t.items, t.declared.value, t.restored)
  BY <1>10, <1>14, <1>15
<1>24. \A i \in DOMAIN t.tools : t.tools[i].kind = "mcp" =>
            \E y \in AnyItem : /\ y.name = t.tools[i].name /\ y.listing = t.tools[i].discovered
                               /\ y \in t.listings \/ Lists(Parent(t.prev).history, y)
  BY <1>10, <1>18, <1>20
<1> QED BY <1>21, <1>22, <1>23, <1>24 DEF Running

-----------------------------------------------------------------------------
(* A turn is stored.                                                       *)

\* What a row takes in besides the input: its listings are new to the history.
Fresh(output, history) ==
    /\ output \in Seq(AnyItem) /\ Once(output)
    /\ \A i \in DOMAIN output :
          output[i].type = "mcp_list_tools" /\ ~output[i].error => ~Lists(history, output[i])

\* The listings of a turn in some order, and the answer after them.
LEMMA ListingsFresh ==
  ASSUME NEW L, IsFiniteSet(L), NEW history,
         \A y \in L : y \in AnyItem /\ y.type = "mcp_list_tools" /\ (~y.error => ~Lists(history, y))
  PROVE  Fresh(SetToSeq(L), history)
<1> DEFINE s == SetToSeq(L)
<1>1. s \in Seq(L) /\ \A i, j \in DOMAIN s : s[i] = s[j] => i = j
  BY SetToSeqIs
<1>2. s \in Seq(AnyItem)
  BY <1>1
<1>3. \A i \in DOMAIN s : s[i] \in L
  BY <1>1
<1> HIDE DEF s
<1>4. Once(s)
  <2> SUFFICES ASSUME NEW i \in DOMAIN s, NEW j \in DOMAIN s, i < j PROVE s[i] # s[j]
    BY DEF Once
  <2>1. i # j
    BY <1>2
  <2> QED BY <1>1, <2>1
<1> QED BY <1>2, <1>3, <1>4 DEF Fresh, s

\* Nothing is new to any history.
LEMMA FreshNothing == ASSUME NEW history PROVE Fresh(<< >>, history)
BY DEF Fresh, Once

\* So are items that are no listings.
LEMMA FreshNoListing ==
  ASSUME NEW output \in Seq(AnyItem), NoListing(output), NEW history PROVE Fresh(output, history)
BY NoListingOnce DEF Fresh, NoListing

\* They may follow what is new.
LEMMA FreshBoth ==
  ASSUME NEW s, NEW t \in Seq(AnyItem), NoListing(t), NEW history, Fresh(s, history)
  PROVE  Fresh(s \o t, history)
<1>1. s \in Seq(AnyItem) /\ Once(s) /\ s \o t \in Seq(AnyItem)
  BY DEF Fresh
<1>2. Once(t)
  BY NoListingOnce
<1>3. Once(s \o t)
  BY <1>1, <1>2, OnceBoth DEF NoListing
<1>4. \A i \in DOMAIN (s \o t) :
         \/ i \in DOMAIN s /\ (s \o t)[i] = s[i]
         \/ \E k \in DOMAIN t : (s \o t)[i] = t[k]
  <2> SUFFICES ASSUME NEW i \in DOMAIN (s \o t)
               PROVE  \/ i \in DOMAIN s /\ (s \o t)[i] = s[i]
                      \/ \E k \in DOMAIN t : (s \o t)[i] = t[k]
    OBVIOUS
  <2>1. CASE i \in DOMAIN s
    BY <1>1, <2>1
  <2>2. CASE i \notin DOMAIN s
    <3>1. i - Len(s) \in DOMAIN t /\ (s \o t)[i] = t[i - Len(s)]
      BY <1>1, <2>2
    <3> QED BY <3>1
  <2> QED BY <2>1, <2>2
<1> QED BY <1>1, <1>3, <1>4 DEF Fresh, NoListing

\* The model's answer is text or one call of what it was offered.
LEMMA AnswersTyped ==
  ASSUME NEW tools \in Seq(AnyTool), NEW call \in Nat, NEW answer \in Answers(tools, call)
  PROVE  answer \in Seq(AnyItem) /\ NoListing(answer)
<1>1. CASE answer = << >>
  BY <1>1 DEF NoListing
<1>2. CASE answer = <<SearchCall(call)>>
  <2>1. SearchCall(call) \in AnyItem /\ SearchCall(call).type = "tool_search_call"
    BY ItemsTyped DEF SearchCall, Item
  <2> QED BY <1>2, <2>1, SingleTyped DEF NoListing
<1>3. ASSUME NEW n \in Upstream(tools), answer = <<FunctionCall(call, PublicCall(tools, n))>>
      PROVE  answer \in Seq(AnyItem) /\ NoListing(answer)
  <2>1. PublicCall(tools, n) \in AnyCall
    BY UpstreamTyped, PublicCallIs
  <2>2. FunctionCall(call, PublicCall(tools, n)) \in AnyItem
    BY <2>1, ItemsTyped
  <2>3. FunctionCall(call, PublicCall(tools, n)).type = "function_call"
    BY DEF FunctionCall, Item
  <2> QED BY <1>3, <2>2, <2>3, SingleTyped DEF NoListing
<1> QED BY <1>1, <1>2, <1>3 DEF Answers

\* The history of a stored turn.
LEMMA RowIs ==
  ASSUME NEW parent, RowTyped(parent), NEW new \in Seq(AnyItem), NoListing(new),
         NEW output, Fresh(output, parent.history), NEW t,
         NEW tools \in AnySetting, NEW loaded \in AnySetting
  PROVE  RowTyped(Row(parent, t, new, tools, loaded, output))
<1> DEFINE h == IF Client.mode = "session" /\ ContainsCompaction(new)
                THEN At(parent.history, Listings(parent.history)) ELSE parent.history
<1>1. parent.history \in Seq(AnyItem) /\ Once(parent.history)
  BY DEF RowTyped
<1>2. /\ h \in Seq(AnyItem) /\ Once(h) /\ SameListings(h, parent.history)
  <2>1. /\ At(parent.history, Listings(parent.history)) \in Seq(AnyItem)
        /\ SameListings(At(parent.history, Listings(parent.history)), parent.history)
    BY <1>1, ListingsAre
  <2>2. Once(At(parent.history, Listings(parent.history)))
    BY <1>1, OnceAt
  <2>3. SameListings(parent.history, parent.history)
    BY DEF SameListings
  <2> QED BY <1>1, <2>1, <2>2, <2>3
<1>3. Row(parent, t, new, tools, loaded, output).history = h \o new \o output
  BY DEF Row
<1>4. Row(parent, t, new, tools, loaded, output).tools = tools
      /\ Row(parent, t, new, tools, loaded, output).loaded = loaded
  BY DEF Row
<1> HIDE DEF h
<1>5. h \o new \in Seq(AnyItem) /\ Once(h \o new)
  <2>1. \A i \in DOMAIN new : new[i].type = "mcp_list_tools" /\ ~new[i].error => ~Lists(h, new[i])
    BY DEF NoListing
  <2> QED BY <1>2, <2>1, NoListingOnce, OnceBoth
<1>6. output \in Seq(AnyItem) /\ Once(output)
  BY DEF Fresh
<1>7. ASSUME NEW i \in DOMAIN output, output[i].type = "mcp_list_tools", ~output[i].error
      PROVE  ~Lists(h \o new, output[i])
  <2>1. output[i] \in AnyItem
    BY <1>6
  <2>2. ~Lists(parent.history, output[i])
    BY <1>7 DEF Fresh
  <2>3. ~Lists(h, output[i])
    BY <1>2, <1>7, <2>1, <2>2 DEF SameListings
  <2>4. ~Lists(new, output[i])
    BY <1>7 DEF Lists, NoListing
  <2> QED BY <1>2, <2>3, <2>4, ListsBoth
<1>8. h \o new \o output \in Seq(AnyItem) /\ Once(h \o new \o output)
  <2> DEFINE s == h \o new
  <2>1. s \in Seq(AnyItem) /\ Once(s)
    BY <1>5
  <2>2. \A i \in DOMAIN output :
           output[i].type = "mcp_list_tools" /\ ~output[i].error => ~Lists(s, output[i])
    BY <1>7
  <2> HIDE DEF s
  <2>3. Once(s \o output)
    BY <1>6, <2>1, <2>2, OnceBoth
  <2> QED BY <1>6, <2>1, <2>3 DEF s
<1> QED BY <1>3, <1>4, <1>8 DEF RowTyped

\* The row of a turn, with the metadata the next one starts from.
LEMMA PreparedRowIs ==
  ASSUME TurnsInvariant, NEW t, Continuable(t.prev), t.declared \in AnySetting,
         t.build.effective \in Seq(AnyTool), t.build.loaded \in Seq(AnyTool),
         NEW new \in Seq(AnyItem), NoListing(new), NEW output, Fresh(output, Parent(t.prev).history)
  PROVE  RowTyped(PreparedRow(t, new, output))
<1> DEFINE tools == IF t.build.active
                    THEN IF t.declared.given \/ t.build.effective # << >>
                         THEN Given(t.build.effective) ELSE NotGiven
                    ELSE t.declared
           loaded == IF t.build.active THEN Given(t.build.loaded) ELSE NotGiven
<1>1. tools \in AnySetting /\ loaded \in AnySetting
  BY NotGivenTyped
<1>2. PreparedRow(t, new, output) = Row(Parent(t.prev), t, new, tools, loaded, output)
  BY DEF PreparedRow
<1>3. RowTyped(Parent(t.prev))
  BY ParentTyped
<1> HIDE DEF tools, loaded
<1> QED BY <1>1, <1>2, <1>3, RowIs

\* A row is stored beside the others.
LEMMA StoringIs ==
  ASSUME TurnsInvariant, NEW id, NEW row, RowTyped(row), turnRows' = Storing(id, row)
  PROVE  \A k \in DOMAIN turnRows' : RowTyped(turnRows'[k])
BY DEF Storing, TurnsInvariant

\* What is continued is not changed by the turns stored meanwhile.
LEMMA ParentsKept ==
  ASSUME \A id \in DOMAIN turnRows : id \in DOMAIN turnRows' /\ turnRows'[id] = turnRows[id],
         NEW prev, Continuable(prev)
  PROVE  Continuable(prev)' /\ Parent(prev)' = Parent(prev)
BY DEF Continuable, Parent

\* A turn that runs is not disturbed by what is stored meanwhile.
LEMMA RunningKept ==
  ASSUME \A id \in DOMAIN turnRows : id \in DOMAIN turnRows' /\ turnRows'[id] = turnRows[id],
         Running(turn), turn' = turn
  PROVE  Running(turn)'
<1>1. Continuable(turn.prev)
  BY DEF Running
<1>2. Continuable(turn.prev)'
  BY <1>1 DEF Continuable
<1>3. Parent(turn.prev)' = Parent(turn.prev)
  BY <1>1 DEF Continuable, Parent
<1> QED BY <1>2, <1>3 DEF Running

\* A sealed context is what it was when its parent and the turn stored for it,
\* if any, are unchanged and none is stored for it.
LEMMA SealedStays ==
  ASSUME TurnsInvariant, menu' = menu, NEW c, Sealed(c),
         \A id \in DOMAIN turnRows : id \in DOMAIN turnRows' /\ turnRows'[id] = turnRows[id],
         c.id \in DOMAIN turnRows' => c.id \in DOMAIN turnRows
  PROVE  Sealed(c)'
<1>1. Continuable(c.prev)' /\ Parent(c.prev)' = Parent(c.prev)
  BY ParentsKept DEF Sealed
<1>2. Client' = Client
  BY DEF Client
<1>3. /\ Client.mode = "split" /\ c.new \in Seq(AnyItem) /\ NoListing(c.new) /\ c.tools \in AnySetting
      /\ c.sent = Parent(c.prev).history \o c.new
      /\ c.id \in DOMAIN turnRows => IsPrefix(c.sent, turnRows[c.id].history)
  BY DEF Sealed
<1>4. c.id \in DOMAIN turnRows' => IsPrefix(c.sent, turnRows'[c.id].history)
  BY <1>3
<1>5. c.sent = Parent(c.prev)'.history \o c.new
  BY <1>1, <1>3
<1> QED BY <1>1, <1>2, <1>3, <1>4, <1>5 DEF Sealed

\* Turns that run in process, and compacted windows, leave the contexts alone.
LEMMA SealedKept ==
  ASSUME TurnsInvariant, TurnsNext, menu' = menu, sealed' = sealed,
         turnRows' = turnRows \/ \E row : turnRows' = Storing(next, row)
  PROVE  \A c \in sealed' : Sealed(c)'
<1> SUFFICES ASSUME NEW c \in sealed PROVE Sealed(c)'
  OBVIOUS
<1>1. Sealed(c) /\ c.id # next
  BY DEF TurnsInvariant, Identified
<1>2. c.id \in DOMAIN turnRows' => c.id \in DOMAIN turnRows
  BY <1>1 DEF Storing
<1>3. \A id \in DOMAIN turnRows : id \in DOMAIN turnRows' /\ turnRows'[id] = turnRows[id]
  BY SealedStep DEF TurnsInvariant
<1> QED BY <1>1, <1>2, <1>3, SealedStays

\* What is sent is continued by what is stored.
LEMMA Continues ==
  ASSUME NEW s \in Seq(AnyItem), NEW t \in Seq(AnyItem) PROVE IsPrefix(s, s \o t)
<1>1. Len(s) <= Len(s \o t) /\ \A i \in 1 .. Len(s) : (s \o t)[i] = s[i]
  OBVIOUS
<1>2. SubSeq(s \o t, 1, Len(s)) = SubSeq(s, 1, Len(s))
  <2>1. SubSeq(s \o t, 1, Len(s)) = [i \in 1 .. Len(s) |-> (s \o t)[i]]
    OBVIOUS
  <2>2. SubSeq(s, 1, Len(s)) = [i \in 1 .. Len(s) |-> s[i]]
    OBVIOUS
  <2> QED BY <1>1, <2>1, <2>2
<1> QED BY <1>1, <1>2 DEF IsPrefix

\* The invariant after a step, from its parts.
LEMMA StepIs ==
  ASSUME TurnsInvariant, TurnsNext, menu' = menu,
         \A id \in DOMAIN turnRows' : RowTyped(turnRows'[id]),
         \A c \in sealed' : Sealed(c)',
         turn'.phase = "running" => Running(turn)'
  PROVE  TurnsInvariant'
<1>1. Identified'
  BY SealedStep DEF TurnsInvariant
<1>2. menu' \in DOMAIN Menus
  BY DEF TurnsInvariant
<1>3. \A id \in DOMAIN turnRows' : RowTyped(turnRows[id])'
  BY DEF RowTyped
<1>4. \A c \in sealed' : Sealed(c)'
  OBVIOUS
<1> QED BY <1>1, <1>2, <1>3, <1>4 DEF TurnsInvariant

\* A step changes no stored row.
LEMMA RowsKept ==
  ASSUME TurnsInvariant, TurnsNext
  PROVE  \A id \in DOMAIN turnRows : id \in DOMAIN turnRows' /\ turnRows'[id] = turnRows[id]
BY SealedStep DEF TurnsInvariant

\* The rows of a step that stores nothing.
LEMMA RowsSame ==
  ASSUME TurnsInvariant, turnRows' = turnRows
  PROVE  \A id \in DOMAIN turnRows' : RowTyped(turnRows'[id])
BY DEF TurnsInvariant

-----------------------------------------------------------------------------
(* The steps.                                                              *)

\* A turn is submitted.
LEMMA SubmitStep ==
  ASSUME TurnsInvariant, TurnsNext, NEW prev \in Continued, NEW explicit \in Client.declares,
         NEW choice, NEW new \in Inputs(prev), NEW listing \in Client.listings, NEW down \in Client.down,
         Submit(prev, explicit, choice, new, listing, down)
  PROVE  TurnsInvariant'
<1>1. /\ menu' = menu /\ turnRows' = turnRows /\ sealed' = sealed
      /\ turn' = Admitted(Prepared(prev, explicit, choice, new, Parent(prev), RehydratedItems(Parent(prev), new),
                               EffectiveTools(Parent(prev), explicit, RehydratedItems(Parent(prev), new))),
                      RehydratedCalls(prev, RehydratedItems(Parent(prev), new)),
                      IF down THEN {} ELSE listing, down)
  BY Zenon DEF Submit
<1>2. Continuable(prev) /\ new \in Seq(AnyItem) /\ NoListing(new)
  BY ContinuedAre, InputsTyped
<1>3. explicit \in AnySetting /\ listing \in SUBSET AnyName /\ down \in BOOLEAN
  BY ClientIs
<1>4. turn'.phase = "running" => Running(turn')
  BY <1>1, <1>2, <1>3, SubmitRuns
<1>5. Running(turn') => Running(turn)'
  BY <1>1 DEF Running, Continuable, Parent
<1> QED BY <1>1, <1>4, <1>5, RowsKept, RowsSame, SealedKept, StepIs

\* A turn is over, or refused.
LEMMA IdleStep ==
  ASSUME TurnsInvariant, TurnsNext, Refused \/ Abort
  PROVE  TurnsInvariant'
<1>1. menu' = menu /\ turnRows' = turnRows /\ sealed' = sealed /\ turn' = Idle
  BY DEF Refused, Abort
<1>2. turn'.phase # "running"
  BY <1>1 DEF Idle
<1> QED BY <1>1, <1>2, RowsKept, RowsSame, SealedKept, StepIs

\* The summary takes the place of the input; the views stay.
LEMMA CompactStep ==
  ASSUME TurnsInvariant, TurnsNext, Compact
  PROVE  TurnsInvariant'
<1>1. /\ menu' = menu /\ turnRows' = turnRows /\ sealed' = sealed
      /\ turn' = [turn EXCEPT !.new = <<Item("compaction")>>] /\ turn.phase = "running"
  BY DEF Compact
<1>2. Running(turn)
  BY <1>1 DEF TurnsInvariant
<1>3. <<Item("compaction")>> \in Seq(AnyItem) /\ NoListing(<<Item("compaction")>>)
  <2>1. Item("compaction") \in AnyItem
    BY ItemsTyped DEF ItemTypes
  <2>2. Item("compaction").type = "compaction"
    BY DEF Item
  <2> QED BY <2>1, <2>2, SingleTyped DEF NoListing
<1>4. /\ turn'.prev = turn.prev /\ turn'.items = turn.items /\ turn'.declared = turn.declared
      /\ turn'.restored = turn.restored /\ turn'.build = turn.build /\ turn'.tools = turn.tools
      /\ turn'.listings = turn.listings
  BY <1>1
<1>5. "new" \in DOMAIN turn' /\ turn'.new \in Seq(AnyItem) /\ NoListing(turn'.new)
  <2>1. "new" \in DOMAIN turn
    BY <1>2 DEF Running
  <2>2. turn'.new = <<Item("compaction")>> /\ "new" \in DOMAIN turn'
    BY <1>1, <2>1
  <2> QED BY <1>3, <2>2
<1>6. Running(turn')
  BY <1>2, <1>4, <1>5 DEF Running
<1>7. Running(turn') => Running(turn)'
  BY <1>1 DEF Running, Continuable, Parent
<1> QED BY <1>1, <1>6, <1>7, RowsKept, RowsSame, SealedKept, StepIs

\* A turn is stored, with the listings it announced.
LEMMA RespondStep ==
  ASSUME TurnsInvariant, TurnsNext, Respond
  PROVE  TurnsInvariant'
<1>1. PICK answer \in Answers(turn.tools, next) :
        turnRows' = Storing(next, PreparedRow(turn, turn.new, SetToSeq(turn.listings) \o answer))
  BY Zenon DEF Respond
<1>2. menu' = menu /\ sealed' = sealed /\ turn' = Idle /\ turn.phase = "running"
  BY Zenon DEF Respond
<1>3. turn'.phase # "running"
  BY <1>2 DEF Idle
<1>4. Running(turn) /\ next \in Nat
  BY <1>2 DEF TurnsInvariant, Identified
<1>5. answer \in Seq(AnyItem) /\ NoListing(answer)
  BY <1>4, AnswersTyped DEF Running
<1>6. Fresh(SetToSeq(turn.listings), Parent(turn.prev).history)
  <2>1. \A y \in turn.listings : /\ y \in AnyItem /\ y.type = "mcp_list_tools"
                                 /\ ~y.error => ~Lists(Parent(turn.prev).history, y)
    BY <1>4 DEF Running
  <2>2. IsFiniteSet(turn.listings)
    BY <1>4 DEF Running
  <2> QED BY <2>1, <2>2, ListingsFresh
<1>7. Fresh(SetToSeq(turn.listings) \o answer, Parent(turn.prev).history)
  BY <1>5, <1>6, FreshBoth
<1>8. RowTyped(PreparedRow(turn, turn.new, SetToSeq(turn.listings) \o answer))
  BY <1>4, <1>7, PreparedRowIs DEF Running
<1>9. \A k \in DOMAIN turnRows' : RowTyped(turnRows'[k])
  BY <1>1, <1>8, StoringIs
<1>10. \E row : turnRows' = Storing(next, row)
  BY <1>1
<1>11. \A c \in sealed' : Sealed(c)'
  BY <1>2, <1>10, SealedKept
<1> QED BY <1>2, <1>3, <1>9, <1>11, StepIs

\* A compacted window is stored.
LEMMA CompactResponseStep ==
  ASSUME TurnsInvariant, TurnsNext, NEW prev \in Continued, NEW new \in Inputs(prev),
         CompactResponse(prev, new)
  PROVE  TurnsInvariant'
<1> DEFINE parent == Parent(prev)
           items == RehydratedItems(parent, new)
           tools == EffectiveTools(parent, NotGiven, items)
           restored == RestoredLoadedTools(parent, items)
           c == Prepared(prev, NotGiven, NotGiven, new, parent, items, tools)
           w == Build(tools.value, items, restored, NotGiven.given, FALSE, EffectiveChoice(parent, NotGiven, items))
<1>1. /\ menu' = menu /\ sealed' = sealed /\ turn' = turn /\ ~c.build.error
      /\ turnRows' = Storing(next, PreparedRow(c, <<Item("compaction")>>, << >>))
  BY Zenon DEF CompactResponse
<1>2. c.prev = prev /\ c.declared = tools /\ c.build = w
  BY DEF Prepared
<1>3. Continuable(prev) /\ new \in Seq(AnyItem) /\ NoListing(new)
  BY ContinuedAre, InputsTyped
<1>4. RowTyped(parent)
  BY <1>3, ParentTyped
<1> HIDE DEF parent, c
<1>5. items \in Seq(AnyItem)
  BY <1>3, <1>4, RehydratedTyped
<1> HIDE DEF items
<1>6. tools \in AnySetting /\ tools.value \in Seq(AnyTool) /\ restored \in Seq(AnyTool)
  BY <1>4, NotGivenTyped, EffectiveTyped
<1> HIDE DEF tools, restored
<1>7. ~w.error
  BY <1>1, <1>2
<1>8. w = Build(tools.value, items, restored, NotGiven.given, FALSE, EffectiveChoice(parent, NotGiven, items))
  OBVIOUS
<1> HIDE DEF w
<1>9. Accepted(w, tools.value, items, restored)
  BY <1>5, <1>6, <1>7, <1>8, BuildIs DEF Accepted
<1>10. w.effective \in Seq(AnyTool) /\ w.loaded \in Seq(AnyTool)
  BY <1>5, <1>6, <1>9, AcceptedTyped
<1>11. <<Item("compaction")>> \in Seq(AnyItem) /\ NoListing(<<Item("compaction")>>)
  <2>1. Item("compaction") \in AnyItem
    BY ItemsTyped DEF ItemTypes
  <2>2. Item("compaction").type = "compaction"
    BY DEF Item
  <2> QED BY <2>1, <2>2, SingleTyped DEF NoListing
<1>12. Fresh(<< >>, Parent(c.prev).history)
  BY FreshNothing
<1>13. /\ Continuable(c.prev) /\ c.declared \in AnySetting
       /\ c.build.effective \in Seq(AnyTool) /\ c.build.loaded \in Seq(AnyTool)
  BY <1>2, <1>3, <1>6, <1>10
<1>14. RowTyped(PreparedRow(c, <<Item("compaction")>>, << >>))
  BY <1>11, <1>12, <1>13, PreparedRowIs
<1>15. \A k \in DOMAIN turnRows' : RowTyped(turnRows'[k])
  BY <1>1, <1>14, StoringIs
<1>16. turn'.phase = "running" => Running(turn)'
  BY <1>1, RowsKept, RunningKept DEF TurnsInvariant
<1> QED BY <1>1, <1>15, <1>16, RowsKept, SealedKept, StepIs

\* A context is sealed.
LEMMA HydrateStep ==
  ASSUME TurnsInvariant, TurnsNext, NEW prev \in Continued, NEW explicit \in Client.declares,
         NEW new \in Inputs(prev), Hydrate(prev, explicit, new)
  PROVE  TurnsInvariant'
<1> DEFINE parent == Parent(prev)
           tools == IF explicit.given THEN explicit ELSE parent.tools
           c == [id |-> next, prev |-> prev, new |-> new, answered |-> new, tools |-> tools,
                 choice |-> parent.choice, kept |-> TRUE, sent |-> parent.history \o new,
                 clock |-> "before"]
<1>1. /\ menu' = menu /\ turnRows' = turnRows /\ turn' = turn /\ sealed' = sealed \cup {c}
      /\ Client.mode = "split"
  BY DEF Hydrate
<1>2. Continuable(prev) /\ new \in Seq(AnyItem) /\ NoListing(new)
  BY ContinuedAre, InputsTyped
<1>3. tools \in AnySetting
  BY <1>2, ClientIs, ParentTyped DEF RowTyped
<1>4. /\ c.prev = prev /\ c.new = new /\ c.tools = tools /\ c.id = next
      /\ c.sent = Parent(prev).history \o new
  OBVIOUS
<1> HIDE DEF c, tools, parent
<1>5. next \notin DOMAIN turnRows
  BY DEF TurnsInvariant, Identified
<1>6. Sealed(c)
  BY <1>1, <1>2, <1>3, <1>4, <1>5 DEF Sealed
<1>7. \A d \in sealed' : Sealed(d)'
  <2> SUFFICES ASSUME NEW d \in sealed' PROVE Sealed(d)'
    OBVIOUS
  <2>1. Sealed(d)
    BY <1>1, <1>6 DEF TurnsInvariant
  <2> QED BY <1>1, <2>1, SealedStays
<1>8. turn'.phase = "running" => Running(turn)'
  BY <1>1, RowsKept, RunningKept DEF TurnsInvariant
<1> QED BY <1>1, <1>7, <1>8, RowsSame, StepIs

\* A context expires.
LEMMA ExpireStep ==
  ASSUME TurnsInvariant, TurnsNext, Expire
  PROVE  TurnsInvariant'
<1>1. PICK c \in sealed : \E clock : sealed' = (sealed \ {c}) \cup {[c EXCEPT !.clock = clock]}
  BY DEF Expire
<1>2. PICK clock : sealed' = (sealed \ {c}) \cup {[c EXCEPT !.clock = clock]}
  BY <1>1
<1> DEFINE e == [c EXCEPT !.clock = clock]
<1>3. menu' = menu /\ turnRows' = turnRows /\ turn' = turn
  BY DEF Expire
<1>4. /\ e.prev = c.prev /\ e.new = c.new /\ e.tools = c.tools /\ e.id = c.id
      /\ e.sent = c.sent
  OBVIOUS
<1>5. sealed' = (sealed \ {c}) \cup {e}
  BY <1>2
<1> HIDE DEF e
<1>6. Sealed(e)
  <2>1. Sealed(c)
    BY DEF TurnsInvariant
  <2> QED BY <1>4, <2>1 DEF Sealed
<1>7. \A d \in sealed' : Sealed(d)'
  <2> SUFFICES ASSUME NEW d \in sealed' PROVE Sealed(d)'
    OBVIOUS
  <2>1. Sealed(d)
    BY <1>5, <1>6 DEF TurnsInvariant
  <2> QED BY <1>3, <2>1, SealedStays
<1>8. turn'.phase = "running" => Running(turn)'
  BY <1>3, RowsKept, RunningKept DEF TurnsInvariant
<1> QED BY <1>3, <1>7, <1>8, RowsSame, StepIs

\* The calls the coordinator relays.
LEMMA RelayedTyped ==
  ASSUME NEW setting \in AnySetting, NEW ids \in Seq(Nat), ids = << >> \/ setting.value # << >>
  PROVE  LET output == [k \in DOMAIN ids |->
                    FunctionCall(ids[k], [namespace |-> Absent, name |-> setting.value[1].name])]
         IN  output \in Seq(AnyItem) /\ NoListing(output)
<1> DEFINE call == [namespace |-> Absent, name |-> setting.value[1].name]
           output == [k \in DOMAIN ids |-> FunctionCall(ids[k], call)]
<1>1. \A k \in DOMAIN ids : output[k] = FunctionCall(ids[k], call)
  OBVIOUS
<1>2. DOMAIN output = 1 .. Len(ids) /\ output = [k \in 1 .. Len(ids) |-> output[k]] /\ Len(ids) \in Nat
  OBVIOUS
<1>3. ASSUME NEW k \in DOMAIN ids
      PROVE  FunctionCall(ids[k], call) \in AnyItem /\ FunctionCall(ids[k], call).type = "function_call"
  <2>1. setting.value \in Seq(AnyTool) /\ setting.value # << >>
    BY <1>3, SettingIs
  <2>2. setting.value[1] \in AnyTool
    BY <2>1
  <2>3. setting.value[1].name \in AnyName
    BY <2>2, ToolIs
  <2>4. call \in AnyCall
    BY <2>3, FixedNames DEF AnyCall
  <2>5. ids[k] \in Nat
    BY <1>3
  <2>6. FunctionCall(ids[k], call) \in AnyItem
    BY <2>4, <2>5, ItemsTyped
  <2> QED BY <2>6 DEF FunctionCall, Item
<1> HIDE DEF call, output
<1>4. \A k \in 1 .. Len(ids) : output[k] \in AnyItem /\ output[k].type = "function_call"
  BY <1>1, <1>3
<1>5. output \in [1 .. Len(ids) -> AnyItem]
  BY <1>2, <1>4
<1>6. output \in Seq(AnyItem)
  BY <1>2, <1>5
<1>7. NoListing(output)
  BY <1>2, <1>4 DEF NoListing
<1> QED BY <1>6, <1>7 DEF output, call

\* A sealed context becomes a row.
LEMMA PersistStep ==
  ASSUME TurnsInvariant, TurnsNext, Persist
  PROVE  TurnsInvariant'
<1> DEFINE Relayed(c, ids) == [k \in DOMAIN ids |->
                    FunctionCall(ids[k], [namespace |-> Absent, name |-> c.tools.value[1].name])]
           Stored(c, ids) == Row(Parent(c.prev), c, c.new, c.tools, NotGiven, Relayed(c, ids))
<1>1. /\ menu' = menu /\ sealed' = sealed /\ turn' = turn
      /\ \E c \in sealed : \E ids \in {<< >>} \cup {<<i>> : i \in 1 .. Client.turns} \cup {<<1, 1>>} :
            /\ ids = << >> \/ c.tools.value # << >>
            /\ c.id \notin DOMAIN turnRows
            /\ turnRows' = Storing(c.id, Stored(c, ids))
  BY Zenon DEF Persist, AlreadyStored
<1>2. PICK c \in sealed, ids \in {<< >>} \cup {<<i>> : i \in 1 .. Client.turns} \cup {<<1, 1>>} :
            /\ ids = << >> \/ c.tools.value # << >>
            /\ c.id \notin DOMAIN turnRows
            /\ turnRows' = Storing(c.id, Stored(c, ids))
  BY <1>1, Zenon
<1>3. ids \in Seq(Nat)
  <2>1. CASE ids = << >>
    BY <2>1
  <2>2. ASSUME NEW i \in 1 .. Client.turns, ids = <<i>> PROVE ids \in Seq(Nat)
    <3>1. i \in Nat
      BY ClientIs
    <3> QED BY <2>2, <3>1, SingleTyped
  <2>3. CASE ids = <<1, 1>>
    BY <2>3, PairTyped
  <2> QED BY <2>1, <2>2, <2>3
<1>4. /\ Continuable(c.prev) /\ c.new \in Seq(AnyItem) /\ NoListing(c.new) /\ c.tools \in AnySetting
      /\ Client.mode = "split" /\ c.sent = Parent(c.prev).history \o c.new
  BY DEF TurnsInvariant, Sealed
<1>5. Relayed(c, ids) \in Seq(AnyItem) /\ NoListing(Relayed(c, ids))
  BY <1>2, <1>3, <1>4, RelayedTyped
<1> HIDE DEF Relayed
<1>6. Fresh(Relayed(c, ids), Parent(c.prev).history)
  BY <1>5, FreshNoListing
<1>7. RowTyped(Parent(c.prev))
  BY <1>4, ParentTyped
<1>8. RowTyped(Stored(c, ids))
  BY <1>4, <1>6, <1>7, NotGivenTyped, RowIs
<1>11. IsPrefix(c.sent, Stored(c, ids).history)
  <2>1. Stored(c, ids).history = Parent(c.prev).history \o c.new \o Relayed(c, ids)
    BY <1>4 DEF Row
  <2>2. c.sent \in Seq(AnyItem)
    BY <1>4, <1>7 DEF RowTyped
  <2>3. Stored(c, ids).history = c.sent \o Relayed(c, ids)
    BY <1>4, <2>1
  <2> HIDE DEF Stored
  <2> QED BY <1>5, <2>2, <2>3, Continues
<1> HIDE DEF Stored
<1>9. \A k \in DOMAIN turnRows' : RowTyped(turnRows'[k])
  BY <1>2, <1>8, StoringIs
<1>10. turn'.phase = "running" => Running(turn)'
  BY <1>1, RowsKept, RunningKept DEF TurnsInvariant
<1>12. Sealed(c)'
  <2>1. Continuable(c.prev)' /\ Parent(c.prev)' = Parent(c.prev) /\ Client' = Client
    BY <1>1, <1>4, RowsKept, ParentsKept DEF Client
  <2>2. turnRows'[c.id] = Stored(c, ids)
    BY <1>2 DEF Storing
  <2>3. c.id \in DOMAIN turnRows' => IsPrefix(c.sent, turnRows'[c.id].history)
    BY <1>11, <2>2
  <2>4. c.sent = Parent(c.prev)'.history \o c.new
    BY <1>4, <2>1
  <2> QED BY <1>4, <2>1, <2>3, <2>4 DEF Sealed
<1>13. \A d \in sealed' : Sealed(d)'
  <2> SUFFICES ASSUME NEW d \in sealed, d # c PROVE Sealed(d)'
    BY <1>1, <1>12
  <2>1. Sealed(d) /\ d.id # c.id
    BY DEF TurnsInvariant, Identified
  <2>2. d.id \in DOMAIN turnRows' => d.id \in DOMAIN turnRows
    BY <1>2, <2>1 DEF Storing
  <2> QED BY <1>1, <2>1, <2>2, RowsKept, SealedStays
<1> QED BY <1>1, <1>9, <1>10, <1>13, StepIs

\* Nothing is stored at first.
LEMMA TurnsBegin == TurnsInit => TurnsInvariant
<1> SUFFICES ASSUME TurnsInit PROVE TurnsInvariant
  OBVIOUS
<1>1. DOMAIN turnRows = {} /\ sealed = {} /\ turn.phase # "running" /\ menu \in DOMAIN Menus
  BY DEF TurnsInit, Idle
<1>2. Identified
  BY <1>1 DEF Identified, TurnsInit
<1> QED BY <1>1, <1>2 DEF TurnsInvariant

\* Every step preserves the invariant.
LEMMA TurnsStep == TurnsInvariant /\ [TurnsNext]_turnsVars => TurnsInvariant'
<1>1. ASSUME TurnsInvariant, UNCHANGED turnsVars PROVE TurnsInvariant'
  BY <1>1 DEF turnsVars, TurnsInvariant, Identified, Running, Continuable, Parent, RowTyped, Sealed, Client
<1>2. ASSUME TurnsInvariant, TurnsNext PROVE TurnsInvariant'
  <2>1. CASE \E prev \in Continued, explicit \in Client.declares, choice \in Client.choices,
                listing \in Client.listings, down \in Client.down :
               \E new \in Inputs(prev) : Submit(prev, explicit, choice, new, listing, down)
    BY <1>2, <2>1, SubmitStep
  <2>2. CASE Refused \/ Abort
    BY <1>2, <2>2, IdleStep
  <2>3. CASE Compact
    BY <1>2, <2>3, CompactStep
  <2>4. CASE Respond
    BY <1>2, <2>4, RespondStep
  <2>5. CASE \E prev \in Continued : \E new \in Inputs(prev) : CompactResponse(prev, new)
    BY <1>2, <2>5, CompactResponseStep
  <2>6. CASE \E prev \in Continued, explicit \in Client.declares :
                \E new \in Inputs(prev) : Hydrate(prev, explicit, new)
    BY <1>2, <2>6, HydrateStep
  <2>7. CASE Expire
    BY <1>2, <2>7, ExpireStep
  <2>8. CASE Persist
    BY <1>2, <2>8, PersistStep
  <2> QED BY <1>2, <2>1, <2>2, <2>3, <2>4, <2>5, <2>6, <2>7, <2>8 DEF TurnsNext
<1> QED BY <1>1, <1>2

\* Whatever the client may use, and in whatever order turns are submitted,
\* compacted, stored, sealed and persisted, stored histories repeat no listing and
\* the turn in process has coherent views (Submit to Persist).
THEOREM TurnsHold == TurnsSpec => []TurnsInvariant
<1> QED BY TurnsBegin, TurnsStep, PTL DEF TurnsSpec

\* A sealed context is persisted once at most, no step changes a turn that is
\* stored, whatever ids the coordinator sends, and the turn stored for a context
\* continues what hydrate sent for it.
THEOREM SealedHolds == TurnsSpec => SealedStoresOnce
<1>1. TurnsInvariant /\ TurnsInvariant' /\ [TurnsNext]_turnsVars =>
        [/\ \A id \in DOMAIN turnRows : id \in DOMAIN turnRows' /\ turnRows'[id] = turnRows[id]
         /\ \A c \in sealed :
              c.id \in DOMAIN turnRows' => IsPrefix(c.sent, turnRows'[c.id].history)]_turnsVars
  <2> SUFFICES ASSUME TurnsInvariant, TurnsInvariant', TurnsNext
               PROVE  /\ \A id \in DOMAIN turnRows : id \in DOMAIN turnRows' /\ turnRows'[id] = turnRows[id]
                      /\ \A c \in sealed :
                            c.id \in DOMAIN turnRows' => IsPrefix(c.sent, turnRows'[c.id].history)
    OBVIOUS
  <2>1. ASSUME NEW c \in sealed, c.id \in DOMAIN turnRows' PROVE IsPrefix(c.sent, turnRows'[c.id].history)
    <3>1. PICK d \in sealed' : d.id = c.id /\ d.sent = c.sent
      BY SealedStep DEF TurnsInvariant
    <3>2. Sealed(d)'
      BY DEF TurnsInvariant
    <3> QED BY <2>1, <3>1, <3>2 DEF Sealed
  <2> QED BY <2>1, RowsKept
<1> QED BY <1>1, TurnsHold, PTL DEF TurnsSpec, SealedStoresOnce

\* The tools offered to the model, the registry that routes its calls, the names
\* withheld from it and the definitions reported agree in every turn that is
\* admitted, whatever was declared, deferred, searched for, loaded, compacted and
\* restored before (build_with_loaded_tools, build_tool_registry).
THEOREM ViewsHold == TurnsSpec => []ViewsAgree
<1>1. TurnsInvariant => ViewsAgree
  BY DEF TurnsInvariant, Running, Agree, ViewsAgree
<1> QED BY <1>1, TurnsHold, PTL

\* prepare_history accepts a call of a function it knows only after the function
\* became callable: it was declared without deferral, restored after a compaction,
\* or loaded by an earlier search output.
THEOREM CallsHold == TurnsSpec => []CallsFollowDefinitions
<1>1. TurnsInvariant => CallsFollowDefinitions
  BY DEF TurnsInvariant, Running, Ordered, CallsFollowDefinitions
<1> QED BY <1>1, TurnsHold, PTL

\* A successful listing is stored once in a history, across turns, forks and
\* compactions, and a turn announces each listing its tools were taken from
\* unless the history holds it (mcp_list_tool_items, canonical_session_history).
THEOREM ListingsHold == TurnsSpec => []ListingsAnnouncedOnce
<1>1. ASSUME TurnsInvariant PROVE ListingsAnnouncedOnce
  <2>1. \A id \in DOMAIN turnRows : Once(turnRows[id].history)
    BY <1>1 DEF TurnsInvariant, RowTyped
  <2>2. ASSUME turn.phase = "running", NEW i \in DOMAIN turn.tools, turn.tools[i].kind = "mcp"
        PROVE  \E item \in turn.listings \cup {Parent(turn.prev).history[k] : k \in DOMAIN Parent(turn.prev).history} :
                  item.name = turn.tools[i].name /\ item.listing = turn.tools[i].discovered
    <3>1. Running(turn)
      BY <1>1, <2>2 DEF TurnsInvariant
    <3>2. PICK y \in AnyItem : /\ y.name = turn.tools[i].name /\ y.listing = turn.tools[i].discovered
                               /\ y \in turn.listings \/ Lists(Parent(turn.prev).history, y)
      BY <2>2, <3>1 DEF Running
    <3> QED BY <3>2 DEF Lists
  <2> QED BY <2>1, <2>2 DEF ListingsAnnouncedOnce, Once
<1>2. TurnsInvariant => ListingsAnnouncedOnce
  BY <1>1
<1> QED BY <1>2, TurnsHold, PTL
==============================================================================
