--------------------------- MODULE ResponseSession ---------------------------
(***************************************************************************)
(* Transient continuation sessions of one connection and the durable       *)
(* response store behind them.                                             *)
(*                                                                         *)
(* A group holds independent serial sessions.  A session caches its latest *)
(* response checkpoint and admits one turn at a time.  A task runs a turn: *)
(* it takes the session's lease (pinning a parent checkpoint of its own    *)
(* session or of another member), resolves the history, infers, reserves   *)
(* the replacement checkpoint, writes it to the durable store when the     *)
(* request asks for it, and publishes.  Any failure or cancellation drops  *)
(* the lease.  Turns over plain HTTP use the store without a lease.        *)
(*                                                                         *)
(* Mutex-protected sections that never wait inside are one action each.    *)
(* The group lock is a variable, because begin() keeps it while it visits  *)
(* the other members one lock at a time.  Reference-counted checkpoints    *)
(* are charged once while any cache slot, pinned parent or prepared        *)
(* replacement refers to them.  The serialized size of a checkpoint is     *)
(* abstracted to its number of items.                                      *)
(***************************************************************************)
EXTENDS SessionHistory, Functions

CONSTANTS
    Sessions,      \* members the group may create
    Tasks,         \* concurrent callers of begin()
    Waiters,       \* callers of wait_until_idle()
    MaxSessions,   \* lifetime cap on members
    MaxItems,      \* per-checkpoint limit
    Limit,         \* aggregate retained budget
    MaxTurns,      \* bound on response identifiers
    UserKinds,     \* kinds of user message clients send
    Compactions,   \* whether a turn may compact, may not, or either
    Discoveries,   \* whether a turn may record a tool discovery
    HttpTurns,     \* whether turns without a lease also run
    None

ASSUME ConstantsAssumption ==
    /\ MaxSessions \in Nat /\ MaxItems \in Nat /\ Limit \in Nat /\ MaxTurns \in Nat
    /\ UserKinds \subseteq {"user", "kept"}
    /\ Compactions \subseteq BOOLEAN /\ Discoveries \subseteq BOOLEAN
    /\ HttpTurns \in BOOLEAN
    /\ None \notin Sessions \cup Tasks
    /\ None \notin Nat

ASSUME FiniteAssumption == IsFiniteSet(Sessions) /\ IsFiniteSet(Tasks)

VARIABLES
    groupClosed, groupLock, members, closing,   \* SessionGroupState
    handle, latest, active, closed,             \* ResponseSession, SessionState
    pc, lease, req, scan, parent, prepared, draft,  \* one turn of a task
    used,                                       \* CheckpointBudget.used
    db,                                         \* rows of the response store
    nextId,                                     \* next response identifier
    wpc, wsess, notified                        \* wait_until_idle callers

groupVars == <<groupClosed, groupLock, members, closing>>
turnVars == <<pc, lease, req, scan, parent, prepared, draft>>
waitVars == <<wpc, wsess, notified>>
vars == <<groupVars, handle, latest, active, closed, turnVars, used, db, nextId, waitVars>>

Ids == 1 .. MaxTurns

\* A checkpoint: `owner` tells apart the reference-counted objects that carry
\* the same response id (one published, or one loaded from the store by a task).
Checkpoints == [id : Ids, owner : Tasks \cup {None}, durable : BOOLEAN, history : Seq(Items)]
Requests == [id : Ids, prev : Ids \cup {None}, store : BOOLEAN]
Rows == [prev : Ids \cup {None}, history : Seq(Items), store : BOOLEAN, leased : BOOLEAN]
Drafts == [prev : Ids \cup {None}, items : Seq(Items)]

\* A missing checkpoint, request or draft is told apart from any other.
ASSUME NoneAssumption == None \notin Checkpoints \cup Requests \cup Drafts

TurnStates == {"idle", "scan", "resolve", "run", "prepared", "stored", "notify"}

TypeOK ==
    /\ groupClosed \in BOOLEAN
    /\ groupLock \in Tasks \cup {None}
    /\ members \in Seq(Sessions) /\ closing \in Seq(Sessions)
    /\ handle \in [Sessions -> {"absent", "open", "dropped"}]
    /\ latest \in [Sessions -> Checkpoints \cup {None}]
    /\ active \in [Sessions -> BOOLEAN]
    /\ closed \in [Sessions -> BOOLEAN]
    /\ pc \in [Tasks -> TurnStates]
    /\ lease \in [Tasks -> Sessions \cup {None}]
    /\ req \in [Tasks -> Requests \cup {None}]
    /\ scan \in [Tasks -> Seq(Sessions)]
    /\ parent \in [Tasks -> Checkpoints \cup {None}]
    /\ prepared \in [Tasks -> Checkpoints \cup {None}]
    /\ draft \in [Tasks -> Drafts \cup {None}]
    /\ used \in Nat
    /\ nextId \in Nat
    /\ DOMAIN db \subseteq Ids /\ \A r \in DOMAIN db : db[r] \in Rows
    /\ wpc \in [Waiters -> {"start", "armed", "checked", "asleep", "done"}]
    /\ wsess \in [Waiters -> Sessions \cup {None}]
    /\ notified \in [Waiters -> BOOLEAN]

Init ==
    /\ groupClosed = FALSE /\ groupLock = None /\ members = <<>> /\ closing = <<>>
    /\ handle = [s \in Sessions |-> "absent"]
    /\ latest = [s \in Sessions |-> None]
    /\ active = [s \in Sessions |-> FALSE]
    /\ closed = [s \in Sessions |-> FALSE]
    /\ pc = [t \in Tasks |-> "idle"]
    /\ lease = [t \in Tasks |-> None]
    /\ req = [t \in Tasks |-> None]
    /\ scan = [t \in Tasks |-> <<>>]
    /\ parent = [t \in Tasks |-> None]
    /\ prepared = [t \in Tasks |-> None]
    /\ draft = [t \in Tasks |-> None]
    /\ used = 0
    /\ db = <<>>
    /\ nextId = 1
    /\ wpc = [w \in Waiters |-> "start"]
    /\ wsess = [w \in Waiters |-> None]
    /\ notified = [w \in Waiters |-> FALSE]

-----------------------------------------------------------------------------
(* Retention: which checkpoints are alive and what they are charged.       *)

Live == ({latest[s] : s \in Sessions} \cup {parent[t] : t \in Tasks}
           \cup {prepared[t] : t \in Tasks}) \ {None}

Size(c) == Len(c.history)
Charge(cs) == SumFunctionOnSet([c \in cs |-> Size(c)], cs)

\* CheckpointBudget::reserve admits a charge only within the limit.
Reservable(bytes) == used + bytes <= Limit

\* An accounting in which every reference returns the reservation.
AccountPerReference(reserved) ==
    used' = used + reserved
              - Charge({latest[s] : s \in {x \in Sessions : latest'[x] # latest[x]}} \ {None})
              - Charge({parent[t] : t \in {x \in Tasks : parent'[x] # parent[x]}} \ {None})
              - Charge({prepared[t] : t \in {x \in Tasks : prepared'[x] # prepared[x]}}
                         \ ({latest'[s] : s \in Sessions} \cup {None}))

\* The last reference to a checkpoint returns its reservation.
Account(reserved) == used' = used + reserved - Charge(Live \ Live')

-----------------------------------------------------------------------------
(* The group and its members.                                              *)

\* ResponseSessionGroup::new_session.
NewSession(s) ==
    /\ groupLock = None
    /\ ~groupClosed
    /\ Len(members) < MaxSessions
    /\ handle[s] = "absent"
    /\ handle' = [handle EXCEPT ![s] = "open"]
    /\ members' = Append(members, s)
    /\ UNCHANGED <<groupClosed, groupLock, closing, latest, active, closed, turnVars,
                   used, db, nextId, waitVars>>

\* Dropping the group, first half: no more begins or members.
DropGroup ==
    /\ groupLock = None
    /\ ~groupClosed
    /\ groupClosed' = TRUE
    /\ closing' = members
    /\ members' = <<>>
    /\ UNCHANGED <<groupLock, handle, latest, active, closed, turnVars, used, db, nextId, waitVars>>

\* Second half, one member lock at a time and without the group lock.
CloseMember ==
    /\ closing # <<>>
    /\ closing' = Tail(closing)
    /\ closed' = [closed EXCEPT ![Head(closing)] = TRUE]
    /\ latest' = [latest EXCEPT ![Head(closing)] = None]
    /\ UNCHANGED <<groupClosed, groupLock, members, handle, active, turnVars, db, nextId, waitVars>>
    /\ Account(0)

\* Dropping a session handle.  begin() and wait_until_idle() borrow the handle,
\* so neither is in progress.
DropSession(s) ==
    /\ handle[s] = "open"
    /\ \A t \in Tasks : ~(pc[t] = "scan" /\ lease[t] = s)
    /\ \A w \in Waiters : ~(wsess[w] = s /\ wpc[w] \in {"armed", "checked", "asleep"})
    /\ handle' = [handle EXCEPT ![s] = "dropped"]
    /\ closed' = [closed EXCEPT ![s] = TRUE]
    /\ latest' = [latest EXCEPT ![s] = None]
    /\ UNCHANGED <<groupVars, active, turnVars, db, nextId, waitVars>>
    /\ Account(0)

\* discard_cached_response, for a request rejected before execution.
Discard(s) ==
    /\ handle[s] = "open"
    /\ latest[s] # None
    /\ latest' = [latest EXCEPT ![s] = None]
    /\ UNCHANGED <<groupVars, handle, active, closed, turnVars, db, nextId, waitVars>>
    /\ Account(0)

-----------------------------------------------------------------------------
(* A turn under a lease.                                                   *)

Names(c, id) == c # None /\ c.id = id

\* begin(): under the group lock, take the slot and pin the session's own
\* checkpoint; keep the group lock when the parent must be looked for elsewhere.
Begin(t, s, prev, store) ==
    LET own == IF Names(latest[s], prev) THEN latest[s] ELSE None
        fork == own = None /\ prev # None
    IN /\ pc[t] = "idle" /\ nextId <= MaxTurns /\ prev \in (1 .. nextId - 1) \cup {None}
       /\ handle[s] = "open" /\ groupLock = None /\ ~groupClosed /\ ~closed[s] /\ ~active[s]
       /\ active' = [active EXCEPT ![s] = TRUE]
       /\ lease' = [lease EXCEPT ![t] = s]
       /\ req' = [req EXCEPT ![t] = [id |-> nextId, prev |-> prev, store |-> store]]
       /\ parent' = [parent EXCEPT ![t] = own]
       /\ pc' = [pc EXCEPT ![t] = IF fork THEN "scan" ELSE "resolve"]
       /\ groupLock' = IF fork THEN t ELSE None
       /\ scan' = [scan EXCEPT ![t] = IF fork THEN members ELSE <<>>]
       /\ nextId' = nextId + 1
       /\ UNCHANGED <<groupClosed, members, closing, handle, latest, closed, prepared, draft,
                      used, db, waitVars>>

\* begin(), one member: pin another session's checkpoint when it is the one referenced.
ScanMember(t) ==
    /\ pc[t] = "scan" /\ scan[t] # <<>>
    /\ LET m == Head(scan[t])
           hit == m # lease[t] /\ ~closed[m] /\ Names(latest[m], req[t].prev)
       IN /\ parent' = [parent EXCEPT ![t] = IF hit THEN latest[m] ELSE None]
          /\ scan' = [scan EXCEPT ![t] = IF hit THEN <<>> ELSE Tail(@)]
    /\ UNCHANGED <<groupVars, handle, latest, active, closed, pc, lease, req, prepared, draft,
                   used, db, nextId, waitVars>>

\* begin() returns and the group lock is released.
EndScan(t) ==
    /\ pc[t] = "scan" /\ scan[t] = <<>>
    /\ pc' = [pc EXCEPT ![t] = "resolve"]
    /\ groupLock' = None
    /\ UNCHANGED <<groupClosed, members, closing, handle, latest, active, closed, lease, req, scan,
                   parent, prepared, draft, used, db, nextId, waitVars>>

\* from_session_response with a pinned parent, or a request without a parent.
ResolveCached(t) ==
    /\ pc[t] = "resolve"
    /\ parent[t] # None \/ req[t].prev = None
    /\ pc' = [pc EXCEPT ![t] = "run"]
    /\ UNCHANGED <<groupVars, handle, latest, active, closed, lease, req, scan, parent, prepared,
                   draft, used, db, nextId, waitVars>>

\* from_session_response falling back to the store: only for store=true, and
\* the loaded parent is charged like any other retained checkpoint.
ResolveDurable(t) ==
    /\ pc[t] = "resolve" /\ parent[t] = None
    /\ req[t].store /\ req[t].prev \in DOMAIN db
    /\ LET loaded == [id |-> req[t].prev, owner |-> t, durable |-> TRUE,
                      history |-> Canonical(db[req[t].prev].history)]
       IN /\ Reservable(Size(loaded))
          /\ parent' = [parent EXCEPT ![t] = loaded]
    /\ pc' = [pc EXCEPT ![t] = "run"]
    /\ UNCHANGED <<groupVars, handle, latest, active, closed, lease, req, scan, prepared, draft,
                   db, nextId, waitVars>>
    /\ Account(Size(parent'[t]))

ParentHistory(t) == IF parent[t] = None THEN <<>> ELSE parent[t].history

\* ResponseContinuation::parent_items: after a compaction only discovery records.
ParentItems(t, replaced) ==
    IF replaced THEN DiscoveryItems(ParentHistory(t)) ELSE ParentHistory(t)

\* The items a turn contributes: its input, or the window that a compaction put
\* in its place, then the output recorded in inference order, then new discovery records.
NewItems(t, kind, compacts, lists) ==
    LET id == req[t].id
        input == <<[text |-> id, kind |-> kind]>>
    IN (IF compacts THEN CompactItems(Canonical(ParentHistory(t) \o input), id) ELSE input)
         \o <<[text |-> id, kind |-> "other"]>>
         \o (IF lists THEN <<[text |-> id, kind |-> "mcp_list"]>> ELSE <<>>)

Transient(c) == c # None /\ ~c.durable

\* A draft that names a transient parent in the store.
DraftOfReferenced(t, items, replaced) == [prev |-> req[t].prev, items |-> items]

\* A draft of a transient parent's child that leaves that parent's items out.
DraftOfTruncated(t, items, replaced) ==
    [prev |-> IF Transient(parent[t]) THEN None ELSE req[t].prev, items |-> items]

\* The child of a transient parent carries that parent's history itself.
DraftOf(t, items, replaced) ==
    IF Transient(parent[t])
      THEN [prev |-> None, items |-> ParentItems(t, replaced) \o items]
      ELSE [prev |-> req[t].prev, items |-> items]

\* Inference ends and execute_turn_with_metadata reserves the replacement
\* checkpoint before anything is written.
Prepare(t, kind, compacts, lists) ==
    /\ pc[t] = "run"
    /\ LET items == NewItems(t, kind, compacts, lists)
           next == [id |-> req[t].id, owner |-> None, durable |-> req[t].store,
                    history |-> Canonical(ParentItems(t, compacts) \o items)]
       IN /\ Size(next) <= MaxItems
          /\ Reservable(Size(next))
          /\ prepared' = [prepared EXCEPT ![t] = next]
          /\ draft' = [draft EXCEPT ![t] = DraftOf(t, items, compacts)]
    /\ pc' = [pc EXCEPT ![t] = "prepared"]
    /\ UNCHANGED <<groupVars, handle, latest, active, closed, lease, req, scan, parent, db, nextId,
                   waitVars>>
    /\ Account(Size(prepared'[t]))

StoredHistory(prev) == IF prev = None THEN <<>> ELSE db[prev].history

\* persist_with_conversation_id: the parent's item ids followed by the new ones.
Row(prev, items, store, leased) ==
    [prev |-> prev, history |-> StoredHistory(prev) \o items, store |-> store, leased |-> leased]

WriteRow(id, row) == db' = [r \in DOMAIN db \cup {id} |-> IF r = id THEN row ELSE db[r]]

\* write_durable: a leased turn writes only when its request has store=true.
WriteDurable(store, leased) == ~leased \/ store

\* The durable write of a leased turn.  The parent row is read first and its
\* absence fails the turn.
Store(t) ==
    /\ pc[t] = "prepared"
    /\ IF WriteDurable(req[t].store, TRUE)
         THEN /\ draft[t].prev \in DOMAIN db \cup {None}
              /\ WriteRow(req[t].id, Row(draft[t].prev, draft[t].items, req[t].store, TRUE))
         ELSE db' = db
    /\ pc' = [pc EXCEPT ![t] = "stored"]
    /\ UNCHANGED <<groupVars, handle, latest, active, closed, lease, req, scan, parent, prepared,
                   draft, used, nextId, waitVars>>

\* What every ending lease leaves behind in the task.
Release(t) ==
    /\ parent' = [parent EXCEPT ![t] = None]
    /\ prepared' = [prepared EXCEPT ![t] = None]
    /\ draft' = [draft EXCEPT ![t] = None]
    /\ active' = [active EXCEPT ![lease[t]] = FALSE]
    /\ pc' = [pc EXCEPT ![t] = "notify"]
    /\ UNCHANGED <<groupVars, handle, closed, lease, req, scan, db, nextId, waitVars>>

\* A publication that does not look at the closed flag.
PublishUnchecked(t) ==
    /\ pc[t] = "stored"
    /\ latest' = [latest EXCEPT ![lease[t]] = prepared[t]]
    /\ Release(t)
    /\ Account(0)

\* publish(): refused once the session has closed; otherwise the replacement
\* becomes the latest checkpoint and the parent's charge returns before the slot is free.
Publish(t) ==
    /\ pc[t] = "stored"
    /\ ~closed[lease[t]]
    /\ latest' = [latest EXCEPT ![lease[t]] = prepared[t]]
    /\ Release(t)
    /\ Account(0)

\* A lease drop that evicts the referenced parent from every member.
AbandonEverywhere(t) ==
    /\ pc[t] \in {"resolve", "run", "prepared", "stored"}
    /\ latest' = [s \in Sessions |->
                    IF parent[t] # None /\ Names(latest[s], parent[t].id) THEN None ELSE latest[s]]
    /\ Release(t)
    /\ Account(0)

\* Dropping an unfinished lease: a failed resolution, a failed or cancelled
\* turn, a refused reservation, a failed write, a publication after closing.
\* The session's own copy of the referenced parent is evicted.
Abandon(t) ==
    /\ pc[t] \in {"resolve", "run", "prepared", "stored"}
    /\ latest' = IF parent[t] # None /\ Names(latest[lease[t]], parent[t].id)
                   THEN [latest EXCEPT ![lease[t]] = None]
                   ELSE latest
    /\ Release(t)
    /\ Account(0)

\* A notification that reaches only the waiters already asleep.
NotifyAsleep(t) ==
    /\ pc[t] = "notify"
    /\ notified' = [w \in Waiters |-> notified[w] \/ (wsess[w] = lease[t] /\ wpc[w] = "asleep")]
    /\ pc' = [pc EXCEPT ![t] = "idle"]
    /\ lease' = [lease EXCEPT ![t] = None]
    /\ req' = [req EXCEPT ![t] = None]
    /\ UNCHANGED <<groupVars, handle, latest, active, closed, scan, parent, prepared, draft,
                   used, db, nextId, wpc, wsess>>

\* notify_waiters, after the session's lock is released.
NotifyWaiters(t) ==
    /\ pc[t] = "notify"
    /\ notified' = [w \in Waiters |->
                      notified[w] \/ (wsess[w] = lease[t] /\ wpc[w] \in {"armed", "checked", "asleep"})]
    /\ pc' = [pc EXCEPT ![t] = "idle"]
    /\ lease' = [lease EXCEPT ![t] = None]
    /\ req' = [req EXCEPT ![t] = None]
    /\ UNCHANGED <<groupVars, handle, latest, active, closed, scan, parent, prepared, draft,
                   used, db, nextId, wpc, wsess>>

-----------------------------------------------------------------------------
(* A turn without a lease, over plain HTTP.                                *)

\* should_persist for a request outside any conversation and session.
ShouldPersist(store, prev) == store \/ prev # None

\* One turn over HTTP.  Rows are immutable, so reading the parent and writing
\* the child are one step; a failed turn writes nothing and is left out.
HttpTurn(prev, store, kind, compacts) ==
    LET input == <<[text |-> nextId, kind |-> kind]>>
        items == (IF compacts THEN CompactItems(StoredHistory(prev) \o input, nextId) ELSE input)
                   \o <<[text |-> nextId, kind |-> "other"]>>
    IN /\ HttpTurns /\ nextId <= MaxTurns
       /\ prev \in DOMAIN db \cup {None}
       /\ ShouldPersist(store, prev) /\ WriteDurable(store, FALSE)
       /\ WriteRow(nextId, Row(prev, items, store, FALSE))
       /\ nextId' = nextId + 1
       /\ UNCHANGED <<groupVars, handle, latest, active, closed, turnVars, used, waitVars>>

-----------------------------------------------------------------------------
(* wait_until_idle.                                                        *)

\* The notification is enabled before the slot is looked at.
WaitEnable(w, s) ==
    /\ \/ wpc[w] = "start" /\ handle[s] = "open"
       \/ wpc[w] = "asleep" /\ wsess[w] = s /\ notified[w]
    /\ wpc' = [wpc EXCEPT ![w] = "armed"]
    /\ wsess' = [wsess EXCEPT ![w] = s]
    /\ notified' = [notified EXCEPT ![w] = FALSE]
    /\ UNCHANGED <<groupVars, handle, latest, active, closed, turnVars, used, db, nextId>>

WaitCheck(w) ==
    /\ wpc[w] = "armed"
    /\ wpc' = [wpc EXCEPT ![w] = IF active[wsess[w]] THEN "checked" ELSE "done"]
    /\ UNCHANGED <<groupVars, handle, latest, active, closed, turnVars, used, db, nextId, wsess,
                   notified>>

\* The check is over and the waiter awaits its notification.
WaitSleep(w) ==
    /\ wpc[w] = "checked"
    /\ wpc' = [wpc EXCEPT ![w] = "asleep"]
    /\ UNCHANGED <<groupVars, handle, latest, active, closed, turnVars, used, db, nextId, wsess,
                   notified>>

-----------------------------------------------------------------------------
\* Nothing is in progress: the connection may stay as it is for ever.
Quiescent ==
    /\ groupLock = None /\ closing = <<>>
    /\ \A t \in Tasks : pc[t] = "idle"
    /\ \A w \in Waiters : wpc[w] \in {"start", "done"}
    /\ UNCHANGED vars

TaskStep(t) ==
    \/ ScanMember(t) \/ EndScan(t)
    \/ ResolveCached(t) \/ ResolveDurable(t)
    \/ \E kind \in UserKinds, compacts \in Compactions, lists \in Discoveries :
         Prepare(t, kind, compacts, lists)
    \/ Store(t) \/ Publish(t) \/ Abandon(t)
    \/ NotifyWaiters(t)

Next ==
    \/ \E s \in Sessions : NewSession(s) \/ DropSession(s) \/ Discard(s)
    \/ DropGroup \/ CloseMember
    \/ \E t \in Tasks, s \in Sessions, prev \in Ids \cup {None}, store \in BOOLEAN :
         Begin(t, s, prev, store)
    \/ \E t \in Tasks : TaskStep(t)
    \/ \E prev \in Ids \cup {None}, store \in BOOLEAN, kind \in UserKinds, compacts \in Compactions :
         HttpTurn(prev, store, kind, compacts)
    \/ \E w \in Waiters, s \in Sessions : WaitEnable(w, s)
    \/ \E w \in Waiters : WaitCheck(w) \/ WaitSleep(w)
    \/ Quiescent

Spec == Init /\ [][Next]_vars

\* The runtime keeps polling a task that can run, a turn ends because upstream
\* calls time out and callers cancel, and a destructor runs to its end.
Fairness ==
    /\ \A t \in Tasks : WF_vars(TaskStep(t))
    /\ \A w \in Waiters : /\ WF_vars(WaitCheck(w) \/ WaitSleep(w))
                          /\ WF_vars(wpc[w] = "asleep" /\ \E s \in Sessions : WaitEnable(w, s))
    /\ WF_vars(CloseMember)

FairSpec == Spec /\ Fairness

-----------------------------------------------------------------------------
(* Properties.                                                             *)

Holding(t) == pc[t] \notin {"idle", "notify"}

\* A session runs one turn at a time: two tasks never hold the same lease, and
\* the slot is taken exactly while some task holds it (begin, publish, lease drop).
SerialTurns ==
    /\ \A t, u \in Tasks : (Holding(t) /\ Holding(u) /\ lease[t] = lease[u]) => t = u
    /\ \A s \in Sessions : active[s] <=> \E t \in Tasks : Holding(t) /\ lease[t] = s

\* The aggregate budget charges every retained checkpoint once, however many
\* slots, forks and prepared turns share it, and never exceeds its limit
\* (CheckpointBudget::reserve, CheckpointReservation::drop).
BudgetExact == used = Charge(Live) /\ used <= Limit

\* A closed session never holds a checkpoint again: no late completion
\* publishes into it, whichever of group drop, handle drop and publish comes first.
ClosedStaysEmpty == \A s \in Sessions : closed[s] => latest[s] = None

\* A cached or pinned checkpoint marked durable says what the store would say:
\* its row exists and restoring that row gives the same canonical window,
\* through forks, promotions of transient parents, and compactions.
CacheCoherent ==
    \A c \in Live \ {prepared[t] : t \in Tasks} :
      c.durable => /\ c.id \in DOMAIN db
                   /\ c.history = Canonical(db[c.id].history)

\* A prepared turn that is to be written never names a parent row that does
\* not exist, although its parent may itself have been transient.
WriteHasParent ==
    \A t \in Tasks : (pc[t] = "prepared" /\ req[t].store)
                       => draft[t].prev \in DOMAIN db \cup {None}

\* The end of a turn concerns its own session only: other members keep their
\* checkpoints, and its own either holds the published replacement or no
\* longer holds the parent the failed turn referred to.
EndOfTurn ==
    [][\A t \in Tasks : (Holding(t) /\ pc'[t] = "notify") =>
         /\ \A s \in Sessions \ {lease[t]} : latest'[s] = latest[s]
         /\ \/ pc[t] = "stored" /\ latest'[lease[t]] = prepared[t]
            \/ parent[t] = None
            \/ ~Names(latest'[lease[t]], parent[t].id)]_vars

\* wait_until_idle returns once the active turn has ended: the wakeup sent by
\* publish or by the lease drop is never lost between the waiter's check and its sleep.
WaiterReturns == \A w \in Waiters : wpc[w] = "armed" ~> wpc[w] = "done"

=============================================================================
