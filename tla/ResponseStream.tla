---------------------------- MODULE ResponseStream ----------------------------
(***************************************************************************)
(* One streamed turn of the execution loop.                                *)
(*                                                                         *)
(* A worker task runs inference rounds.  It reads the upstream's stream,   *)
(* forwards the events of client-visible items, hides those of             *)
(* gateway-owned calls, and holds back every event behind a call that is   *)
(* gateway-owned or not named yet.  At the end of a round it executes the  *)
(* gateway calls, shows their lifecycle together with what was held back,  *)
(* records the round for the history and goes on or returns a payload.     *)
(* Events go through a channel of one to the stream the client polls,      *)
(* which persists the turn before it shows the terminal event.             *)
(*                                                                         *)
(* Output indexes are counted from 1.  Of an item's events only the added  *)
(* and the done event are kept; deltas lie between them.                   *)
(***************************************************************************)
EXTENDS Naturals, Sequences, FiniteSets, FiniteSetsExt, SequencesExt

CONSTANTS
    Outputs,      \* what the model may answer in each round: sets of sequences of kinds
    Modes,        \* "lease": a continuation session, "store": stored without one, "none"
    Discovered,   \* MCP servers whose tools were listed
    MaxRounds,    \* MAX_GATEWAY_TOOL_ROUNDS
    EventBuffer        \* STREAM_EVENT_BUFFER

ItemKinds == {"message", "function", "custom", "gateway", "handlerless"}

ASSUME ConstantsAssumption ==
    /\ Outputs \in Seq(SUBSET Seq(ItemKinds)) /\ Len(Outputs) >= MaxRounds
    /\ Modes \subseteq {"lease", "store", "none"}
    /\ Discovered \in Nat /\ MaxRounds \in Nat \ {0} /\ EventBuffer \in Nat \ {0}

VARIABLES
    mode,
    pc, round,    \* the worker's step and its round, from 1
    script,       \* the upstream's answer in this round
    items,        \* the items of it seen so far: SlotMap and TranslationDispatcher
    outbox,       \* events the worker is about to send
    deferred,     \* StreamDelivery.deferred_events
    begun,        \* emitted_created, emitted_in_progress
    number,       \* GatewayStreamAccumulator.next_sequence_number
    combined,     \* combined_output
    newInput,     \* new_input_items recorded by the loop
    recorded,     \* recorded_output_count
    status,       \* of the payload
    result,       \* of the worker
    channel,      \* event_tx, event_rx
    stream,       \* the consumer's step
    nextNumber,   \* its next_sequence_number
    chunk,        \* the event it ends with
    delivered,    \* what the client has seen
    stored        \* the history a later turn restores, or the empty set

roundVars == <<round, script, items, deferred, begun>>
turnVars == <<combined, newInput, recorded, status>>
consumerVars == <<stream, nextNumber, chunk, delivered, stored>>
streamVars == <<mode, pc, roundVars, outbox, number, turnVars, result, channel, consumerVars>>

Event(t, index, item) == [type |-> t, index |-> index, item |-> item]
None == Event("none", 0, <<>>)

(* An item of the response: what the client is shown and, by its place, what is recorded. *)
Item(r, i, k) == [round |-> r, place |-> i, kind |-> k]
ListItem(i) == Item(0, i, "list")
Compaction == Item(0, 1, "compaction")

StreamInit ==
    /\ mode \in Modes
    /\ pc = "new" /\ round = 1 /\ script = <<>> /\ items = <<>>
    /\ outbox = <<>> /\ deferred = <<>> /\ begun = FALSE /\ number = 0
    /\ combined = <<>> /\ newInput = <<>> /\ recorded = 0
    /\ status = "in_progress" /\ result = "none"
    /\ channel = <<>> /\ stream = "select" /\ nextNumber = 0 /\ chunk = None
    /\ delivered = <<>> /\ stored = {}

Working(step) == stream # "dropped" /\ pc = step /\ outbox = <<>>

-----------------------------------------------------------------------------
(* The start of the turn. *)

AddedAndDone(is) ==
    FlattenSeq([i \in DOMAIN is |-> <<Event("added", i, is[i]), Event("done", i, is[i])>>])

LifecycleEvents == <<Event("created", 0, <<>>), Event("in_progress", 0, <<>>)>>

(* EngineOrchestration::new: the listed servers head the output. *)
Discover ==
    /\ Working("new")
    /\ combined' = [i \in 1 .. Discovered |-> ListItem(i)]
    /\ pc' = "round"
    /\ UNCHANGED <<mode, roundVars, outbox, number, newInput, recorded, status, result, channel, consumerVars>>

(* run_compaction_trigger: no loop, a summary as the only output. *)
CompactionTrigger ==
    /\ Working("new")
    /\ combined' = <<Compaction>>
    /\ outbox' = LifecycleEvents \o AddedAndDone(<<Compaction>>)
    /\ status' = "completed"
    /\ pc' = "return"
    /\ UNCHANGED <<mode, roundVars, number, newInput, recorded, result, channel, consumerVars>>

Return ==
    /\ Working("return")
    /\ pc' = "ended" /\ result' = "ok"
    /\ UNCHANGED <<mode, roundVars, outbox, number, turnVars, channel, consumerVars>>

-----------------------------------------------------------------------------
(* A round's stream. *)

(* The upstream opens its response; its lifecycle events are shown once in a turn, and the *)
(* discovery records right after them.                                                     *)
BeginRound ==
    /\ Working("round")
    /\ script' \in Outputs[round]
    /\ items' = <<>>
    /\ outbox' = IF begun THEN <<>> ELSE LifecycleEvents \o AddedAndDone(combined)
    /\ begun' = TRUE
    /\ pc' = "fetch"
    /\ UNCHANGED <<mode, round, deferred, number, turnVars, result, channel, consumerVars>>

GatewayKinds == {"gateway", "handlerless"}
IsCall(k) == k # "message"
IsHidden(it) == it.state # "unnamed" /\ it.kind \in GatewayKinds

(* Variant: only gateway-owned calls hold events back. *)
BoundaryOfGateway(its) ==
    Min({i \in DOMAIN its : IsHidden(its[i])} \cup {Len(script) + 1})

(* defer_from_output_index: the first index that is hidden or may turn out to be. *)
Boundary(its) ==
    Min({i \in DOMAIN its : its[i].state = "unnamed" \/ IsHidden(its[i])} \cup {Len(script) + 1})

(* The events of an item; those of a set of items, by their index (a stable sort). *)
KeepIndex(part, f) == IF f.index = part.index THEN [part EXCEPT !.events = Append(@, f)] ELSE part
Of(fs, i) == FoldLeft(KeepIndex, [index |-> i, events |-> <<>>], fs).events
ByIndex(fs, is) == FlattenSeq([i \in 1 .. Len(script) |-> IF i \in is THEN Of(fs, i) ELSE <<>>])

(* process_event: the upstream counts a round's items from its start. *)
Rebased(fs) == [n \in DOMAIN fs |-> [fs[n] EXCEPT !.index = @ + Len(combined)]]

(* StreamDelivery::accept: what lies below the new boundary is sent, the rest deferred; when *)
(* the boundary moves, the deferred events are sorted and gone through again.                *)
Accept(its, frames) ==
    LET b == Boundary(its)
        below == 1 .. b - 1
        from == b .. Len(script)
        moved == b # Boundary(items)
        held == deferred \o ByIndex(frames, from)
    IN /\ items' = its
       /\ outbox' = Rebased(ByIndex(frames, below) \o (IF moved THEN ByIndex(held, below) ELSE <<>>))
       /\ deferred' = IF moved THEN ByIndex(held, from) ELSE held

ItemFrame(t, i) == Event(t, i, <<round, i>>)

(* output_item.added: a call may come without its name, and is then buffered. *)
AddItem ==
    /\ Working("fetch")
    /\ Len(items) < Len(script)
    /\ LET i == Len(items) + 1
           k == script[i]
       IN \E s \in {"open"} \cup (IF IsCall(k) THEN {"unnamed"} ELSE {}) :
            Accept(Append(items, [kind |-> k, state |-> s]),
                   IF s = "unnamed" \/ k \in GatewayKinds THEN <<>> ELSE <<ItemFrame("added", i)>>)
    /\ UNCHANGED <<mode, pc, round, script, begun, number, turnVars, result, channel, consumerVars>>

(* function_call_arguments.done: names a call that had no name and releases its events. *)
NameCall ==
    /\ Working("fetch")
    /\ \E i \in DOMAIN items :
        /\ items[i].state = "unnamed"
        /\ Accept([items EXCEPT ![i].state = "open"],
                  IF items[i].kind \in GatewayKinds THEN <<>> ELSE <<ItemFrame("added", i)>>)
    /\ UNCHANGED <<mode, pc, round, script, begun, number, turnVars, result, channel, consumerVars>>

(* output_item.done: does the same for a call that has no name yet, and finishes the item. *)
DoneItem ==
    /\ Working("fetch")
    /\ \E i \in DOMAIN items :
        /\ items[i].state # "done"
        /\ Accept([items EXCEPT ![i].state = "done"],
                  IF items[i].kind \in GatewayKinds THEN <<>>
                  ELSE (IF items[i].state = "unnamed" THEN <<ItemFrame("added", i)>> ELSE <<>>)
                       \o <<ItemFrame("done", i)>>)
    /\ UNCHANGED <<mode, pc, round, script, begun, number, turnVars, result, channel, consumerVars>>

(* What a call is at the end of the stream: without a name it belongs to the client. *)
KindOf(i) == IF items[i].state = "unnamed" THEN "function" ELSE items[i].kind
OutputItems == [i \in DOMAIN items |-> Item(round, i, KindOf(i))]
GatewayCalls == {i \in DOMAIN items : KindOf(i) \in GatewayKinds}
HasClientOwned == \E i \in DOMAIN items : KindOf(i) \in {"function", "custom"}

(* The lifecycle the scheduler plans for a call; one without a handler has none. *)
Plan(t, i) == IF KindOf(i) = "gateway" THEN <<Event(t, Len(combined) + i, <<round, i>>)>> ELSE <<>>
Plans(t, is) == FlattenSeq([i \in DOMAIN items |-> IF i \in is THEN Plan(t, i) ELSE <<>>])

(* initial_event_run_len: the leading calls that are shown as started before execution. *)
InitialRun ==
    IF deferred = <<>> THEN GatewayCalls
    ELSE {i \in GatewayCalls :
            /\ \A j \in 1 .. Min(GatewayCalls) - 1 : KindOf(j) # "custom"
            /\ \A j \in Min(GatewayCalls) .. i : j \in GatewayCalls}

(* The stream ends, at a terminal event or not (then it counts as completed), with items *)
(* that may be unfinished. A failed response ends the turn, and what was deferred is lost. *)
EndStream(s) ==
    /\ Working("fetch")
    /\ status' = s
    /\ IF s = "failed"
       THEN /\ combined' = combined \o OutputItems
            /\ pc' = "ended" /\ result' = "ok"
            /\ UNCHANGED outbox
       ELSE /\ outbox' = Plans("added", InitialRun)
            /\ pc' = "execute"
            /\ UNCHANGED <<combined, result>>
    /\ UNCHANGED <<mode, roundVars, number, newInput, recorded, channel, consumerVars>>

-----------------------------------------------------------------------------
(* The end of a round. *)

(* Variant: without gateway calls there is nothing to do at the end of a round. *)
ExecuteGatewayOnly ==
    /\ Working("execute")
    /\ outbox' = IF GatewayCalls = {} THEN <<>> ELSE
        FlattenSeq([i \in DOMAIN items |->
            (IF i \in GatewayCalls \ InitialRun THEN Plan("added", i) ELSE <<>>)
            \o Plan("done", i) \o Rebased(Of(deferred, i))])
    /\ deferred' = <<>>
    /\ pc' = "close"
    /\ UNCHANGED <<mode, round, script, items, begun, number, turnVars, result, channel, consumerVars>>

(* The batch returns its results (a tool that fails is a result too); completions and what  *)
(* was deferred are shown in the order of the output.                                       *)
Execute ==
    /\ Working("execute")
    /\ outbox' = FlattenSeq([i \in DOMAIN items |->
            (IF i \in GatewayCalls \ InitialRun THEN Plan("added", i) ELSE <<>>)
            \o Plan("done", i) \o Rebased(Of(deferred, i))])
    /\ deferred' = <<>>
    /\ pc' = "close"
    /\ UNCHANGED <<mode, round, script, items, begun, number, turnVars, result, channel, consumerVars>>

Entry(w, it) == [what |-> w, round |-> it.round, place |-> it.place, kind |-> it.kind]
AsInput(it) == Entry(IF it.kind = "message" THEN "message" ELSE "call", it)
RoundCalls == FlattenSeq([i \in DOMAIN items |-> IF i \in GatewayCalls THEN <<OutputItems[i]>> ELSE <<>>])
CallOutputs == [n \in DOMAIN RoundCalls |-> Entry("output", RoundCalls[n])]

(* Variant: outputs recorded by the loop are not marked as such. *)
RecordRoundHistoryUnmarked ==
    /\ newInput' = newInput
           \o (IF mode = "lease" THEN [i \in DOMAIN OutputItems |-> AsInput(OutputItems[i])]
                                 ELSE [n \in DOMAIN RoundCalls |-> AsInput(RoundCalls[n])])
           \o CallOutputs
    /\ recorded' = recorded

(* record_round_history, then record_gateway_results: with a lease the whole round in its  *)
(* order, otherwise the gateway calls alone; then their outputs.                            *)
RecordRoundHistory ==
    /\ newInput' = newInput
           \o (IF mode = "lease" THEN [i \in DOMAIN OutputItems |-> AsInput(OutputItems[i])]
                                 ELSE [n \in DOMAIN RoundCalls |-> AsInput(RoundCalls[n])])
           \o CallOutputs
    /\ recorded' = IF mode = "lease" THEN Len(combined) + Len(items) ELSE recorded

(* classify_round *)
Continues == status = "completed" /\ ~HasClientOwned /\ GatewayCalls # {} /\ round < MaxRounds
RoundsExhausted == status = "completed" /\ ~HasClientOwned /\ GatewayCalls # {} /\ round >= MaxRounds

CloseRound ==
    /\ Working("close")
    /\ combined' = combined \o OutputItems
    /\ RecordRoundHistory
    /\ IF Continues
       THEN round' = round + 1 /\ pc' = "round" /\ UNCHANGED <<status, result>>
       ELSE /\ pc' = "ended" /\ result' = "ok"
            /\ status' = IF RoundsExhausted THEN "incomplete" ELSE status
            /\ UNCHANGED round
    /\ UNCHANGED <<mode, script, items, deferred, begun, outbox, number, channel, consumerVars>>

-----------------------------------------------------------------------------
(* Failures of the worker. *)

(* The registry cannot be built, the upstream fails or a buffer, the byte budget or a tool *)
(* refuses to go on; an invalid tool search is reported apart.                             *)
WorkerFails ==
    /\ \E p \in {"new", "round", "fetch", "execute", "close"} : Working(p)
    /\ result' \in {"error"} \cup (IF pc = "fetch" THEN {"invalid_search"} ELSE {})
    /\ pc' = "ended"
    /\ UNCHANGED <<mode, roundVars, outbox, number, turnVars, channel, consumerVars>>

Panic ==
    /\ stream # "dropped" /\ pc # "ended"
    /\ result' = "panic" /\ pc' = "ended" /\ outbox' = <<>>
    /\ UNCHANGED <<mode, roundVars, number, turnVars, channel, consumerVars>>

(* An event takes its number and is then found to exceed MAX_STREAM_EVENT_BYTES. *)
Oversized ==
    /\ stream # "dropped" /\ outbox # <<>>
    /\ number' = number + 1
    /\ result' = "error" /\ pc' = "ended" /\ outbox' = <<>>
    /\ UNCHANGED <<mode, roundVars, turnVars, channel, consumerVars>>

Send ==
    /\ stream # "dropped" /\ outbox # <<>>
    /\ Len(channel) < EventBuffer
    /\ channel' = Append(channel, [event |-> Head(outbox), number |-> number])
    /\ number' = number + 1
    /\ outbox' = Tail(outbox)
    /\ UNCHANGED <<mode, pc, roundVars, turnVars, result, consumerVars>>

-----------------------------------------------------------------------------
(* The stream the client polls. *)

Receive ==
    /\ stream \in {"select", "drain"} /\ channel # <<>>
    /\ delivered' = Append(delivered, Head(channel))
    /\ nextNumber' = Head(channel).number + 1
    /\ channel' = Tail(channel)
    /\ UNCHANGED <<mode, pc, roundVars, outbox, number, turnVars, result, stream, chunk, stored>>

(* Variant: a task that panicked is polled again. *)
JoinAgain ==
    /\ stream = "select" /\ result # "none"
    /\ IF result = "panic" THEN stream' = stream ELSE stream' = "drain"
    /\ UNCHANGED <<mode, pc, roundVars, outbox, number, turnVars, result, channel, nextNumber, chunk, delivered, stored>>

(* The worker's result is ready; select! may pick it before an event that is ready too. *)
Join ==
    /\ stream = "select" /\ result # "none"
    /\ stream' = "drain"
    /\ UNCHANGED <<mode, pc, roundVars, outbox, number, turnVars, result, channel, nextNumber, chunk, delivered, stored>>

Terminal(s) == Event(s, 0, <<>>)
Error == Event("error", 0, <<>>)
Ends(s, e, n) == stream' = s /\ chunk' = [event |-> e, number |-> n]

(* All events are out. The terminal event is prepared, which fails if it is too large; an   *)
(* error follows what the client has seen.                                                  *)
ChannelDrained ==
    /\ stream = "drain" /\ channel = <<>>
    /\ \/ result = "ok" /\ Ends("persist", Terminal(status), number)
       \/ result = "ok" /\ Ends("yield", Error, nextNumber)
       \/ result = "invalid_search" /\ Ends("yield", Terminal("failed"), number)
       \/ result = "invalid_search" /\ Ends("yield", Error, nextNumber)
       \/ result \in {"error", "panic"} /\ Ends("yield", Error, nextNumber)
    /\ UNCHANGED <<mode, pc, roundVars, outbox, number, turnVars, result, channel, nextNumber, delivered, stored>>

(* What of the output is stored besides the recorded input, as a later turn reads it: the    *)
(* public form of an executed gateway call is no input; without a handler it is the call.    *)
IsRetained(i) == mode = "lease" => i > recorded \/ combined[i].kind = "list"
ReadBack(it) ==
    IF it.kind = "gateway" THEN <<>>
    ELSE IF it.kind \in {"list", "compaction"} THEN <<Entry("record", it)>> ELSE <<AsInput(it)>>
History == newInput \o FlattenSeq([i \in DOMAIN combined |->
               IF IsRetained(i) THEN ReadBack(combined[i]) ELSE <<>>])

ShouldPersist == mode # "none" /\ status \in {"completed", "incomplete"}

(* Variant: the turn is stored once the terminal event is out. *)
PersistLater ==
    /\ stream = "persist"
    /\ stream' = "yield"
    /\ UNCHANGED <<mode, pc, roundVars, outbox, number, turnVars, result, channel, nextNumber, chunk, delivered, stored>>

(* persist_if_needed: an error replaces the terminal event. *)
Persist ==
    /\ stream = "persist"
    /\ \/ /\ stored' = IF ShouldPersist THEN {History} ELSE {}
          /\ stream' = "yield" /\ chunk' = chunk
       \/ /\ ShouldPersist
          /\ Ends("yield", Error, nextNumber)
          /\ stored' = stored
    /\ UNCHANGED <<mode, pc, roundVars, outbox, number, turnVars, result, channel, nextNumber, delivered>>

(* The last event, then the marker that ends the stream. *)
Yield ==
    /\ stream = "yield"
    /\ delivered' = Append(delivered, chunk)
    /\ stream' = "ended"
    /\ UNCHANGED <<mode, pc, roundVars, outbox, number, turnVars, result, channel, nextNumber, chunk, stored>>

(* The client goes: the stream is dropped, and with it the worker is aborted. *)
Drop ==
    /\ stream \notin {"ended", "dropped"}
    /\ stream' = "dropped"
    /\ UNCHANGED <<mode, pc, roundVars, outbox, number, turnVars, result, channel, nextNumber, chunk, delivered, stored>>

Over == stream \in {"ended", "dropped"} /\ UNCHANGED streamVars

UpstreamEnds == \E s \in {"completed", "incomplete", "failed"} : EndStream(s)
Work == Discover \/ CompactionTrigger \/ Return \/ BeginRound \/ Execute \/ CloseRound \/ Send \/ Oversized
Poll == Receive \/ Join \/ ChannelDrained \/ Persist \/ Yield

StreamNext ==
    \/ Work \/ AddItem \/ NameCall \/ DoneItem \/ UpstreamEnds \/ WorkerFails \/ Panic
    \/ Poll \/ Drop \/ Over

StreamSpec == StreamInit /\ [][StreamNext]_streamVars

(* The runtime polls the worker; the upstream's stream ends or times out; a client polls the *)
(* stream until it ends, or drops it. select! picks among the ready branches at random, so   *)
(* each is taken in the end.                                                                 *)
FairSpec == StreamSpec /\ WF_streamVars(Work) /\ WF_streamVars(UpstreamEnds) /\ WF_streamVars(Poll)

-----------------------------------------------------------------------------
(* Properties. *)

EventTypes == {"created", "in_progress", "added", "done", "completed", "incomplete", "failed", "error"}

StreamTypeOK ==
    /\ mode \in Modes /\ round \in 1 .. MaxRounds
    /\ pc \in {"new", "round", "fetch", "execute", "close", "return", "ended"}
    /\ \A i \in DOMAIN items : items[i].kind \in ItemKinds /\ items[i].state \in {"unnamed", "open", "done"}
    /\ Len(items) <= Len(script) /\ Len(channel) <= EventBuffer
    /\ recorded <= Len(combined)
    /\ result \in {"none", "ok", "error", "invalid_search", "panic"} /\ (result # "none") = (pc = "ended")
    /\ stream \in {"select", "drain", "persist", "yield", "ended", "dropped"}
    /\ nextNumber <= number
    /\ \A n \in DOMAIN delivered : delivered[n].event.type \in EventTypes

Answered == stream = "ended" /\ Last(delivered).event.type \in {"completed", "incomplete"}
Shown(t) == {n \in DOMAIN delivered : delivered[n].event.type = t}
ShownOf(t, i) == {n \in Shown(t) : delivered[n].event.index = i}
Ref(it) == IF it.kind \in {"list", "compaction"} THEN it ELSE <<it.round, it.place>>

(* The upstream left a call of the last round without a name. *)
Abandoned(i) == LET it == combined[i]
                IN it.kind = "function" /\ it.round = round /\ items[it.place].state = "unnamed"

(* The client sees the sequence numbers 0, 1, 2, ... without gap or repetition to the last    *)
(* event, whatever ended the turn (the number of an event that was too large is given to the  *)
(* error that follows). What streams and what the terminal event lists agree: an event carries *)
(* the index its item has in the final output, over several rounds and behind the discovery   *)
(* records; items start in the order of the output, although those behind a gateway-owned or  *)
(* unnamed call were held back and gateway calls are shown by the scheduler; and an item is   *)
(* done after it was added. (Behind a call the upstream never named, a gateway call may start *)
(* early.)                                                                                    *)
EventsMatchOutput ==
    /\ \A n \in DOMAIN delivered : delivered[n].number = n - 1
    /\ Answered =>
        /\ \A n \in Shown("added") \cup Shown("done") :
              LET e == delivered[n].event
              IN e.index \in DOMAIN combined /\ e.item = Ref(combined[e.index])
        /\ \A n \in Shown("done") : \E m \in ShownOf("added", delivered[n].event.index) : m < n
        /\ (\A i \in DOMAIN combined : ~Abandoned(i)) =>
              \A m, n \in Shown("added") : m < n => delivered[m].event.index < delivered[n].event.index

(* No item is lost or shown twice on the way: every item of the final output the upstream     *)
(* named is started exactly once, and finished at most once; exactly once if the gateway      *)
(* produced it or the upstream finished it. Only gateway calls without a handler, which have  *)
(* no lifecycle of their own, stay out of the stream.                                         *)
NothingLost ==
    Answered =>
        \A i \in DOMAIN combined :
            LET it == combined[i]
                silent == it.kind = "handlerless" \/ Abandoned(i)
                ofGateway == it.kind \in {"list", "compaction", "gateway"}
                finished == it.round = round /\ items[it.place].state = "done"
            IN /\ Cardinality(ShownOf("added", i)) = IF silent THEN 0 ELSE 1
               /\ Cardinality(ShownOf("done", i)) <= IF silent THEN 0 ELSE 1
               /\ ~silent /\ (ofGateway \/ finished) => ShownOf("done", i) # {}

Places(h, what, it) ==
    {n \in DOMAIN h : h[n].what = what /\ h[n].round = it.round /\ h[n].place = it.place}

(* Every gateway-owned call is in the history once, and its output once and behind it. *)
Resolved(h, it) ==
    \E c, o \in DOMAIN h : c < o /\ Places(h, "call", it) = {c} /\ Places(h, "output", it) = {o}

(* A history has all of the output it should: every message and client call once, client     *)
(* calls without an output, every gateway call with its output behind it, every record.       *)
(* Without a lease, a call that has no handler is the exception: the code stores it twice,    *)
(* the second time without an output.                                                         *)
Holds(h, it) ==
    CASE it.kind = "message" -> Cardinality(Places(h, "message", it)) = 1
      [] it.kind \in {"function", "custom"} ->
             Cardinality(Places(h, "call", it)) = 1 /\ Places(h, "output", it) = {}
      [] it.kind = "gateway" -> Resolved(h, it)
      [] it.kind = "handlerless" -> mode = "lease" => Resolved(h, it)
      [] OTHER -> Cardinality(Places(h, "record", it)) = 1

(* With a lease the rounds and, in a round, its items are in their order, outputs last. *)
Chronological(h) ==
    \A m, n \in {k \in DOMAIN h : h[k].what # "record"} : m < n =>
        \/ h[m].round < h[n].round
        \/ h[m].round = h[n].round /\ (h[m].place < h[n].place \/ h[n].what = "output")

(* The history a later turn restores holds what happened, each thing once and in its order,   *)
(* although part of it is recorded by the loop round by round and the rest is taken from the  *)
(* public output.                                                                             *)
HistoryFaithful ==
    \A h \in stored :
        (\A i \in DOMAIN combined : Holds(h, combined[i])) /\ (mode = "lease" => Chronological(h))

(* A client that has seen the turn end well can continue it: the turn was stored before the   *)
(* terminal event, also if the client left as soon as it saw that event.                      *)
TerminalAfterPersist ==
    mode # "none" /\ Shown("completed") \cup Shown("incomplete") # {} => stored # {}

(* A stream the client keeps polling ends, whether the worker returns, fails or panics and    *)
(* whether or not the channel is full at that time.                                           *)
StreamEnds == stream = "select" ~> stream \in {"ended", "dropped"}
=============================================================================
