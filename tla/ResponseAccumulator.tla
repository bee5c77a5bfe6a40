-------------------------- MODULE ResponseAccumulator --------------------------
(***************************************************************************)
(* The accumulator of one upstream response: it checks the events of a     *)
(* stream, keeps one slot for each output item, and assembles the output.  *)
(*                                                                         *)
(* The accumulator is a record that operators take and return.  An event   *)
(* is a record too:                                                        *)
(*    type    lifecycle: created, in_progress, completed, failed,          *)
(*            incomplete; of an item: added, part (a part or command of it *)
(*            begins), delta, part_done, done; other                       *)
(*    index   output_index, or NoIndex when the event omits it             *)
(*    id      item_id, or the id of the response; "" when omitted          *)
(*    kind    the item's type; of a delta, the one its event type implies  *)
(*    name, call   of a call item; "" is empty, "none" an absent name      *)
(*    text    delta, arguments, input, command or content, as tokens       *)
(*    part    command_index                                                *)
(*    status  of the item or the response                                  *)
(*    ok      the fields its type requires are there and can be read       *)
(*    items   the output a terminal event repeats, or Absent               *)
(***************************************************************************)
EXTENDS Integers, Sequences, FiniteSets, FiniteSetsExt, SequencesExt, Functions

CONSTANTS
    Indexes,    \* output indexes the upstream uses, from 0
    Generated   \* the id the gateway gives to an item that has none, by index

ASSUME IndexesAssumption == Indexes \subseteq Nat

NoIndex == -1
Absent == <<[kind |-> "absent"]>>

Terminals == {"completed", "failed", "incomplete"}
Lifecycle == {"created", "in_progress"} \cup Terminals

(* SSEItemType, by how an item's content arrives. *)
Buffered == {"function_call", "custom_tool_call"}
CallKinds == Buffered \cup {"tool_search_call", "shell_call"}
Kinds == CallKinds \cup {"message", "reasoning", "web_search_call", "mcp_call"}

Accumulator(strict) ==
    [strict |-> strict, response |-> "own", lifecycle |-> "awaiting", status |-> "in_progress",
     slots |-> <<>>, ids |-> <<>>, calls |-> <<>>, output |-> <<>>]

(* An item as it is kept: a slot's item, an item of the output. *)
ItemOf(f, i) ==
    [kind |-> f.kind, id |-> IF f.id = "" THEN Generated[i] ELSE f.id, call |-> f.call,
     name |-> IF f.name = "none" THEN "" ELSE f.name, text |-> f.text, status |-> f.status]

-----------------------------------------------------------------------------
(* SlotMap: identity. *)

ById(acc, f) == IF f.id \in DOMAIN acc.ids THEN acc.ids[f.id] ELSE NoIndex
Unused(acc) == Min((0 .. Cardinality(DOMAIN acc.slots)) \ DOMAIN acc.slots)

(* The slot an event is about; an opening or completing event without index and known id *)
(* takes the first free one.                                                             *)
Target(acc, f, action) ==
    IF f.index # NoIndex THEN f.index
    ELSE IF ById(acc, f) # NoIndex THEN ById(acc, f)
    ELSE IF action = "mutate" THEN NoIndex ELSE Unused(acc)

Unplaced(acc, f) == f.index = NoIndex /\ ById(acc, f) = NoIndex

(* Without an index an event must not be taken for that of an anonymous item. *)
Ambiguous(acc, f) ==
    \E i \in DOMAIN acc.slots :
        acc.slots[i].item.kind = f.kind /\ (acc.slots[i].id = "" \/ f.id = "")

(* Variant: an event that names one item by its index and another by its id is taken. *)
MutantElsewhere(acc, f) == FALSE

Elsewhere(acc, f) == f.index # NoIndex /\ ById(acc, f) \notin {NoIndex, f.index}

Contradicts(slot, f) == slot.id # "" /\ f.id # "" /\ slot.id # f.id

(* A strict stream names every item by index and id; a native shell command may omit the id. *)
Anonymous(f, action) ==
    f.index = NoIndex \/ (f.id = "" /\ ~(f.kind = "shell_call" /\ action = "mutate"))

(* SlotMap::resolve, the errors. *)
Rejected(acc, f, action) ==
    LET i == Target(acc, f, action)
    IN  \/ acc.strict /\ Anonymous(f, action)
        \/ Elsewhere(acc, f)
        \/ Unplaced(acc, f) /\ action # "open" /\ Ambiguous(acc, f)
        \/ i \notin DOMAIN acc.slots /\ action # "open" /\ acc.strict
        \/ /\ i \in DOMAIN acc.slots
           /\ \/ action = "open"
              \/ Contradicts(acc.slots[i], f)
              \/ acc.slots[i].item.kind # f.kind /\ (action # "mutate" \/ acc.strict)
              \/ acc.slots[i].done /\ acc.strict

(* SlotMap::resolve, the events a lenient stream may contain to no effect. *)
Ignored(acc, f, action) ==
    LET i == Target(acc, f, action)
    IN  \/ i = NoIndex
        \/ i \notin DOMAIN acc.slots /\ action = "mutate"
        \/ i \in DOMAIN acc.slots /\ acc.slots[i].item.kind # f.kind
        \/ i \in DOMAIN acc.slots /\ acc.slots[i].done /\ action # "complete"

Put(acc, i, slot) ==
    [acc EXCEPT !.slots = [j \in DOMAIN @ \cup {i} |-> IF j = i THEN slot ELSE @[j]]]

Bind(acc, i, id) ==
    IF id = "" \/ acc.slots[i].id # "" THEN acc
    ELSE [acc EXCEPT !.slots[i].id = id,
                     !.ids = [k \in DOMAIN @ \cup {id} |-> IF k = id THEN i ELSE @[k]]]

Fail(acc) == [ok |-> FALSE, acc |-> acc, index |-> NoIndex, emit |-> FALSE]
Skip(acc) == [ok |-> TRUE, acc |-> acc, index |-> NoIndex, emit |-> FALSE]
Emit(acc, i) == [ok |-> TRUE, acc |-> acc, index |-> i, emit |-> TRUE]

-----------------------------------------------------------------------------
(* SlotMap: an item's content. *)

Slot(item, done) == [id |-> "", item |-> item, done |-> done, buffer |-> <<>>, parts |-> <<>>]

(* ActiveItem::from_added: a native search needs its id and call, a shell item its fields. *)
Opens(f) ==
    /\ f.kind = "tool_search_call" => f.id # "" /\ f.call # ""
    /\ f.kind = "shell_call" => f.ok

Open(acc, f) ==
    LET i == Target(acc, f, "open")
        new == [ItemOf(f, i) EXCEPT !.text = <<>>, !.status = "in_progress"]
    IN  IF Rejected(acc, f, "open") THEN Fail(acc)
        ELSE IF ~Opens(f) THEN Skip(acc)
        ELSE Emit(Bind(Put(acc, i, Slot(new, FALSE)), i, f.id), i)

(* The commands of a native shell item come one after the other, each once. *)
InOrder(slot, f) ==
    CASE f.type = "part" -> f.part = Len(slot.parts) /\ \A p \in DOMAIN slot.parts : slot.parts[p]
      [] f.type = "delta" -> f.part < Len(slot.parts) /\ ~slot.parts[f.part + 1]
      [] f.type = "part_done" ->
            f.part < Len(slot.parts) /\ ~slot.parts[f.part + 1] /\ slot.buffer = f.text
      [] OTHER -> TRUE

ApplyCommand(slot, f) ==
    CASE f.type = "part" -> [slot EXCEPT !.parts = Append(@, FALSE), !.buffer = f.text]
      [] f.type = "delta" -> [slot EXCEPT !.buffer = @ \o f.text]
      [] f.type = "part_done" ->
            [slot EXCEPT !.parts[f.part + 1] = TRUE, !.buffer = <<>>, !.item.text = @ \o f.text \o <<"b">>]
      [] OTHER -> slot

(* FunctionToolCall and CustomToolCall: arguments.done replaces what the deltas gathered. *)
ApplyArguments(slot, f) ==
    CASE f.type = "delta" -> [slot EXCEPT !.buffer = @ \o f.text]
      [] f.type = "part_done" ->
            [slot EXCEPT !.buffer = <<>>,
                         !.item.text = IF f.text = <<>> THEN slot.buffer ELSE f.text,
                         !.item.call = IF f.call = "" THEN @ ELSE f.call,
                         !.item.name = IF f.name \in {"", "none"} THEN @ ELSE f.name]
      [] OTHER -> slot

(* ActiveItem::apply_event *)
ApplyEvent(slot, f) ==
    CASE f.kind \in Buffered -> ApplyArguments(slot, f)
      [] f.kind = "shell_call" -> ApplyCommand(slot, f)
      [] f.kind = "message" /\ f.type = "delta" -> [slot EXCEPT !.buffer = @ \o f.text]
      [] f.kind = "reasoning" /\ f.type = "part_done" -> [slot EXCEPT !.item.text = @ \o f.text]
      [] OTHER -> slot

Apply(acc, f) ==
    LET i == Target(acc, f, "mutate")
    IN  IF Rejected(acc, f, "mutate") THEN Fail(acc)
        ELSE IF Ignored(acc, f, "mutate") THEN Skip(acc)
        ELSE IF f.kind = "shell_call" /\ ~InOrder(acc.slots[i], f) THEN Fail(acc)
        ELSE Emit(Bind(Put(acc, i, ApplyEvent(acc.slots[i], f)), i, f.id), i)

(* ActiveItem::finalize *)
Finalize(slot) ==
    CASE slot.item.kind \in Buffered ->
            [slot.item EXCEPT !.text = IF @ = <<>> THEN slot.buffer ELSE @, !.status = "completed"]
      [] slot.item.kind = "message" -> [slot.item EXCEPT !.text = @ \o slot.buffer, !.status = "completed"]
      [] OTHER -> slot.item

(* MergeDone: the completed item wins, but for the fields it leaves empty. *)
MergeDone(slot, f) ==
    LET old == slot.item
        new == ItemOf(f, 0)
        keep(a, b, empty) == IF a \in empty THEN b ELSE a
    IN  IF ~f.ok THEN slot
        ELSE IF f.kind \in Buffered
        THEN [slot EXCEPT !.item = [new EXCEPT !.id = keep(f.id, old.id, {""}),
                                               !.call = keep(@, old.call, {""}),
                                               !.name = keep(@, old.name, {""}),
                                               !.text = keep(@, old.text, {<<>>})],
                          !.buffer = IF f.text = <<>> THEN @ ELSE <<>>]
        ELSE [slot EXCEPT !.item = [new EXCEPT !.id = keep(f.id, old.id, {""}),
                                               !.text = IF f.kind = "reasoning" THEN keep(@, old.text, {<<>>}) ELSE @],
                          !.buffer = <<>>]

Candidate(slot, f) == Finalize(MergeDone(slot, f))

(* An item's completion must agree with the commands that were streamed for it. *)
CommandsUnfinished(slot, f) ==
    /\ f.kind = "shell_call" /\ slot.parts # <<>>
    /\ \/ \E p \in DOMAIN slot.parts : ~slot.parts[p]
       \/ ~f.ok \/ f.text # slot.item.text

Settle(acc, i, f) ==
    Emit(Bind(Put(acc, i, [acc.slots[i] EXCEPT !.item = Candidate(acc.slots[i], f), !.done = TRUE, !.buffer = <<>>]),
              i, f.id), i)

(* Variant: a repeated completion replaces the item. *)
MutantResettle(acc, i, f) == Settle(acc, i, f)

(* A repeated completion changes nothing: it says the same, or it is an error. *)
Resettle(acc, i, f) ==
    IF acc.slots[i].item \in {Candidate(acc.slots[i], f)} \cup (IF f.ok THEN {ItemOf(f, i)} ELSE {})
    THEN Skip(Bind(acc, i, f.id)) ELSE Fail(acc)

(* SlotMap::complete *)
Complete(acc, f) ==
    LET i == Target(acc, f, "complete")
        slot == acc.slots[i]
    IN  IF Rejected(acc, f, "complete") THEN Fail(acc)
        ELSE IF i \notin DOMAIN acc.slots
        THEN IF f.ok /\ f.kind # "message" THEN Emit(Bind(Put(acc, i, Slot(ItemOf(f, i), TRUE)), i, f.id), i)
             ELSE Skip(acc)
        ELSE IF CommandsUnfinished(slot, f) THEN Fail(acc)
        ELSE IF slot.done THEN Resettle(acc, i, f)
        ELSE IF f.kind = "web_search_call" /\ ~f.ok THEN Skip(acc)
        ELSE Settle(acc, i, f)

-----------------------------------------------------------------------------
(* ResponseAccumulator *)

(* drain_output: in the order of the indexes; a web search exists only once it is done. *)
Drained(acc) ==
    LET whole == {i \in DOMAIN acc.slots : acc.slots[i].done \/ acc.slots[i].item.kind # "web_search_call"}
        order == SetToSortSeq(whole, <)
    IN  [n \in DOMAIN order |->
            IF acc.slots[order[n]].done THEN acc.slots[order[n]].item ELSE Finalize(acc.slots[order[n]])]

FinalizeAll(acc) == [acc EXCEPT !.output = @ \o Drained(acc), !.slots = <<>>, !.ids = <<>>]

(* CallIdObservation: the first id an item's call is given, and whether it changes. *)
Observe(acc, i, call) ==
    LET seen == IF i \in DOMAIN acc.calls THEN acc.calls[i] ELSE [first |-> "", changed |-> FALSE]
        now == [first |-> IF seen.first = "" THEN call ELSE seen.first,
                changed |-> seen.changed \/ (seen.first # "" /\ call \notin {"", seen.first})]
    IN  [acc EXCEPT !.calls = [j \in DOMAIN @ \cup {i} |-> IF j = i THEN now ELSE @[j]]]

CallIdsStable(acc) == \A i \in DOMAIN acc.calls : ~acc.calls[i].changed

ObserveAll(acc, items) ==
    FoldLeft(LAMBDA a, n : IF items[n].kind \in CallKinds THEN Observe(a, n - 1, items[n].call) ELSE a,
             acc, [n \in DOMAIN items |-> n])

(* validate_terminal_output: the output a terminal event repeats is that of the item events. *)
TerminalOutputMatches(acc, items) ==
    /\ Len(items) = Cardinality(DOMAIN acc.slots)
    /\ IsInjective([n \in DOMAIN items |-> items[n].id])
    /\ \A n \in DOMAIN items :
        n - 1 \in DOMAIN acc.slots /\ acc.slots[n - 1].done /\ acc.slots[n - 1].item.kind = items[n].kind

ValidTerminal(acc, f) ==
    /\ acc.lifecycle = "in_progress" /\ f.id = acc.response
    /\ \A i \in DOMAIN acc.slots : acc.slots[i].done
    /\ f.items = Absent \/ TerminalOutputMatches(acc, f.items)
    /\ f.type # "failed" =>
        /\ CallIdsStable(acc)
        /\ f.items = Absent \/ CallIdsStable(ObserveAll(acc, f.items))

(* validate_frame: the fields that the type of an event requires are there. *)
WellFormed(f) == f.ok

(* validate_strict_transition *)
ValidTransition(acc, f) ==
    /\ WellFormed(f) /\ acc.lifecycle # "terminal"
    /\ CASE f.type = "created" -> acc.lifecycle = "awaiting"
         [] f.type = "in_progress" -> acc.lifecycle = "created" /\ f.id = acc.response
         [] f.type \in Terminals -> ValidTerminal(acc, f)
         [] OTHER -> acc.lifecycle = "in_progress"

FinishResponse(acc, f) ==
    [FinalizeAll(acc) EXCEPT !.lifecycle = "terminal",
                             !.status = IF f.type = "failed" THEN "error" ELSE f.type]

ItemEvent(acc, f) ==
    CASE f.type = "added" -> Open(acc, f) [] f.type = "done" -> Complete(acc, f) [] OTHER -> Apply(acc, f)

(* The call an event names, for the check that it is always the same. *)
CallNamed(r, f) ==
    IF f.type = "done" THEN IF f.kind \in CallKinds THEN r.acc.slots[r.index].item.call ELSE ""
    ELSE IF f.kind = "function_call" \/ f.type = "added" THEN f.call ELSE ""

(* process_event_checked *)
ProcessEvent(acc, f) ==
    CASE f.type = "created" -> Emit([acc EXCEPT !.response = f.id, !.lifecycle = "created"], NoIndex)
      [] f.type = "in_progress" -> Emit([acc EXCEPT !.lifecycle = "in_progress"], NoIndex)
      [] f.type \in Terminals -> Emit(FinishResponse(acc, f), NoIndex)
      [] f.type = "other" -> Emit(acc, NoIndex)
      [] OTHER ->
            LET r == ItemEvent(acc, f)
            IN  IF acc.strict /\ r.ok /\ r.emit
                THEN [r EXCEPT !.acc = Observe(r.acc, r.index, CallNamed(r, f))] ELSE r

(* normalize_sse_value: a completion that says it is incomplete is one. *)
Normalize(f) ==
    IF f.type = "completed" /\ f.status = "incomplete" THEN [f EXCEPT !.type = "incomplete"] ELSE f

(* ResponseAccumulator::process_line.  Lines that cannot be read are an error only of a *)
(* strict stream, an index that is no 32-bit number of both.                            *)
ProcessLine(acc, line) ==
    LET f == Normalize(line)
    IN  CASE f.type = "ignore" -> Skip(acc)
          [] f.type = "malformed" -> IF acc.strict THEN Fail(acc) ELSE Skip(acc)
          [] f.type = "bad_index" -> Fail(acc)
          [] OTHER -> IF acc.strict /\ ~ValidTransition(acc, f) THEN Fail(acc) ELSE ProcessEvent(acc, f)

(* finish: a strict stream must have ended with a terminal event, a lenient one may just end. *)
CanFinish(acc) == acc.strict => acc.lifecycle = "terminal"
FinishStream(acc) ==
    [FinalizeAll(acc) EXCEPT !.lifecycle = "terminal",
                             !.status = IF @ = "in_progress" THEN "completed" ELSE @]

(* read_json: a whole response; what cannot be read is left out unless the policy is strict. *)
JsonAccepted(strict, body) ==
    strict =>
        /\ body.status \in Terminals
        /\ \A n \in DOMAIN body.items : body.items[n].ok /\ body.items[n].id # ""
        /\ IsInjective([n \in DOMAIN body.items |-> body.items[n].id])

JsonStatus(body) ==
    CASE body.status = "none" -> "completed"
      [] body.status \in {"completed", "incomplete", "in_progress"} -> body.status
      [] OTHER -> "error"

ReadJson(acc, body) ==
    LET read == SelectSeq(body.items, LAMBDA f : f.ok)
    IN  [Accumulator(acc.strict) EXCEPT !.response = "own", !.lifecycle = "terminal",
                                        !.status = JsonStatus(body),
                                        !.output = [n \in DOMAIN read |-> ItemOf(read[n], 0)]]
================================================================================
