----------------------------- MODULE ToolTranslation ---------------------------
(***************************************************************************)
(* The dispatcher that turns the upstream's function calls into the tools  *)
(* the client declared.  It runs behind the accumulator, on the events the *)
(* accumulator accepted.                                                   *)
(*                                                                         *)
(* A call's arguments are a sequence of tokens: "c" a character, "b" the   *)
(* boundary of two shell commands, "e" the backslash that escapes the      *)
(* token after it, "q" the quote that ends the text.  What a client is     *)
(* shown of a custom call or of shell commands is decoded from them while  *)
(* they arrive.                                                            *)
(***************************************************************************)
EXTENDS ResponseAccumulator

CONSTANTS
    ToolTypes,     \* tool_types and gateway_owned_names: name -> type
    Withheld,      \* withheld_function_names
    SearchActive,  \* tool_search_active
    MaxPending     \* MAX_PENDING_FUNCTION_BYTES, in events

SearchName == "tool_search"

(* TranslationContext::tool_type *)
ToolType(name) ==
    IF SearchActive /\ name = SearchName THEN "tool_search"
    ELSE IF name \in DOMAIN ToolTypes THEN ToolTypes[name] ELSE "function"

Dispatcher ==
    [active |-> <<>>, pending |-> <<>>, bytes |-> 0, gateway |-> {}, search |-> <<>>,
     native |-> {}, terminal |-> "open"]

-----------------------------------------------------------------------------
(* Decoding. *)

(* Scan of a JSON string: an escape is taken with the token it escapes, a quote ends it. *)
Scan(text) ==
    FoldLeft(LAMBDA a, t :
                IF a.ended THEN a
                ELSE IF a.escape THEN [a EXCEPT !.escape = FALSE, !.used = @ + 2, !.out = Append(@, "E")]
                ELSE IF t = "e" THEN [a EXCEPT !.escape = TRUE]
                ELSE IF t = "q" THEN [a EXCEPT !.ended = TRUE]
                ELSE [a EXCEPT !.used = @ + 1, !.out = Append(@, t)],
             [out |-> <<>>, used |-> 0, escape |-> FALSE, ended |-> FALSE], text)

(* complete_json_string_prefix: what can be shown of a text that is still arriving. *)
Decodable(text) == Scan(text).out

IsJson(text) == Scan(text).ended

(* input_from_arguments: arguments that are no JSON are the input themselves. *)
CustomInput(text) == IF IsJson(text) THEN Decodable(text) ELSE text

(* The commands of a shell call, the last one closed by the end of the array. *)
Commands(text) == IF IsJson(text) THEN Append(Decodable(text), "q") ELSE Decodable(text)

(* AccumulatedFunctionCall::arguments *)
Arguments(slot) == IF slot.item.text = <<>> THEN slot.buffer ELSE slot.item.text

-----------------------------------------------------------------------------
(* Frames for the client: the item's own event, or one that is made up for it. *)

Frame(type, i, kind, call, text) == [type |-> type, index |-> i, kind |-> kind, call |-> call, text |-> text]
PassOn(f, i) == Frame(f.type, i, f.kind, f.call, <<>>)

Done(d, frames) == [ok |-> TRUE, disp |-> d, frames |-> frames]
Reject(d) == [ok |-> FALSE, disp |-> d, frames |-> <<>>]
Then(r, s) == IF ~r.ok THEN r ELSE [s EXCEPT !.frames = r.frames \o @]

Translator(type, id) == [type |-> type, id |-> id, shown |-> <<>>, cursor |-> 0, closed |-> FALSE]
Activate(d, i, t) == [d EXCEPT !.active = [j \in DOMAIN @ \cup {i} |-> IF j = i THEN t ELSE @[j]]]
Without(fn, i) == [j \in DOMAIN fn \ {i} |-> fn[j]]

(* CustomTranslator: what can be decoded beyond the cursor is shown. *)
CustomDelta(d, i, slot) ==
    LET t == d.active[i]
        all == Arguments(slot)
        s == Scan(SubSeq(all, t.cursor + 1, Len(all)))
    IN  Done(Activate(d, i, [t EXCEPT !.shown = @ \o s.out, !.cursor = @ + s.used]),
             IF s.out = <<>> THEN <<>> ELSE <<Frame("delta", i, "custom_tool_call", "", s.out)>>)

(* Variant: the arguments that end the input are not compared with what was shown of it. *)
MutantFinishCustom(d, i, slot) ==
    LET t == d.active[i]
        input == CustomInput(Arguments(slot))
    IN  IF t.closed THEN Done(d, <<>>)
        ELSE Done(Activate(d, i, [t EXCEPT !.shown = input, !.closed = TRUE]),
                  IF Len(input) <= Len(t.shown) THEN <<>>
                  ELSE <<Frame("delta", i, "custom_tool_call", "",
                               SubSeq(input, Len(t.shown) + 1, Len(input)))>>)

FinishCustom(d, i, slot) ==
    LET t == d.active[i]
        input == CustomInput(Arguments(slot))
    IN  IF t.closed THEN Done(d, <<>>)
        ELSE IF ~IsPrefix(t.shown, input) THEN Reject(d)
        ELSE Done(Activate(d, i, [t EXCEPT !.shown = input, !.closed = TRUE]),
                  IF input = t.shown THEN <<>>
                  ELSE <<Frame("delta", i, "custom_tool_call", "",
                               SubSeq(input, Len(t.shown) + 1, Len(input)))>>)

(* ShellTranslator *)
ShellDelta(d, i, slot) ==
    LET t == d.active[i]
        now == Commands(Arguments(slot))
    IN  IF t.closed \/ Len(now) <= Len(t.shown) THEN Done(d, <<>>)
        ELSE Done(Activate(d, i, [t EXCEPT !.shown = now]),
                  <<Frame("delta", i, "shell_call", "", SubSeq(now, Len(t.shown) + 1, Len(now)))>>)

FinishShell(d, i, slot) ==
    LET t == d.active[i]
        now == Commands(Arguments(slot))
    IN  IF \/ ~IsJson(Arguments(slot))
           \/ ~IsPrefix(t.shown, now)
           \/ t.closed /\ t.shown # now
        THEN Reject(d)
        ELSE Done(Activate(d, i, [t EXCEPT !.shown = now, !.closed = TRUE]),
                  IF now = t.shown THEN <<>>
                  ELSE <<Frame("delta", i, "shell_call", "", SubSeq(now, Len(t.shown) + 1, Len(now)))>>)

(* started_public_call, strict_function_call *)
StartsSearch(item) == item.id # "" /\ item.call # "" /\ item.name = SearchName
StrictCall(f) ==
    f.ok /\ f.id # "" /\ f.call # "" /\ f.name = SearchName /\ (f.status = "completed" => IsJson(f.text))

(* ToolSearchStreamState: one search in a round, native or made of a function call. *)
Identity(source, i, call) == <<[source |-> source, index |-> i, call |-> call]>>

StartsSecond(d) == d.search # <<>>

StartSearch(d, source, i, call) ==
    IF StartsSecond(d) THEN Reject(d) ELSE Done([d EXCEPT !.search = Identity(source, i, call)], <<>>)

(* track_native_tool_search *)
TrackNative(d, f, i) ==
    CASE f.kind = "tool_search_call" /\ f.type = "added" ->
            LET r == StartSearch([d EXCEPT !.native = @ \cup {i}], "native", i, f.call)
            IN  IF f.ok /\ f.status = "in_progress" /\ f.text = <<>> THEN r ELSE Reject(d)
      [] f.kind = "tool_search_call" /\ f.type = "done" ->
            IF f.ok /\ d.search \in {<<>>, Identity("native", i, f.call)}
            THEN Done([d EXCEPT !.search = Identity("native", i, f.call),
                                !.native = IF f.status = "completed" THEN @ \ {i} ELSE @ \cup {i}], <<>>)
            ELSE Reject(d)
      [] OTHER -> Done(d, <<>>)

(* SearchesOf: the search calls of a whole output, which must be one and readable. *)
SearchesOf(items) ==
    {n \in DOMAIN items : \/ items[n].kind = "tool_search_call"
                          \/ items[n].kind = "function_call" /\ ToolType(items[n].name) = "tool_search"}

WithholdsAll(items) == \A n \in DOMAIN items : items[n].kind = "function_call" => items[n].name \notin Withheld

(* validate_terminal_output, validate_blocking_response *)
SearchOutputValid(items, finished) ==
    /\ WithholdsAll(items)
    /\ Cardinality(SearchesOf(items)) <= 1
    /\ \A n \in SearchesOf(items) :
        /\ items[n].kind = "function_call" => StrictCall(items[n])
        /\ items[n].ok /\ (finished => items[n].status = "completed")

(* ToolSearchStreamState::validate_frame *)
FrameAllowed(f) ==
    CASE f.type \in {"added", "part_done", "done"} /\ f.kind = "function_call" ->
            f.name \notin Withheld /\ (f.type = "done" /\ ToolType(f.name) = "tool_search" => StrictCall(f))
      [] f.type \in Terminals -> f.items = Absent \/ SearchOutputValid(f.items, f.type = "completed")
      [] OTHER -> TRUE

-----------------------------------------------------------------------------
(* TranslationDispatcher *)

(* start_call: by the type of the tool, a translator or nothing to show. *)
StartCall(d, i, name, original, slot) ==
    LET type == ToolType(name)
    IN  CASE type = "gateway" ->
                Done([Activate(d, i, Translator("gateway", "")) EXCEPT !.gateway = @ \cup {i}], <<>>)
          [] type = "custom" ->
                Done(Activate(d, i, Translator("custom", "")),
                     <<Frame("added", i, "custom_tool_call", slot.item.call, <<>>)>>)
          [] type = "shell" ->
                Done(Activate(d, i, Translator("shell", "")),
                     <<Frame("added", i, "shell_call", slot.item.call, <<>>)>>)
          [] type = "tool_search" ->
                IF ~StartsSearch(slot.item) \/ (original # <<>> /\ "" \in {Head(original).call, Head(original).id})
                THEN Reject(d)
                ELSE LET r == StartSearch(Activate(d, i, Translator("tool_search", slot.item.id)),
                                          "synthetic", i, slot.item.call)
                     IN  IF ~r.ok THEN r
                         ELSE [r EXCEPT !.frames = <<Frame("added", i, "tool_search_call", slot.item.call, <<>>)>>]
          [] OTHER ->
                Done(Activate(d, i, Translator("function", "")),
                     [n \in DOMAIN original |-> PassOn(original[n], i)])

(* buffer_unnamed: events of a call that has no name yet, within a bound. *)
Buffer(d, i, f, slot) ==
    LET held == IF i \in DOMAIN d.pending THEN d.pending[i].frames ELSE <<>>
    IN  IF d.bytes + 1 > MaxPending THEN Reject(d)
        ELSE Done([d EXCEPT !.bytes = @ + 1,
                            !.pending = [j \in DOMAIN @ \cup {i} |->
                                IF j = i THEN [id |-> slot.item.id, frames |-> Append(held, f)] ELSE @[j]]], <<>>)

(* translate_delta *)
TranslateDelta(d, i, f, slot) ==
    IF i \notin DOMAIN d.active THEN Buffer(d, i, f, slot)
    ELSE CASE d.active[i].type = "custom" -> CustomDelta(d, i, slot)
           [] d.active[i].type = "shell" -> ShellDelta(d, i, slot)
           [] d.active[i].type \in {"gateway", "tool_search"} -> Done(d, <<>>)
           [] OTHER -> Done(d, <<PassOn(f, i)>>)

TakePending(d, i) ==
    [d EXCEPT !.pending = Without(@, i),
              !.bytes = @ - (IF i \in DOMAIN d.pending THEN Len(d.pending[i].frames) ELSE 0)]

(* resolve_pending: the call has its name; what was held back is translated now. *)
ResolvePending(d, i, name, slot) ==
    LET held == IF i \in DOMAIN d.pending THEN d.pending[i].frames ELSE <<>>
        added == SelectSeq(held, LAMBDA f : f.type = "added")
        deltas == SelectSeq(held, LAMBDA f : f.type = "delta")
    IN  IF i \in DOMAIN d.active THEN Done(d, <<>>)
        ELSE FoldLeft(LAMBDA r, f : IF r.ok THEN Then(r, TranslateDelta(r.disp, i, f, slot)) ELSE r,
                      StartCall(TakePending(d, i), i, name, added, slot), deltas)

(* finish_arguments *)
FinishArguments(d, i, f, slot) ==
    LET r == ResolvePending(d, i, f.name, slot)
        t == r.disp.active[i]
    IN  IF ~r.ok THEN r
        ELSE CASE t.type = "custom" -> Then(r, FinishCustom(r.disp, i, slot))
               [] t.type = "shell" -> Then(r, FinishShell(r.disp, i, slot))
               [] t.type = "gateway" -> r
               [] t.type = "tool_search" -> IF IsJson(Arguments(slot)) THEN r ELSE Reject(d)
               [] OTHER -> Then(r, Done(r.disp, <<PassOn(f, i)>>))

Retire(r, i) == [r EXCEPT !.disp.active = Without(@, i)]
DoneFrame(i, kind, slot) == <<Frame("done", i, kind, slot.item.call, <<>>)>>

(* finish_call: a search that the upstream left unfinished stays active. *)
FinishCall(d, i, f, slot) ==
    LET r == ResolvePending(d, i, f.name, slot)
        t == r.disp.active[i]
        last(s, kind) == IF s.ok THEN Retire([s EXCEPT !.frames = @ \o DoneFrame(i, kind, slot)], i) ELSE s
    IN  IF ~r.ok THEN r
        ELSE CASE t.type = "custom" -> last(Then(r, FinishCustom(r.disp, i, slot)), "custom_tool_call")
               [] t.type = "shell" -> last(Then(r, FinishShell(r.disp, i, slot)), "shell_call")
               [] t.type = "gateway" -> Retire(r, i)
               [] t.type = "tool_search" ->
                    IF f.status # "completed" THEN r
                    ELSE IF StartsSearch(slot.item) /\ IsJson(slot.item.text)
                    THEN last(r, "tool_search_call") ELSE Reject(d)
               [] OTHER -> Retire([r EXCEPT !.frames = Append(@, PassOn(f, i))], i)

(* translate: the event the accumulator accepted for slot i, or for none. *)
TranslateCall(d, f, i, slot) ==
    CASE f.type = "added" -> IF f.name = "none" THEN Buffer(d, i, f, slot) ELSE StartCall(d, i, f.name, <<f>>, slot)
      [] f.type = "delta" -> TranslateDelta(d, i, f, slot)
      [] f.type = "part_done" -> FinishArguments(d, i, f, slot)
      [] f.type = "done" -> FinishCall(d, i, f, slot)

Terminated(d, f) ==
    CASE f.type = "completed" -> [d EXCEPT !.terminal = "completed"]
      [] f.type \in {"failed", "incomplete"} -> [d EXCEPT !.terminal = "aborted"]
      [] OTHER -> d

Translate(d, f, i, slots) ==
    LET r == TrackNative(Terminated(d, f), f, i)
    IN  IF ~FrameAllowed(f) \/ ~r.ok THEN Reject(d)
        ELSE IF f.kind = "function_call" /\ f.type \in {"added", "delta", "part_done", "done"}
        THEN TranslateCall(r.disp, f, i, slots[i])
        ELSE Done(r.disp, IF i = NoIndex THEN <<>> ELSE <<PassOn(f, i)>>)

(* unfinished_tool_search_item_ids *)
Unfinished(d) ==
    {d.active[i].id : i \in {j \in DOMAIN d.active : d.active[j].type = "tool_search"}}
        \cup (IF SearchActive THEN {d.pending[i].id : i \in DOMAIN d.pending} ELSE {})

(* TranslationDispatcher::finish *)
CanEnd(d) == d.terminal = "aborted" \/ (Unfinished(d) = {} /\ d.native = {})

(* project_synthetic_call, project_native_call: a search in the output, or nothing of it. *)
Projected(item, status, unfinished) ==
    LET public == [item EXCEPT !.kind = "tool_search_call"]
    IN  CASE item.status = "completed" /\ ~unfinished -> {public}
          [] status = "incomplete" -> {[public EXCEPT !.status = "incomplete", !.text = <<>>]}
          [] OTHER -> {}

IsSearch(item) == item.kind = "tool_search_call" \/ (item.kind = "function_call" /\ ToolType(item.name) = "tool_search")

ProjectionFails(item, status, unfinished) ==
    \/ Projected(item, status, unfinished) = {} /\ status \in {"in_progress", "completed"}
    \/ item.kind = "function_call" /\ ~StartsSearch(item)
    \/ item.kind = "function_call" /\ item.status = "completed" /\ ~unfinished /\ ~IsJson(item.text)

(* normalize_response_output *)
Public(d, output, status) ==
    LET discards(item) == /\ item.kind = "function_call" /\ ~IsSearch(item)
                          /\ status \in {"error", "incomplete"} /\ item.id \in Unfinished(d)
        open(item) == item.kind = "function_call" /\ item.id \in Unfinished(d)
        shown(item) == IF IsSearch(item) THEN SetToSeq(Projected(item, status, open(item)))
                       ELSE IF discards(item) THEN <<>> ELSE <<item>>
    IN  FlattenSeq([n \in DOMAIN output |-> shown(output[n])])

OutputAllowed(d, output, status) ==
    /\ WithholdsAll(output)
    /\ Cardinality({n \in DOMAIN output : IsSearch(output[n])}) <= 1
    /\ \A n \in DOMAIN output :
        IsSearch(output[n]) => ~ProjectionFails(output[n], status,
                                    output[n].kind = "function_call" /\ output[n].id \in Unfinished(d))
================================================================================
