---------------------------- MODULE RoundIngestion -----------------------------
(***************************************************************************)
(* One inference round of AgentPipeline: every line the upstream sends     *)
(* goes through the accumulator and the translation dispatcher, and what   *)
(* comes out is shown to the client; at the end the round's payload is     *)
(* made of what was accumulated.  The first error drops the round.         *)
(*                                                                         *)
(* The upstream is not trusted: it may omit, repeat and contradict what it *)
(* said, within the alphabet of the menu that the behaviour started with,   *)
(* whose field events bounds the lines of the stream.                      *)
(***************************************************************************)
EXTENDS ToolTranslation

CONSTANTS
    Menus,      \* what the upstream may say; see MCRoundIngestion
    Bodies      \* the non-streamed answers it may give

(* The lines that are about neither the response nor one of its items. *)
ASSUME MenusAssumption ==
    \A m \in Menus : m.others \subseteq {"ignore", "malformed", "bad_index", "other"}

VARIABLES
    menu, lines,
    acc, disp,    \* RoundIngestion.accumulator, .translator
    shown,        \* by index, what the client has been shown of an item
    closed,       \* history: calls whose arguments were said to be done
    body, phase,  \* BodyKind, and "reading", "ok" or "error"
    payload       \* the round's result

vars == <<menu, lines, acc, disp, shown, closed, body, phase, payload>>

Nothing == [kind |-> "none", call |-> "", text |-> <<>>, added |-> 0, done |-> 0]
NoPayload == [status |-> "none", output |-> <<>>]

Init ==
    /\ menu \in Menus /\ lines = 0
    /\ acc = Accumulator(menu.strict) /\ disp = Dispatcher
    /\ shown = [i \in Indexes |-> Nothing] /\ closed = {}
    /\ body = "empty" /\ phase = "reading" /\ payload = NoPayload

-----------------------------------------------------------------------------
(* What the upstream may say. *)

Line(type) ==
    [type |-> type, index |-> NoIndex, id |-> "", kind |-> "none", name |-> "none", call |-> "",
     text |-> <<>>, part |-> 0, status |-> "none", ok |-> TRUE, items |-> Absent]

IsCallOf(kind) == kind = "function_call"

Names(kind) == IF IsCallOf(kind) THEN menu.names ELSE {"none"}
Calls(kind) == IF kind \in CallKinds THEN menu.calls ELSE {""}
Parts(kind) == IF kind = "shell_call" THEN {0, 1} ELSE {0}

(* The events of an item of a kind, each with the fields of its type. *)
ItemLines(kind) ==
    LET at(t, p) == [Line(t) EXCEPT !.index = p[1], !.id = p[2], !.kind = kind]
        named == Names(kind) \ {"none"}
    IN  {[at("added", p) EXCEPT !.name = n, !.call = c, !.status = "in_progress"] :
            p \in menu.places, n \in Names(kind), c \in Calls(kind)}
        \cup {[at("part", p) EXCEPT !.part = k] :
            p \in {q \in menu.places : kind = "shell_call"}, k \in Parts(kind)}
        \cup {[at("delta", p) EXCEPT !.text = <<u>>, !.part = k] :
            p \in {q \in menu.places : kind # "tool_search_call"}, u \in menu.tokens, k \in Parts(kind)}
        \cup {[at("part_done", p) EXCEPT !.text = x, !.name = n, !.part = k] :
            p \in {q \in menu.places : kind \in CallKinds \ {"tool_search_call"}}, x \in menu.texts \cup {<<>>},
            n \in IF IsCallOf(kind) THEN named ELSE {"none"}, k \in Parts(kind)}
        \cup {[at("done", p) EXCEPT !.text = x, !.name = n, !.call = c, !.status = s, !.ok = o] :
            p \in menu.places, x \in menu.texts \cup {<<>>},
            n \in IF IsCallOf(kind) THEN named ELSE {"none"}, c \in Calls(kind),
            s \in menu.statuses, o \in menu.oks}

(* The upstream's side of the contract for a call, where a menu keeps to it: one name, no *)
(* delta and no other text once its arguments are done, nothing after the end.            *)
Consistent(f) ==
    LET i == Target(acc, f, "mutate")
        slot == acc.slots[i]
    IN  menu.contract =>
            /\ disp.terminal = "open"
            /\ IsCallOf(f.kind) /\ f.type # "added" /\ i \in DOMAIN acc.slots =>
                /\ f.type \in {"delta", "part_done"} => i \notin closed
                /\ f.type # "delta" => f.name # "" /\ slot.item.name \in {"", f.name}
                /\ f.type = "done" /\ i \in closed => f.text \in {<<>>, slot.item.text}

(* The bound on the items of a round. *)
Fits(f) == Target(acc, f, "open") \in Indexes

(* The output a terminal event repeats: nothing, what was sent, or something else. *)
Snapshot ==
    [n \in 1 .. Cardinality(DOMAIN acc.slots) |->
        LET slot == IF n - 1 \in DOMAIN acc.slots THEN acc.slots[n - 1] ELSE Slot(ItemOf(Line("other"), 0), FALSE)
        IN  [Line("done") EXCEPT !.id = slot.item.id, !.kind = slot.item.kind, !.name = slot.item.name,
                                 !.call = slot.item.call, !.text = slot.item.text, !.status = slot.item.status]]
Snapshots ==
    {Absent, Snapshot} \cup
        (IF Snapshot = <<>> THEN {}
         ELSE {Tail(Snapshot), [Snapshot EXCEPT ![1].call = "z"], [Snapshot EXCEPT ![1].status = "in_progress"]})

ResponseLines ==
    {[Line(t) EXCEPT !.id = r, !.items = o, !.status = s] :
        t \in {"created", "in_progress"} \cup Terminals, r \in menu.responses, o \in Snapshots,
        s \in {"none", "incomplete"}}

Plain(f) ==
    /\ f.type \in {"created", "in_progress"} => f.items = Absent
    /\ f.status = "incomplete" => f.type = "completed"

OtherLines == {Line(t) : t \in menu.others}

Lines ==
    {f \in UNION {ItemLines(k) : k \in menu.kinds} : Fits(f) /\ Consistent(f)}
        \cup {f \in ResponseLines : Plain(f)} \cup OtherLines

-----------------------------------------------------------------------------
(* The client's view of the frames. *)

Show(view, f) ==
    LET v == view[f.index]
    IN  [view EXCEPT ![f.index] =
            CASE f.type = "added" -> [v EXCEPT !.kind = f.kind, !.call = f.call, !.added = Min({@ + 1, 2})]
              [] f.type = "done" -> [v EXCEPT !.kind = IF v.added = 0 THEN f.kind ELSE @,
                                              !.call = IF @ = "" THEN f.call ELSE @, !.done = Min({@ + 1, 2})]
              [] f.kind \in {"custom_tool_call", "shell_call"} -> [v EXCEPT !.text = @ \o f.text]
              [] OTHER -> v]

ShowAll(view, frames) == FoldLeft(Show, view, frames)

Abort ==
    /\ phase' = "error" /\ acc' = Accumulator(menu.strict) /\ disp' = Dispatcher
    /\ shown' = [i \in Indexes |-> Nothing] /\ closed' = {} /\ UNCHANGED payload

(* RoundIngestion::push: classify, accumulate, translate. *)
Push ==
    \E f \in Lines :
        LET r == ProcessLine(acc, f)
            g == [Normalize(f) EXCEPT !.index = r.index]
            t == Translate(disp, g, r.index, r.acc.slots)
        IN  /\ phase = "reading" /\ body # "json" /\ lines < menu.events
            /\ body' = "stream" /\ lines' = lines + 1
            /\ IF r.ok /\ ~r.emit
               THEN acc' = r.acc /\ UNCHANGED <<disp, shown, closed, phase, payload>>
               ELSE IF r.ok /\ t.ok
               THEN /\ acc' = r.acc /\ disp' = t.disp /\ shown' = ShowAll(shown, t.frames)
                    /\ closed' = IF f.type = "part_done" THEN closed \cup {r.index} ELSE closed
                    /\ UNCHANGED <<phase, payload>>
               ELSE Abort
            /\ UNCHANGED menu

(* RoundIngestion::load_json_body *)
LoadJson ==
    \E b \in Bodies :
        /\ phase = "reading" /\ body = "empty" /\ menu.json
        /\ body' = "json"
        /\ IF SearchOutputValid(b.items, JsonStatus(b) \notin {"error", "incomplete"}) /\ JsonAccepted(menu.strict, b)
           THEN acc' = ReadJson(acc, b) /\ UNCHANGED <<disp, shown, closed, phase, payload>>
           ELSE Abort
        /\ UNCHANGED <<menu, lines>>

(* RoundIngestion::finish: the end of the body. *)
Finish ==
    LET final == IF body = "json" THEN acc ELSE FinishStream(acc)
    IN  /\ phase = "reading"
        /\ IF CanFinish(acc) /\ CanEnd(disp) /\ OutputAllowed(disp, final.output, final.status)
           THEN /\ payload' = [status |-> final.status, output |-> Public(disp, final.output, final.status)]
                /\ acc' = final /\ phase' = "ok" /\ UNCHANGED <<disp, shown, closed>>
           ELSE Abort
        /\ UNCHANGED <<menu, lines, body>>

Next == Push \/ LoadJson \/ Finish

Spec == Init /\ [][Next]_vars

-----------------------------------------------------------------------------
(* Properties. *)

(* TypeOK: the ranges of the round's state; the events held back for calls without a name *)
(* are counted exactly and stay within the bound (buffer_unnamed, take_pending).          *)
TypeOK ==
    /\ phase \in {"reading", "ok", "error"} /\ body \in {"empty", "stream", "json"}
    /\ DOMAIN acc.slots \subseteq Indexes /\ DOMAIN disp.active \subseteq Indexes
    /\ disp.bytes = FoldSet(LAMBDA i, n : n + Len(disp.pending[i].frames), 0, DOMAIN disp.pending)
    /\ disp.bytes <= MaxPending

(* IdentityCoherent: whatever the upstream omits, repeats or contradicts, the two maps of *)
(* SlotMap agree: an id leads to the slot that carries it and to no other, so that no     *)
(* event of one item is folded into another.                                              *)
IdentityCoherent ==
    /\ \A id \in DOMAIN acc.ids : acc.ids[id] \in DOMAIN acc.slots /\ acc.slots[acc.ids[id]].id = id
    /\ \A i \in DOMAIN acc.slots :
        acc.slots[i].id # "" => acc.slots[i].id \in DOMAIN acc.ids /\ acc.ids[acc.slots[i].id] = i

(* DoneIsFinal: once an item is done no later event of the stream changes it; a repeated  *)
(* completion that says something else ends the round (SlotMap::complete).                *)
DoneIsFinal ==
    [][\A i \in DOMAIN acc.slots :
        acc.slots[i].done /\ i \in DOMAIN acc'.slots => acc'.slots[i].item = acc.slots[i].item]_vars

(* ShownMatchesOutput: of a call that is translated while its arguments arrive, the deltas *)
(* the client was sent add up to what the completed item decodes to, wherever the upstream *)
(* cut the text, between an escape and the character it escapes too (CustomTranslator,     *)
(* ShellTranslator).                                                                       *)
ShownMatchesOutput ==
    \A i \in DOMAIN acc.slots :
        menu.contract /\ shown[i].done > 0 =>
            /\ shown[i].kind = "custom_tool_call" /\ acc.slots[i].item.kind = "function_call" =>
                shown[i].text = CustomInput(acc.slots[i].item.text)
            /\ shown[i].kind = "shell_call" /\ acc.slots[i].item.kind = "function_call" =>
                shown[i].text = Commands(acc.slots[i].item.text)

================================================================================
