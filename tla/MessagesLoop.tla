----------------------------- MODULE MessagesLoop -----------------------------
(***************************************************************************)
(* One /v1/messages request.  One that declares no gateway-owned tool is   *)
(* proxied; one with an invalid search declaration is refused; the others  *)
(* run the gateway's tool loop.                                            *)
(*                                                                         *)
(* Each round posts the conversation upstream and reads one assistant      *)
(* turn: in one piece (run_messages_loop) or line by line                  *)
(* (run_messages_stream), where the accumulator shows the client a single  *)
(* message over all rounds.  A turn that asks for gateway tools alone has  *)
(* them run at once, within the search budget of the request, and is       *)
(* posted again with the results; any other turn ends the request.         *)
(***************************************************************************)
EXTENDS Integers, Sequences, FiniteSets, SequencesExt, FiniteSetsExt

CONSTANTS
    MaxRounds,  \* MAX_GATEWAY_TOOL_ROUNDS
    MaxBlocks,  \* bound: content blocks of one assistant turn
    ToolLists   \* the sets of tools a request may declare

VARIABLES
    request,    \* [stream, tools]: what the client asked for
    phase,      \* where the handler is
    round,      \* rounds posted
    said,       \* the assistant turn of this round, as upstream has sent it
    acc,        \* MessagesStreamAccumulator
    calls,      \* the gateway calls of this round with their results
    remaining,  \* WebSearchBudget
    ran,        \* searches handed to the executor, over all rounds
    posted,     \* the round appended last: [content, results]
    shown,      \* the blocks upstream sent for the client, over all rounds
    view        \* what the client has made of the events it received

vars == <<request, phase, round, said, acc, calls, remaining, ran, posted, shown, view>>

\* No limit.
Unlimited == -1

ASSUME ConstantsAssumption ==
    /\ MaxRounds \in Nat /\ MaxBlocks \in Nat
    /\ ToolLists \subseteq SUBSET [gateway : BOOLEAN, native : BOOLEAN, valid : BOOLEAN,
                                   max : Nat \cup {Unlimited}]

Kinds == {"text", "gateway", "client"}

Stops == {"tool_use", "end_turn", "max_tokens"}

\* A content block: `body` counts the fragments received.  The arguments of a
\* call are two fragments long; what lacks one does not parse.
Block(kind) == [kind |-> kind, body |-> 0]

Whole(block) == block.body = 2

IsCall(block) == block.kind # "text"

-----------------------------------------------------------------------------
(* Routing and admission.                                                  *)

\* A declared tool: `gateway` when the operator's map gives its name to an
\* executor, `native` for Claude's own web search declaration, `valid` when its
\* domains, location and callers pass, `max` its max_uses.
Tool(gateway, native, valid, max) ==
    [gateway |-> gateway, native |-> native, valid |-> valid, max |-> max]

HasGatewayTool(tools) == \E t \in tools : t.gateway

InvalidDeclaration(t) == t.native /\ (~t.valid \/ t.max = 0)

MutantMaxUses(tools) ==
    LET declared == {t.max : t \in {u \in tools : u.native}} \ {Unlimited}
    IN  IF declared = {} THEN Unlimited ELSE Max(declared)

\* native_web_search_max_uses: the least of what the declarations allow.
MaxUses(tools) ==
    LET declared == {t.max : t \in {u \in tools : u.native}} \ {Unlimited}
    IN  IF declared = {} THEN Unlimited ELSE Min(declared)

\* messages and execute_messages up to the loop.
Route ==
    /\ phase = "arrived"
    /\ LET looped == HasGatewayTool(request.tools)
           valid  == \A t \in request.tools : ~InvalidDeclaration(t)
       IN  /\ phase' = CASE ~looped -> "proxied" [] looped /\ ~valid -> "ended" [] OTHER -> "send"
           /\ view' = [view EXCEPT !.ended = IF looped /\ ~valid THEN "error" ELSE @]
           /\ remaining' = IF looped /\ valid THEN MaxUses(request.tools) ELSE 0
    /\ UNCHANGED <<request, round, said, acc, calls, ran, posted, shown>>

-----------------------------------------------------------------------------
(* The client's reading of the stream: blocks in order, each opened,       *)
(* filled and closed, then one terminal.                                   *)

EmptyView == [started |-> FALSE, blocks |-> << >>, open |-> {}, ended |-> "no", broken |-> FALSE]

Event(type, index, block) == [type |-> type, index |-> index, block |-> block]

Received(v, e) ==
    IF v.ended # "no" THEN [v EXCEPT !.broken = TRUE]
    ELSE CASE e.type = "message_start" -> [v EXCEPT !.started = TRUE, !.broken = @ \/ v.started]
      [] e.type = "content_block_start" ->
            [v EXCEPT !.blocks = Append(@, e.block), !.open = @ \cup {e.index},
                      !.broken = @ \/ ~v.started \/ e.index # Len(v.blocks)]
      [] e.type = "content_block_delta" ->
            IF e.index \in v.open
            THEN [v EXCEPT !.blocks[e.index + 1].body = @ + 1]
            ELSE [v EXCEPT !.broken = TRUE]
      [] e.type = "content_block_stop" ->
            [v EXCEPT !.open = @ \ {e.index}, !.broken = @ \/ e.index \notin v.open]
      [] e.type = "message_delta" -> [v EXCEPT !.broken = @ \/ ~v.started]
      [] OTHER -> [v EXCEPT !.ended = e.type]

ReceivedAll(events) == FoldLeft(Received, view, events)

-----------------------------------------------------------------------------
(* MessagesStreamAccumulator.                                              *)

NewAccumulator ==
    [started |-> FALSE, next |-> 0, map |-> << >>, suppressed |-> {}, blocks |-> << >>,
     onToolUse |-> FALSE, clientTool |-> FALSE, delta |-> FALSE, state |-> "active"]

MutantBeginRound(a) ==
    [a EXCEPT !.map = << >>, !.blocks = << >>, !.onToolUse = FALSE,
              !.clientTool = FALSE, !.delta = FALSE, !.state = "active"]

\* begin_round: everything keyed by an upstream index is forgotten, the client's
\* numbering goes on.
BeginRound(a) ==
    [a EXCEPT !.map = << >>, !.suppressed = {}, !.blocks = << >>, !.onToolUse = FALSE,
              !.clientTool = FALSE, !.delta = FALSE, !.state = "active"]

Step(a, events) == [acc |-> a, events |-> events]

OnMessageStart(a) ==
    IF a.started THEN Step(a, << >>)
    ELSE Step([a EXCEPT !.started = TRUE], <<Event("message_start", 0, Block("text"))>>)

Inserted(f, index, value) ==
    [i \in DOMAIN f \cup {index} |-> IF i = index THEN value ELSE f[i]]

\* on_block_start: every block is kept for the history; a gateway call is hidden.
OnBlockStart(a, index, kind) ==
    LET kept == [a EXCEPT !.blocks = Inserted(@, index, Block(kind))]
    IN  IF kind = "gateway"
        THEN Step([kept EXCEPT !.suppressed = @ \cup {index}], << >>)
        ELSE Step([kept EXCEPT !.clientTool = @ \/ kind = "client",
                               !.map = Inserted(@, index, a.next), !.next = @ + 1],
                  <<Event("content_block_start", a.next, Block(kind))>>)

Forwarded(a, type, index) ==
    IF index \in a.suppressed \/ index \notin DOMAIN a.map THEN << >>
    ELSE <<Event(type, a.map[index], Block("text"))>>

OnBlockDelta(a, index) ==
    Step(IF index \in DOMAIN a.blocks THEN [a EXCEPT !.blocks[index].body = @ + 1] ELSE a,
         Forwarded(a, "content_block_delta", index))

OnBlockStop(a, index) == Step(a, Forwarded(a, "content_block_stop", index))

\* push, for one upstream line.  Lines that are no events, and events of unknown
\* types, are dropped.
Pushed(a, line) ==
    CASE line.type = "message_start" -> OnMessageStart(a)
      [] line.type = "content_block_start" -> OnBlockStart(a, line.index, line.kind)
      [] line.type = "content_block_delta" -> OnBlockDelta(a, line.index)
      [] line.type = "content_block_stop" -> OnBlockStop(a, line.index)
      [] line.type = "message_delta" ->
            Step([a EXCEPT !.onToolUse = line.stop = "tool_use", !.delta = TRUE], << >>)
      [] line.type = "error" ->
            Step([a EXCEPT !.state = "error"], <<Event("error", 0, Block("text"))>>)
      [] line.type = "message_stop" -> Step([a EXCEPT !.state = "completed"], << >>)
      [] OTHER -> Step(a, << >>)

\* The blocks by ascending upstream index (the BTreeMap), which starts at 0.
InOrder(blocks) == [i \in 1..Cardinality(DOMAIN blocks) |-> blocks[i - 1]]

KeepGateway(kept, block) == IF block.kind = "gateway" THEN Append(kept, block) ELSE kept

GatewayCalls(content) == FoldLeft(KeepGateway, << >>, content)

\* should_continue_loop.
ShouldContinue(a) ==
    a.onToolUse /\ GatewayCalls(InOrder(a.blocks)) # << >> /\ ~a.clientTool

\* finish: the one terminal of the message.
Finish(a) ==
    (IF a.delta THEN <<Event("message_delta", 0, Block("text"))>> ELSE << >>)
        \o <<Event("message_stop", 0, Block("text"))>>

-----------------------------------------------------------------------------
(* Tool execution, the same in both loops.                                 *)

\* WebSearchBudget::reserve, for the calls of a round.
Reserve(requested) ==
    IF remaining = Unlimited
    THEN [allowed |-> requested, left |-> Unlimited]
    ELSE LET allowed == IF requested <= remaining THEN requested ELSE remaining
         IN  [allowed |-> allowed, left |-> remaining - allowed]

\* execute_gateway_calls up to the dispatches: a call past the reservation and a
\* call whose arguments do not parse are answered without being run.
Dispatched(content, allowed) ==
    LET gateway == GatewayCalls(content)
    IN  [i \in DOMAIN gateway |->
            IF i > allowed THEN "refused"
            ELSE IF ~Whole(gateway[i]) THEN "invalid" ELSE "running"]

\* The round is complete and asks for gateway tools alone: take_round,
\* reserve_searches and execute_gateway_calls.
Execute(content) ==
    LET reserved == Reserve(Len(GatewayCalls(content)))
        started  == Dispatched(content, reserved.allowed)
    IN  /\ phase' = "tools"
        /\ calls' = [content |-> content, results |-> started]
        /\ remaining' = reserved.left
        /\ ran' = ran + Cardinality({i \in DOMAIN started : started[i] = "running"})

\* A call returns, fails or reaches GATEWAY_TOOL_TIMEOUT, in any order.
CallEnds ==
    /\ phase = "tools"
    /\ \E i \in DOMAIN calls.results, outcome \in {"ok", "failed"} :
        /\ calls.results[i] = "running"
        /\ calls' = [calls EXCEPT !.results[i] = outcome]
    /\ UNCHANGED <<request, phase, round, said, acc, remaining, ran, posted, shown, view>>

\* to_block: arguments that do not parse are sent back as {}.
Reconstructed(block) == IF IsCall(block) /\ ~Whole(block) THEN [block EXCEPT !.body = 0] ELSE block

MutantAppended(content) == GatewayCalls(content)

\* The assistant turn as append_round gets it.
Appended(content) ==
    IF request.stream THEN [i \in DOMAIN content |-> Reconstructed(content[i])] ELSE content

\* join_all and append_round: the turn and one result per call go into the
\* conversation, and the next round is posted if one is left.
AppendRound ==
    /\ phase = "tools"
    /\ \A i \in DOMAIN calls.results : calls.results[i] # "running"
    /\ posted' = [content |-> Appended(calls.content), results |-> calls.results]
    /\ calls' = [content |-> << >>, results |-> << >>]
    /\ phase' = "send"
    /\ UNCHANGED <<request, round, said, acc, remaining, ran, shown, view>>

-----------------------------------------------------------------------------
(* The rounds.                                                             *)

NothingSaid == [content |-> << >>, open |-> FALSE, stop |-> "none"]

\* The next round is posted and answered with a response to read.
Send ==
    /\ phase = "send"
    /\ round < MaxRounds
    /\ round' = round + 1
    /\ said' = NothingSaid
    /\ acc' = BeginRound(acc)
    /\ phase' = "reading"
    /\ UNCHANGED <<request, calls, remaining, ran, posted, shown, view>>

Failed == <<Event("error", 0, Block("text"))>>

\* Sending or reading fails, or no chunk arrives in time: the client gets an error,
\* inside the message if it has begun.
Fail ==
    /\ (phase = "send" /\ round < MaxRounds) \/ phase = "reading"
    /\ view' = ReceivedAll(Failed)
    /\ phase' = "ended"
    /\ UNCHANGED <<request, round, said, acc, calls, remaining, ran, posted, shown>>

\* No round is left, although the last one asked for tools.
Exhausted ==
    /\ phase = "send" /\ round = MaxRounds
    /\ view' = ReceivedAll(Failed)
    /\ phase' = "ended"
    /\ UNCHANGED <<request, round, said, acc, calls, remaining, ran, posted, shown>>

\* What upstream may send next: one block after the other, then the terminals.
Lines ==
    LET last == Len(said.content) - 1
    IN  IF said.open
        THEN [type : {"content_block_stop"}, index : {last}]
             \cup {line \in [type : {"content_block_delta"}, index : {last}] :
                    said.content[last + 1].body < IF IsCall(said.content[last + 1]) THEN 2 ELSE 1}
        ELSE [type : {"error", "ping"}]
             \cup (IF said.content = << >> THEN [type : {"message_start"}] ELSE {})
             \cup (IF said.stop = "none" /\ Len(said.content) < MaxBlocks /\ acc.started
                   THEN [type : {"content_block_start"}, index : {last + 1}, kind : Kinds] ELSE {})
             \cup (IF said.stop = "none" /\ acc.started
                   THEN [type : {"message_delta"}, stop : Stops] ELSE [type : {"message_stop"}])

Spoken(line) ==
    CASE line.type = "content_block_start" ->
            [said EXCEPT !.content = Append(@, Block(line.kind)), !.open = TRUE]
      [] line.type = "content_block_delta" ->
            [said EXCEPT !.content[Len(said.content)].body = @ + 1]
      [] line.type = "content_block_stop" -> [said EXCEPT !.open = FALSE]
      [] line.type = "message_delta" -> [said EXCEPT !.stop = line.stop]
      [] OTHER -> said

\* The blocks of a turn that are for the client.
KeepVisible(kept, block) == IF block.kind # "gateway" THEN Append(kept, block) ELSE kept

Visible(content) == FoldLeft(KeepVisible, << >>, content)

MutantAfterLine(a) == IF a.state = "error" THEN "ended" ELSE "reading"

\* An upstream error ends the request; the terminal line ends the round without
\* waiting for the end of the body, which may stay open.
AfterLine(a) ==
    CASE a.state = "error" -> "ended"
      [] a.state = "completed" -> "decide"
      [] OTHER -> "reading"

\* One line: forwarded, hidden or kept.
Push ==
    /\ phase = "reading" /\ request.stream /\ acc.state = "active"
    /\ \E line \in Lines :
        LET step == Pushed(acc, line)
        IN  /\ said' = Spoken(line)
            /\ acc' = step.acc
            /\ view' = ReceivedAll(step.events)
            /\ phase' = AfterLine(step.acc)
    /\ UNCHANGED <<request, round, calls, remaining, ran, posted, shown>>

\* The body ends without a terminal line.
EndOfBody ==
    /\ phase = "reading" /\ request.stream
    /\ phase' = "decide"
    /\ UNCHANGED <<request, round, said, acc, calls, remaining, ran, posted, shown, view>>

\* After the round: on with the tools, or the end of the message.
Decide ==
    /\ phase = "decide"
    /\ shown' = shown \o Visible(said.content)
    /\ IF ShouldContinue(acc)
       THEN Execute(InOrder(acc.blocks)) /\ UNCHANGED view
       ELSE /\ view' = ReceivedAll(Finish(acc))
            /\ phase' = "ended"
            /\ UNCHANGED <<calls, remaining, ran>>
    /\ UNCHANGED <<request, round, said, acc, posted>>

\* The body of a response that is not streamed: a turn, or an error.
Turns == UNION {[1..n -> [kind : Kinds, body : {0, 2}]] : n \in 0..MaxBlocks}

\* The blocking loop shows the last turn alone: as it is when it does not stop
\* for tools, without its gateway calls when the client has a call to answer.
Shown(content, stop) ==
    IF GatewayCalls(content) = << >> \/ stop # "tool_use" THEN content ELSE Visible(content)

ReadTurn ==
    /\ phase = "reading" /\ ~request.stream
    /\ \E content \in Turns, stop \in Stops :
        /\ said' = [content |-> content, open |-> FALSE, stop |-> stop]
        /\ IF /\ stop = "tool_use"
              /\ GatewayCalls(content) # << >>
              /\ \A i \in DOMAIN content : content[i].kind # "client"
           THEN Execute(content) /\ UNCHANGED <<shown, view>>
           ELSE /\ shown' = Shown(content, stop)
                /\ view' = [view EXCEPT !.started = TRUE, !.blocks = Shown(content, stop),
                                        !.ended = "message_stop"]
                /\ phase' = "ended"
                /\ UNCHANGED <<calls, remaining, ran>>
    /\ UNCHANGED <<request, round, acc, posted>>

-----------------------------------------------------------------------------

Init ==
    /\ request \in [stream : BOOLEAN, tools : ToolLists]
    /\ phase = "arrived"
    /\ round = 0
    /\ said = NothingSaid
    /\ acc = NewAccumulator
    /\ calls = [content |-> << >>, results |-> << >>]
    /\ remaining = 0
    /\ ran = 0
    /\ posted = [content |-> << >>, results |-> << >>]
    /\ shown = << >>
    /\ view = EmptyView

Next ==
    \/ Route
    \/ Send
    \/ Fail
    \/ Exhausted
    \/ Push
    \/ EndOfBody
    \/ Decide
    \/ ReadTurn
    \/ CallEnds
    \/ AppendRound

Spec == Init /\ [][Next]_vars

\* What the upstream owes: an answer to every post, and a body that goes on, ends
\* or breaks until its terminal line.  A streamed body that falls silent is broken
\* by the chunk timeout; a body read in one piece, and the wait for the headers of
\* either, have no timeout in the code, so that this much is assumed of upstream.
Upstream ==
    /\ phase = "send" \/ acc.state = "active"
    /\ Send \/ Fail \/ Push \/ EndOfBody \/ ReadTurn

\* The handler is one task that the runtime keeps polling, and GATEWAY_TOOL_TIMEOUT
\* ends every call.
FairSpec ==
    /\ Spec
    /\ WF_vars(Route \/ Decide \/ AppendRound \/ Exhausted)
    /\ WF_vars(CallEnds)
    /\ WF_vars(Upstream)

-----------------------------------------------------------------------------
(* Properties.                                                             *)

\* Over all rounds and all calls that run at once, the executor gets at most as
\* many searches as the strictest declaration allows, and a call is refused only
\* when all of them have been given away (native_web_search_max_uses,
\* reserve_searches, execute_gateway_calls).
SearchesWithinBudget ==
    /\ \A t \in request.tools : t.native /\ t.max # Unlimited => ran <= t.max
    /\ \A i \in DOMAIN calls.results : calls.results[i] = "refused" => remaining = 0

\* However many rounds it takes, the client of a stream receives one well-formed
\* message: it starts once, its blocks are numbered without gaps, a block is
\* filled and closed only while it is open, nothing follows the one terminal, and
\* it holds exactly what upstream said for the client in all the rounds, in order
\* and with no gateway call (MessagesStreamAccumulator).
OneMessage ==
    /\ ~view.broken
    /\ request.stream /\ view.ended # "error" =>
            view.blocks = shown \o
                (IF phase \in {"reading", "decide"} THEN Visible(said.content) ELSE << >>)

\* The next round shows the model its own turn, with every block in its place
\* and only unparsable arguments emptied, and one result for each of its calls;
\* no turn that the client has to answer is ever fed back (take_round,
\* append_round).
TurnReplayed ==
    phase = "send" /\ round > 0 =>
        /\ Len(posted.content) = Len(said.content)
        /\ \A i \in DOMAIN said.content :
            /\ posted.content[i].kind = said.content[i].kind
            /\ posted.content[i].body = said.content[i].body
                \/ (IsCall(said.content[i]) /\ ~Whole(said.content[i]) /\ posted.content[i].body = 0)
            /\ said.content[i].kind # "client"
        /\ Len(posted.results) = Len(GatewayCalls(said.content))

\* Every request that enters the loop ends: the rounds are limited, every call
\* ends, and a round ends with its terminal line even when upstream leaves the
\* body open (run_messages_stream, run_messages_loop).
RequestEnds == <>(phase \in {"ended", "proxied"})
==============================================================================
