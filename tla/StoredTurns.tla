----------------------------- MODULE StoredTurns -----------------------------
(***************************************************************************)
(* A client's turns against stored state, whoever runs the model.          *)
(*                                                                         *)
(* In process a turn is rehydrated from the response, the session or the   *)
(* conversation it continues, its tools are prepared (ToolSearch), the     *)
(* registry is built, the context may be compacted, and the model's answer *)
(* is stored with the tool metadata the next turn starts from.             *)
(*                                                                         *)
(* Split (agentic-llm-d), hydrate does the first half and seals what the   *)
(* second half needs; the coordinator runs the model and calls persist,    *)
(* perhaps twice, perhaps after the context has expired.                   *)
(***************************************************************************)
EXTENDS ToolSearch

CONSTANTS
    Menus       \* what a client may use in a behaviour, by name, with the bound
                \* `turns` on the turns stored and the contexts sealed (MCStoredTurns)

\* An optional tool list of a request.
AnySetting == [given : BOOLEAN, value : Seq(AnyTool)]

\* What clients send has the shape that deserialization accepts.
ASSUME MenusAssumption ==
    \A m \in DOMAIN Menus :
        /\ Menus[m].declares \subseteq AnySetting
        /\ Menus[m].returns \subseteq Seq(AnyTool)
        /\ Menus[m].replays \subseteq AnyCall
        /\ Menus[m].listings \subseteq SUBSET AnyName
        /\ Menus[m].down \subseteq BOOLEAN
        /\ Menus[m].turns \in Nat

VARIABLES
    menu,       \* the name of the client's repertoire, fixed at the start
    turnRows,       \* stored responses by id
    turn,       \* the turn in process, or the last request's rejection
    sealed,     \* contexts handed to the coordinator
    next        \* the next id: of a response, and of the calls in it

turnsVars == <<menu, turnRows, turn, sealed, next>>

Client == Menus[menu]

Given(value) == [given |-> TRUE, value |-> value]
NotGiven == [given |-> FALSE, value |-> << >>]

Idle == [phase |-> "idle"]

First == 0

\* What the first turn of a chain continues.
Origin == [history |-> << >>, full |-> << >>, tools |-> NotGiven, loaded |-> NotGiven,
           choice |-> AutoChoice, kept |-> TRUE]

Parent(id) == IF id = First THEN Origin ELSE turnRows[id]

-----------------------------------------------------------------------------
(* Rehydration.                                                            *)

\* pending_calls: calls and outputs pair off one to one.
PairCall(scan, item) ==
    CASE item.type = "function_call" ->
            [scan EXCEPT !.seen = @ \cup {item.call}, !.pending = @ \cup {item.call},
                         !.error = @ \/ item.call \in scan.seen \cup {NoId}]
      [] item.type = "function_call_output" ->
            [scan EXCEPT !.pending = @ \ {item.call}, !.error = @ \/ item.call \notin scan.pending]
      [] OTHER -> scan

PendingCalls(items) ==
    FoldLeft(PairCall, [seen |-> {}, pending |-> {}, error |-> FALSE], items)

\* Calls are paired where stored items were rehydrated: a request that continues
\* nothing is taken as it is.
RehydratedCalls(prev, items) ==
    PendingCalls(IF prev = First /\ Client.mode # "conversation" THEN << >> ELSE items)

\* canonical_session_history: a session forgets what a compaction superseded,
\* except the listings.
Canonicalized(items) ==
    LET last == Max({0} \cup {i \in DOMAIN items : items[i].type = "compaction"})
    IN  At(items, {i \in DOMAIN items : i >= last} \cup Listings(items))

\* from_response, from_session_response and from_conversation: the parent's
\* history followed by the new input.
RehydratedItems(parent, items) ==
    IF Client.mode = "session" THEN Canonicalized(parent.history \o items) ELSE parent.history \o items

ContainsCompaction(items) == \E i \in DOMAIN items : items[i].type = "compaction"

\* apply_effective_settings has run: a continued response brings its settings, and
\* a conversation only along with restored definitions.
Inherits(parent, items) ==
    Client.mode # "conversation" \/ (ContainsCompaction(items) /\ parent.loaded.given)

\* resolve_tools and resolve_tool_choice: what the request sets wins.
EffectiveTools(parent, explicit, items) ==
    IF explicit.given THEN explicit ELSE IF Inherits(parent, items) THEN parent.tools ELSE NotGiven

EffectiveChoice(parent, choice, items) ==
    IF choice.given THEN choice.value
    ELSE IF Inherits(parent, items) THEN parent.choice ELSE AutoChoice

MutantRestoredLoadedTools(parent, items) == << >>

\* restored_loaded_tools: looked up only when a compaction may have removed the
\* search that loaded them.
RestoredLoadedTools(parent, items) ==
    IF ContainsCompaction(items) /\ parent.loaded.given THEN parent.loaded.value ELSE << >>

-----------------------------------------------------------------------------
(* The registry with what the MCP servers list now.                        *)

Discover(tools, listing) ==
    [i \in DOMAIN tools |->
        IF tools[i].kind = "mcp" THEN [tools[i] EXCEPT !.discovered = listing] ELSE tools[i]]

McpLabels(tools) == {tools[i].name : i \in {j \in DOMAIN tools : tools[j].kind = "mcp"}}

MutantNewListings(tools, listing, down, input) ==
    {item \in {McpListTools(label, listing, down) : label \in McpLabels(tools)} :
        ~(~item.error /\ \E i \in DOMAIN input :
            input[i] = item /\ i = Max({k \in DOMAIN input : input[k].type = "mcp_list_tools"} \cup {0}))}

\* mcp_list_tool_items: a listing the client has seen, and which succeeded, is
\* not repeated.
NewListings(tools, listing, down, input) ==
    {item \in {McpListTools(label, listing, down) : label \in McpLabels(tools)} :
        ~(~item.error /\ \E i \in DOMAIN input : input[i] = item)}

\* build_tool_registry and validate_tool_availability.
RegistryRejects(build, registry) ==
    \/ registry.error
    \/ DOMAIN registry.entries \cap build.withheld # {}
    \/ build.synthetic /\ ToolSearchName \notin DOMAIN registry.entries

-----------------------------------------------------------------------------
(* The turn in process.                                                    *)

\* Whether the request lets a compaction keep what was loaded: it declares the
\* definitions again, or inherits them.
Keeps(parent, explicit) ==
    IF explicit.given
    THEN \A i \in DOMAIN parent.loaded.value :
            \E j \in DOMAIN explicit.value :
                /\ Definition(explicit.value[j])
                /\ explicit.value[j].name = parent.loaded.value[i].name
    ELSE Client.mode # "conversation"

\* The request context: rehydrated, with the tools prepared.
Prepared(prev, explicit, choice, new, parent, items, tools) ==
    [prev |-> prev, new |-> new, answered |-> new, items |-> items, declared |-> tools,
     choice |-> EffectiveChoice(parent, choice, items),
     restored |-> RestoredLoadedTools(parent, items),
     build |-> Build(tools.value, items, RestoredLoadedTools(parent, items), explicit.given,
                     FALSE, EffectiveChoice(parent, choice, items)),
     kept |-> parent.kept /\ Keeps(parent, explicit),
     phase |-> "prepared", cause |-> "none", tools |-> << >>, listings |-> {}]

Cause(context, calls, seen) ==
    IF calls.error THEN "invalid"
    ELSE IF calls.pending # {} THEN "missing"
    ELSE IF context.build.error THEN "tools"
    ELSE IF RegistryRejects(context.build, Registry(seen)) THEN "registry"
    ELSE "none"

\* The context with the outcome of its checks and, if it may run, the tools as
\* the registry has them and the listings the client has not seen.
Checked(context, cause, seen, listed, down) ==
    IF cause = "none"
    THEN [context EXCEPT !.phase = "running", !.tools = seen,
                         !.listings = NewListings(seen, listed, down, context.build.input)]
    ELSE [context EXCEPT !.phase = "rejected", !.cause = cause]

Admitted(context, calls, listed, down) ==
    IF context.build.error
    THEN Checked(context, Cause(context, calls, << >>), << >>, listed, down)
    ELSE LET seen == Discover(context.build.private, listed)
         IN  Checked(context, Cause(context, calls, seen), seen, listed, down)

\* ExecuteRequest::run up to the first round.
Submit(prev, explicit, choice, new, listing, down) ==
    LET parent == Parent(prev)
        items  == RehydratedItems(parent, new)
    IN  /\ turn.phase = "idle"
        /\ next <= Client.turns
        /\ turn' = Admitted(Prepared(prev, explicit, choice, new, parent, items,
                                     EffectiveTools(parent, explicit, items)),
                            RehydratedCalls(prev, items), IF down THEN {} ELSE listing, down)
        /\ UNCHANGED <<menu, turnRows, sealed, next>>

\* The error goes to the caller, who may try again.
Refused ==
    /\ turn.phase = "rejected"
    /\ turn' = Idle
    /\ UNCHANGED <<menu, turnRows, sealed, next>>

\* maybe_compact_context: the summary takes the place of the turn's own input.
Compact ==
    /\ turn.phase = "running"
    /\ Client.compacts
    /\ ~ContainsCompaction(turn.new)
    /\ turn' = [turn EXCEPT !.new = <<Item("compaction")>>]
    /\ UNCHANGED <<menu, turnRows, sealed, next>>

\* What the model may answer with: text, or one call of what it was offered.
Answers(tools, call) ==
    {<< >>}
        \cup {<<SearchCall(call)>> : n \in Upstream(tools) \cap {ToolSearchName}}
        \cup {<<FunctionCall(call, PublicCall(tools, n))>> :
                n \in {n \in Upstream(tools) \ {ToolSearchName} :
                        ~Registry(tools).entries[n].gateway}}

Row(parent, t, new, tools, loaded, output) ==
    [history |-> (IF Client.mode = "session" /\ ContainsCompaction(new)
                  THEN At(parent.history, Listings(parent.history))
                  ELSE parent.history) \o new \o output,
     full |-> parent.full \o t.answered \o output,
     tools |-> tools, loaded |-> loaded, choice |-> t.choice, kept |-> t.kept]

\* persist_prepared_turn: the metadata is what tool search made of the request,
\* or the request's own tools.
PreparedRow(t, new, output) ==
    Row(Parent(t.prev), t, new,
        IF t.build.active
        THEN IF t.declared.given \/ t.build.effective # << >>
             THEN Given(t.build.effective) ELSE NotGiven
        ELSE t.declared,
        IF t.build.active THEN Given(t.build.loaded) ELSE NotGiven,
        output)

\* A row is inserted under the response's id.
Storing(id, row) == [k \in DOMAIN turnRows \cup {id} |-> IF k = id THEN row ELSE turnRows[k]]

\* The last round ends and the turn is stored.
Respond ==
    /\ turn.phase = "running"
    /\ \E answer \in Answers(turn.tools, next) :
        turnRows' = Storing(next, PreparedRow(turn, turn.new, SetToSeq(turn.listings) \o answer))
    /\ turn' = Idle
    /\ next' = next + 1
    /\ UNCHANGED <<menu, sealed>>

\* The model or the storage fails: nothing is stored.
Abort ==
    /\ turn.phase = "running"
    /\ turn' = Idle
    /\ UNCHANGED <<menu, turnRows, sealed, next>>

\* compact_response (/v1/responses/compact): the chain and the new input are
\* prepared like a turn, without a registry, and the window is stored as a
\* response of its own.  A request that is refused, and a summary that fails,
\* store nothing.
CompactResponse(prev, new) ==
    LET parent  == Parent(prev)
        items   == RehydratedItems(parent, new)
        context == Prepared(prev, NotGiven, NotGiven, new, parent, items,
                            EffectiveTools(parent, NotGiven, items))
        calls   == RehydratedCalls(prev, items)
    IN  /\ Client.mode = "response" /\ Client.compacts
        /\ turn.phase = "idle"
        /\ next <= Client.turns
        /\ ~calls.error /\ calls.pending = {}
        /\ ~context.build.error
        /\ turnRows' = Storing(next, PreparedRow(context, <<Item("compaction")>>, << >>))
        /\ next' = next + 1
        /\ UNCHANGED <<menu, turn, sealed>>

-----------------------------------------------------------------------------
(* Split execution.                                                        *)

\* RequestPayload::in_process_feature, with the tools as an option.
InProcessOnly(tools, items) ==
    \/ \E i \in DOMAIN tools.value : tools.value[i].kind # "function"
    \/ \E i \in DOMAIN items : items[i].type \in {"compaction", "compaction_trigger"}

\* build_hydration: checked before and after the stored turn is resolved.
Hydrate(prev, explicit, new) ==
    LET parent == Parent(prev)
        items  == parent.history \o new
        tools  == IF explicit.given THEN explicit ELSE parent.tools
        calls  == RehydratedCalls(prev, items)
    IN  /\ Client.mode = "split"
        /\ next <= Client.turns
        /\ ~InProcessOnly(explicit, new)
        /\ ~calls.error /\ calls.pending = {}
        /\ ~InProcessOnly(tools, items)
        /\ sealed' = sealed \cup
                {[id |-> next, prev |-> prev, new |-> new, answered |-> new, tools |-> tools,
                  choice |-> parent.choice, kept |-> TRUE, sent |-> items, clock |-> "before"]}
        /\ next' = next + 1
        /\ UNCHANGED <<menu, turnRows, turn>>

\* The clock passes a context's exp, CONTEXT_TTL after it was sealed, and then the
\* end of the leeway: unseal leaves Validation at its default of sixty seconds.
Expire ==
    /\ \E c \in sealed :
        /\ c.clock # "past"
        /\ sealed' = (sealed \ {c})
                \cup {[c EXCEPT !.clock = IF @ = "before" THEN "leeway" ELSE "past"]}
    /\ UNCHANGED <<menu, turnRows, turn, next>>

\* decode's check of exp (external): a context that has expired is refused only
\* when the leeway is over as well.
Unseals(c) == c.clock # "past"

\* validate_output_call_ids: a call id is used once in the output, the stored
\* history and the new input.
CallIds(items) ==
    {items[i].call : i \in {j \in DOMAIN items : items[j].type \in {"function_call", "tool_search_call"}}}

CallIdsValid(prev, new, output) ==
    /\ NoId \notin CallIds(output)
    /\ Cardinality(CallIds(output)) = Len(output)
    /\ CallIds(output) \cap (CallIds(Parent(prev).history) \cup CallIds(new)) = {}

MutantAlreadyStored(id) == FALSE

\* The response id is the primary key.
AlreadyStored(id) == id \in DOMAIN turnRows

\* unseal, decode_upstream and commit.  The coordinator relays what the model
\* said, whose call ids need not be fresh.
Persist ==
    /\ \E c \in sealed :
        \E ids \in {<< >>} \cup {<<i>> : i \in 1..Client.turns} \cup {<<1, 1>>} :
            LET output == [k \in DOMAIN ids |->
                    FunctionCall(ids[k], [namespace |-> Absent, name |-> c.tools.value[1].name])]
            IN  /\ ids = << >> \/ c.tools.value # << >>
                /\ Unseals(c)
                /\ CallIdsValid(c.prev, c.new, output)
                /\ ~AlreadyStored(c.id)
                /\ turnRows' = Storing(c.id, Row(Parent(c.prev), c, c.new, c.tools, NotGiven, output))
    /\ UNCHANGED <<menu, turn, sealed, next>>

-----------------------------------------------------------------------------

TurnsInit ==
    /\ menu \in DOMAIN Menus
    /\ turnRows = << >>
    /\ turn = Idle
    /\ sealed = {}
    /\ next = 1

\* A continued response; a client that does not fork continues the last one.
Continued ==
    IF Client.forks THEN {First} \cup DOMAIN turnRows
    ELSE {Max({First} \cup DOMAIN turnRows)}

\* The new input: nothing but text, the outputs the last answer asked for (or a
\* stray one), or a call the client replays itself, with its output or without;
\* the call's id is one that no answer uses.
Inputs(prev) ==
    LET h       == Parent(prev).history
        id      == Client.turns + next
        open    == PendingCalls(h).pending
        search  == {h[i].call : i \in {j \in DOMAIN h : h[j].type = "tool_search_call"}}
    IN  {<< >>}
        \cup {<<FunctionCallOutput(c)>> : c \in open}
        \cup {<<SearchOutput(c, tools)>> : c \in search, tools \in Client.returns}
        \cup UNION {{<<FunctionCall(id, call)>>, <<FunctionCall(id, call), FunctionCallOutput(id)>>} :
                        call \in Client.replays}

TurnsNext ==
    \/ /\ Client.mode # "split"
       /\ \E prev \in Continued, explicit \in Client.declares, choice \in Client.choices,
             listing \in Client.listings, down \in Client.down :
            \E new \in Inputs(prev) : Submit(prev, explicit, choice, new, listing, down)
    \/ Refused
    \/ Compact
    \/ Respond
    \/ Abort
    \/ \E prev \in Continued : \E new \in Inputs(prev) : CompactResponse(prev, new)
    \/ \E prev \in Continued, explicit \in Client.declares :
            \E new \in Inputs(prev) : Hydrate(prev, explicit, new)
    \/ Expire
    \/ Persist

TurnsSpec == TurnsInit /\ [][TurnsNext]_turnsVars

-----------------------------------------------------------------------------
(* Properties.                                                             *)

Definitions(tool) ==
    CASE tool.kind = "function" -> {tool.name}
      [] tool.kind = "namespace" -> FlatNames(tool)
      [] OTHER -> {}

DefinedNames(tools) == UNION {Definitions(tools[i]) : i \in DOMAIN tools}

Immediate(tools) == DefinedNames(tools) \ InitiallyWithheld(tools)

\* The definition a call of the history stands for: a member for a call with a
\* namespace, any definition of that name for one without.
Names(tools, call) ==
    IF call.namespace = Absent THEN {call.name} \cap DefinedNames(tools)
    ELSE {Flat(p[1], p[2]) : p \in {<<call.namespace, call.name>>} \cap MembersOf(tools)}

\* The tools the model is offered, the registry that routes its calls, the names
\* withheld from it and the definitions reported to the client are four views
\* built by four passes, and they agree: every offered function has an entry and
\* its flat name leads to the public call and back, for a member to that member
\* and no other; every definition is either offered or withheld, never both; and
\* what is withheld belongs to a definition in the catalogue of the search tool.
ViewsAgree ==
    turn.phase = "running" =>
        LET tools    == turn.tools
            offered  == Upstream(tools)
            entries  == Registry(tools).entries
            withheld == turn.build.withheld
        IN  /\ \A n \in offered :
                /\ n \in DOMAIN entries
                /\ CalledAs(tools, PublicCall(tools, n)) = n
                /\ PublicCall(tools, n).namespace # Absent <=> entries[n].type = "namespace"
            /\ \A p \in MembersOf(tools) :
                PublicCall(tools, Flat(p[1], p[2])) = [namespace |-> p[1], name |-> p[2]]
            /\ offered \cap withheld = {}
            /\ DefinedNames(turn.build.effective) \subseteq offered \cup withheld
            /\ \A n \in withheld : \E i \in DOMAIN turn.build.effective :
                LET tool == turn.build.effective[i]
                IN  n \in Definitions(tool) /\ tool.name \in turn.build.catalog

\* In a history the gateway accepts, every call of a function it knows comes
\* after the function became callable: it was declared without deferral, or
\* restored after a compaction, or loaded by an earlier search output.
CallsFollowDefinitions ==
    turn.phase = "running" /\ turn.build.active =>
        LET window == ModelInput(turn.items)
            known  == turn.build.effective
        IN  \A i \in DOMAIN window :
                window[i].type = "function_call" /\ Names(known, window[i]) # {}
                => Names(known, window[i])
                    \cap (Immediate(turn.declared.value)
                            \cup DefinedNames(turn.restored)
                            \cup UNION {DefinedNames(window[j].tools) : j \in 1..(i - 1)}) # {}

OffersAs(t, whole) ==
    ~whole.error =>
        /\ t.cause = "tools" => Declarations(t.declared.value) = {}
        /\ ~t.build.error =>
            /\ Upstream(t.build.private) = Upstream(whole.private)
            /\ t.build.withheld = whole.withheld

\* A compaction removes the searches from the history but not what they loaded:
\* as long as the client keeps declaring (or inherits) the definitions, a turn is
\* offered, and refused, exactly what it would be had nothing been compacted.
CompactionTransparent ==
    turn.phase \in {"running", "rejected"} /\ turn.kept =>
        OffersAs(turn, Build(turn.declared.value, Parent(turn.prev).full \o turn.answered,
                             << >>, FALSE, FALSE, turn.choice))

\* Across turns and compactions a client sees a server's listing once: the same
\* successful listing is never stored twice in a history, and one that differs
\* from every listing seen is announced.
ListingsAnnouncedOnce ==
    /\ \A id \in DOMAIN turnRows : \A i, j \in DOMAIN turnRows[id].history :
        LET h == turnRows[id].history
        IN  i < j /\ h[i].type = "mcp_list_tools" /\ ~h[i].error => h[i] # h[j]
    /\ turn.phase = "running" =>
        \A i \in DOMAIN turn.tools :
            turn.tools[i].kind = "mcp" =>
                LET h == Parent(turn.prev).history
                IN  \E item \in turn.listings \cup {h[k] : k \in DOMAIN h} :
                        item.name = turn.tools[i].name /\ item.listing = turn.tools[i].discovered

\* A sealed context stores one turn at most: a stored turn never changes.  And
\* that turn continues what hydrate sent to the model, although persist rebuilds
\* it from the stored parent, and whatever was stored in the meantime.
SealedStoresOnce ==
    [][/\ \A id \in DOMAIN turnRows : id \in DOMAIN turnRows' /\ turnRows'[id] = turnRows[id]
       /\ \A c \in sealed :
            c.id \in DOMAIN turnRows' => IsPrefix(c.sent, turnRows'[c.id].history)]_turnsVars

\* A call that rehydration reports as missing its output is one the client never
\* answered (pending_calls: anything unresolved is something the client owed).
MissingOutputIsOwed ==
    turn.phase = "rejected" /\ turn.cause = "missing" =>
        PendingCalls(turn.items).pending
            \subseteq PendingCalls(Parent(turn.prev).full \o turn.answered).pending
==============================================================================
