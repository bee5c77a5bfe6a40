------------------------------ MODULE ToolSearch ------------------------------
(***************************************************************************)
(* ToolSearchState::build_with_loaded_tools: from the tools of a request,  *)
(* its history and the definitions a compacted history had loaded, the     *)
(* gateway derives what the model may call now (private tools), what it    *)
(* may not call yet (withheld names), what is reported and stored          *)
(* (effective and loaded tools) and the history the model is shown.        *)
(*                                                                         *)
(* A pure algorithm, written as folds over the definitions and the items;  *)
(* StoredTurns runs it turn after turn.                                    *)
(***************************************************************************)
EXTENDS ToolDefinitions

NoId == 0

\* History items.  `id` is the item id of a search call, `call` the call id.
Item(type) ==
    [type |-> type, id |-> NoId, call |-> NoId, namespace |-> Absent, name |-> Absent,
     tools |-> << >>, completed |-> TRUE, listing |-> {}, error |-> FALSE]

FunctionCall(call, public) ==
    [Item("function_call") EXCEPT !.call = call, !.namespace = public.namespace, !.name = public.name]

FunctionCallOutput(call) == [Item("function_call_output") EXCEPT !.call = call]

SearchCall(call) == [Item("tool_search_call") EXCEPT !.id = call, !.call = call]

SearchOutput(call, tools) == [Item("tool_search_output") EXCEPT !.call = call, !.tools = tools]

McpListTools(label, listing, error) ==
    [Item("mcp_list_tools") EXCEPT !.name = label, !.listing = listing, !.error = error]

ItemTypes ==
    {"function_call", "function_call_output", "tool_search_call", "tool_search_output",
     "mcp_list_tools", "compaction", "compaction_trigger"}

AnyItem ==
    [type : ItemTypes, id : Nat, call : Nat, namespace : AnyName, name : AnyName,
     tools : Seq(AnyTool), completed : BOOLEAN, listing : SUBSET AnyName, error : BOOLEAN]

IsSearch(item) == item.type \in {"tool_search_call", "tool_search_output"}

\* The items at these places, in their order.
KeepPlaced(kept, placed) == IF placed.keep THEN Append(kept, placed.item) ELSE kept

At(items, places) ==
    FoldLeft(KeepPlaced, << >>, [i \in DOMAIN items |-> [item |-> items[i], keep |-> i \in places]])

Listings(items) == {i \in DOMAIN items : items[i].type = "mcp_list_tools"}

\* ResponsesInput::model_items: from the latest compaction on, without the items
\* the model is never shown.
ModelInput(items) ==
    LET last == Max({0} \cup {i \in DOMAIN items : items[i].type = "compaction"})
    IN  At(items, {i \in DOMAIN items :
            i >= last /\ items[i].type \notin {"mcp_list_tools", "compaction_trigger"}})

\* The listings stay behind the model's input, so that the registry still knows
\* what was announced.
ActiveInput(items) == ModelInput(items) \o At(items, Listings(items))

DeferredTool(tool) ==
    \/ tool.kind \in {"function", "mcp", "custom"} /\ tool.defer
    \/ tool.kind = "namespace" /\ \E i \in DOMAIN tool.members : tool.members[i].defer

\* request_contains_tool_search_state.
Activates(tools, input) ==
    \/ \E i \in DOMAIN tools : tools[i].kind = "tool_search" \/ DeferredTool(tools[i])
    \/ \E i \in DOMAIN input : IsSearch(input[i])

Declarations(tools) == {i \in DOMAIN tools : tools[i].kind = "tool_search"}

\* validate_tool_search_request and the check that follows it.
RequestInvalid(tools, input, parallel) ==
    \/ Cardinality(Declarations(tools)) > 1
    \/ parallel
    \/ \E i \in DOMAIN tools : Invalid(tools[i])
    \/ \E i \in DOMAIN tools : tools[i].kind # "tool_search" /\ tools[i].name = ToolSearchName
    \/ Declarations(tools) = {} /\ \A i \in DOMAIN input : ~IsSearch(input[i])

-----------------------------------------------------------------------------
(* The accumulator of the definitions.                                     *)

Definition(tool) == tool.kind \in {"function", "namespace"}

IndexOf(acc, name) ==
    {i \in DOMAIN acc.tools : Definition(acc.tools[i]) /\ acc.tools[i].name = name}

\* canonical_definition: a namespace is compared without its members.
Canonical(tool) == [tool EXCEPT !.members = << >>]

BadNamespace(tool) ==
    tool.kind = "namespace"
        /\ (tool.members = << >> \/ Cardinality(MemberNames(tool)) # Len(tool.members))

\* index_initial_definitions and namespace_member_records.
DefinitionsInvalid(tools) ==
    \E i \in DOMAIN tools :
        /\ Definition(tools[i])
        /\ \/ BadNamespace(tools[i])
           \/ \E j \in 1..(i - 1) : Definition(tools[j]) /\ tools[j].name = tools[i].name

\* The members that are deferred, or those that are not.
MembersWhere(tools, deferred) ==
    UNION {{<<tools[i].name, tools[i].members[k].name>> :
                k \in {k \in DOMAIN tools[i].members : tools[i].members[k].defer = deferred}} :
            i \in {j \in DOMAIN tools : tools[j].kind = "namespace"}}

\* initial_withheld_function_names.
InitiallyWithheld(tools) ==
    {tools[i].name : i \in {j \in DOMAIN tools : tools[j].kind = "function" /\ tools[j].defer}}
        \cup {Flat(p[1], p[2]) : p \in MembersWhere(tools, TRUE)}

\* `members` and `unknown` hold members with their namespaces, as the code's
\* records do; `withheld` and `called` hold the names the model calls.
\* The records start from the declarations: a member that is not deferred is
\* loaded, a function is loaded by a search only.
Start(tools) ==
    [tools |-> tools, ready |-> {}, members |-> MembersWhere(tools, FALSE),
     loaded |-> << >>, withheld |-> InitiallyWithheld(tools),
     unknown |-> {}, called |-> {},
     pending |-> NoId, completed |-> {}, ids |-> {}, input |-> << >>,
     error |-> DefinitionsInvalid(tools)]

Reject(acc) == [acc EXCEPT !.error = TRUE]

MutantResolvesPriorCalls(acc, namespace, names) ==
    \E m \in names : Flat(namespace, m) \in acc.called

\* ensure_namespace_members_do_not_resolve_prior_calls.
ResolvesPriorCalls(acc, namespace, names) ==
    \E m \in names : <<namespace, m>> \in acc.unknown \/ Flat(namespace, m) \in acc.called

\* One returned member of a namespace that is known already.
LoadMember(step, m) ==
    LET acc   == step.acc
        tool  == acc.tools[step.at]
        member == <<tool.name, m.name>>
        known == {k \in DOMAIN tool.members : tool.members[k].name = m.name}
    IN  IF acc.error THEN step
        ELSE IF \E k \in known : tool.members[k] # m THEN [step EXCEPT !.acc = Reject(acc)]
        ELSE IF known = {}
             THEN [step EXCEPT !.acc = [acc EXCEPT !.members = @ \cup {member},
                                                   !.tools[step.at].members = Append(@, m)],
                               !.newly = Append(@, m)]
        ELSE IF member \in acc.members THEN step
        ELSE [step EXCEPT !.acc = [acc EXCEPT !.members = @ \cup {member},
                                              !.withheld = @ \ {Flat(tool.name, m.name)}],
                          !.newly = Append(@, m)]

RecordMembers(step) ==
    IF step.acc.error \/ step.newly = << >>
    THEN step.acc
    ELSE [step.acc EXCEPT !.loaded =
            Append(@, [step.acc.tools[step.at] EXCEPT !.members = step.newly])]

\* load_namespace_members: what becomes available is recorded as a subset of
\* the namespace.
LoadMembers(acc, at, returned) ==
    IF \/ returned.members = << >>
       \/ ResolvesPriorCalls(acc, returned.name, MemberNames(returned) \ MemberNames(acc.tools[at]))
    THEN Reject(acc)
    ELSE RecordMembers(FoldLeft(LoadMember, [acc |-> acc, at |-> at, newly |-> << >>], returned.members))

LoadKnown(acc, at, tool) ==
    IF Canonical(acc.tools[at]) # Canonical(tool) THEN Reject(acc)
    ELSE IF tool.kind = "namespace" THEN LoadMembers(acc, at, tool)
    ELSE IF tool.name \in acc.ready THEN acc
    ELSE IF tool.name \in acc.withheld \cap acc.called THEN Reject(acc)
    ELSE [acc EXCEPT !.ready = @ \cup {tool.name},
                     !.withheld = @ \ {tool.name},
                     !.loaded = Append(@, acc.tools[at])]

LoadNew(acc, tool) ==
    IF \/ tool.kind = "function" /\ tool.name \in acc.called
       \/ tool.kind = "namespace" /\ ResolvesPriorCalls(acc, tool.name, MemberNames(tool))
       \/ BadNamespace(tool)
    THEN Reject(acc)
    ELSE [acc EXCEPT !.tools = Append(@, tool), !.loaded = Append(@, tool),
                     !.ready = IF tool.kind = "function" THEN @ \cup {tool.name} ELSE @,
                     !.members = IF tool.kind = "namespace" THEN @ \cup MembersOf(<<tool>>) ELSE @]

\* load_definition: one definition of a search output, or of the stored list.
LoadDefinition(acc, tool) ==
    IF acc.error THEN acc
    ELSE IF ~Definition(tool) \/ tool.name = ToolSearchName THEN Reject(acc)
    ELSE IF IndexOf(acc, tool.name) = {} THEN LoadNew(acc, tool)
    ELSE LoadKnown(acc, CHOOSE i \in IndexOf(acc, tool.name) : TRUE, tool)

\* restored_definition_for_load: a definition that is not declared is skipped.
LoadDeclared(acc, tool) ==
    IF Definition(tool) /\ IndexOf(acc, tool.name) = {} THEN acc ELSE LoadDefinition(acc, tool)

\* restore_loaded_definitions: an explicit tool list restores only what it
\* still declares.
RestoreDefinitions(acc, restored, onlyDeclared) ==
    IF onlyDeclared THEN FoldLeft(LoadDeclared, acc, restored)
    ELSE FoldLeft(LoadDefinition, acc, restored)

-----------------------------------------------------------------------------
(* prepare_history, item by item.                                          *)

\* ensure_history_call_is_available.
HistoryCall(acc, item) ==
    LET next == [acc EXCEPT !.input = Append(@, item)]
        member == <<item.namespace, item.name>>
    IN  IF item.namespace = Absent
        THEN IF item.name \in acc.withheld THEN Reject(acc)
             ELSE [next EXCEPT !.called = @ \cup {item.name}]
        ELSE IF member \notin MembersOf(acc.tools) THEN [next EXCEPT !.unknown = @ \cup {member}]
        ELSE IF member \in acc.members THEN next ELSE Reject(acc)

\* prepare_search_call: shown to the model as a call of the function tool_search.
HistorySearchCall(acc, item) ==
    IF \/ NoId \in {item.id, item.call}
       \/ item.id \in acc.ids
       \/ acc.pending # NoId
       \/ item.call \in acc.completed
    THEN Reject(acc)
    ELSE [acc EXCEPT !.ids = @ \cup {item.id}, !.pending = item.call,
                     !.input = Append(@, FunctionCall(item.call,
                                            [namespace |-> Absent, name |-> ToolSearchName]))]

\* prepare_search_output: the definitions are loaded before the output counts.
HistorySearchOutput(acc, item) ==
    IF \/ item.call = NoId
       \/ item.call \in acc.completed
       \/ acc.pending # item.call
       \/ ~item.completed
    THEN Reject(acc)
    ELSE LET end == FoldLeft(LoadDefinition, [acc EXCEPT !.pending = NoId], item.tools)
         IN  [end EXCEPT !.completed = @ \cup {item.call},
                         !.input = Append(@, FunctionCallOutput(item.call))]

PrepareItem(acc, item) ==
    IF acc.error THEN acc
    ELSE CASE item.type = "tool_search_call" -> HistorySearchCall(acc, item)
           [] item.type = "tool_search_output" -> HistorySearchOutput(acc, item)
           [] item.type = "function_call" -> HistoryCall(acc, item)
           [] item.type = "compaction_trigger" -> acc
           [] OTHER -> [acc EXCEPT !.input = Append(@, item)]

\* A search call must have had its output.
Settled(acc) == IF acc.pending # NoId THEN Reject(acc) ELSE acc

PrepareHistory(acc, items) ==
    Settled(FoldLeft(PrepareItem, acc, items))

-----------------------------------------------------------------------------
(* The views.                                                              *)

Available(acc, tool, m) == <<tool.name, m.name>> \in acc.members

Undeferred(m) == [m EXCEPT !.defer = FALSE]

\* private_definition and private_namespace.
PrivateTool(acc, tool) ==
    IF tool.kind = "namespace"
    THEN [tool EXCEPT !.members =
            LET here == At(@, {k \in DOMAIN @ : Available(acc, tool, @[k])})
            IN  [k \in DOMAIN here |-> Undeferred(here[k])]]
    ELSE IF tool.kind = "function" THEN Undeferred(tool) ELSE tool

Offered(acc, tool) ==
    CASE tool.kind = "function" -> tool.name \in acc.ready \/ ~tool.defer
      [] tool.kind = "namespace" ->
            \E k \in DOMAIN tool.members : Available(acc, tool, tool.members[k])
      [] OTHER -> TRUE

\* build_private_tools.
PrivateTools(acc) ==
    LET here == At(acc.tools, {i \in DOMAIN acc.tools : Offered(acc, acc.tools[i])})
    IN  [i \in DOMAIN here |-> PrivateTool(acc, here[i])]

MutantCatalog(acc) ==
    {acc.tools[i].name : i \in {j \in DOMAIN acc.tools :
        \/ /\ acc.tools[j].kind = "function" /\ acc.tools[j].defer
           /\ acc.tools[j].name \notin acc.ready
        \/ /\ acc.tools[j].kind = "namespace"
           /\ \A m \in MemberNames(acc.tools[j]) : <<acc.tools[j].name, m>> \notin acc.members}}

\* build_catalog: what the synthetic search tool tells the model it may find.
Catalog(acc) ==
    {acc.tools[i].name : i \in {j \in DOMAIN acc.tools :
        \/ /\ acc.tools[j].kind = "function" /\ acc.tools[j].defer
           /\ acc.tools[j].name \notin acc.ready
        \/ /\ acc.tools[j].kind = "namespace"
           /\ \E m \in MemberNames(acc.tools[j]) : <<acc.tools[j].name, m>> \notin acc.members}}

AutoChoice == [namespace |-> Absent, name |-> Absent]

\* validate_effective_tool_choice.
ChoiceWithheld(acc, choice) ==
    (IF choice.namespace = Absent THEN choice.name ELSE Flat(choice.namespace, choice.name))
        \in acc.withheld

Failed == [active |-> TRUE, error |-> TRUE]

\* A request without tool-search state is left alone.
Inactive(tools, items) ==
    [active |-> FALSE, error |-> FALSE, effective |-> tools, private |-> tools,
     loaded |-> << >>, withheld |-> {}, catalog |-> {}, synthetic |-> FALSE, input |-> items]

\* The views of the definitions the history left.
Views(acc, choice, synthetic) ==
    IF acc.error \/ NamespaceCollision(acc.tools) \/ ChoiceWithheld(acc, choice)
    THEN Failed
    ELSE [active |-> TRUE, error |-> FALSE, effective |-> acc.tools,
          private |-> PrivateTools(acc), loaded |-> acc.loaded,
          withheld |-> acc.withheld, catalog |-> Catalog(acc),
          synthetic |-> synthetic, input |-> acc.input]

\* build_with_loaded_tools, and prepare_inference_request which consumes it.
Build(tools, items, restored, onlyDeclared, parallel, choice) ==
    IF ~Activates(tools, ActiveInput(items)) THEN Inactive(tools, items)
    ELSE IF RequestInvalid(tools, ActiveInput(items), parallel) THEN Failed
    ELSE Views(PrepareHistory(RestoreDefinitions(Start(tools), restored, onlyDeclared),
                              ActiveInput(items)),
               choice, Declarations(tools) # {})
==============================================================================
