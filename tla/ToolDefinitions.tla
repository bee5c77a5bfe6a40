--------------------------- MODULE ToolDefinitions ---------------------------
(***************************************************************************)
(* The tools of a request as the gateway sees them: the declarations of    *)
(* the Responses API, the flat names the model calls them by, the          *)
(* request-scoped registry that routes a call back, and the function list  *)
(* that goes upstream.  Pure definitions; ToolSearch and StoredTurns use   *)
(* them.                                                                   *)
(*                                                                         *)
(* A name is a tuple of atoms and stands for their text joined by "__":    *)
(* <<"f">> is f, <<"a", "b">> is a__b, as the name of a function, of a     *)
(* namespace or of a member.  Flattening joins the two names of a member,  *)
(* so that c of a__b and b__c of a get one flat name, and a function may   *)
(* carry a flat name: the collisions the code guards against.              *)
(***************************************************************************)
EXTENDS Naturals, Sequences, FiniteSets, SequencesExt, Functions

\* A declaration.  `schema` stands for everything canonical_definition compares
\* besides the fields named here; only namespaces have members, only MCP servers
\* have discovered functions.
Tool(kind, name, defer, schema, members) ==
    [kind |-> kind, name |-> name, defer |-> defer, schema |-> schema,
     members |-> members, discovered |-> {}]

Member(name, defer, schema) == [name |-> name, defer |-> defer, schema |-> schema]

ToolSearchName == <<"tool_search">>

Absent == <<"absent">>

\* What these records may hold.  The atoms the model fixes are named: that a
\* literal is a string is nothing the provers know.
Atom == STRING \cup {"absent", "tool_search", "agentic_ns"}

AnyName == Seq(Atom) \ {<< >>}

AnyMember == [name : AnyName, defer : BOOLEAN, schema : Nat]

AnyTool ==
    {t \in [kind : STRING, name : AnyName, defer : BOOLEAN, schema : Nat,
            members : Seq(AnyMember), discovered : SUBSET AnyName] :
        t.kind = "namespace" => t.name # Absent}

AnyCall == [namespace : AnyName, name : AnyName]

\* The fixed registry keys of the built-in kinds.
BuiltinName(kind) == <<kind>>

Builtins == {"web_search", "file_search", "code_interpreter"}

\* model_visible_namespace_member_name.  A name too long for the model is cut and
\* hashed, which is not modelled: the hash is taken to keep long names apart.
Flat(namespace, member) == <<"agentic_ns">> \o namespace \o member

MemberNames(tool) == {tool.members[i].name : i \in DOMAIN tool.members}

\* NamespaceMemberName: the members declared, each with its namespace.
MembersOf(tools) ==
    UNION {{<<tools[i].name, m>> : m \in MemberNames(tools[i])} :
            i \in {j \in DOMAIN tools : tools[j].kind = "namespace"}}

FlatNames(tool) == {Flat(tool.name, m) : m \in MemberNames(tool)}

\* typed_top_level_registry_keys: what a generated name is compared with.
TopLevelKeys(tools) ==
    {tools[i].name : i \in {j \in DOMAIN tools : tools[j].kind = "function"}}
        \cup {BuiltinName(tools[i].kind) : i \in {j \in DOMAIN tools : tools[j].kind \in Builtins}}

\* validate_and_record_flat_member, over all members: a flat name is a top-level
\* key, or the flat name of another member.  validate_namespace_collisions and
\* resolve_namespace_members fail on the same condition.
NamespaceCollision(tools) ==
    \E p \in MembersOf(tools) :
        \/ Flat(p[1], p[2]) \in TopLevelKeys(tools)
        \/ \E q \in MembersOf(tools) : q # p /\ Flat(q[1], q[2]) = Flat(p[1], p[2])

\* ResponsesTool::validate, for the declarations that can fail it.
Invalid(tool) == tool.kind = "custom" /\ tool.defer

GatewayOwned(kind) == kind \in Builtins \cup {"mcp"}

\* The entries one declaration contributes, by the name the model calls.
EntryNames(tool) ==
    CASE tool.kind = "namespace" -> FlatNames(tool)
      [] tool.kind = "mcp" -> tool.discovered
      [] tool.kind \in Builtins -> {BuiltinName(tool.kind)}
      [] tool.kind = "unknown" -> {}
      [] OTHER -> {tool.name}

Entry(tool) == [type |-> tool.kind, gateway |-> GatewayOwned(tool.kind)]

\* insert_unique_tool_entries, over the declarations in order: a name that is
\* taken already fails the build.
InsertUnique(registry, tool) ==
    IF registry.error \/ DOMAIN registry.entries \cap EntryNames(tool) # {}
    THEN [registry EXCEPT !.error = TRUE]
    ELSE [registry EXCEPT !.entries =
            [n \in DOMAIN registry.entries \cup EntryNames(tool) |->
                IF n \in EntryNames(tool) THEN Entry(tool) ELSE registry.entries[n]]]

Registry(tools) ==
    IF NamespaceCollision(tools)
    THEN [entries |-> << >>, error |-> TRUE]
    ELSE FoldLeft(InsertUnique, [entries |-> << >>, error |-> FALSE], tools)

\* to_function_tools: the functions of a declaration that reach the model.
\* file_search and code_interpreter have no handler and are left out.
UpstreamNames(tool) ==
    IF tool.kind \in {"file_search", "code_interpreter"} THEN {} ELSE EntryNames(tool)

Upstream(tools) == UNION {UpstreamNames(tools[i]) : i \in DOMAIN tools}

\* NamespaceMap: from a flat name back to the member, and from a member to it.
PublicMember(tools, name) == {p \in MembersOf(tools) : Flat(p[1], p[2]) = name}

\* A call of the model as the public item: a namespace member gets its
\* namespace back, any other name is kept.
PublicCall(tools, name) ==
    IF PublicMember(tools, name) = {}
    THEN [namespace |-> Absent, name |-> name]
    ELSE LET p == CHOOSE p \in PublicMember(tools, name) : TRUE
         IN  [namespace |-> p[1], name |-> p[2]]

\* rewrite_input_with_map: the name upstream sees for a public call.
CalledAs(tools, call) ==
    IF <<call.namespace, call.name>> \in MembersOf(tools)
    THEN Flat(call.namespace, call.name)
    ELSE call.name
==============================================================================
