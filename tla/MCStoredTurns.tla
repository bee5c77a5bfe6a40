---------------------------- MODULE MCStoredTurns ----------------------------
(* Small repertoires of a client, one per question.                        *)
EXTENDS StoredTurns

f  == Tool("function", <<"f">>, TRUE, 1, << >>)
f2 == Tool("function", <<"f">>, TRUE, 2, << >>)
g  == Tool("function", <<"g">>, FALSE, 1, << >>)
h  == Tool("function", <<"h">>, TRUE, 1, << >>)
na == Tool("function", Flat(<<"n">>, <<"a">>), FALSE, 1, << >>)
n(members) == Tool("namespace", <<"n">>, FALSE, 1, members)
a  == Member(<<"a">>, TRUE, 1)
b  == Member(<<"b">>, FALSE, 1)
c  == Member(<<"c">>, TRUE, 1)
ab_c == Tool("namespace", <<"a", "b">>, FALSE, 1, <<Member(<<"c">>, TRUE, 1)>>)
a_bc == Tool("namespace", <<"a">>, FALSE, 1, <<Member(<<"b", "c">>, FALSE, 1)>>)
search == Tool("tool_search", ToolSearchName, FALSE, 1, << >>)
server == Tool("mcp", <<"m">>, FALSE, 1, << >>)
file   == Tool("file_search", <<"file_search">>, FALSE, 1, << >>)
custom == Tool("custom", <<"k">>, FALSE, 1, << >>)

Call(name) == [namespace |-> Absent, name |-> name]
MemberCall(namespace, member) == [namespace |-> namespace, name |-> member]

Menu(mode) ==
    [mode |-> mode, declares |-> {NotGiven}, choices |-> {NotGiven}, returns |-> {},
     replays |-> {}, listings |-> {{}}, down |-> {FALSE}, compacts |-> FALSE, forks |-> FALSE,
     turns |-> 3]

\* Deferred functions and members, searches that find them, and compaction.
Searching(mode) ==
    [Menu(mode) EXCEPT
        !.declares = {NotGiven, Given(<<search, f, n(<<a, b>>)>>)},
        !.returns = {<<f>>, <<n(<<a>>), h>>},
        !.compacts = TRUE]

\* The same with definitions that change or are no longer declared.
Redeclaring ==
    [Searching("response") EXCEPT
        !.declares = @ \cup {Given(<<search, g>>), Given(<<f>>)},
        !.returns = {<<f>>, <<f2>>}]

\* Names that meet: a function called like a member, members found later, calls
\* the client replays, a choice of what is still withheld.
Naming ==
    [Menu("response") EXCEPT
        !.declares = {NotGiven, Given(<<search, n(<<a, b>>), na>>), Given(<<search, n(<<b>>), f, custom>>),
                      Given(<<search, n(<<a, b>>), server, file>>)},
        !.choices = {NotGiven, Given(MemberCall(<<"n">>, <<"a">>))},
        !.returns = {<<n(<<a>>)>>, <<n(<<c>>)>>, <<na>>, << >>},
        !.replays = {MemberCall(<<"n">>, <<"a">>), MemberCall(<<"n">>, <<"c">>), Call(<<"h">>),
                     Call(Flat(<<"n">>, <<"a">>))},
        !.listings = {{<<"x">>}, {<<"f">>}, {Flat(<<"n">>, <<"a">>)}},
        !.turns = 2]

\* Members of two namespaces whose flat names are one: declared together, found
\* by a search, called by either name in the history.
Colliding ==
    [Menu("response") EXCEPT
        !.declares = {NotGiven, Given(<<search, ab_c>>), Given(<<ab_c, a_bc>>)},
        !.returns = {<<ab_c>>, <<a_bc>>},
        !.replays = {MemberCall(<<"a">>, <<"b", "c">>), Call(Flat(<<"a">>, <<"b", "c">>))},
        !.compacts = TRUE]

\* Servers whose listing changes or fails, along a chain that is compacted.
Listing(mode) ==
    [Menu(mode) EXCEPT
        !.declares = {NotGiven, Given(<<server, search, f>>)},
        !.returns = {<<f>>},
        !.listings = {{<<"x">>}, {<<"y">>}},
        !.down = BOOLEAN,
        !.compacts = TRUE]

\* The coordinator, with forks, repeated and late persists.
Splitting ==
    [Menu("split") EXCEPT
        !.declares = {NotGiven, Given(<<g>>), Given(<<search, g>>)},
        !.forks = TRUE]

MCMenus ==
    [searching |-> Redeclaring, searching_session |-> Searching("session"),
     searching_conversation |-> Searching("conversation"), naming |-> Naming,
     colliding |-> Colliding,
     listing |-> Listing("response"), listing_session |-> Listing("session"),
     splitting |-> Splitting]
==============================================================================
