--------------------------- MODULE MCRoundIngestion ----------------------------
(* The menus: each asks one question of the round, with the alphabet that   *)
(* the question needs and no more.                                          *)
EXTENDS RoundIngestion

MCGenerated == [i \in Indexes |-> IF i = 0 THEN "g0" ELSE "g1"]
MCToolTypes == [n \in {"cu", "sh", "gw"} |->
                    CASE n = "cu" -> "custom" [] n = "sh" -> "shell" [] OTHER -> "gateway"]

Menu ==
    [strict |-> FALSE, places |-> {<<0, "a">>}, kinds |-> {"function_call"}, names |-> {"none", "fn"},
     calls |-> {"x"}, texts |-> {<<"q">>}, tokens |-> {}, statuses |-> {"completed"}, oks |-> {TRUE},
     responses |-> {"own"}, others |-> {}, contract |-> TRUE, json |-> FALSE,
     events |-> 5]

(* Which item an event is about, when indexes and ids are omitted, swapped or repeated. *)
Identities ==
    [Menu EXCEPT !.places = {<<0, "a">>, <<1, "b">>, <<0, "b">>, <<NoIndex, "b">>, <<NoIndex, "">>, <<1, "">>},
                 !.kinds = {"message", "function_call"}, !.names = {"fn"}, !.texts = {}, !.tokens = {"c"},
                 !.contract = FALSE, !.others = {"malformed", "bad_index"}, !.oks = BOOLEAN,
                 !.events = 4]
(* The same of a strict stream, whose call ids may change and whose end may be repeated. *)
StrictIds ==
    [Menu EXCEPT !.strict = TRUE, !.places = {<<0, "a">>, <<1, "b">>, <<0, "">>}, !.events = 8,
                 !.calls = {"x", "y"}, !.names = {"fn"}, !.responses = {"r", "s"}, !.contract = FALSE,
                 !.others = {"ignore", "malformed"}]
(* A custom call, its text cut anywhere, its name late. *)
Customs ==
    [Menu EXCEPT !.names = {"none", "cu"}, !.tokens = {"c", "e", "q"}, !.events = 6,
                 !.texts = {<<"c", "q">>, <<"c", "e", "q", "q">>, <<"c", "e">>}]
Shells ==
    [Menu EXCEPT !.names = {"none", "sh", "gw"}, !.tokens = {"c", "b", "e", "q"}, !.events = 6,
                 !.texts = {<<"c", "b", "c", "q">>, <<"c", "e", "b", "q">>}]
(* A tool search, native or as a function call; the withheld tool it may not call. *)
Searches ==
    [Menu EXCEPT !.places = {<<0, "a">>, <<1, "b">>}, !.kinds = {"function_call", "tool_search_call"},
                 !.events = 6,
                 !.names = {"none", SearchName, "hidden"}, !.statuses = {"completed", "in_progress"},
                 !.json = TRUE]
(* The shell items of an upstream that has the tool itself. *)
NativeShells ==
    [Menu EXCEPT !.kinds = {"shell_call"}, !.tokens = {"c"}, !.strict = TRUE, !.events = 11,
                 !.texts = {<<"c">>, <<"c", "b">>, <<"c", "b", "c", "b">>}]

MCMenus == {Identities, StrictIds, Customs, Shells, Searches, NativeShells}

BodyItem(kind, id, name, text, status) ==
    [type |-> "done", index |-> NoIndex, id |-> id, kind |-> kind, name |-> name, call |-> id,
     text |-> text, part |-> 0, status |-> status, ok |-> TRUE, items |-> Absent]
Search(status) == BodyItem("function_call", "a", SearchName, <<"q">>, status)

MCBodies ==
    {[status |-> s, items |-> i] :
        s \in {"completed", "incomplete", "in_progress", "none", "odd"},
        i \in {<<Search("completed")>>, <<Search("in_progress")>>, <<Search("completed"), Search("completed")>>,
               <<BodyItem("function_call", "a", "hidden", <<"q">>, "completed")>>,
               <<BodyItem("tool_search_call", "a", "none", <<"q">>, "completed"),
                 BodyItem("message", "b", "none", <<"c">>, "completed")>>}}
================================================================================
