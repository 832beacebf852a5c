------------------------------ MODULE MCPrompt ------------------------------
(* Two servers: one with a partitioned database, whose ids include one that
   holds its partition's key twice, one that ends in a word of a path and one
   that looks like a design document's after the key, and with a database whose
   name needs an escape; the other with a database of the same name.       *)
EXTENDS Prompt

x   == <<"p1", "x">>
xx  == <<"p1", "p1:x">>
y   == <<"", "y">>
des == <<"p1", "_design">>
foo == <<"p1", "_design/foo">>
app == <<"_design/", "app">>

MCSegments ==
  {".", "..", "x", "y", "db", "a/b", "a%2Fb", "%64b", "%zz", "_users", "_design",
   "_partition", "_view", "_search", "_nouveau", "p1", "p1:x", "p1:p1:x",
   "p1:_design", "app", "app_view", "v", "c", "f", "_design/foo", "_design%2Ffoo",
   "p1:_design/foo", "p1:_design%2Ffoo", "foo"}

MCServers == [s1 |-> ("db" :> {x, xx, y, des, foo, app} @@ "a/b" :> {y}), s2 |-> [db |-> {y}]]
MCMembers == x :> {<<"attachment", "f">>} @@ xx :> {} @@ y :> {} @@ des :> {} @@ foo :> {}
               @@ app :> {<<"view", "v">>, <<"view", "..">>, <<"clouseau", "c">>}

MCKeyed     == "p1:x" :> x @@ "p1:p1:x" :> xx @@ "p1:_design" :> des
               @@ "p1:_design/foo" :> foo
MCUnescaped == "a%2Fb" :> "a/b" @@ "%64b" :> "db" @@ "_design%2Ffoo" :> "_design/foo"
               @@ "p1:_design%2Ffoo" :> "p1:_design/foo"
MCEscape    == "a/b" :> "a%2Fb" @@ "_design/foo" :> "_design%2Ffoo"
               @@ "p1:_design/foo" :> "p1:_design%2Ffoo"
MCDesigned  == "_design/foo" :> "foo"
MCSuffixed  == "app_view" :> <<"app", "_view">>

P1(segs)  == At(<<"db", "_partition", "p1">> \o segs)
App(segs) == At(<<"db", "_design", "app">> \o segs)

MCInputs ==
  {At(<<>>), At(<<"db">>), At(<<"%64b">>), At(<<"a%2Fb">>), At(<<"db", "p1:x", "f">>),
   P1(<<>>), P1(<<"p1:x">>), P1(<<"_design", "app", "_search", "c">>),
   App(<<"_view", "v">>), From(<<"..">>), From(<<"..", "db">>), From(<<"..", "..", "y">>)}
MCDirs ==
  {At(<<"db">>), P1(<<>>), Here, From(<<"..">>), From(<<"..", "..">>),
   App(<<"_view">>), P1(<<"_design", "app", "_search">>),
   At(<<"db", "_design", "app_view">>), At(<<"_view", "..", "db", "_design", "app">>)}
=============================================================================
