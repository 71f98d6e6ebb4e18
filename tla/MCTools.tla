------------------------------ MODULE MCTools ------------------------------
(* Instances of Tools for TLC.                                             *)
EXTENDS Tools, JsonSchema

Line(key, value) == [key |-> key, value |-> value]

SkillFile(name, body) ==
  [size |-> "regular", opened |-> TRUE, closed |-> TRUE, body |-> body,
   fields |-> <<Line("name", name), Line("description", "text")>>]

Directory(dir, file) ==
  [dir |-> dir, link |-> FALSE, file |-> file, resources |-> {"notes"}]

MCRoots == <<"project", "home", "project", "missing">>

\* Two roots with a skill of the same name, or one of them with a file that is
\* not accepted: disabled at last, not closed, or behind a link.
MCDisks ==
  LET one   == SkillFile("plan", "first")
      other == SkillFile("plan", "second")
  IN  {[project |-> <<Directory("d1", file)>>,
        home |-> <<Directory("d2", other), Directory("d3", SkillFile("plan", "third"))>>]
         : file \in {one,
                     [one EXCEPT !.fields = @ \o <<Line("disable", "no"), Line("disable", "on")>>],
                     [one EXCEPT !.closed = FALSE]}}
      \cup {[project |-> <<[Directory("d1", one) EXCEPT !.link = TRUE]>>, home |-> << >>]}

MCFiles == [in |-> <<"a", "b", "a">>, out |-> <<"a">>]

Call(tool, args) == [tool |-> tool, args |-> JObject(args)]
S(text) == JString(text)
Todo(content, status) == JObject([content |-> S(content), status |-> S(status)])

MCBatches ==
  { \* items added one behind the other
    <<Call("todo_add", [content |-> S("x")]), Call("todo_add", [content |-> S("y")])>>,
    \* a list with a known and an unknown status, and what it became
    <<Call("todo_set", [items |-> JArray(<<Todo("x", "done"), Todo("y", "later")>>)]),
      Call("todo_list", << >>)>>,
    \* an item that is no text, and one that is no object
    <<Call("todo_set", [items |-> JArray(<<JObject([content |-> JInteger(1)])>>)]),
      Call("todo_set", [items |-> JArray(<<JInteger(1)>>)])>>,
    \* a new file, an edit of it, a look at it
    <<Call("write_file", [path |-> S("new"), content |-> S(<<"b", "a", "b">>)]),
      Call("edit_file", [path |-> S("new"), old |-> S("b"), new |-> S("c")]),
      Call("read_file", [path |-> S("new")])>>,
    \* an edit that finds nothing, one outside, a file in no directory
    <<Call("edit_file", [path |-> S("in"), old |-> S("c"), new |-> S("d")]),
      Call("edit_file", [path |-> S("out"), old |-> S("a"), new |-> S("d")]),
      Call("write_file", [path |-> S("lost"), content |-> S(<< >>)])>>,
    \* calls that may run side by side, one of them without its argument
    <<Call("read_file", [path |-> S("in")]), Call("list_directory", << >>),
      Call("read_file", << >>)>>,
    \* skills, by name and by place, with an argument nobody knows
    <<Call("use_skill", [name |-> S("plan")]),
      Call("read_skill_resource", [name |-> S("plan"), path |-> S("notes")]),
      Call("use_skill", [name |-> S("plan"), more |-> S("x")])>>,
    <<Call("use_skill", [name |-> S("d2")]), Call("use_skill", [name |-> S("other")])>> }
=============================================================================
