----------------------------- MODULE ToolEffects ----------------------------
(***************************************************************************)
(* What the tools promise the model: each call, taken by itself, turns the *)
(* files and the todo list into the next ones and yields a result          *)
(* (core/agent/fs_tools.cpp, todo_tools.cpp, skill_tools.cpp,              *)
(* shell_tools.cpp, workspace.cpp, and the schemas they register).         *)
(*                                                                         *)
(* A text is a sequence of words where tools look into it, and files is a  *)
(* function on the paths of the files that exist.  Paths are Inside or     *)
(* Outside the workspace, or Lost: their directory does not exist.         *)
(***************************************************************************)
EXTENDS SkillCatalog

CONSTANTS
  Inside, Outside, Lost,   \* paths
  ReadCap,                 \* words read_file returns at most (512 KB)
  Accepts(_, _)            \* may the tool with this schema have these arguments?

ASSUME PathAssumption ==
  /\ Inside \cap Outside = {} /\ Lost \cap (Inside \cup Outside) = {}
  /\ "" \notin Inside \cup Outside \cup Lost
  /\ ReadCap \in Nat

-----------------------------------------------------------------------------
(* The schemas of the tools                                                *)

Text == [type |-> "string"]

Parameters(properties, required) ==
  [type |-> "object", properties |-> properties, required |-> required]
Closed(properties, required) ==
  [type |-> "object", properties |-> properties, required |-> required,
   additionalProperties |-> FALSE]

SchemaOf ==
  [ read_file  |-> Parameters([path |-> Text], {"path"}),
    write_file |-> Parameters([path |-> Text, content |-> Text],
                              {"path", "content"}),
    edit_file  |-> Parameters([path |-> Text, old |-> Text, new |-> Text],
                              {"path", "old", "new"}),
    list_directory |-> Parameters([path |-> Text], {}),
    todo_set   |-> Parameters([items |-> [type |-> "array", items |-> [type |-> "object"]]],
                              {"items"}),
    todo_add   |-> Parameters([content |-> Text], {"content"}),
    todo_list  |-> [type |-> "object"],
    use_skill  |-> Closed([name |-> Text], {"name"}),
    read_skill_resource |-> Closed([name |-> Text, path |-> Text], {"name", "path"}) ]

ToolNames == DOMAIN SchemaOf
Exclusive == {"write_file", "edit_file", "todo_set", "todo_add"}
Gated     == {"write_file", "edit_file"}

\* args.value(key, ""): the argument, or the default.
Arg(args, key) == IF key \in DOMAIN args.val THEN args.val[key].val ELSE ""

-----------------------------------------------------------------------------
(* Results                                                                 *)

Ok(data) == [status |-> "ok", data |-> data]
Plain(status) == [status |-> status, data |-> << >>]
Error  == Plain("error")      \* the tool answers {"error": ...}
Failed == Plain("failed")     \* it throws
Denied == Plain("denied")

-----------------------------------------------------------------------------
(* Paths and files                                                         *)

\* resolve_workspace_path yields a path; existing: require_existing.
Resolves(files, access, path, existing) ==
  /\ path # ""
  /\ path \in DOMAIN files \/ (~existing /\ path \notin Lost)
  /\ access = 2 \/ path \in Inside

Read(files, access, path) ==
  IF Resolves(files, access, path, TRUE) /\ Len(files[path]) <= ReadCap
  THEN Ok(files[path]) ELSE Error

Writable(files, access, path) == access # 0 /\ Resolves(files, access, path, FALSE)

Written(files, path, text) == With(files, path, text)

Occurs(text, word) == \E i \in DOMAIN text : text[i] = word

Editable(files, access, path, old) ==
  /\ access # 0 /\ old # ""
  /\ Resolves(files, access, path, TRUE)
  /\ Occurs(files[path], old)

\* The first occurrence is replaced.
Edited(text, old, new) ==
  LET first == Min({i \in DOMAIN text : text[i] = old})
  IN  [text EXCEPT ![first] = new]

\* list_directory: the entries of the workspace's root, which is the only
\* directory with a name here.
Listing(files, args) ==
  IF "path" \notin DOMAIN args.val \/ Arg(args, "path") = "."
  THEN Ok(DOMAIN files \cap Inside) ELSE Error

-----------------------------------------------------------------------------
(* Todo items                                                              *)

Statuses == {"pending", "in_progress", "done"}

\* item_from_json throws when a field is there and no string.
Throws(value) ==
  \E key \in {"content", "status"} \cap DOMAIN value.val :
    value.val[key].kind # "string"

\* An unknown status reads as pending.
ItemOf(value) ==
  LET status == Arg(value, "status")
  IN  [content |-> Arg(value, "content"),
       status  |-> IF status \in Statuses THEN status ELSE "pending"]

NewItems(args) == [i \in DOMAIN args.val.items.val |-> ItemOf(args.val.items.val[i])]
NewItem(args)  == [content |-> Arg(args, "content"), status |-> "pending"]
ItemsThrow(args) == \E i \in DOMAIN args.val.items.val : Throws(args.val.items.val[i])

-----------------------------------------------------------------------------
(* Skills                                                                  *)

\* A skill is loaded by its name or by the URL of its directory.
SkillNamed(catalog, name) ==
  LET byUrl == {n \in DOMAIN catalog : catalog[n].dir = name}
  IN  IF byUrl = {} THEN name ELSE CHOOSE n \in byUrl : TRUE

LoadSkill(catalog, name) ==
  LET n == SkillNamed(catalog, name)
  IN  IF n \in DOMAIN catalog THEN Ok(catalog[n].body) ELSE Error

\* A resource is read from the directory the skill was found in.
ReadResource(catalog, resources, name, path) ==
  IF name \in DOMAIN catalog /\ path \in resources[catalog[name].dir]
  THEN Ok(path) ELSE Error

-----------------------------------------------------------------------------
(* One call, taken by itself                                               *)

\* The files and the items it leaves, and its result.
Outcome(files, items, result) == [files |-> files, items |-> items, result |-> result]

\* env holds what no tool changes: the access mode, the catalogue and the
\* resources on disk.
Body(env, files, items, tool, args) ==
  LET path == Arg(args, "path")
      Only(result) == Outcome(files, items, result)
  IN CASE tool = "read_file"      -> Only(Read(files, env.access, path))
       [] tool = "list_directory" -> Only(Listing(files, args))
       [] tool = "todo_list"      -> Only(Ok(items))
       [] tool = "use_skill"      -> Only(LoadSkill(env.catalog, Arg(args, "name")))
       [] tool = "read_skill_resource" ->
            Only(ReadResource(env.catalog, env.resources, Arg(args, "name"), path))
       [] tool = "write_file" ->
            IF ~Writable(files, env.access, path) THEN Only(Error)
            ELSE Outcome(Written(files, path, Arg(args, "content")), items, Ok(<< >>))
       [] tool = "edit_file" ->
            IF ~Editable(files, env.access, path, Arg(args, "old")) THEN Only(Error)
            ELSE Outcome(Written(files, path, Edited(files[path], Arg(args, "old"),
                                                     Arg(args, "new"))),
                         items, Ok(<< >>))
       [] tool = "todo_set" ->
            IF ItemsThrow(args) THEN Only(Failed)
            ELSE Outcome(files, NewItems(args), Ok(<< >>))
       [] tool = "todo_add" ->
            Outcome(files, Append(items, NewItem(args)), Ok(<< >>))

Effect(env, files, items, call) ==
  IF ~call.allowed THEN Outcome(files, items, Denied)
  ELSE IF ~Accepts(call.args, SchemaOf[call.tool]) THEN Outcome(files, items, Error)
  ELSE Body(env, files, items, call.tool, call.args)
=============================================================================
