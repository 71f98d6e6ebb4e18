-------------------------------- MODULE Tools --------------------------------
(***************************************************************************)
(* The tools of the agent at work: a batch of calls on the threads of      *)
(* AgentEngine::run, the files, the todo list with the panel that shows it *)
(* and the skills.                                                         *)
(*                                                                         *)
(* A tool works in steps that other threads can come between: edit_file    *)
(* reads, truncates and writes; todo_add takes a snapshot and replaces the *)
(* list; a replaced list is announced afterwards, and the panel is redrawn *)
(* later, on the UI thread.  ToolEffects says what each call promises by   *)
(* itself.                                                                 *)
(*                                                                         *)
(* What the tools may do (access), the skill directories and the files are *)
(* changed by the user while no run is in progress (see ChatViewModel).    *)
(***************************************************************************)
EXTENDS ToolEffects

CONSTANTS
  Names,         \* valid names of skills
  Roots, Disks,  \* the roots of skills and what may be on them
  FirstFiles,    \* the files at the start
  Batches,       \* what the model may ask for: sequences of [tool, args]
  PoolSize,      \* threads of the pool at most
  MaxBatches,    \* bound: batches
  MaxChanges     \* bound: changes by the user

IsSequence(s) == Len(s) \in Nat /\ DOMAIN s = 1..Len(s)

\* Batches, roots, directories and the arrays of arguments are sequences; the
\* URL of a directory is no valid name.
ASSUME ToolsAssumption ==
  /\ \A batch \in Batches :
       /\ IsSequence(batch)
       /\ \A i \in DOMAIN batch :
            /\ batch[i].tool \in ToolNames
            /\ batch[i].tool = "todo_set" /\ Accepts(batch[i].args, SchemaOf["todo_set"])
                 => IsSequence(batch[i].args.val.items.val)
  /\ IsSequence(Roots)
  /\ \A d \in Disks : \A r \in DOMAIN Roots :
       Roots[r] # "missing" =>
         /\ IsSequence(d[Roots[r]])
         /\ \A k \in DOMAIN d[Roots[r]] : d[Roots[r]][k].dir \notin Names
  /\ PoolSize \in Nat \ {0} /\ MaxBatches \in Nat /\ MaxChanges \in Nat

VARIABLES
  access,     \* ctx.workspace_access: 0 read only, 1 workspace, 2 full
  files,      \* the files
  items,      \* TodoStore::items_
  refreshes,  \* queued calls of refresh_todo
  panel,      \* what the todo panel shows
  disk,       \* what is on the roots of the skills when the program starts
  here,       \* root and directory discover_skills visits next
  catalog,    \* the catalogue of skills
  resources,  \* the resources in the directories of the skills
  calls,      \* the batch: [tool, args, allowed]
  next,       \* the next index to take
  at,         \* per thread: the index it executes, 0 for none
  stage,      \* per call: how far it is
  held,       \* per call: what its tool has in its hands
  results,    \* per call: what the model will be told
  promised,   \* ghost: what the calls taken so far do one after the other
  batches, changes   \* counters for the bounds

skillVars == <<disk, here, catalog, resources>>
userVars  == <<access, skillVars, changes>>
batchVars == <<calls, batches>>
callVars  == <<next, at, stage, held, results, promised>>
vars == <<userVars, files, items, refreshes, panel, batchVars, callVars>>

Threads == 0..PoolSize
Stages  == {"waiting", "body", "ready", "opened", "replaced", "done"}

\* What a call depends on and no tool changes.
Env == [access |-> access, catalog |-> catalog, resources |-> resources]

Dirs(d) == UNION {{d[r][k] : k \in DOMAIN d[r]} : r \in DOMAIN d}

Init ==
  /\ access \in 0..2
  /\ files = FirstFiles
  /\ items = << >> /\ refreshes = 0 /\ panel = << >>
  /\ disk \in Disks
  /\ here = <<1, 1>> /\ catalog = << >>
  /\ resources = [dir \in {d.dir : d \in Dirs(disk)} |->
                    (CHOOSE d \in Dirs(disk) : d.dir = dir).resources]
  /\ calls = << >> /\ next = 1 /\ at = [t \in Threads |-> 0]
  /\ stage = << >> /\ held = << >> /\ results = << >>
  /\ promised = [files |-> files, items |-> items, results |-> << >>]
  /\ batches = 0 /\ changes = 0

-----------------------------------------------------------------------------
(* The catalogue of skills, taken once, when the engine is built           *)

Discovered == here[1] > Len(Roots)

\* One turn of the loops over the roots and their directories.
Discover ==
  LET r == here[1]
      k == here[2]
  IN  /\ ~Discovered
      /\ IF Counted(Roots, r) /\ k <= Len(disk[Roots[r]])
         THEN here' = <<r, k + 1>> /\ catalog' = Visit(catalog, disk[Roots[r]][k], Names)
         ELSE here' = <<r + 1, 1>> /\ UNCHANGED catalog
      /\ UNCHANGED <<access, files, items, refreshes, panel, disk, resources, changes,
                     batchVars, callVars>>

-----------------------------------------------------------------------------
(* A batch on the threads of the engine                                    *)

\* Mutant: only tools that need an approval are exclusive.
SerialIfGated == Len(calls) <= 1 \/ \E i \in DOMAIN calls : calls[i].tool \in Gated

Serial == Len(calls) <= 1 \/ \E i \in DOMAIN calls : calls[i].tool \in Exclusive
Pool == IF Serial THEN {0} ELSE 1..Min({Len(calls), PoolSize})

Settled == \A i \in DOMAIN calls : stage[i] = "done"

\* use_skill is registered only when there is a skill.
Available(tool) ==
  tool \in {"use_skill", "read_skill_resource"} => catalog # << >>

\* The model asks for a batch; the user will allow its gated calls or not.
BeginBatch(batch) ==
  /\ Discovered /\ Settled /\ batches < MaxBatches
  /\ \A i \in DOMAIN batch : Available(batch[i].tool)
  /\ \E allow \in BOOLEAN :
       calls' = [i \in DOMAIN batch |->
                   [tool |-> batch[i].tool, args |-> batch[i].args,
                    allowed |-> allow \/ batch[i].tool \notin Gated]]
  /\ next' = 1
  /\ stage' = [i \in DOMAIN batch |-> "waiting"]
  /\ held' = [i \in DOMAIN batch |-> << >>]
  /\ results' = [i \in DOMAIN batch |-> Error]
  /\ promised' = [files |-> files, items |-> items,
                   results |-> [i \in DOMAIN batch |-> Error]]
  /\ batches' = batches + 1
  /\ UNCHANGED <<userVars, files, items, refreshes, panel, at>>

\* What was promised so far, with a call more behind it.
Promise(call) ==
  LET outcome == Effect(Env, promised.files, promised.items, call)
  IN  [files |-> outcome.files, items |-> outcome.items,
       results |-> [promised.results EXCEPT ![next] = outcome.result]]

Take(t) ==
  /\ t \in Pool /\ at[t] = 0 /\ next <= Len(calls)
  /\ at' = [at EXCEPT ![t] = next] /\ next' = next + 1
  /\ promised' = Promise(calls[next])
  /\ UNCHANGED <<stage, held, results, files, items, refreshes>>

\* Thread t is at stage s of a call of one of the tools.
In(t, s, tools) == at[t] # 0 /\ stage[at[t]] = s /\ calls[at[t]].tool \in tools
ArgsOf(t) == calls[at[t]].args
PathOf(t) == Arg(ArgsOf(t), "path")

\* The call is over and the thread free.
Settle(t, result) ==
  /\ results' = [results EXCEPT ![at[t]] = result]
  /\ stage' = [stage EXCEPT ![at[t]] = "done"]
  /\ at' = [at EXCEPT ![t] = 0]
  /\ UNCHANGED <<next, held, promised>>

\* The call goes on, with something in its hands.
Go(t, s, value) ==
  /\ stage' = [stage EXCEPT ![at[t]] = s]
  /\ held' = [held EXCEPT ![at[t]] = value]
  /\ UNCHANGED <<next, at, results, promised>>

Keep(s, t) == Go(t, s, held[at[t]])

\* execute_one: the approval, then ToolRegistry::run with its validation.
Enter(t) ==
  /\ In(t, "waiting", ToolNames)
  /\ LET call == calls[at[t]]
     IN  IF ~call.allowed THEN Settle(t, Denied)
         ELSE IF ~Accepts(call.args, SchemaOf[call.tool]) THEN Settle(t, Error)
         ELSE Keep("body", t)
  /\ UNCHANGED <<files, items, refreshes>>

-----------------------------------------------------------------------------
(* The tools that only look                                                *)

Look(t) ==
  /\ \/ In(t, "body", {"read_file"}) /\ Settle(t, Read(files, access, PathOf(t)))
     \/ In(t, "body", {"list_directory"}) /\ Settle(t, Listing(files, ArgsOf(t)))
     \/ In(t, "body", {"todo_list"}) /\ Settle(t, Ok(items))
     \/ /\ In(t, "body", {"use_skill"})
        /\ Settle(t, LoadSkill(catalog, Arg(ArgsOf(t), "name")))
     \/ /\ In(t, "body", {"read_skill_resource"})
        /\ Settle(t, ReadResource(catalog, resources, Arg(ArgsOf(t), "name"), PathOf(t)))
  /\ UNCHANGED <<files, items, refreshes>>

-----------------------------------------------------------------------------
(* The tools that write files                                              *)

\* write_file: the guards.
CheckWrite(t) ==
  /\ In(t, "body", {"write_file"})
  /\ IF Writable(files, access, PathOf(t))
     THEN Go(t, "ready", Arg(ArgsOf(t), "content"))
     ELSE Settle(t, Error)
  /\ UNCHANGED <<files, items, refreshes>>

\* edit_file: the guards, and the file with the replacement in memory.
CheckEdit(t) ==
  /\ In(t, "body", {"edit_file"})
  /\ LET old == Arg(ArgsOf(t), "old")
     IN  IF Editable(files, access, PathOf(t), old)
         THEN Go(t, "ready", Edited(files[PathOf(t)], old, Arg(ArgsOf(t), "new")))
         ELSE Settle(t, Error)
  /\ UNCHANGED <<files, items, refreshes>>

\* The file is opened with ios::trunc.
Truncate(t) ==
  /\ In(t, "ready", {"write_file", "edit_file"})
  /\ files' = Written(files, PathOf(t), << >>)
  /\ Keep("opened", t)
  /\ UNCHANGED <<items, refreshes>>

\* The contents are written and the file is closed.
Fill(t) ==
  /\ In(t, "opened", {"write_file", "edit_file"})
  /\ files' = Written(files, PathOf(t), held[at[t]])
  /\ Settle(t, Ok(<< >>))
  /\ UNCHANGED <<items, refreshes>>

-----------------------------------------------------------------------------
(* The todo list                                                           *)

\* todo_set: an item that cannot be read throws before the list is replaced.
SetTodos(t) ==
  /\ In(t, "body", {"todo_set"})
  /\ IF ItemsThrow(ArgsOf(t))
     THEN Settle(t, Failed) /\ UNCHANGED items
     ELSE items' = NewItems(ArgsOf(t)) /\ Keep("replaced", t)
  /\ UNCHANGED <<files, refreshes>>

\* todo_add: store().snapshot().
SnapshotTodos(t) ==
  /\ In(t, "body", {"todo_add"})
  /\ Go(t, "ready", items)
  /\ UNCHANGED <<files, items, refreshes>>

\* todo_add: store().replace() up to notify().
AddTodo(t) ==
  /\ In(t, "ready", {"todo_add"})
  /\ items' = Append(held[at[t]], NewItem(ArgsOf(t)))
  /\ Keep("replaced", t)
  /\ UNCHANGED <<files, refreshes>>

\* Mutant: todo_add changes the list without announcing it.
NotifySet(t) ==
  /\ In(t, "replaced", {"todo_set", "todo_add"})
  /\ refreshes' = refreshes + IF calls[at[t]].tool = "todo_set" THEN 1 ELSE 0
  /\ Settle(t, Ok(<< >>))
  /\ UNCHANGED <<files, items>>

\* notify calls TodoVm's observer, and MainWindow queues refresh_todo.
Notify(t) ==
  /\ In(t, "replaced", {"todo_set", "todo_add"})
  /\ refreshes' = refreshes + 1
  /\ Settle(t, Ok(<< >>))
  /\ UNCHANGED <<files, items>>

Thread(t) ==
  /\ Take(t) \/ Enter(t) \/ Look(t) \/ CheckWrite(t) \/ CheckEdit(t) \/ Truncate(t)
     \/ Fill(t) \/ SetTodos(t) \/ SnapshotTodos(t) \/ AddTodo(t) \/ Notify(t)
  /\ UNCHANGED <<userVars, panel, batchVars>>

-----------------------------------------------------------------------------
(* The UI thread and the user                                              *)

\* refresh_todo shows a snapshot of the list.
RefreshTodo ==
  /\ refreshes > 0
  /\ refreshes' = refreshes - 1
  /\ panel' = items
  /\ UNCHANGED <<userVars, files, items, batchVars, callVars>>

UserChanges == Discovered /\ Settled /\ changes < MaxChanges /\ changes' = changes + 1

\* Another access mode is chosen.
SetAccess(mode) ==
  /\ UserChanges
  /\ access' = mode
  /\ UNCHANGED <<files, items, refreshes, panel, skillVars, batchVars, callVars>>

\* The directory of a skill is cleared.
ClearSkill(dir) ==
  /\ UserChanges
  /\ resources' = [resources EXCEPT ![dir] = {}]
  /\ UNCHANGED <<access, files, items, refreshes, panel, disk, here, catalog, batchVars,
                 callVars>>

Rest == Discovered /\ Settled /\ batches = MaxBatches /\ refreshes = 0 /\ UNCHANGED vars

Next ==
  \/ Discover
  \/ \E batch \in Batches : BeginBatch(batch)
  \/ \E t \in Threads : Thread(t)
  \/ RefreshTodo
  \/ \E mode \in (0..2) \ {access} : SetAccess(mode)
  \/ \E dir \in DOMAIN resources : ClearSkill(dir)
  \/ Rest

Spec == Init /\ [][Next]_vars

-----------------------------------------------------------------------------
(* Properties                                                              *)

\* A batch has the results, and leaves the files and the todo list, that its
\* calls have one after the other in the order of the model, on whatever
\* threads they ran ("file writes serialize", fs_tools.cpp:118; "snapshot
\* mutations serialize", todo_tools.cpp:69).
InTurn ==
  Settled => [files |-> files, items |-> items, results |-> results] = promised

\* When nothing is queued and no tool stands between a change and its
\* announcement, the panel shows the list; and the list has statuses the panel
\* knows, whatever the model wrote.
PanelCurrent ==
  /\ \A k \in DOMAIN items : items[k].status \in Statuses
  /\ refreshes = 0 /\ (\A i \in DOMAIN calls : stage[i] # "replaced") => panel = items

\* A skill loaded by its name is the one of the first root that defines it, and
\* a name is unknown only if no root defines it, whatever files of other roots
\* are broken, disabled or links (discover_skills, skill_tools.cpp:184-206).
SkillsAsAnnounced ==
  \A i \in DOMAIN calls :
    /\ calls[i].tool = "use_skill" /\ stage[i] = "done"
    /\ Accepts(calls[i].args, SchemaOf["use_skill"])
    /\ Arg(calls[i].args, "name") \in Names
    =>
      LET places == Defining(Roots, disk, Names, Arg(calls[i].args, "name"))
      IN  IF places = {} THEN results[i] = Error
          ELSE \E p \in places :
                 /\ \A q \in places : q = p \/ Earlier(p, q)
                 /\ results[i] = Ok(disk[Roots[p[1]]][p[2]].file.body)
=============================================================================
