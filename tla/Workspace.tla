------------------------------ MODULE Workspace ------------------------------
(***************************************************************************)
(* The workspace of the agent, of which the program keeps four copies      *)
(* (MainWindow, AgentEngine, the environment, QSettings), and the registry *)
(* of background processes, which live in a workspace                      *)
(* (main_window.cpp, chat_view_model.cpp, agent.cpp, shell_tools.cpp,      *)
(* subprocess.cpp, main.cpp).                                              *)
(*                                                                         *)
(* The UI thread changes the workspace; the worker of a run starts and     *)
(* kills processes; processes, directories and the end of the program come *)
(* in between.  What a single process does to its pipe and its reader is   *)
(* in Subprocess; here a process is what a kill needs to know of it.       *)
(*                                                                         *)
(* Abstractions: paths are canonical; an access mode is 0 read only,       *)
(* 1 workspace write, 2 full access, and NoMode in a variable that is not  *)
(* set.                                                                    *)
(***************************************************************************)
EXTENDS Integers, FiniteSets, Functions

CONSTANTS
  Paths,         \* paths of directories
  Project,       \* what resolve_project_root finds
  Cwd,           \* the directory the program is started in
  FirstSaved,    \* what QSettings may hold at first
  MaxHandles,    \* bound: background processes of a launch
  MaxEnds,       \* bound: closures of ended runs in the queue
  MaxLaunches,   \* bound: launches
  MaxChanges     \* bound: changes of directories and of the workspace

NoPath == "none"
NoMode == -1
Modes  == 0..2
Places == [root : Paths, access : Modes]
Saved  == [root : Paths \cup {NoPath}, access : Int]

ASSUME WorkspaceAssumption ==
  /\ Project \in Paths /\ Cwd \in Paths /\ NoPath \notin Paths
  /\ FirstSaved \subseteq Saved
  /\ MaxHandles \in Nat /\ MaxEnds \in Nat /\ MaxLaunches \in Nat /\ MaxChanges \in Nat

VARIABLES
  \* file system and QSettings
  dirs,        \* the paths that are directories
  saved,       \* workspace/root and workspace/access
  \* the process
  env,         \* ARIA_WORKSPACE_ROOT and ARIA_WORKSPACE_WRITE
  window,      \* MainWindow::workspace_root_, ws_level_
  engine,      \* AgentEngine::workspace_root_, workspace_access_
  pc,          \* the UI thread
  target,      \* the arguments of the set_workspace in progress
  running,     \* ChatViewModel::running_ or compacting_
  ends,        \* closures that will clear it, in the queue of the dispatcher
  \* the worker
  job,         \* what it does
  ctx,         \* ToolContext of the batch
  \* registry
  procs,       \* ProcRegistry::procs
  handle,      \* ProcRegistry::next_handle
  forked,      \* the process bg_start made, until it is registered
  joining,     \* the handle whose reader is being joined, 0 if none
  strays,      \* ghost: processes that left the registry with the shell running
  late,        \* ghost: handles registered by a run that is not in progress any
               \* more, because the closure of an earlier run cleared running_
  \* bounds
  launches, changes

settingVars  == <<saved, env, window, engine>>
runVars      == <<running, ends, job, ctx>>
registryVars == <<procs, handle, forked, joining, strays, late>>
boundVars    == <<launches, changes>>
vars == <<dirs, settingVars, pc, target, runVars, registryVars, boundVars>>

\* A process: where it was started, whether the shell runs, whether the shell
\* and processes it left behind have the pipe as their output.
Procs == [root : Paths, access : Modes, shell : {"running", "ended"},
          piped : BOOLEAN, child : BOOLEAN, closed : BOOLEAN]

Process(place) ==
  [root |-> place.root, access |-> place.access, shell |-> "running",
   piped |-> TRUE, child |-> FALSE, closed |-> FALSE]

NoProcs == [h \in {} |-> Process([root |-> Cwd, access |-> 1])]

Place(root, access) == [root |-> root, access |-> access]

\* What ctx is outside a batch.
NoContext == Place(Project, 1)

\* An access mode that does not exist counts as workspace write.
Clamped(level) == IF level \in Modes THEN level ELSE 1

Init ==
  /\ dirs \in {ds \in SUBSET Paths : {Project, Cwd} \subseteq ds}
  /\ saved \in FirstSaved
  /\ env = Place(Project, NoMode) /\ window = Place(Cwd, 1) /\ engine = Place(Project, 1)
  /\ pc = "down" /\ target = engine
  /\ running = FALSE /\ ends = 0 /\ job = "none" /\ ctx = NoContext
  /\ procs = NoProcs /\ handle = 1 /\ forked = {} /\ joining = 0
  /\ strays = {} /\ late = {}
  /\ launches = 0 /\ changes = 0

-----------------------------------------------------------------------------
(* Processes and directories                                               *)

\* Somebody can still write to the pipe of p.
Writes(p) == (p.piped /\ p.shell = "running") \/ p.child

\* What happens to a process by itself: the shell ends, redirects its output,
\* leaves something behind that has its output; what it left behind ends.
Later(p) ==
  (IF p.shell = "running"
   THEN {[p EXCEPT !.shell = "ended"], [p EXCEPT !.piped = FALSE]}
        \cup (IF p.piped THEN {[p EXCEPT !.child = TRUE]} ELSE {})
   ELSE {})
  \cup {[p EXCEPT !.child = FALSE]}

ProcessChanges ==
  /\ \/ \E h \in DOMAIN procs : \E p \in Later(procs[h]) :
          procs' = [procs EXCEPT ![h] = p] /\ UNCHANGED forked
     \/ \E q \in forked : \E p \in Later(q) :
          forked' = {p} /\ UNCHANGED procs
  /\ UNCHANGED <<dirs, settingVars, pc, target, runVars, handle, joining, strays,
                 late, boundVars>>

\* A directory is removed or comes back.
DirectoryChanges(path) ==
  /\ path \notin {Project, Cwd} /\ changes < MaxChanges
  /\ changes' = changes + 1
  /\ dirs' = IF path \in dirs THEN dirs \ {path} ELSE dirs \cup {path}
  /\ UNCHANGED <<settingVars, pc, target, runVars, registryVars, launches>>

-----------------------------------------------------------------------------
(* Killing a process: kill_process and stop_all_background_processes       *)

\* Mutant: only the descriptor is closed.
ClosedOnly(p) == {[p EXCEPT !.closed = TRUE]}

\* bg_kill and the first half of bg_close: no signal if the reader came to the
\* end of the output, which it may have noticed when there is no writer left.
Killed(p) ==
  {[p EXCEPT !.shell = "ended", !.closed = TRUE]}
  \cup (IF Writes(p) THEN {} ELSE {[p EXCEPT !.closed = TRUE]})

KillAndClose(h) ==
  /\ joining = 0 /\ joining' = h
  /\ \E p \in Killed(procs[h]) : procs' = [procs EXCEPT ![h] = p]
  /\ UNCHANGED <<handle, forked, strays, late>>

\* The processes among ps whose shell the registry no longer knows.
LeftRunning(ps) == {p \in ps : p.shell = "running"}

\* The join of the second half returns when the reader has come to its end,
\* or if it was between two reads when the descriptor was closed.
Joined ==
  /\ joining # 0 /\ joining' = 0
  /\ UNCHANGED <<procs, handle, forked, strays, late>>

-----------------------------------------------------------------------------
(* The UI thread: start, end, change of the workspace                      *)

\* What the window starts with: QSettings, by default the environment, and if
\* that is no directory the current one.
FirstRoot ==
  LET configured == IF saved.root = NoPath THEN Project ELSE saved.root
  IN  IF configured \in dirs THEN configured ELSE Cwd

\* main, the constructors of AgentEngine and of MainWindow.
Launch ==
  /\ pc = "down" /\ launches < MaxLaunches
  /\ launches' = launches + 1
  /\ env' = Place(Project, NoMode) /\ engine' = Place(Project, 1)
  /\ window' = Place(FirstRoot, saved.access)
  /\ pc' = "starting"
  /\ procs' = NoProcs /\ handle' = 1 /\ UNCHANGED <<forked, joining, strays, late>>
  /\ UNCHANGED <<dirs, saved, target, runVars, changes>>

\* The program ends or dies; its background processes are not looked for.
End ==
  /\ pc # "down" /\ pc' = "down"
  /\ running' = FALSE /\ ends' = 0 /\ job' = "none" /\ ctx' = NoContext
  /\ procs' = NoProcs /\ forked' = {} /\ joining' = 0 /\ strays' = {} /\ late' = {}
  /\ UNCHANGED <<dirs, settingVars, target, handle, boundVars>>

\* Mutant: processes are stopped before any update.
DiffersAlways(place) == TRUE

\* ChatViewModel::set_workspace: processes are stopped before another workspace.
Differs(place) == place # engine

\* Mutant: a run in progress is not looked at.
UpdateAnyTime(path, level) ==
  IF path \in dirs
  THEN /\ target' = Place(path, Clamped(level))
       /\ pc' = IF Differs(target') THEN "stopping" ELSE "accepting"
  ELSE pc' = "rest" /\ UNCHANGED target

\* update_workspace up to the first process to be stopped.
Update(path, level) ==
  IF path \in dirs /\ ~running
  THEN /\ target' = Place(path, Clamped(level))
       /\ pc' = IF Differs(target') THEN "stopping" ELSE "accepting"
  ELSE pc' = "rest" /\ UNCHANGED target

Keeping == UNCHANGED <<dirs, settingVars, runVars, registryVars, launches>>

\* The end of MainWindow's constructor.
Restore ==
  /\ pc = "starting"
  /\ Update(window.root, window.access)
  /\ Keeping /\ UNCHANGED changes

\* on_choose_workspace.
ChooseWorkspace(path) ==
  /\ pc = "rest" /\ changes < MaxChanges
  /\ Update(path, window.access)
  /\ changes' = changes + 1
  /\ Keeping

\* on_workspace_mode_select.
ChooseMode(level) ==
  /\ pc = "rest" /\ changes < MaxChanges
  /\ Update(window.root, level)
  /\ changes' = changes + 1
  /\ Keeping

\* Settings were saved or the language changed: apply_language comes back to
\* the workspace it has.
ApplyLanguage ==
  /\ pc = "rest"
  /\ Update(window.root, window.access)
  /\ Keeping /\ UNCHANGED changes

\* stop_all_background_processes goes through the registry under its mutex.
StopNext(h) ==
  /\ pc = "stopping" /\ job # "kill"
  /\ h \in DOMAIN procs /\ ~procs[h].closed
  /\ \A other \in DOMAIN procs : other < h => procs[other].closed
  /\ KillAndClose(h)
  /\ UNCHANGED <<dirs, settingVars, pc, target, runVars, boundVars>>

StopJoined ==
  /\ pc = "stopping" /\ job # "kill"
  /\ Joined
  /\ UNCHANGED <<dirs, settingVars, pc, target, runVars, boundVars>>

StopDone ==
  /\ pc = "stopping" /\ job # "kill" /\ joining = 0
  /\ \A h \in DOMAIN procs : procs[h].closed
  /\ pc' = "accepting"
  /\ strays' = strays \cup LeftRunning(Range(procs))
  /\ procs' = NoProcs /\ late' = {}
  /\ UNCHANGED <<dirs, settingVars, target, runVars, handle, forked, joining, boundVars>>

\* Mutant: the window takes the place whatever the engine says.
AcceptAnyway ==
  /\ pc = "accepting" /\ pc' = "rest"
  /\ engine' = IF target.root \in dirs THEN Place(target.root, Clamped(target.access))
               ELSE engine
  /\ window' = target /\ env' = target /\ saved' = target
  /\ UNCHANGED <<dirs, target, runVars, registryVars, boundVars>>

\* AgentEngine::set_workspace looks at the directory again and throws if it is
\* gone; otherwise update_workspace changes the other three copies.
Accept ==
  /\ pc = "accepting" /\ pc' = "rest"
  /\ IF target.root \in dirs
     THEN /\ engine' = Place(target.root, Clamped(target.access))
          /\ window' = target /\ env' = target /\ saved' = target
     ELSE UNCHANGED settingVars
  /\ UNCHANGED <<dirs, target, runVars, registryVars, boundVars>>

Change == Restore \/ StopJoined \/ StopDone \/ Accept \/ \E h \in DOMAIN procs : StopNext(h)

-----------------------------------------------------------------------------
(* A run and its tools                                                     *)

Otherwise == UNCHANGED <<dirs, settingVars, target, boundVars>>

\* send, after it joined the worker before.
Send ==
  /\ pc = "rest" /\ ~running /\ job = "none" /\ ends < MaxEnds
  /\ running' = TRUE /\ job' = "run"
  /\ UNCHANGED <<pc, ends, ctx, registryVars>> /\ Otherwise

\* What the worker reads of root and access, which it does without a lock,
\* while the UI thread may be assigning one after the other.
Readable ==
  IF pc = "accepting"
  THEN [root : {engine.root, target.root}, access : {engine.access, target.access}]
  ELSE {engine}

\* run hands the workspace to the tools of a batch.
StartBatch ==
  /\ job = "run" /\ job' = "batch"
  /\ ctx' \in Readable
  /\ UNCHANGED <<pc, running, ends, registryVars>> /\ Otherwise

EndBatch ==
  /\ job = "batch" /\ job' = "run"
  /\ ctx' = NoContext
  /\ UNCHANGED <<pc, running, ends, registryVars>> /\ Otherwise

\* The worker posts finalize_success or finalize_error, the latter twice if run
\* reported the error before it threw it.
EndRun ==
  /\ job = "run" /\ job' = "none"
  /\ ends' \in {ends + 1, ends + 2} /\ ends' <= MaxEnds
  /\ UNCHANGED <<pc, running, ctx, registryVars>> /\ Otherwise

\* finalize_success or finalize_error, or the closure of the compaction the
\* first began: nothing tells which run the closure is of.
Finalize ==
  /\ pc = "rest" /\ ends > 0
  /\ ends' = ends - 1 /\ running' = FALSE
  /\ UNCHANGED <<pc, job, ctx, registryVars>> /\ Otherwise

\* stop, when it has joined the worker; what the worker posted stays posted.
Stop ==
  /\ pc = "rest" /\ running /\ job = "none"
  /\ running' = FALSE
  /\ UNCHANGED <<pc, ends, job, ctx, registryVars>> /\ Otherwise

\* shell_access_deny.
MayExecute(access) == access = 2

\* run_in_background: bg_start, without the mutex.
Fork ==
  /\ job = "batch" /\ job' = "fork"
  /\ MayExecute(ctx.access)
  /\ handle <= MaxHandles
  /\ forked' = {Process(ctx)}
  /\ UNCHANGED <<procs, handle, joining, strays, late>>
  /\ UNCHANGED <<pc, running, ends, ctx>> /\ Otherwise

\* Mutant: the handle is not used up.
RegisterSameHandle ==
  /\ job = "fork" /\ job' = "batch"
  /\ pc # "stopping"
  /\ \E p \in forked : procs' = [h \in DOMAIN procs \cup {handle} |->
                                 IF h = handle THEN p ELSE procs[h]]
  /\ forked' = {}
  /\ UNCHANGED <<handle, joining, strays, late>>
  /\ UNCHANGED <<pc, running, ends, ctx>> /\ Otherwise

\* ... and under the mutex, which the UI thread may hold.
Register ==
  /\ job = "fork" /\ job' = "batch"
  /\ pc # "stopping"
  /\ \E p \in forked : procs' = [h \in DOMAIN procs \cup {handle} |->
                                 IF h = handle THEN p ELSE procs[h]]
  /\ handle' = handle + 1 /\ forked' = {}
  /\ late' = late \cup (IF running THEN {} ELSE {handle})
  /\ UNCHANGED <<joining, strays>>
  /\ UNCHANGED <<pc, running, ends, ctx>> /\ Otherwise

\* kill_process, with the mutex until the process is erased.
BeginKill(h) ==
  /\ job = "batch" /\ job' = "kill"
  /\ pc # "stopping" /\ h \in DOMAIN procs
  /\ KillAndClose(h)
  /\ UNCHANGED <<pc, running, ends, ctx>> /\ Otherwise

EndKill ==
  /\ job = "kill" /\ job' = "batch"
  /\ joining # 0 /\ joining' = 0
  /\ strays' = strays \cup LeftRunning({procs[joining]})
  /\ procs' = Restrict(procs, DOMAIN procs \ {joining})
  /\ late' = late \ {joining}
  /\ UNCHANGED <<handle, forked>>
  /\ UNCHANGED <<pc, running, ends, ctx>> /\ Otherwise

Work ==
  \/ StartBatch \/ EndBatch \/ EndRun \/ Fork \/ Register \/ EndKill
  \/ \E h \in DOMAIN procs : BeginKill(h)

\* The program is closed and not started any more.
Rest == pc = "down" /\ launches = MaxLaunches /\ UNCHANGED vars

Next ==
  \/ Launch \/ End \/ Rest
  \/ Change \/ ApplyLanguage
  \/ \E path \in Paths : ChooseWorkspace(path)
  \/ \E level \in Modes : ChooseMode(level)
  \/ Send \/ Finalize \/ Stop \/ Work
  \/ ProcessChanges
  \/ \E path \in Paths : DirectoryChanges(path)

Spec == Init /\ [][Next]_vars

\* The UI thread goes on, and so does a worker that holds the mutex of the
\* registry.  Whether a process ever gives the pipe back is open.
FairSpec ==
  /\ Spec
  /\ WF_vars(StopDone \/ Accept \/ \E h \in DOMAIN procs : StopNext(h))
  /\ WF_vars((StopJoined \/ EndKill) /\ ~Writes(procs[joining]))

-----------------------------------------------------------------------------
(* Properties                                                              *)

TypeOK ==
  /\ dirs \in SUBSET Paths /\ Cwd \in dirs /\ Project \in dirs
  /\ saved \in Saved /\ engine \in Places
  /\ env \in [root : Paths, access : Int] /\ window \in [root : Paths, access : Int]
  /\ pc \in {"down", "starting", "rest", "stopping", "accepting"}
  /\ target \in Places
  /\ running \in BOOLEAN /\ ends \in Nat
  /\ job \in {"none", "run", "batch", "fork", "kill"}
  /\ ctx \in Places
  /\ DOMAIN procs \subseteq 1..(handle - 1) /\ procs \in [DOMAIN procs -> Procs]
  /\ handle \in Nat \ {0}
  /\ forked \subseteq Procs /\ (job = "fork" <=> forked # {})
  /\ joining = 0 \/ joining \in DOMAIN procs
  /\ strays \subseteq Procs /\ late \subseteq DOMAIN procs
  /\ launches \in Nat /\ changes \in Nat

PlaceOf(p) == Place(p.root, p.access)

\* No background process outlives the workspace it was started in: whatever
\* the registry knows, and what a run in progress is about to register, runs in
\* the engine's workspace with full access; and a shell left running when its
\* process is dropped from the registry is one that gave its output away, which
\* a kill does not reach (chat_view_model.cpp:56-67, shell_tools.cpp:60-98).
\* The one exception is what a run registers behind the closure of an earlier
\* run, which clears running_ under it: set_workspace then refuses nothing.
ProcessesOfWorkspace ==
  /\ \A h \in DOMAIN procs \ late : PlaceOf(procs[h]) = engine /\ engine.access = 2
  /\ running => \A p \in forked : PlaceOf(p) = engine /\ engine.access = 2
  /\ \A p \in strays : ~p.piped

\* The four copies of the workspace agree once one was accepted, through
\* directories that vanish in the middle of a change, access modes that do not
\* exist, and the return of settings to the workspace (update_workspace).
OneWorkspace ==
  pc \notin {"down", "starting"} /\ env.access # NoMode =>
    window = engine /\ env = engine /\ saved = engine

\* A handle is lost only by kill_process of that handle, by the end of the
\* program and by a change to another workspace: saving settings or changing
\* the language, which go through update_workspace too, stops nobody.
ProcessesKept ==
  [][\A h \in DOMAIN procs \ DOMAIN procs' :
       \/ pc' = "down"
       \/ job = "kill" /\ joining = h
       \/ pc = "stopping" /\ target # engine]_vars

\* The UI thread comes back from stopping processes unless what one of them
\* left behind keeps the pipe: it is never a shell that holds it up, nor a kill
\* by the worker of a run whose flag was cleared
\* (stop_all_background_processes joins every reader).
ChangeReturns ==
  pc = "stopping" ~> pc # "stopping" \/ (joining # 0 /\ procs[joining].child)
=============================================================================
