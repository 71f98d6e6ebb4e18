# Verification of AriaAgent

TLA+ models of AriaAgent, a desktop agent in C++: a chat whose language model
may call tools that read and write files, run commands and keep a todo list.
The modules model the parts of the program that carry its logic, TLC checks them
on small instances, and TLAPS proves the main invariants for every value of the
constants. Paths below are relative to `src/`.

Contents: 1 the system, 2 modules and plan, 3 how the models correspond to the
code, 4 what the runs check, 5 where the code and its documentation disagree,
6 what is proved, 7 limits, 8 how to run it.

## 1. The system

Two threads matter most. The **UI thread** is an event loop: it executes one
posted closure or one user event at a time. The **worker** is a `std::thread`
that `ChatViewModel` starts for one run of the engine or for one compaction; it
reaches the UI only by closures posted to a dispatcher queue. Below the worker,
the engine may start a **pool** of threads for one batch of tool calls, and every
subprocess has a **reader thread** of its own.

| Component | State | Operations | Interacts through |
|---|---|---|---|
| Chat feature (`modules/chat/viewmodel`, `main_window.cpp`) | `running_`, `compacting_`, `stop_`, `busy`, the rows on display, the worker | send, stop, finalize_success, finalize_error, maybe_compact, set_workspace, destructor | starts the worker, reads and saves the log, is observed by the window |
| Agent engine (`core/agent/agent.cpp`) | the caller's log, the trace, the cached client | run, summarize, reload_client, set_workspace | calls the client and the tools, calls back on the worker |
| Conversation log (`model.hpp`, `agent.cpp`) | none: functions on a log | removal of incomplete tool groups, compaction cut | used by engine and chat |
| Session store (`core/agent/session_store.cpp`) | one JSON file per session, `current_id_`, `current_history_` | create, list, load, persist, switch, delete | the log is handed out by reference to chat and worker |
| LLM client (`core/agent/llm_client.cpp`) | buffer of stream lines, accumulator of tool calls | complete_stream, complete | events to the engine |
| Subprocess, shell tools (`subprocess.cpp`, `shell_tools.cpp`) | background processes, their buffers and reader threads | run_command, read_output, kill_process, stop_all | the operating system, one mutex for the registry |
| Todo list (`todo_tools.cpp`, `todo_store.hpp`, `todo_vm.cpp`) | the items, the observers | todo_set, todo_add, todo_list, snapshot, replace | tools on the worker, a view on the UI thread |
| Tool registry, schema (`tool_registry.cpp`, `json_schema.cpp`) | registered tools | run, validate | the engine |
| File and skill tools | skill catalogue | resolve path, read, write, edit, list and load skills | the tool registry |
| Workspace (`main_window.cpp`, `agent.cpp`, `chat_view_model.cpp`) | four copies of directory and access: window, engine, environment, QSettings | restore at start, choose directory, choose mode, return of the settings | the chat and the engine; stops the background processes |
| Settings (`settings_vm.cpp`, `settings_store.cpp`) | settings file, environment | load, save, select model | the chat's `reload_model_settings` |
| Internationalisation (`core/i18n`, `app_text.cpp`) | tables of texts, the language, copies of texts in view models and window | look-up, set_language with its observers | the settings, whose save sets the language |
| Sessions panel (`session_list_vm.cpp`, `main_window.cpp`) | the list, the current id, the highlighted row | refresh, click, delete | listens to the session store |
| Trajectory view model, themes, Markdown, module wiring | projections of the above | | |

What is hard in this code:

- **UI thread against worker.** The worker writes `current_history_` by reference
  while the UI thread may save, switch, compact or delete. `running_`,
  `compacting_` and `busy` are three separate guards, closures of an old run may be
  delivered in a new one, and the window disables none of its controls: the subscription
  that should is a local variable of its constructor (`main_window.cpp:585-606`).
- **Blocking joins.** `send`, `stop`, `maybe_compact` and the destructor join the
  worker on the UI thread, and the worker blocks in `future::get` for an approval
  that only the UI thread can give.
- **One run, two errors.** The engine reports some errors by callback and then
  throws, so that the chat finalizes the run twice.
- **Order of results.** A batch of tool calls runs on several threads, and its
  results must land in the order in which the model asked.
- **Damaged logs.** Crashes, stops and compaction leave calls without outputs;
  the model's API rejects such a log.
- **Saves that truncate first.** A crash, a full disk or an exception of the
  serializer behind the truncation leaves a session file empty.
- **Processes.** Signals against ids that may be free again, a pipe kept open by
  a grandchild, a descriptor closed under its reader.
- **Tools side by side.** A tool that reads, changes and writes back is safe only
  because its exclusive flag makes the whole batch serial.
- **Settings by environment.** The settings on display reach a run through variables
  that are set, unset or left over, and through a file that a save truncates first.
- **A workspace in four places.** A directory may vanish between the look of the window
  and the look of the engine, processes started in the old workspace are stopped under the
  mutex they are registered under, and every save of the settings passes there, too.
- **Copies on display.** The list of sessions and every text of the window are copies that
  are refreshed by callbacks, some at once and some through the event queue, in an order
  nobody wrote down.
- **Streams.** Lines cut anywhere by the network, tool calls in fragments of two
  forms, three ways for a reply to end.

`PROJECT.json` lists these hazards with the line where each one bites and the
properties that cover it, or the reason why none does.

### What makes each component correct

- Chat: every message gets exactly one outcome before the next one is taken; what a
  conversation says stays in its session and reaches its file; an approval is asked
  once and somebody can answer it, and a dangerous call behind a skill is asked for;
  settings, workspace and client change only between runs; the window can be closed at
  any time without losing the log.
- Engine: exclusive tools run alone, each call runs once, results land in model
  order, whatever is sent to the model and handed back to the caller is well
  formed, a turn ends.
- Session store: nothing said is forgotten except what one fault may hit; no log
  gets into another session's file; deleted sessions stay deleted.
- Subprocess: no signal goes to a stranger, output is handed out once, calls
  return.
- Client: calls arrive whole and once, all the text arrives in order, and neither half a
  reply nor an error passes for an answer.
- Tools: a batch has the effects of its calls one after the other in the order of the
  model, on whatever threads they ran; the panel ends at the last list; a skill is the
  one its announcement promised.
- Settings: a run uses what the dialog shows, the next launch shows what was saved, and
  a damaged file counts as none; texts are in the language of the settings.
- Workspace: the four copies agree, no process outlives its workspace, and a process is
  lost only by a kill, a change to another workspace or the end of the program.
- Sessions panel: the rows are the sessions there are, the highlight is the one on display.

## 2. Modules and plan

```
MessageLog                       whole-log operations: repair, compaction cut
  |-- AgentEngine                one turn: rounds, batches, threads   --implements--> ToolLoop
  |-- ChatViewModel              UI thread, worker, queue, store, settings
        |-- ChatProperties       its properties                       --implements--> TurnTaking
SessionStore                     files, crashes, restarts
  |-- SessionPanel               the list at the side                 --implements--> SessionStore
Subprocess                       one command, its processes, pipe and reader
Workspace                        four copies of the workspace; registry of processes
StreamParser                     provider, network, parser of a streamed reply
SkillCatalog                     discovery of skills
  |-- ToolEffects                what each tool call promises by itself
        |-- Tools                a batch on threads, files, todo list and panel, skills
JsonSchema                       validation of arguments, for the instance of Tools
Settings                         dialog, file, environment, client of a run
  |-- Language                   texts and their copies               --implements--> Settings
MCChat, MCEngine, MCSession, MCStream, MCTools, MCSettings, MCWorkspace   instances for TLC
ChatProofs, EngineProofs, SessionProofs, SubprocessProofs, StreamParserProofs,
ToolsProofs, SettingsProofs, WorkspaceProofs                              theorems
```

`ChatViewModel` is the composition: UI thread, worker, engine (at the level of
detail the chat can observe), store, settings and approval in one state machine.
`AgentEngine`, `SessionStore`, `Subprocess` and `StreamParser` open up what it
treats as one step, and `Tools` what `AgentEngine` treats as an outcome. All theorems
are in modules of their own. Only `JsonSchema` declares a RECURSIVE operator (a schema
is a tree), and no theorem's module reaches it: `Tools` takes the validation as the
constant `Accepts`, `MCTools` gives it the one of `JsonSchema`, and what is proved holds
for any validation. Elsewhere sets, functions, folds and quantifiers say what the loops
of the code compute.

Done, in this order: the log, the chat with its properties, the engine, the two
abstract specifications, the store, the processes, the stream parser, the proofs
beside them, the tools, the settings, the workspace with the registry of background
processes, the sessions panel, and the language.

Done behind that: the proofs about the modes of the chat and the step simulation of
`TurnTaking`, the safety of the stream parser, the tools and the list of models; then the
chat as it is, with every control enabled at any time and exceptions only where a property
needs them, null contents and repeated openings in streams, stale closures in the workspace,
and the exit codes of background processes.

Planned, in this order:

1. **Termination arguments**: liveness is out of the prover's reach, but that every step of
   a turn, of a call and of a change of workspace lowers a measure is an action property.
2. **Models**: writes that fail in the file tools, session ids handed out again by a clock
   that was set back, the projection of a trace in the trajectory module.

Runs and properties are few on purpose: new components replace shallow
properties where they overlap, and share a run where one composition asks the
question.

## 3. Model and code

### MessageLog

A message keeps its role, the ids of its calls and the id it answers; texts are
left out. `home`, the session a message belongs to, is a ghost. `Complete`,
`Keeps` and `Repair` state what `remove_incomplete_tool_groups`
(`core/agent/agent.cpp:25-74`) computes: an assistant message with calls stays
exactly if the tool messages right behind it answer its calls one to one, and
every other tool message goes. `Cut` and `Compacted` are the arithmetic of
`maybe_compact` (`chat_view_model.cpp:270-320`), with its single `++cut`.

### ChatViewModel

| Model | Code |
|---|---|
| `uiPc` | what the UI thread is executing; "send", "clickSend", "compact", "stop" and "quit" are its joins, "prompt" the modal approval |
| `wpc` | the worker: one value per position of `AgentEngine::run` the chat can observe |
| `queue` | closures posted by `post_to_ui`, in order |
| `stopFlag`, `running`, `compacting`, `busy`, `dirty`, `skillLoaded` | the members of the same meaning |
| `streamRow`, `lastRow`, `streamText` | `streaming_row_`, the last row of `messages`, whose text is on display |
| `answer` | the promise of `on_approval` |
| `current`, `history`, `files`, `live`, `fresh` | the session store as the chat uses it |
| `client`, `epoch`, `fullAccess` | the engine's client (by the settings it was built from), the settings and workspace access in the environment |
| `wskills` | the calls of the batch in execution that loaded a skill; `RecordResult` marks them behind the batch, as `on_tool_call` does |
| `sent`, `settled`, `needed`, `skillRun`, `skillRound`, `untimely` | ghosts: a skill counts as loaded when its call was executed, not when it was marked |

Actions: `BeginRun` ... `Summarize` are the worker, `Deliver*` the closures,
`PressEnter` ... `SaveSettings` the user, and `StartRun`, `EndStop`, `EndQuit`,
`StartCompaction`, `AnswerPrompt` the second half of an operation that blocked in
a join or in a dialog. A user event may overtake queued closures, because the
event loop orders neither.

Three parameters choose the environment. `Ops` is what the user does and `Faults` how a run
fails. No control is ever disabled, as in the program, so the user may do anything at any time
that `send`, `set_workspace` and the store themselves accept. `untimely` records the three
events that the program is not prepared for: "stop" (the user stops a run or closes the
window), "roam" (the user changes sessions while a thread is at work or a closure is to be
delivered), "report" (a run reports an error before it throws it, as a run that is asked for
tools in its last round is bound to). Each comes at most once, and `Mixtures` bounds which of
them come together. Properties that some of these events break say so themselves
(`LogOwnership`, `WorkspaceStill`, `StreamRow`, `SummaryFits`, `TakesTurns`), and speak of
every behaviour up to the event and of every other event meanwhile.

### AgentEngine

`pc` is the position in `run`; `next` is the atomic counter of the pool, `at` the
index each thread executes (thread 0 is the thread of `run`), `stage` how far
`execute_one` is with each call. Replies, outcomes of tools and answers of the user
are nondeterministic. `ToolLoop` is the abstract promise to the owner of the log: it
is repaired once and then grows by whole exchanges only. The refinement mapping
shows the log without the group in progress until its last output is recorded.

### SessionStore

An operation is one step up to the truncation of the file it writes and one from
there, which is where a crash (`Crash`), a full disk (`WriteFails`) or an exception
of the serializer (`SaveThrows`) can come in. A message stands for a whole turn.
`said`, `born`, `hit` and `gone` are ghosts: the true conversation, the true creation
time, the files a fault ever hit, the deleted sessions. Files that do not parse are
skipped by `list`, as in the code. `Times` lets the clock stand still or go back.

### SessionPanel

`rows` and `shown` are the properties of `SessionListVm`, `chosen` the highlighted row of
`MainWindow`. A step of the panel is a step of the store with what its listeners do:
`create_session`, `switch_session` and `delete_session` tell them at their end (`Emits`,
`Operated`), `persist_current` does not. `Clicked` highlights a row before the store hears
of the click, as the widget does; `Refresh` assigns `current_id` before `sessions`, and
paints only if the list changed, which with the same ids it may or may not have (titles
are not modelled).

### Subprocess

`shell`, `child`, `pipe`, `fd` and `code` are the operating system; `reader`,
`carried` and `buffer` the reader thread; `pc`, `running`, `exitCode`, `closed`,
`timedOut` and `report` the caller. The reader's `read` and its append are separate
steps, and so are `bg_running`, the signal, the close and the join. The `child`
stands for every process the shell leaves behind with the pipe in its hands. This
is the POSIX side of the code.

### StreamParser

`phase` is what `exchange_task` awaits: the resolution of the name, a connection to one
endpoint after the other, TLS, the head of the response, a chunk of its body. Every step
may fail, by itself or because the deadline passed (`GiveUp`). `whole` says whether the
caller is `complete`, which parses the body at its end, or `complete_stream`, which parses
lines as they come.

The provider chooses the status, the form of arguments (deltas or growing snapshots), the
order of fragments, noise lines, which chunks say `"content": null`, and how the reply ends
(finish_reason, `[DONE]`, both, or a broken connection, which the client may notice or take
for the end). `muted` records the calls that a null content touched. A line travels as two
halves, so that every cut between and inside lines occurs. `Merged` is the three-way test of
the code (`llm_client.cpp:422-432`).

### Tools, ToolEffects, SkillCatalog, JsonSchema

`ToolEffects` says what one call does to files and todo list and what it returns, as
functions: the schema it registered (`SchemaOf`), the place a path resolves to, the
caps, the errors. `Accepts(args, schema)` is the validation of `ToolRegistry::run`, a
constant here; `JsonSchema` translates `validate_impl` for the schemas in use. `Tools` runs
calls in the steps other threads can come between: `edit_file` reads (`CheckEdit`),
truncates and fills, `todo_add` takes a snapshot and replaces the list, a replaced list is
announced behind the unlock (`Notify`) and the panel redrawn later (`RefreshTodo`).
`promised` is a ghost: what the calls taken so far do one after the other, by `ToolEffects`,
in the order in which the counter hands them out, which is the order of the model.
`Discover` is one turn of the loops of `discover_skills`, and `SkillCatalog` keeps of a
SKILL.md what `parse_skill` decides on. Texts that tools look into are sequences of words;
paths are inside or outside the workspace or in no directory.

### Settings

`vm` are the properties of `SettingsVm`, `env` the environment, `file` settings.json:
`sound` if it parses and every field has its type, since `load` takes all fields or none.
`BeginSave` goes up to the truncation; from there the save ends, fails silently
(`WriteFails`) or is cut off (`End`). `Launch` is constructor and `load`; `Run` builds the
client (`create_llm_client`, the constructor with its choice of a key, `parse_endpoint`)
and takes the prompt as `send` does. Theme, streaming and the enter key pass through like
the language, and are left out. The presets of prompts that come with the program are named
by the language they are written in, because the view model reads its default prompt before
any language is set.

### Language

`files` are the tables of texts, `cache` the copy of `AppText`, `labels` the text properties
of the settings' view model, `window` what `apply_language` writes itself, `tool` the text of
the workspace button, which `update_workspace` writes if it does not return early
(`UpdateTool`, with the ghost `refused`), and `button` the one of the model. `Found` is the
look-up: the language, then the default language, then the placeholder. `SaveTexts` is the
end of `SettingsVm::save`: the language is set, its observers refresh the two copies at
once and put `apply_language` into the event queue (`queued`), then `settings_saved` makes
the window paint. `ApplyQueued` is the queued one. Three kinds of texts are written
elsewhere and not modelled: the name of the program (once, by the constructor), rows and
phases (when they happen), and the tooltip of the send button (whose writer ends with the
constructor, section 5).

### Workspace

| Model | Code |
|---|---|
| `window`, `engine`, `env`, `saved` | `workspace_root_` and `ws_level_` of `MainWindow`; `workspace_root_` and `workspace_access_` of `AgentEngine`; `ARIA_WORKSPACE_ROOT` and `_WRITE`; QSettings |
| `pc`, `target` | `update_workspace` on the UI thread: it stops processes ("stopping"), then the engine looks at the directory again ("accepting") |
| `procs`, `handle` | `ProcRegistry` |
| `forked` | the process of `bg_start` before it is registered under the mutex |
| `joining` | the reader that `bg_close` waits for |
| `running`, `ends` | `running_` or `compacting_`, and the closures that will clear it, of whatever run |
| `job`, `ctx` | the worker, and the workspace its batch of tools was given |
| `dirs` | which paths are directories; one of them comes and goes |
| `strays` | ghost: processes dropped from the registry whose shell still runs |
| `late` | ghost: handles registered by a run behind a closure of an earlier run, which cleared `running_` |

Access is 0 read only, 1 workspace write, 2 full access; QSettings may hold a number
outside. The mutex of the registry is a guard: while the UI thread is at "stopping" no
tool registers or kills, and the other way round. A process is reduced to what a kill needs
to know: whether its shell runs and writes to the pipe, and whether a child keeps the pipe.
The join of a worker in `send` is the guard `job = "none"`. `EndRun` posts one closure, or two
if the error was reported before it was thrown; `Stop` clears `running_` and leaves them
posted; and `Finalize` consumes one without asking whose it is, as the code does. So a
change of workspace may come in the middle of a run, whose worker then reads the members
that the UI thread assigns (`Readable`: the old or the new value of each).

## 4. The runs

The eight passing runs finish in four minutes each, most in less than one, with two workers.

| Run | Distinct states | Bounds |
|---|---|---|
| `chat` | 1,192,260 | two sessions, two messages, two rounds, a skill followed by a dangerous call, one save of the settings, compaction from six messages on; every operation and failure, at most one kind of untimely event in a behaviour |
| `engine_turn` | 36,784 | two rounds, replies with one to three calls, pool of two, four logs (clean, output without call, call without output, complete) |
| `session_store` | 368,209 | three ids (symmetric), two turns, two faults, two clock values, with the panel |
| `process` | 56,308 | three chunks, a pipe of two, two reads, both modes |
| `stream` | 6,903,716 | two endpoints, no call to two calls, with and without a repeated opening, two text deltas, one line of noise, four half lines under way |
| `tools` | 84,437 | two batches out of eight, pool of two, one change of access or of a skill's directory, four arrangements of skills |
| `settings` | 191,792 | three launches, three saves, three environments, four first files, four forms, installations with and without all texts |
| `workspace` | 1,417,876 | three directories, two launches, two changes, two handles per launch, two closures under way, three first QSettings |

**`chat`**, whatever the user does and however runs fail: settings reach the run that
should use them (`SettingsReachRun`), the client is never dropped under its user
(`ClientKept`), a dangerous call runs unasked only under Full Access and never in a round
behind the one that loaded a skill (`SkillAsks`), a question is asked once and reaches
somebody (`OneQuestion`), the log is newer than its file only while a run or its outcome is
under way, and never once the window is closed (`LogSaved`).

Until something untimely happens: messages stay in their session unless the user roams
(`LogOwnership`); until a run is stopped or reports an error and throws, the access mode
keeps still under a run and a summary (`WorkspaceStill`), and messages are taken one at a
time, with exactly one outcome each (`TakesTurns`, the refinement of `TurnTaking`); and if,
besides, nobody roams, the streaming row is where the code looks for it and shows the last
message's text (`StreamRow`) and a summary replaces what it was made from (`SummaryFits`).
None of these exceptions can be dropped. With two messages an untimely event can come in
one run and do harm in the next; six messages make a compaction possible behind each of
them; two rounds give a skill a round behind its own. That at most one kind of untimely
event comes in a behaviour is a bound (`MCOneKind`); the theorems of section
6 hold for any mixture.
The system may stop here, in the deadlock of section 5, so deadlock is not checked.

**`engine_turn`**: `Barrier` (an exclusive tool alone, approvals on the thread of `run`),
`EachCallOnce`, `WellFormedOutside` (what the model is sent and the caller gets back, on
every exit), `TurnEnds` and the refinement `ImplementsToolLoop`, which includes the order of
results in log and trace. Two rounds make the ids of one round meet those of another; three
calls on two threads make one thread take a second call.

**`session_store`**: `NothingForgotten`, `CreatedStable`, `LogsApart` (nor does a save bring
a deleted session back), and `SidebarCurrent` of the panel. Two faults are enough for a
session to be hit while another one is still damaged; three ids for a switch between two
with a third to fall back on.

**`process`**: `KillsOwn` (no signal goes to a stranger, and a kill leaves no shell that
kept its output), `OutputOnce`, `CallReturns`, and `CodeTold`: the exit code told is the
shell's if somebody waited for it, and 0 in the one other case, which contradicts
`subprocess.hpp:41` (section 5). The pipe is smaller
than the output, so that the writer blocks; two reads make the second one meet what
the first one left.

**`stream`**: `CallsWhole` and `NothingMissing`. The provider may send a null content in any
chunk, and replies repeat the opening of their arguments, so both properties name what the
code makes of them: a call is mistaken if a chunk of its own said `"content": null`, where
`get<std::string>()` throws and the chunk is dropped (`llm_client.cpp:399`), or if it comes
in deltas one of which repeats the opening (425-429); a null content in the chunk that
finishes the calls loses them all unless `[DONE]` follows; and a break that looks like the
end of the body is taken for it, because nothing asks whether the reply ended (471-479).
Every other call, and every text, arrives whole. Without each of these exceptions its
property is violated. Two calls show that a mistaken one does no harm to the other.

**`tools`**: `InTurn`, `PanelCurrent`, `SkillsAsAnnounced`. Every batch exists for one way to
disturb another call: two additions, an edit behind a write, errors between successes,
readers side by side. Two batches let the second meet what the first one left.

**`settings`**: `RunAsShown`, `SettingsSurvive`, and `TextsCurrent` of the language, over
files of an old version, with doubles, mistyped or truncated, and forms without a key or with
an unusable URL. `TextsCurrent` excepts the button of the workspace when `update_workspace`
came last and returned early, and is violated without that. Three launches let a crash come
between a save and a good one, or a language come, go and come back while an older application
of it is still queued.

**`workspace`**: `OneWorkspace`, `ProcessesOfWorkspace`, `ProcessesKept`, `ChangeReturns`. Three
directories are the project's, the one the program started in and one that comes and goes,
so that every fallback is taken and every change can fail half-way. Two handles let a kill
meet another process and a stop have more than one to wait for. Two launches let QSettings
written by one decide the other. `ProcessesOfWorkspace` excepts the processes in `late`: a
closure of an earlier run, stopped or failed with an error reported twice, clears `running_`
under the next one, the workspace changes in the middle of that run, and what it registers
behind the closure stays in the old one. Without the exception the property is violated.
Two closures are what one failed run posts.

Every property of a passing run has a mutant: a plausible bug of the code, written
before the definition it replaces and marked "Mutant:", under which TLC finds the
property violated in the same run.

### Fairness

Liveness is claimed only where the scheduling justifies it.

- Chat: weak fairness of the worker, of delivery and of `Resume`. The operating system
  runs the worker, the event loop goes on delivering, and the user answers a modal
  dialog. Nothing is assumed of any other user event.
- Engine: weak fairness of `run` and of each thread. Requests end because the transport
  has timeouts; tools are assumed to return.
- Process: weak fairness of the reader, of the caller inside a call, of a signal's
  arrival and of time. No process is assumed to end by itself, and the model is not
  assumed to call another tool.
- Workspace: weak fairness of the UI thread, and of a join whose reader has no writer left.
  No process is assumed to end by itself or to close its output.

## 5. Code and documentation disagree

Each of these is a run that must be violated, with one property that states what a
comment or header of the repository says.

| Run | Said | Shown |
|---|---|---|
| `chat_stop_returns` | the send button doubles as stop while busy (`main_window.cpp:624`) | `stop` joins on the UI thread a worker that waits for an approval the UI thread should give: neither goes on. It needs one message, because the click that sends also reaches the stop slot |
| `compact_pair` | never split a call / result pair (`chat_view_model.cpp:274-275`) | with two results behind one message the cut moves past the first one only |
| `session_mixed` | each session is a file with its full message history (`session_store.hpp:7-9`), and the window's subscriptions live as long as the window (`main_window.hpp:106`) | the subscription to `busy` ends with the constructor (`main_window.cpp:585-606`), so the list of sessions is never disabled; after a switch under a run the worker goes on writing into the other session's log |
| `skill_waiver` | Full Access never treats a loaded skill as approval for dangerous actions (`chat_view_model.cpp:189-190`) | the mark is set when the whole batch was executed (`agent.cpp:262-272`): a dangerous call behind `use_skill` in the same batch runs unasked |

Seen while modelling, without a run of its own:

- `derive_title` cuts the first user text after 24 bytes (`session_store.cpp:190`), maybe
  inside a UTF-8 character; `dump` then throws when the file is truncated already, and
  nothing catches it. `SaveThrows` is this step; `NothingForgotten` states the exception.
- The localized prompt of `chat_view_model.cpp:117` is a fallback that is hardly ever
  used: `SettingsVm` takes the prompt in the default language and `load` puts it into the
  environment at start-up, so that only an empty saved prompt leads there.
- Two `read_output` calls for one process in one batch run side by side, and may each
  get the output the other one asked for first.
- `todo_set` counts the items of a vector it has moved from (`todo_tools.cpp:33`).
- `subprocess.hpp:21-22` says that a timeout kills the process tree. The signal
  reaches the shell only; a child that keeps the pipe holds `run_sync` in its join.
  `CallReturns` states the exception.
- Contrary to `subprocess.hpp:41` ("Exit code (valid only when not running)") the code of a
  background process that ends its output first is told as 0, whatever it returned: the
  reader clears `running` (`subprocess.cpp:230`) and nobody waits for the process any more
  (296). `CodeTold` states this.
- Argument deltas and snapshots are both supported (`llm_client.cpp:422-424`), told apart by
  their letters: a delta that the arguments so far begin with is taken for an old snapshot
  and dropped (427), one that begins with them replaces them (425). A chunk with
  `"content": null` is dropped with whatever else it says (399), and half a reply behind a
  break in a body without a length passes for a whole one (471-479). `CallsWhole` and
  `NothingMissing` state these exceptions.
- The flag `stop_` is back to false before any closure could look at it (theorem
  `ChatStopUnseen`), so the closures of a stopped run act on the state of the next one. They
  clear `running_`, `set_workspace` then refuses nothing, against "Call only while no run is
  active" (`agent.hpp:78`), and assigns `workspace_root_` while the worker may be copying it.
  `ProcessesOfWorkspace` and `WorkspaceStill` state these exceptions. By then the worker may
  hold the mutex of the registry in a `kill_process` of its own, and hold the change up.
- `set_workspace` with another directory or access mode stops all background processes on
  the UI thread, under the mutex of the registry, and may wait there for a child that keeps
  a pipe. It does so before the engine accepts the directory: if that throws, the processes
  are gone and the workspace is the old one.
- `main.cpp:83` overwrites an `ARIA_WORKSPACE_ROOT` the user set. If the saved directory is
  gone, the window falls back to the current directory with the saved access, Full Access
  included. Background processes are not stopped when the program ends.
- A new session in the middle of a summary leaves the compaction an empty log:
  `history.front()` (`chat_view_model.cpp:317`) is undefined then, and the model lets the
  program end (`DeliverSummary`). A new session under a run drops what the run has said so
  far, because `create_session` does not save (`session_store.cpp:125`).
- A change of workspace while a summary is made is dropped without a word, and while the
  chat is busy the button of the workspace keeps the old language, so does the name of the
  program (`main_window.cpp:329`) at any time.
- The titles in the list are those of the last refresh: `persist_current`, which makes the
  first title of a session, tells nobody. After a new session whose file cannot be written
  the highlight stays on the old row (`SidebarCurrent` states the exception).
- The default system prompt is always the one in the default language, because the settings'
  view model is made before a language is loaded; the tooltip of the send button stays
  what it was at the start, its writer being the subscription that ends.
- On Windows a path spelled with the other slash counts as another workspace, so that each
  save of the settings would stop all background processes.

## 6. What is proved

Eight proof modules, more than 9,000 proof obligations, all checked. Every safety property of the
passing runs is a theorem. Assumptions are the named ones on the constants
(`ParameterAssumption`, `EngineAssumption`, `StoreAssumption`, `SubprocessAssumption`,
`StreamAssumption`, `PathAssumption`, `ToolsAssumption`, `SettingsAssumption`,
`InstallationsAssumption`, `WorkspaceAssumption`), which TLC evaluates in the runs, and
one that a single theorem states:

| Hypothesis | Theorems | Why |
|---|---|---|
| `IdsGiven` | `EngineWellFormed` | the API gives the calls of one reply distinct ids, none in the form that `run` makes |

Unlike the runs, the theorems hold for any number of sessions, messages, rounds, calls,
threads, endpoints, lines, faults and chunks, and for any choice of `Ops`, `Faults`,
`Replies`, `Logs`, `Batches`, `Disks`, `FirstFiles`, `Forms`.

- **ChatProofs.** Typing (`ChatTypeOK`), one lemma per group of actions, then each invariant
  on top of it. `StopUnseen` needs `StopInside`: the flag is set only between the two halves
  of `stop` and of the destructor. `SettingsReachRun` needs that the settings in force at
  the last send are not newer than the environment, and that a clean mark means that the
  cached client is recent enough (`SettingsInv`). `SkillAsks` needs that a run which
  loaded a skill is marked, or did so in the batch at hand and has yet to report it
  (`SkillInv`). `LogSaved` is its own invariant but for the ids of sessions (`PlaceInv`).
  `OneQuestion` is split into the dialog, the pending question and
  the absence of stray questions; its argument is that the worker posts nothing while it
  waits, so its question stays last in the queue. `ClientKept` follows from the join in
  front of every place that drops the client, the first conjunct of `LogSaved`, `QuitPersists`,
  from the join in front of the last save.

  `LogOwnership` strengthens to `HomeInv`, which also types by session what a worker is about
  to write and what is summarized (`OwnInv`); it makes no use of any guard, because a user
  who does not roam changes sessions only when no worker and no closure is left.

  The last part is about the orderly chat, in which no run was stopped and none reported an
  error before it threw it; the user may do anything else at any time. It is in one of five
  modes: `Idle`, `AtWork`, `Cutting` (the run has settled and `maybe_compact` waits for its
  thread), `Summing`, `Crashed` (a summary arrived in an empty log). Each mode says what the
  UI, the worker, the queue and the flags look like together; at work, every closure in the
  queue is of the current run, and only the last one, of a worker that has ended, ends it.
  `OrderInv` adds what the row shows if nobody roams (`RowInv`) and that a run which works on
  tools in its last round is a reported error already (`ReportInv`). `WorkspaceStill`,
  `StreamRow` and `SummaryFits` follow, and `ChatTakesTurns`: each step of the chat is a step
  of `TurnTaking` or a stutter, also behind the order, where `TurnTaking` only counts.
  Compaction needs `CutBounds` and `CompactedType`, which bound the cut and type what is left
  of the log.
- **EngineProofs**, first part: the operators on the log. `Repair` returns a log of messages
  (`RepairType`), and any two messages of it come from two kept messages in the same order
  (`RepairKeepsOrder`). The work is in `NthMember`: the k-th smallest member of a finite set
  of naturals exists, by cardinality and the least-number principle. `RepairWellFormed`: the
  result is well formed for any log. `NthEnumerates` makes the k-th member a strictly growing
  enumeration of the kept positions, and then the outputs behind a kept call in the repaired
  log are exactly the images of the outputs behind it in the old one: between two neighbours
  of a group the repair drops nothing but other outputs, and an output that comes behind
  another call belongs to that call. `AppendWellFormed` and `GroupWellFormed` say what may
  follow a well formed log.
- **EngineProofs**, second part: a turn. The batch invariant `BatchInv` relates the counter,
  what each thread holds and the stage of each call: an index the counter has passed is held
  by exactly one thread or settled. `EachCallOnce` is its consequence; `Barrier` uses that a
  batch with an exclusive tool has thread 0 as its only thread and that gated tools are
  exclusive. While a batch is open the log is not well formed; `Shape` says what it is then:
  the `base` messages of before, the message with the calls, and the outputs of the first
  `index - 1` calls, in order, with as many records at the end of the trace. From it follow
  two theorems. `EngineWellFormed` is about every exit of a turn: the `base` messages are well
  formed and the calls distinct (`LogInv`), and `GroupWellFormed` closes the batch.
  `EngineImplementsToolLoop` is the step simulation: what `NextRound` makes visible is one
  exchange (`RoundIsExchange`), accepting a reply and recording a result show nothing
  (`AcceptIsHidden`, `RecordIsHidden`), the ends of a turn close the loop (`EndIsClose`). It
  needs no distinct ids, and `round < MaxRounds` in every round bounds the exchanges.
- **SessionProofs**, the store. `IInv` adds to the properties what is true in the middle of a
  save: the current session exists while the process works (`Alive`), ids not handed out
  have no file (`Untouched`), the log in memory is the conversation (`Held`), the stamp
  about to be written is the creation time (`Stamped`), and the session to switch to is
  intact (`Switchable`). None of the properties is inductive without them: a save writes
  what memory holds, so the file is right after it only if memory and stamp were right
  before. `StoreTypeOK`, `StoreNothingForgotten`, `StoreCreatedStable`
  and `StoreLogsApart` follow.
- **SessionProofs**, the panel. `PanelImplementsStore`: a step of the panel is a step of the
  store, so that all of the above holds beside it. `PanelSidebarCurrent` needs that the
  highlight is already on the session a switch will reach (`HighlightHeld`) and that a session
  which becomes current without a click changes the list, so that the list is painted
  (`WillChange`).
- **SubprocessProofs.** `IInv` says that a process not known to have ended was not waited for
  (`Unreaped`, `Known`), that the descriptor is open until the close (`Open`), and that
  what was taken, buffered, carried and still in the pipe is, one behind the other, all
  that was written (`Accounted`). `ProcessKillsOwn` and `ProcessOutputOnce` follow.
  `ProcessCodeTold` needs `Coded`, which says the same of the exit code kept, and that a
  report is made behind the end of the process.
- **StreamParserProofs.** `ParserInv` speaks of points of a reply: the letters of each call,
  the text deltas, and whether the calls are over. Between client and provider lies a sequence
  of points, one more than there are lines under way (`Tracks`): the client is at the first
  (`Heard`), the provider at the last (`Told`), and each line makes its point from the one
  before (`Follows`). A line sent adds a point, a line handled drops one, and a half line does
  neither. That the accumulator at a point holds the arguments up to there is `MergeGrows`:
  for either form of fragments the three-way test of the code yields the longer prefix, unless
  a delta repeats the opening. A point also holds which calls a null content has touched, so
  that the theorems speak of every call it has not. Collecting the accumulator yields the
  calls in the order of their indices. Whole replies have a short invariant of their own
  (`WholeInv`).
- **ToolsProofs.** `ToolsInv` has four parts. `TurnInv`: what the call of a thread still has to
  do is what was promised to it (`Due`), at each of its stages. A batch with a tool that
  changes anything is one thread's, so nothing changes between its stages; in any other batch
  nothing changes at all (`EffectLooks`). `CatalogInv`: the catalogue holds, for each name, the
  first of the places visited so far that define it. `SkillInv`: what `use_skill` was
  promised is what the catalogue says. `PanelInv`: statuses are normalized on every path into
  the list, and the panel is current unless an announcement is on its way. `ToolsInTurn`,
  `ToolsPanelCurrent` and `ToolsSkillsAsAnnounced` follow.
- **WorkspaceProofs.** `IInv` adds to typing and to `OneWorkspace` where the program may be
  when it changes its workspace (`Outside`, `Departing`) and that a process which was killed
  and whose shell runs gave its output away (`Registered`). `WorkspaceOne` and
  `WorkspaceProcessesKept` follow. `WorkspaceProcesses` needs `Placed`: while
  `running_` is set, a batch works in the engine's workspace and what it forked runs there,
  and when the engine is about to accept another one no process is left but those in `late`.
- **SettingsProofs.** `SettingsRunAsShown` needs that the environment at rest is what the
  view model shows, that `DEEPSEEK_API_KEY` and `OPENAI_API_KEY` are as at the start
  (`Injected`), and that the view model is never without URL and model (`Shown`).
  `SettingsSurviveAlways` needs `Stored`: behind a save that no fault hit the file holds the
  values saved, and these are `Whole`. Loading them changes nothing (`WholeOverlay`,
  `WholeStays`) because normalizing a list that is normal does not (`NormalStays`), and
  `normalize_models` makes a normal list of any (`NormalizedNormal`). `LanguageImplementsSettings`
  carries all this over to the settings with their texts, and `LanguageTextsCurrent` shows
  that at rest all copies of texts agree, the button of the workspace unless it was left
  alone, and the menu of models is whole: `cache` and
  `labels` follow the language at any time (`Copies`).

The inductive invariants of the chat, the engine, the store, the panel, the processes, the
tools, the workspace and the settings hold in TLC's runs, too. The parser's quantifies over
sequences of points, which TLC cannot enumerate; its consequences are checked there.

Model-checked only: liveness (`TurnEnds`, `CallReturns`, `ChangeReturns`, and the fair part of
`TakesTurns`), because fairness and ENABLED are out of this prover's reach; and `validate_impl`
in `JsonSchema`, which is recursion over data and which the theorems take as any `Accepts`.

## 7. Limits

Not modelled, and why:

- Texts, names, JSON and arguments, except where a property depends on them (the title
  of a session, the letters of streamed arguments).
- The Windows branches of `subprocess.cpp`, failures of `pipe`, `fork` and `setenv`, and
  reuse of descriptor numbers.
- Reuse of session ids after the clock was set back over a restart: ids in the model
  are handed out once.
- Tools: writes that fail, links inside paths, permissions, the syntax of the front
  matter, calculator and current_time (pure).
- `run_sync` without a timeout: its only caller always passes one.
- Workspace: links and spellings of a path (paths are canonical), and the label that shows it.
- Sessions panel: titles and dates. Language: what a text says, the escapes of XML, and the
  texts that apply_language does not write.
- Settings: two programs at once on one file; getenv on the worker beside setenv.
- The building of requests and the transport library (Mira).
- `vector<bool> succeeded` (`agent.cpp:205`), written by several threads at once.
- Module wiring, the projection of a trace, themes, Markdown rendering, the layout of the
  settings dialog, build scripts and the smoke test: no state that changes, or no logic.

External behaviour is modelled from how the code uses it: the operating system's
processes and pipes, the provider and the network of a streamed reply, and the observable
list whose `replace_at` on an empty list is left to it.

## 8. Running it

```
tlc -config chat.cfg MCChat
tlc -config engine_turn.cfg MCEngine
tlc -config session_store.cfg MCSession
tlc -config process.cfg Subprocess
tlc -config stream.cfg MCStream
tlc -config tools.cfg MCTools
tlc -config settings.cfg MCSettings
tlc -config workspace.cfg MCWorkspace
tlapm ChatProofs.tla         # and the other seven modules of theorems
```

`PROJECT.json` lists every run with its module and properties, the mutants, the
theorems, and for every definition the lines of the code it models.
