--------------------------- MODULE ChatViewModel ---------------------------
(***************************************************************************)
(* The chat feature: ChatViewModel (modules/chat/viewmodel) on the UI      *)
(* thread, the worker thread it starts for a run of the engine or for a    *)
(* compaction, the dispatcher queue through which the worker reaches the   *)
(* UI, and the view's buttons (modules/app/platforms/qt/main_window.cpp).  *)
(*                                                                         *)
(* Two threads interleave.  The UI thread is an event loop: it executes    *)
(* one posted closure or one user operation at a time, and it BLOCKS in    *)
(* std::thread::join inside send, stop, maybe_compact and the destructor.  *)
(* The worker executes AgentEngine::run in small steps; it BLOCKS in       *)
(* future::get while it waits for an approval.  uiPc and wpc say where     *)
(* each of them is.                                                        *)
(*                                                                         *)
(* Abstractions: texts are left out (streamText keeps only whose text is   *)
(* shown); phase_text is wording; of the list `messages` only its last row *)
(* matters to the code, which always addresses it as size() - 1.           *)
(***************************************************************************)
EXTENDS MessageLog

CONSTANTS
  Sessions,     \* session ids
  Ops,          \* what the user does: see UserOps
  Faults,       \* how a run may fail: see RunFaults
  Batches,      \* the tool batches a model may answer with
  Mixtures,     \* bound: the untimely events that may come together
  MaxSends,     \* bound: messages the user sends
  MaxSaves,     \* bound: times the settings are saved
  MaxRounds,    \* AgentEngine::Config::max_tool_rounds
  Threshold,    \* kThreshold of maybe_compact
  KeepTail      \* kKeepTail of maybe_compact

UserOps   == {"enter", "click", "session", "workspace", "settings", "quit"}
RunFaults == {"throw",    \* complete_stream throws
              "report"}   \* run calls on_error, then throws
UntimelyEvents ==
  {"stop",     \* the user stops a run or closes the window
   "roam",     \* the user changes sessions while a thread is at work
   "report"}   \* run reports an error before it throws
ToolKinds == {"plain", "danger", "skill"}   \* danger: requires_approval

ASSUME ParameterAssumption ==
  /\ Ops \subseteq UserOps
  /\ Faults \subseteq RunFaults
  /\ Sessions # {}
  /\ Mixtures \subseteq SUBSET UntimelyEvents
  /\ Batches \subseteq Seq(ToolKinds) \ {<< >>}
  /\ MaxSends \in Nat /\ MaxSaves \in Nat
  /\ MaxRounds \in Nat \ {0}
  /\ KeepTail \in Nat \ {0}
  /\ Threshold \in Nat /\ Threshold > KeepTail

VARIABLES
  \* UI thread
  uiPc,         \* what the UI thread is doing
  queue,        \* closures posted to the dispatcher, oldest first
  stopFlag,     \* stop_
  running,      \* running_
  compacting,   \* compacting_
  busy,         \* busy, the property the view observes
  dirty,        \* model_settings_dirty_
  skillLoaded,  \* skill_loaded_this_run_
  streamRow,    \* streaming_row_ is set
  lastRow,      \* last row of `messages`: none, streaming_row_ or another
  streamText,   \* streaming_text: the sends whose text it holds
  prefix,       \* what maybe_compact captured: the log up to its cut
  \* worker thread (worker_)
  wpc,          \* where the worker is; "none": no thread
  wround,       \* round of AgentEngine::run
  wcalls,       \* the batch in execution
  windex,       \* position in the batch
  wspoke,       \* this round produced text
  wskills,      \* succeeded: the calls of the batch that loaded a skill
  wprefix,      \* what the compaction worker summarizes
  whome,        \* the session the worker was started for
  answer,       \* the promise of the pending approval
  \* services and environment
  current,      \* SessionStore::current_id_
  history,      \* SessionStore::current_history_
  files,        \* the message log in each session's file
  live,         \* sessions that have a file
  fresh,        \* ids create() has not handed out
  client,       \* AgentEngine::client_: 0 or the settings it was built from
  epoch,        \* version of the settings in the environment
  fullAccess,   \* ARIA_WORKSPACE_WRITE is "2"
  \* ghosts
  sent,         \* messages accepted by send
  settled,      \* outcomes shown by finalize_success and finalize_error
  needed,       \* the settings in force when the last send was accepted
  skillRun,     \* the last send whose run loaded a skill
  skillRound,   \* the round in which it did so first
  untimely      \* the untimely events so far

flagVars     == <<stopFlag, running, compacting, busy, prefix>>
uiVars       == <<uiPc, flagVars>>
viewVars     == <<streamRow, lastRow, streamText>>
batchVars    == <<wcalls, windex, wskills>>
jobVars      == <<whome, wprefix>>
progressVars == <<wround, wspoke, batchVars, jobVars>>
workerVars   == <<wpc, progressVars>>
sessionVars  == <<current, files, live, fresh>>
storeVars    == <<history, sessionVars>>
clientVars   == <<dirty, client, epoch, needed>>
configVars   == <<clientVars, fullAccess>>
skillVars    == <<skillLoaded, skillRun, skillRound>>
countVars    == <<sent, settled>>
vars == <<uiVars, viewVars, workerVars, storeVars, configVars, skillVars,
          countVars, queue, answer, untimely>>

-----------------------------------------------------------------------------
Joins == {"send", "clickSend", "compact", "stop", "quit"}   \* blocked in join
UiPcs == Joins \cup {"loop", "prompt", "gone", "crashed"}

\* The worker is inside AgentEngine::run, where it uses engine and log.
EnginePcs == {"begin", "stream", "exec", "await", "record"}
WorkerPcs == EnginePcs \cup {"none", "throwing", "summarize", "exited"}
EngineRuns == wpc \in EnginePcs

\* worker_->joinable() and join() returns at once, or there is no thread.
Joinable == wpc \in {"none", "exited"}

ClosureOps == {"delta", "tool", "approve", "success", "error", "compacted"}
LogMessages == Messages(Sessions)
Closures == [op : ClosureOps, run : Nat, ok : BOOLEAN, home : Sessions,
             prefix : Seq(LogMessages)]

\* post_to_ui from the worker: the closure goes to the end of the queue.
Closure(op, ok) ==
  [op |-> op, run |-> sent, ok |-> ok, home |-> whome, prefix |-> wprefix]
Post(op) == queue' = Append(queue, Closure(op, TRUE))

\* An event that the program is not prepared for; bound: each at most once.
Untimely(event) ==
  /\ untimely' = untimely \cup {event}
  /\ event \notin untimely
  /\ untimely' \in Mixtures

\* run is going to report an error before it throws.
MayReport == "report" \in Faults /\ Untimely("report")

\* The user changes sessions; untimely as long as something is under way.
InFlight == ~Joinable \/ queue # << >>
Roam == IF InFlight THEN Untimely("roam") ELSE UNCHANGED untimely

-----------------------------------------------------------------------------
Init ==
  /\ uiPc = "loop" /\ queue = << >> /\ answer = "none"
  /\ stopFlag = FALSE /\ running = FALSE /\ compacting = FALSE /\ busy = FALSE
  /\ dirty = FALSE /\ skillLoaded = FALSE /\ skillRun = 0 /\ skillRound = 0
  /\ streamRow = FALSE /\ lastRow = "none" /\ streamText = {}
  /\ prefix = << >> /\ wprefix = << >>
  /\ wpc = "none" /\ wround = 0 /\ wcalls = << >> /\ windex = 1 /\ wspoke = FALSE
  /\ wskills = {} /\ untimely = {}
  /\ current = CHOOSE s \in Sessions : TRUE
  /\ whome = current
  /\ live = {current} /\ fresh = Sessions \ {current}
  /\ history = << >> /\ files = [s \in Sessions |-> << >>]
  /\ client = 0 /\ epoch = 1 /\ needed = 1
  /\ fullAccess \in BOOLEAN
  /\ sent = 0 /\ settled = 0

-----------------------------------------------------------------------------
(* The worker thread: AgentEngine::run with ChatViewModel's callbacks      *)

\* The worker works on the caller-owned log: current_history_ by reference.
Write(m) == history' = Append(history, m)

\* run starts by repairing the log; the first complete_stream creates the
\* client from the environment when there is none.
BeginRun ==
  /\ wpc = "begin"
  /\ wpc' = "stream"
  /\ history' = Repair(history)
  /\ client' = IF client = 0 THEN epoch ELSE client
  /\ UNCHANGED <<wround, wspoke, batchVars, skillVars, queue, answer>>

\* A text delta of the reply.
Speak ==
  /\ wpc = "stream" /\ ~wspoke
  /\ wspoke' = TRUE
  /\ Post("delta")
  /\ UNCHANGED <<wpc, wround, batchVars, history, client, skillVars, answer>>

LastRound == wround + 1 = MaxRounds

\* Tools asked for in the last round end in a report (ReportError).
ReportAhead == IF LastRound THEN MayReport ELSE UNCHANGED untimely

\* The reply asks for tools: the assistant message enters the log first.
AskTools(batch) ==
  /\ wpc = "stream"
  /\ ReportAhead
  /\ wpc' = "exec" /\ wcalls' = batch /\ windex' = 1 /\ wskills' = {}
  /\ Write(Message("assistant", [i \in DOMAIN batch |-> i], NoId, whome))
  /\ UNCHANGED <<wround, wspoke, client, skillVars, queue, answer>>

\* on_approval lets the call through without asking: Full Access, as long as
\* no skill was loaded in this run.
Waived == fullAccess /\ ~skillLoaded

\* use_skill at this position of the batch succeeded: the skill is loaded.
LoadSkill ==
  /\ wskills' = wskills \cup {windex}
  /\ skillRun' = sent
  /\ skillRound' = IF skillRun = sent THEN skillRound ELSE wround

\* A call that needs no answer of the user is executed.
ExecuteTool(succeeded) ==
  /\ wpc = "exec" /\ windex <= Len(wcalls)
  /\ wcalls[windex] = "danger" => Waived
  /\ windex' = windex + 1
  /\ IF wcalls[windex] = "skill" /\ succeeded THEN LoadSkill
     ELSE UNCHANGED <<wskills, skillRun, skillRound>>
  /\ UNCHANGED <<wpc, wround, wspoke, wcalls, history, client, skillLoaded,
                 queue, answer>>

\* on_approval posts the question and blocks for the answer.
AskApproval ==
  /\ wpc = "exec" /\ windex <= Len(wcalls)
  /\ wcalls[windex] = "danger" /\ ~Waived
  /\ wpc' = "await" /\ answer' = "pending"
  /\ Post("approve")
  /\ UNCHANGED <<wround, wspoke, batchVars, history, client, skillVars>>

\* future::get returns; the call is executed or recorded as denied.
TakeAnswer ==
  /\ wpc = "await" /\ answer \in {"yes", "no"}
  /\ wpc' = "exec" /\ windex' = windex + 1 /\ answer' = "none"
  /\ UNCHANGED <<wround, wspoke, wcalls, wskills, history, client, skillVars,
                 queue>>

\* Mutant: the results are counted from 0.
BatchDoneFromZero ==
  /\ wpc = "exec" /\ windex > Len(wcalls)
  /\ wpc' = "record" /\ windex' = 0
  /\ UNCHANGED <<wround, wspoke, wcalls, wskills, history, client, skillVars,
                 queue, answer>>

\* All calls of the batch ran: their results are reported in model order.
BatchDone ==
  /\ wpc = "exec" /\ windex > Len(wcalls)
  /\ wpc' = "record" /\ windex' = 1
  /\ UNCHANGED <<wround, wspoke, wcalls, wskills, history, client, skillVars,
                 queue, answer>>

\* Mutant: the mark is left to a closure that does not come.
SkillMarkLost == UNCHANGED skillLoaded

\* A skill was loaded in this run: marked by the worker, at once.
MarkSkill == skillLoaded' = (skillLoaded \/ windex \in wskills)

\* on_tool_call for one result, and the result's message in the log.
RecordResult ==
  /\ wpc = "record" /\ windex <= Len(wcalls)
  /\ windex' = windex + 1
  /\ MarkSkill
  /\ Post("tool")
  /\ Write(Message("tool", << >>, windex, whome))
  /\ UNCHANGED <<wpc, wround, wspoke, wcalls, wskills, client, skillRun,
                 skillRound, answer>>

\* Back to the model, while rounds are left.
NextRound ==
  /\ wpc = "record" /\ windex > Len(wcalls) /\ ~LastRound
  /\ wpc' = "stream" /\ wround' = wround + 1 /\ wspoke' = FALSE
  /\ UNCHANGED <<batchVars, history, client, skillVars, queue, answer>>

\* The reply is final: appended when there is text, and finalize_success
\* posted as the last thing the thread does.
Finish ==
  /\ wpc = "stream"
  /\ wpc' = "exited"
  /\ IF wspoke THEN Write(Message("assistant", << >>, NoId, whome))
               ELSE UNCHANGED history
  /\ Post("success")
  /\ UNCHANGED <<wround, wspoke, batchVars, client, skillVars, answer>>

\* complete_stream throws: no client, no network, a provider error.
ProviderFails ==
  /\ "throw" \in Faults
  /\ wpc = "stream"
  /\ wpc' = "throwing"
  /\ UNCHANGED <<wround, wspoke, batchVars, history, client, skillVars, queue,
                 answer>>

\* run reports the error through on_error first: an unknown tool in the
\* reply, or the last round ended with tools.
ReportError ==
  /\ \/ wpc = "stream" /\ MayReport
     \/ /\ wpc = "record" /\ windex > Len(wcalls) /\ LastRound
        /\ UNCHANGED untimely
  /\ wpc' = "throwing"
  /\ Post("error")
  /\ UNCHANGED <<wround, wspoke, batchVars, history, client, skillVars,
                 answer>>

\* Mutant: the exception ends the thread in silence.
CatchErrorSilently ==
  /\ wpc = "throwing"
  /\ wpc' = "exited"
  /\ UNCHANGED <<wround, wspoke, batchVars, history, client, skillVars, queue,
                 answer>>

\* The thread function catches the exception and posts finalize_error.
CatchError ==
  /\ wpc = "throwing"
  /\ wpc' = "exited"
  /\ Post("error")
  /\ UNCHANGED <<wround, wspoke, batchVars, history, client, skillVars,
                 answer>>

\* The compaction worker: AgentEngine::summarize succeeds with a text or not.
Summarize(ok) ==
  /\ wpc = "summarize"
  /\ wpc' = "exited"
  /\ client' = IF client = 0 THEN epoch ELSE client
  /\ queue' = Append(queue, Closure("compacted", ok))
  /\ UNCHANGED <<wround, wspoke, batchVars, history, skillVars, answer>>

WorkerStep ==
  \/ BeginRun \/ Speak
  \/ \E succeeded \in BOOLEAN : ExecuteTool(succeeded)
  \/ AskApproval \/ TakeAnswer \/ BatchDone \/ RecordResult
  \/ NextRound \/ Finish \/ ProviderFails \/ CatchError
  \/ \E ok \in BOOLEAN : Summarize(ok)

\* The worker writes the log, the client, the mark of a skill and the queue;
\* everything else belongs to the UI thread.
Worker ==
  /\ uiPc # "crashed"
  /\ \/ WorkerStep /\ UNCHANGED untimely
     \/ (\E batch \in Batches : AskTools(batch)) \/ ReportError
  /\ UNCHANGED <<uiVars, viewVars, sessionVars, jobVars, fullAccess, dirty,
                 epoch, needed, countVars>>

-----------------------------------------------------------------------------
(* The UI thread: closures posted by a worker                              *)

Delivers(op) ==
  /\ uiPc = "loop"
  /\ queue # << >> /\ Head(queue).op = op
  /\ queue' = Tail(queue)

\* messages.replace_at(size() - 1, streaming_row_); on an empty list the index
\* wraps around and the list, which is not in the repository, decides.
ReplaceLast(row) == IF lastRow = "none" THEN "none" ELSE row

\* The guard `if (stop_) return;` of the closures of a run.
UnlessStopped(shown) == IF stopFlag THEN UNCHANGED viewVars ELSE shown

\* on_text_delta's closure.
DeliverDelta ==
  /\ Delivers("delta")
  /\ UnlessStopped(
       /\ streamText' = streamText \cup {Head(queue).run}
       /\ lastRow' = IF streamRow THEN ReplaceLast("stream") ELSE lastRow
       /\ UNCHANGED streamRow)
  /\ UNCHANGED <<uiPc, running, compacting, busy, prefix, history, files,
                 settled>>

\* on_tool_call's closure: the streaming row gives way to the tool row, and a
\* new streaming row is opened below it.
DeliverTool ==
  /\ Delivers("tool")
  /\ UnlessStopped(
       /\ streamText' = {} /\ streamRow' = TRUE /\ lastRow' = "stream")
  /\ UNCHANGED <<uiPc, running, compacting, busy, prefix, history, files,
                 settled>>

\* on_approval's closure calls approval_ui, a modal dialog.
DeliverApprove ==
  /\ Delivers("approve")
  /\ uiPc' = "prompt"
  /\ UNCHANGED <<running, compacting, busy, prefix, viewVars, history, files,
                 settled>>

\* Mutant: the promise is not fulfilled by a refusal.
VerdictOfYes(yes) == IF yes THEN "yes" ELSE "pending"

\* The value of the promise.
Verdict(yes) == IF yes THEN "yes" ELSE "no"

\* The user answers the dialog and the closure fulfils the promise.
AnswerPrompt(yes) ==
  /\ uiPc = "prompt"
  /\ uiPc' = "loop"
  /\ answer' = Verdict(yes)
  /\ UNCHANGED <<flagVars, viewVars, workerVars, storeVars, configVars,
                 skillVars, countVars, queue>>

\* persist_current.
Persist == files' = [files EXCEPT ![current] = history]

\* Mutant: the system message is cut off, but not summarized.
CutWithoutSystem == SubSeq(history, 2, Cut(history, KeepTail))

\* What maybe_compact cuts off to be summarized.
CutOff == SubSeq(history, 1, Cut(history, KeepTail))

\* finalize_success; maybe_compact takes its cut before it joins.
DeliverSuccess ==
  /\ Delivers("success")
  /\ streamRow' = FALSE /\ streamText' = {}
  /\ lastRow' = IF streamRow THEN ReplaceLast("row") ELSE lastRow
  /\ running' = FALSE
  /\ settled' = settled + 1
  /\ Persist
  /\ IF Len(history) >= Threshold /\ Cut(history, KeepTail) > 1
     THEN /\ uiPc' = "compact"
          /\ prefix' = CutOff
          /\ UNCHANGED busy
     ELSE /\ busy' = (busy /\ compacting)
          /\ UNCHANGED <<uiPc, prefix>>
  /\ UNCHANGED <<compacting, history>>

\* maybe_compact after its join.
StartCompaction ==
  /\ uiPc = "compact" /\ Joinable
  /\ uiPc' = "loop"
  /\ compacting' = TRUE /\ busy' = TRUE
  /\ wpc' = "summarize" /\ whome' = current /\ wprefix' = prefix
  /\ UNCHANGED <<stopFlag, running, prefix, viewVars, wround, wspoke,
                 batchVars, storeVars, configVars, skillVars, countVars, queue,
                 answer>>

\* Mutant: an error leaves the row of the message open.
DeliverErrorRowOpen ==
  /\ Delivers("error")
  /\ streamText' = {} /\ lastRow' = "row"
  /\ running' = FALSE /\ busy' = FALSE
  /\ settled' = settled + 1
  /\ Persist
  /\ UNCHANGED <<uiPc, compacting, prefix, streamRow, history>>

\* Mutant: a failed run is not saved.
DeliverErrorUnsaved ==
  /\ Delivers("error")
  /\ streamRow' = FALSE /\ streamText' = {} /\ lastRow' = "row"
  /\ running' = FALSE /\ busy' = FALSE
  /\ settled' = settled + 1
  /\ UNCHANGED <<uiPc, compacting, prefix, history, files>>

\* finalize_error and the error bubble.
DeliverError ==
  /\ Delivers("error")
  /\ streamRow' = FALSE /\ streamText' = {}
  /\ lastRow' = IF streamRow THEN ReplaceLast("row") ELSE "row"
  /\ running' = FALSE /\ busy' = FALSE
  /\ settled' = settled + 1
  /\ Persist
  /\ UNCHANGED <<uiPc, compacting, prefix, history>>

\* reload_messages rebuilds the list from a log; it leaves streaming_row_.
Reload(log) ==
  /\ lastRow' = IF \E i \in DOMAIN log : log[i].role # "system" THEN "row" ELSE "none"
  /\ streamText' = {}
  /\ UNCHANGED streamRow

\* The compaction closure, when there is nothing to replace.
DeliverNoSummary ==
  /\ Delivers("compacted") /\ ~Head(queue).ok
  /\ compacting' = FALSE /\ busy' = FALSE
  /\ UNCHANGED <<uiPc, running, prefix, viewVars, history, files, settled>>

\* The compaction closure: whatever the current log is by now, as many messages
\* as were summarized give way to the note.  front() of an empty vector is undefined:
\* the process dies.
DeliverSummary ==
  /\ Delivers("compacted") /\ Head(queue).ok
  /\ compacting' = FALSE /\ busy' = FALSE
  /\ IF history = << >>
     THEN uiPc' = "crashed" /\ UNCHANGED <<viewVars, history, files>>
     ELSE LET note == Message("system", << >>, NoId, Head(queue).home)
              log  == Compacted(history, Len(Head(queue).prefix), note)
          IN  /\ history' = log
              /\ files' = [files EXCEPT ![current] = log]
              /\ Reload(log)
              /\ UNCHANGED uiPc
  /\ UNCHANGED <<running, prefix, settled>>

DeliverStep ==
  \/ DeliverDelta \/ DeliverTool \/ DeliverApprove \/ DeliverSuccess
  \/ DeliverError \/ DeliverNoSummary \/ DeliverSummary

\* No closure touches the worker, the settings or the choice of the session.
Deliver ==
  /\ DeliverStep
  /\ UNCHANGED <<workerVars, current, live, fresh, stopFlag, configVars,
                 skillVars, sent, answer, untimely>>

-----------------------------------------------------------------------------
(* The UI thread: operations of the user                                   *)

\* Any user event may be the next one of the event loop, also before closures
\* that are already queued.  MainWindow means to disable the controls of a busy
\* chat, but its subscription to `busy` ends with its constructor.
User(op) == op \in Ops /\ uiPc = "loop"

\* The guards of on_send and of send.
Ready == ~busy /\ ~running /\ ~compacting /\ sent < MaxSends

\* Enter in the input box: on_send, then ChatViewModel::send up to its join.
PressEnter ==
  /\ User("enter") /\ Ready /\ UNCHANGED untimely
  /\ uiPc' = "send"
  /\ UNCHANGED <<stopFlag, viewVars, storeVars, dirty, client, epoch,
                 fullAccess>>

\* The send button has two slots: on_send and then, if the chat is busy by
\* now, stop.
ClickSend ==
  /\ User("click") /\ Ready /\ Untimely("stop")
  /\ uiPc' = "clickSend"
  /\ UNCHANGED <<stopFlag, viewVars, storeVars, dirty, client, epoch,
                 fullAccess>>

\* stop up to its join, from the second slot.
ClickStop ==
  /\ User("click") /\ busy /\ Untimely("stop")
  /\ uiPc' = "stop" /\ stopFlag' = TRUE
  /\ UNCHANGED <<viewVars, storeVars, dirty, client, epoch,
                 fullAccess>>

\* The system message is the first of the log from now on.
WithSystem(log) ==
  IF log # << >> /\ Head(log).role = "system" THEN log
  ELSE <<Message("system", << >>, NoId, current)>> \o log

\* Mutant: the mark of a save is ignored.
CachedClient == client

\* reload_client when the settings were saved since the last send.
ClientAtSend == IF dirty THEN 0 ELSE client

\* send after its join: settings, log, rows, the new worker; after a click the
\* second slot follows in the same event.
StartRun ==
  /\ uiPc \in {"send", "clickSend"} /\ Joinable
  /\ client' = ClientAtSend
  /\ dirty' = FALSE /\ needed' = epoch
  /\ running' = TRUE /\ busy' = TRUE /\ skillLoaded' = FALSE
  /\ history' = Append(WithSystem(history),
                       Message("user", << >>, NoId, current))
  /\ streamRow' = TRUE /\ lastRow' = "stream" /\ streamText' = {}
  /\ wpc' = "begin" /\ wround' = 0 /\ wspoke' = FALSE
  /\ whome' = current /\ wprefix' = << >>
  /\ sent' = sent + 1
  /\ uiPc' = IF uiPc = "send" THEN "loop" ELSE "stop"
  /\ stopFlag' = (uiPc = "clickSend")
  /\ UNCHANGED <<compacting, prefix, batchVars, sessionVars, epoch, fullAccess,
                 skillRun, skillRound, settled, queue, answer>>

\* stop after its join: everything it announced is taken back, but what the
\* worker had posted is still queued.
EndStop ==
  /\ uiPc = "stop" /\ Joinable
  /\ uiPc' = "loop" /\ wpc' = "none"
  /\ stopFlag' = FALSE /\ running' = FALSE /\ compacting' = FALSE /\ busy' = FALSE
  /\ UNCHANGED <<prefix, viewVars, progressVars, storeVars, configVars,
                 skillVars, countVars, queue, answer>>

\* The window is closed and ~ChatViewModel runs: stop, then persist_current.
Quit ==
  /\ User("quit") /\ Untimely("stop")
  /\ uiPc' = "quit" /\ stopFlag' = TRUE
  /\ UNCHANGED <<viewVars, storeVars, dirty, client, epoch,
                 fullAccess>>

EndQuit ==
  /\ uiPc = "quit" /\ Joinable
  /\ uiPc' = "gone" /\ wpc' = "none"
  /\ stopFlag' = FALSE /\ running' = FALSE /\ compacting' = FALSE /\ busy' = FALSE
  /\ Persist
  /\ UNCHANGED <<prefix, viewVars, progressVars, history, current, live, fresh,
                 configVars, skillVars, countVars, queue, answer>>

\* SessionStore::create_session: the outgoing log is not saved.
NewSession(s) ==
  /\ User("session") /\ Roam
  /\ s \in fresh
  /\ fresh' = fresh \ {s} /\ live' = live \cup {s}
  /\ files' = [files EXCEPT ![s] = << >>]
  /\ current' = s /\ history' = << >>
  /\ Reload(<< >>)
  /\ UNCHANGED <<uiPc, stopFlag, dirty, client, epoch,
                 fullAccess>>

\* Mutant: the current session is changed before the log is saved.
SwitchSessionEarly(s) ==
  /\ User("session") /\ Roam
  /\ s \in live \ {current}
  /\ files' = [files EXCEPT ![s] = history]
  /\ current' = s /\ history' = files'[s]
  /\ Reload(files'[s])
  /\ UNCHANGED <<uiPc, stopFlag, live, fresh, dirty, client, epoch,
                 fullAccess>>

\* SessionStore::switch_session saves the outgoing log first.
SwitchSession(s) ==
  /\ User("session") /\ Roam
  /\ s \in live \ {current}
  /\ Persist
  /\ current' = s /\ history' = files[s]
  /\ Reload(files[s])
  /\ UNCHANGED <<uiPc, stopFlag, live, fresh, dirty, client, epoch,
                 fullAccess>>

\* SessionStore::delete_session of another session than the current one.
DeleteOther(s) ==
  /\ User("session") /\ Roam
  /\ s \in live \ {current}
  /\ live' = live \ {s}
  /\ files' = [files EXCEPT ![s] = << >>]
  /\ Reload(history)
  /\ UNCHANGED <<uiPc, stopFlag, history, current, fresh, dirty, client,
                 epoch, fullAccess>>

\* SessionStore::delete_session of the current one: another session takes its
\* place (which one is the newest is left open), or a new one does.
DeleteCurrent(s) ==
  /\ User("session") /\ Roam
  /\ IF live = {current} THEN s \in fresh ELSE s \in live \ {current}
  /\ live' = (live \ {current}) \cup {s} /\ fresh' = fresh \ {s}
  /\ files' = [files EXCEPT ![current] = << >>]
  /\ current' = s /\ history' = files[s]
  /\ Reload(files[s])
  /\ UNCHANGED <<uiPc, stopFlag, dirty, client, epoch,
                 fullAccess>>

\* Mutant: a compaction is forgotten.
FreeOfRuns == ~running

\* The guard of set_workspace.
EngineFree == ~running /\ ~compacting

\* update_workspace through ChatViewModel::set_workspace.
SetWorkspace(full) ==
  /\ User("workspace") /\ UNCHANGED untimely
  /\ EngineFree
  /\ fullAccess' = full
  /\ UNCHANGED <<uiPc, stopFlag, viewVars, storeVars, dirty, client, epoch>>

\* Mutant: reload_model_settings drops the client at once.
SaveSettingsAtOnce ==
  /\ User("settings") /\ UNCHANGED untimely
  /\ epoch <= MaxSaves
  /\ epoch' = epoch + 1 /\ dirty' = TRUE /\ client' = 0
  /\ UNCHANGED <<uiPc, stopFlag, viewVars, storeVars, fullAccess>>

\* SettingsVm::save writes the environment and settings_saved reaches
\* reload_model_settings.
SaveSettings ==
  /\ User("settings") /\ UNCHANGED untimely
  /\ epoch <= MaxSaves
  /\ epoch' = epoch + 1 /\ dirty' = TRUE
  /\ UNCHANGED <<uiPc, stopFlag, viewVars, storeVars, client, fullAccess>>

UserOp ==
  \/ PressEnter \/ ClickSend \/ ClickStop \/ Quit \/ SaveSettings
  \/ \E s \in Sessions : NewSession(s) \/ SwitchSession(s) \/ DeleteOther(s)
                           \/ DeleteCurrent(s)
  \/ \E full \in BOOLEAN : SetWorkspace(full)

\* A user operation starts no thread: send, stop and the destructor block in
\* their join first (Resume).
UserStep ==
  /\ UserOp
  /\ UNCHANGED <<workerVars, needed, running, compacting, busy, prefix,
                 skillVars, countVars, queue, answer>>

\* The UI thread goes on when a join returns or the dialog is answered.
Resume ==
  /\ \/ StartRun \/ EndStop \/ EndQuit \/ StartCompaction
     \/ \E yes \in BOOLEAN : AnswerPrompt(yes)
  /\ UNCHANGED untimely

\* The program rests: nothing to deliver, no thread at work, nobody in a join.
Rest ==
  /\ \/ uiPc \in {"gone", "crashed"}
     \/ uiPc = "loop" /\ queue = << >> /\ Joinable
  /\ UNCHANGED vars

Next == Worker \/ Deliver \/ Resume \/ UserStep \/ Rest

Spec == Init /\ [][Next]_vars

\* Fairness: the OS runs the worker, the event loop goes on delivering, and
\* the user answers the dialog.  Whether the user does anything else is open.
Fairness == WF_vars(Worker) /\ WF_vars(Deliver) /\ WF_vars(Resume)
FairSpec == Spec /\ Fairness
=============================================================================
