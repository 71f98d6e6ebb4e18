--------------------------- MODULE ChatProperties ---------------------------
(***************************************************************************)
(* What the chat guarantees, in three parts: always; as long as nothing    *)
(* untimely happens; and what the repository says of it that is not so.    *)
(***************************************************************************)
EXTENDS ChatViewModel

-----------------------------------------------------------------------------
(* What holds whatever the user does and however runs fail                 *)

TypeOK ==
  /\ uiPc \in UiPcs
  /\ queue \in Seq(Closures)
  /\ stopFlag \in BOOLEAN /\ running \in BOOLEAN
  /\ compacting \in BOOLEAN /\ busy \in BOOLEAN
  /\ dirty \in BOOLEAN /\ skillLoaded \in BOOLEAN /\ streamRow \in BOOLEAN
  /\ lastRow \in {"none", "row", "stream"}
  /\ streamText \subseteq Nat
  /\ prefix \in Seq(LogMessages) /\ wprefix \in Seq(LogMessages)
  /\ wpc \in WorkerPcs
  /\ wround \in Nat /\ windex \in Nat \ {0} /\ wspoke \in BOOLEAN
  /\ wcalls \in Seq(ToolKinds) /\ wskills \subseteq Nat
  /\ whome \in Sessions
  /\ answer \in {"none", "pending", "yes", "no"}
  /\ current \in Sessions
  /\ history \in Seq(LogMessages)
  /\ files \in [Sessions -> Seq(LogMessages)]
  /\ live \subseteq Sessions /\ fresh \subseteq Sessions
  /\ client \in Nat /\ epoch \in Nat \ {0} /\ needed \in Nat
  /\ fullAccess \in BOOLEAN
  /\ sent \in Nat /\ settled \in Nat
  /\ skillRun \in Nat /\ skillRound \in Nat
  /\ untimely \subseteq UntimelyEvents

\* A run talks to the model with the settings that were in force when its
\* message was sent, or newer ones: the dirty mark set by a save between two
\* runs, read in send, is never lost and never too late (send 107-109).
SettingsReachRun == EngineRuns /\ wpc # "begin" => client >= needed

\* The cached client is dropped only while no run and no summary uses it
\* (agent.hpp:83-85), although running_ and compacting_ may be wrong by then.
ClientKept == [][client' = 0 /\ client # 0 =>
                   ~EngineRuns /\ wpc # "summarize"]_vars

\* The next call of the batch is dangerous, and this step executes it without
\* a question.
Unasked ==
  /\ wpc = "exec" /\ windex \in DOMAIN wcalls /\ wcalls[windex] = "danger"
  /\ wpc' = "exec" /\ windex' # windex

SkillInEarlierRound == skillRun = sent /\ skillRound < wround

\* A dangerous call runs without a question only under Full Access, and never
\* in a round behind the one in which the run loaded a skill: the mark is set in
\* time for the model's next answer, and it is neither lost to the reset of a
\* later send nor left to a closure (send 121, on_tool_call 159-161, on_approval
\* 191-196).  Within the round that loads the skill it comes too late.
SkillAsks == [][Unasked => fullAccess /\ ~SkillInEarlierRound]_vars

\* One approval at a time, and it always has somebody to answer it: either its
\* dialog is open, with nothing else to deliver, or its closure is the last one
\* of the queue; and no closure asks for a worker that does not wait.
OneQuestion ==
  /\ uiPc = "prompt" => wpc = "await" /\ answer = "pending" /\ queue = << >>
  /\ wpc = "await" /\ answer = "pending" /\ uiPc # "prompt" =>
       queue # << >> /\ queue[Len(queue)].op = "approve"
  /\ \A i \in DOMAIN queue : queue[i].op = "approve" =>
       i = Len(queue) /\ wpc = "await" /\ answer = "pending"

\* stop_ is set only while the UI thread is inside stop: no closure ever sees
\* it set, so what a stopped run had posted is applied like any other.
StopUnseen == uiPc \in {"loop", "prompt"} => ~stopFlag

\* After the window is closed the session's file holds the whole log, the
\* messages of the run that was in progress included.
QuitPersists == uiPc = "gone" => wpc = "none" /\ files[current] = history

\* The log on display is newer than its file only while a run is at it or the
\* run's outcome is still to be delivered, also after a stop and in whatever
\* session: only then can create_session, which does not save the outgoing log,
\* lose anything (session_store.cpp:125-129); and nothing is lost when the window
\* is closed, though outcomes may be undelivered then (chat_view_model.cpp:47-50).
LogSaved ==
  /\ QuitPersists
  /\ files[current] # history =>
       \/ EngineRuns \/ wpc = "throwing"
       \/ \E i \in DOMAIN queue : queue[i].op \in {"success", "error"}

\* Every message of a log comes from the conversation of its session.
Owned ==
  /\ \A i \in DOMAIN history : history[i].home = current
  /\ \A s \in live : \A i \in DOMAIN files[s] : files[s][i].home = s

\* A message stays in the session whose conversation produced it, through stops,
\* failed runs and summaries that arrive late, as long as the user changes
\* sessions only while no thread is at work and nothing is left to deliver.
LogOwnership == "roam" \notin untimely => Owned

-----------------------------------------------------------------------------
(* What holds until a run is stopped or reports an error before it throws, *)
(* whatever else the user does                                             *)

Orderly == untimely \cap {"stop", "report"} = {}

\* "Update the tool execution boundary. Call only while no run is active"
\* (agent.hpp:78): the access mode stays what it is while a thread uses the
\* engine, thanks to running_ and compacting_ alone (set_workspace).
WorkspaceStill ==
  [][Orderly /\ (EngineRuns \/ wpc = "summarize") => UNCHANGED fullAccess]_vars

\* The chat implements the abstract turn taking: every message gets an outcome,
\* and only one, before the next message is taken (send 103-105, finalize_success
\* and finalize_error).  No join waits for good.
Turns == INSTANCE TurnTaking WITH Most <- MaxSends, orderly <- Orderly
TakesTurns == Turns!Spec

-----------------------------------------------------------------------------
(* What holds if, besides, sessions stay put while something is under way  *)

\* The code reaches the streaming row as the last row of the list (replace_at
\* and remove_at with size() - 1): while there is one, it is, and the text on
\* display belongs to the message sent last.
StreamRow ==
  untimely = {} =>
    /\ streamRow => lastRow = "stream"
    /\ streamText \subseteq {sent}

\* A summary replaces exactly the messages it was made from: when it arrives
\* the log still begins with the prefix that was captured.
SummaryFits ==
  untimely = {} =>
    \A i \in DOMAIN queue :
      queue[i].op = "compacted" =>
        LET p == queue[i].prefix
        IN  p # << >> /\ Len(p) <= Len(history) /\ SubSeq(history, 1, Len(p)) = p

-----------------------------------------------------------------------------
(* What the code's comments and headers say and the code does not do       *)

\* "Send button doubles as stop while busy" (main_window.cpp:624): the stop
\* it starts comes to an end.
StopReturns == uiPc = "stop" ~> uiPc # "stop"

\* "Never split a tool-call / tool-result pair" (chat_view_model.cpp:274-275).
PairsWhole ==
  uiPc = "compact" /\ Len(prefix) < Len(history) =>
    history[Len(prefix) + 1].role # "tool"

\* "Each session is a JSON file ... containing the full ordered message history"
\* (session_store.hpp:7-9), guarded by "aria subscriptions into the VMs (kept
\* alive for the window's lifetime)" (main_window.hpp:106): nothing of one
\* session's conversation gets into another session.
SessionsApart == Owned

\* "Full Access skips ordinary confirmations, but never treats a loaded Skill
\* document as user approval for dangerous actions" (chat_view_model.cpp:189-190):
\* once a run has loaded a skill, its dangerous calls are asked for.
SkillEndsWaiver == [][Unasked => skillRun # sent]_vars
=============================================================================
