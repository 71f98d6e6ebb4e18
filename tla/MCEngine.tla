------------------------------ MODULE MCEngine ------------------------------
(* Instances of AgentEngine for TLC.                                       *)
EXTENDS AgentEngine

Here(role, ids, id) == Message(role, ids, id, ThisHome)

\* A new conversation, and logs as a crash, a partial save or a compaction may
\* have left them: an output without its call, a call without all its outputs.
MCLogs ==
  LET system == Here("system", << >>, NoId)
      user   == Here("user", << >>, NoId)
  IN  { <<system, user>>,
        <<system, Here("tool", << >>, 2), user>>,
        <<system, user, Here("assistant", <<1, 2>>, NoId), Here("tool", << >>, 1), user>>,
        <<system, user, Here("assistant", <<1>>, NoId), Here("tool", << >>, 1), user>> }

Call(name, id) == [name |-> name, id |-> id]

\* One call, two and three calls that may run in parallel, a batch with an
\* exclusive tool, and one with a tool nobody registered.
MCReplies ==
  { <<Call("calculator", 7)>>,
    <<Call("calculator", 7), Call("current_time", 8), Call("calculator", NoId)>>,
    <<Call("calculator", NoId), Call("write_file", NoId), Call("todo_add", 7)>>,
    <<Call("calculator", 7), Call("no_such_tool", 8)>> }
=============================================================================
