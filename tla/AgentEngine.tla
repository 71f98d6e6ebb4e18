---------------------------- MODULE AgentEngine ----------------------------
(***************************************************************************)
(* AgentEngine::run (core/agent/agent.cpp): one turn against a log the     *)
(* caller owns.  The engine asks the model, executes the tools the reply   *)
(* asks for, appends their results and asks again, for a bounded number of *)
(* rounds.                                                                 *)
(*                                                                         *)
(* The calls of one reply run on the thread of run when one of them is     *)
(* exclusive (or there is only one), else on a pool of threads that take   *)
(* the next index from an atomic counter.  Thread 0 is the thread of run.  *)
(*                                                                         *)
(* The model and the tools are the environment: a reply, the outcome of a  *)
(* tool and the user's answer are chosen nondeterministically.  Texts and  *)
(* arguments are left out.                                                 *)
(***************************************************************************)
EXTENDS MessageLog

CONSTANTS
  Tools,      \* names registered in the ToolRegistry
  Exclusive,  \* tools that are not concurrency_safe
  Gated,      \* tools with requires_approval
  Unknown,    \* a name that is not registered
  Logs,       \* the logs run may be called with
  Replies,    \* the tool calls a reply may hold: sequences of [name, id]
  MaxRounds,  \* Config::max_tool_rounds
  PoolSize    \* threads of the pool at most

ThisHome == "here"   \* a turn knows one log

\* Every tool that needs an approval is registered as exclusive (fs_tools.cpp
\* 118, 134; shell_tools.cpp 154, 169, 197).
ASSUME EngineAssumption ==
  /\ Exclusive \subseteq Tools /\ Gated \subseteq Exclusive
  /\ Unknown \notin Tools
  /\ Logs \subseteq Seq(Messages({ThisHome}))
  /\ Replies \subseteq Seq([name : Tools \cup {Unknown}, id : Nat]) \ {<< >>}
  /\ MaxRounds \in Nat \ {0} /\ PoolSize \in Nat \ {0}

VARIABLES
  pc,         \* where run is
  messages,   \* the caller's log
  round,      \* the loop's counter
  spoke,      \* the reply of this round has text
  calls,      \* the tool calls of the assistant message
  base,       \* length of the log before the assistant message
  next,       \* the pool's counter: the next index to take
  at,         \* per thread: the index it executes, 0 for none
  stage,      \* per call: how far execute_one is
  index,      \* the next result to record
  trace       \* trace_: the records of the executed calls

vars == <<pc, messages, round, spoke, calls, base, next, at, stage, index, trace>>
batchVars == <<calls, base>>
poolVars  == <<next, at, stage>>

Threads == 0..PoolSize
Settled == {"ok", "failed", "denied"}
Stages  == {"waiting", "asking", "running"} \cup Settled

\* The id run gives a call that came without one: it differs from every id of
\* the same run.
MadeId(r, i) == 1000 * (r + 1) + i

CallIds(c) == [i \in DOMAIN c |-> c[i].id]
Group(c)   == Message("assistant", CallIds(c), NoId, ThisHome)
Output(id) == Message("tool", << >>, id, ThisHome)

-----------------------------------------------------------------------------
Init ==
  /\ pc = "start" /\ messages \in Logs
  /\ round = 0 /\ spoke = FALSE
  /\ calls = << >> /\ base = 0
  /\ next = 1 /\ at = [t \in Threads |-> 0] /\ stage = << >>
  /\ index = 1 /\ trace = << >>

\* run begins: trace_ is cleared and the log repaired.
Start ==
  /\ pc = "start" /\ pc' = "ask"
  /\ messages' = Repair(messages)
  /\ trace' = << >>
  /\ UNCHANGED <<round, spoke, batchVars, poolVars, index>>

\* complete_stream hands a piece of text to on_text_delta.
Delta ==
  /\ pc = "ask" /\ ~spoke /\ spoke' = TRUE
  /\ UNCHANGED <<pc, messages, round, batchVars, poolVars, index, trace>>

\* complete_stream throws: the log stays as it was sent.
ProviderThrows ==
  /\ pc = "ask" /\ pc' = "failed"
  /\ UNCHANGED <<messages, round, spoke, batchVars, poolVars, index, trace>>

\* A reply without tool calls ends the turn.
Answer ==
  /\ pc = "ask" /\ pc' = "done"
  /\ messages' = IF spoke
                 THEN Append(messages, Message("assistant", << >>, NoId, ThisHome))
                 ELSE messages
  /\ UNCHANGED <<round, spoke, batchVars, poolVars, index, trace>>

\* A reply that names a tool the registry does not contain fails the turn
\* before anything of it reaches the log.
RejectReply(reply) ==
  /\ pc = "ask" /\ pc' = "failed"
  /\ \E i \in DOMAIN reply : reply[i].name \notin Tools
  /\ UNCHANGED <<messages, round, spoke, batchVars, poolVars, index, trace>>

\* The assistant message with all the calls enters the log, every call with an
\* id, and the threads that execute them are started.
AcceptReply(reply) ==
  LET named == [i \in DOMAIN reply |->
                 IF reply[i].id = NoId THEN [reply[i] EXCEPT !.id = MadeId(round, i)]
                                       ELSE reply[i]]
  IN  /\ pc = "ask" /\ pc' = "execute"
      /\ \A i \in DOMAIN reply : reply[i].name \in Tools
      /\ calls' = named /\ base' = Len(messages)
      /\ messages' = Append(messages, Group(named))
      /\ next' = 1 /\ at' = [t \in Threads |-> 0]
      /\ stage' = [i \in DOMAIN reply |-> "waiting"]
      /\ index' = 1
      /\ UNCHANGED <<round, spoke, trace>>

-----------------------------------------------------------------------------
(* execute_one, on the thread of run or on the pool                        *)

AnyExclusive == \E i \in DOMAIN calls : calls[i].name \in Exclusive

\* Mutant: exclusive tools go to the pool, too.
SerialIfAlone == Len(calls) <= 1

Serial == AnyExclusive \/ Len(calls) <= 1
Pool == IF Serial THEN {0}
        ELSE 1..(IF Len(calls) < PoolSize THEN Len(calls) ELSE PoolSize)

\* Mutant: the increment of the counter is lost.
TakeSame(t) ==
  /\ pc = "execute" /\ t \in Pool
  /\ at[t] = 0 /\ next <= Len(calls)
  /\ at' = [at EXCEPT ![t] = next]
  /\ UNCHANGED <<pc, messages, round, spoke, batchVars, next, stage, index, trace>>

\* A thread without work takes the next index (next.fetch_add(1)).
Take(t) ==
  /\ pc = "execute" /\ t \in Pool
  /\ at[t] = 0 /\ next <= Len(calls)
  /\ at' = [at EXCEPT ![t] = next] /\ next' = next + 1
  /\ UNCHANGED <<pc, messages, round, spoke, batchVars, stage, index, trace>>

\* A gated call asks first; the other ones run.
Enter(t) ==
  /\ pc = "execute" /\ at[t] # 0 /\ stage[at[t]] = "waiting"
  /\ stage' = [stage EXCEPT ![at[t]] =
                 IF calls[at[t]].name \in Gated THEN "asking" ELSE "running"]
  /\ UNCHANGED <<pc, messages, round, spoke, batchVars, next, at, index, trace>>

\* Mutant: a denied call asks again.
DecideAgain(t, allowed) ==
  /\ pc = "execute" /\ at[t] # 0 /\ stage[at[t]] = "asking"
  /\ stage' = [stage EXCEPT ![at[t]] = IF allowed THEN "running" ELSE "waiting"]
  /\ UNCHANGED <<pc, messages, round, spoke, batchVars, next, at, index, trace>>

\* on_approval returns: the call runs or its result is the denial.
Decide(t, allowed) ==
  /\ pc = "execute" /\ at[t] # 0 /\ stage[at[t]] = "asking"
  /\ stage' = [stage EXCEPT ![at[t]] = IF allowed THEN "running" ELSE "denied"]
  /\ at' = IF allowed THEN at ELSE [at EXCEPT ![t] = 0]
  /\ UNCHANGED <<pc, messages, round, spoke, batchVars, next, index, trace>>

\* The tool returns, or throws and the exception becomes the result.
Return(t, outcome) ==
  /\ pc = "execute" /\ at[t] # 0 /\ stage[at[t]] = "running"
  /\ outcome \in {"ok", "failed"}
  /\ stage' = [stage EXCEPT ![at[t]] = outcome]
  /\ at' = [at EXCEPT ![t] = 0]
  /\ UNCHANGED <<pc, messages, round, spoke, batchVars, next, index, trace>>

\* Mutant: the results are recorded without waiting for the threads.
JoinNobody ==
  /\ pc = "execute" /\ next > Len(calls)
  /\ pc' = "record"
  /\ UNCHANGED <<messages, round, spoke, batchVars, poolVars, index, trace>>

\* The serial loop ends, or every thread of the pool was joined.
JoinAll ==
  /\ pc = "execute" /\ next > Len(calls) /\ \A t \in Pool : at[t] = 0
  /\ pc' = "record"
  /\ UNCHANGED <<messages, round, spoke, batchVars, poolVars, index, trace>>

\* Mutant: the results are recorded last call first.
RecordBackwards ==
  LET i == Len(calls) + 1 - index
  IN  /\ pc = "record" /\ index <= Len(calls)
      /\ trace' = Append(trace, [id |-> calls[i].id, name |-> calls[i].name,
                                 result |-> stage[i]])
      /\ messages' = Append(messages, Output(calls[i].id))
      /\ index' = index + 1
      /\ UNCHANGED <<pc, round, spoke, batchVars, poolVars>>

\* One result: its record and its message.
Record ==
  /\ pc = "record" /\ index <= Len(calls)
  /\ trace' = Append(trace, [id |-> calls[index].id, name |-> calls[index].name,
                             result |-> stage[index]])
  /\ messages' = Append(messages, Output(calls[index].id))
  /\ index' = index + 1
  /\ UNCHANGED <<pc, round, spoke, batchVars, poolVars>>

\* Back to the model while rounds are left, else the turn fails.
NextRound ==
  /\ pc = "record" /\ index > Len(calls)
  /\ round' = round + 1
  /\ pc' = IF round + 1 < MaxRounds THEN "ask" ELSE "failed"
  /\ spoke' = FALSE
  /\ UNCHANGED <<messages, batchVars, poolVars, index, trace>>

Execute(t) ==
  \/ Take(t) \/ Enter(t)
  \/ \E allowed \in BOOLEAN : Decide(t, allowed)
  \/ \E outcome \in {"ok", "failed"} : Return(t, outcome)

Turn ==
  \/ Start \/ Delta \/ ProviderThrows \/ Answer
  \/ \E reply \in Replies : RejectReply(reply) \/ AcceptReply(reply)
  \/ JoinAll \/ Record \/ NextRound

\* The turn is over; the caller has the log back.
Over == pc \in {"done", "failed"} /\ UNCHANGED vars

Next == Turn \/ (\E t \in Threads : Execute(t)) \/ Over

Spec == Init /\ [][Next]_vars

\* The threads run, the model answers, tools return and the user decides: with
\* its timeouts complete_stream returns or throws, so every step that can be
\* taken is taken.
FairSpec == Spec /\ WF_vars(Turn) /\ \A t \in Threads : WF_vars(Execute(t))

-----------------------------------------------------------------------------
(* Properties                                                              *)

Records == [id : Nat, name : Tools, result : Settled]

TypeOK ==
  /\ pc \in {"start", "ask", "execute", "record", "done", "failed"}
  /\ messages \in Seq(Messages({ThisHome}))
  /\ round \in Nat /\ spoke \in BOOLEAN
  /\ calls \in Seq([name : Tools, id : Nat]) /\ base \in Nat
  /\ next \in Nat \ {0} /\ at \in [Threads -> Nat]
  /\ stage \in Seq(Stages)
  /\ index \in Nat \ {0}
  /\ trace \in Seq(Records)

\* An exclusive or gated tool has nothing beside it.
Alone ==
  \A i, j \in DOMAIN calls :
    /\ i # j
    /\ calls[i].name \in Exclusive
    /\ stage[i] \in {"asking", "running"}
    => stage[j] \notin {"asking", "running"}

AsksOnRunThread == \A t \in Threads : at[t] # 0 /\ stage[at[t]] = "asking" => t = 0

\* An exclusive tool never runs beside another tool, and while an approval is
\* awaited nothing runs (agent.cpp:192-196).  "All callbacks run on the thread
\* that invoked run()" (agent.hpp:16-17), the approval included, which blocks
\* that thread.
Barrier == pc = "execute" => Alone /\ AsksOnRunThread

\* No call is executed twice or skipped: no two threads hold an index, and what
\* the counter has passed is held by a thread or settled.
EachCallOnce ==
  pc \in {"execute", "record"} =>
    /\ \A t, u \in Threads : t # u /\ at[t] # 0 => at[t] # at[u]
    /\ \A i \in DOMAIN calls :
         IF i < next
         THEN stage[i] \in Settled <=> \A t \in Threads : at[t] # i
         ELSE stage[i] = "waiting" /\ \A t \in Threads : at[t] # i

\* What the model is sent and what the caller gets back is well formed,
\* whatever log run was called with, whatever calls failed or were denied on
\* the way, and on every exit (agent.cpp:147-148).
WellFormedOutside == pc \in {"ask", "done", "failed"} => WellFormed(messages)

\* Every turn ends, after at most MaxRounds requests.
TurnEnds == <>(pc \in {"done", "failed"})

\* A batch is on its way: its group is in the log, but not all of its outputs.
Open == pc \in {"execute", "record"}

\* What the owner of the log sees of a turn: the log and the recorded ids
\* without the group on its way, and whether the turn goes on.
SeenLog == IF Open THEN SubSeq(messages, 1, base) ELSE messages
SeenIds ==
  IF pc = "start" THEN << >>
  ELSE [k \in 1..(Len(trace) - IF Open THEN index - 1 ELSE 0) |-> trace[k].id]
SeenState ==
  IF pc = "start" THEN "new" ELSE IF pc \in {"done", "failed"} THEN "closed" ELSE "open"

\* The turn implements the abstract one: an exchange becomes visible as a whole,
\* its results in model order (agent.cpp:195) in the log and in the trace.  The
\* loop's Repair and Output are the ones of this module.
Loop == INSTANCE ToolLoop WITH
  Rounds <- MaxRounds, log <- SeenLog, told <- SeenIds, done <- round, state <- SeenState
ImplementsToolLoop == Loop!Spec
=============================================================================
