----------------------------- MODULE ToolsProofs -----------------------------
(***************************************************************************)
(* What the tools guarantee for every batch and every number of batches    *)
(* and threads, every set of files, skills and access modes, and whatever  *)
(* the validation accepts.                                                 *)
(***************************************************************************)
EXTENDS Tools, SequenceTheorems, TLAPS

-----------------------------------------------------------------------------
(* The tools                                                               *)

LEMMA NamesOfTools ==
  ToolNames = {"read_file", "write_file", "edit_file", "list_directory", "todo_set",
               "todo_add", "todo_list", "use_skill", "read_skill_resource"}
BY DEF ToolNames, SchemaOf

\* What a file held does not matter to what is written into it.
LEMMA WrittenTwice ==
  ASSUME NEW f, NEW path, NEW a, NEW b
  PROVE  Written(Written(f, path, a), path, b) = Written(f, path, b)
BY DEF Written, With

\* Tools that may run side by side leave the files and the list alone.
LEMMA BodyLooks ==
  ASSUME NEW env, NEW f, NEW l, NEW tool \in ToolNames \ Exclusive, NEW args
  PROVE  Body(env, f, l, tool, args) = Outcome(f, l, Body(env, f, l, tool, args).result)
<1>1. tool \in {"read_file", "list_directory", "todo_list", "use_skill", "read_skill_resource"}
  BY NamesOfTools DEF Exclusive
<1>2. \E result : Body(env, f, l, tool, args) = Outcome(f, l, result)
  BY <1>1 DEF Body
<1> QED BY <1>2 DEF Outcome

LEMMA EffectLooks ==
  ASSUME NEW env, NEW f, NEW l, NEW call, call.tool \in ToolNames \ Exclusive
  PROVE  Effect(env, f, l, call) = Outcome(f, l, Effect(env, f, l, call).result)
<1>1. \A result : Outcome(f, l, result).result = result
  BY DEF Outcome
<1>2. Body(env, f, l, call.tool, call.args)
        = Outcome(f, l, Body(env, f, l, call.tool, call.args).result)
  BY BodyLooks
<1> QED BY <1>1, <1>2 DEF Effect

\* The effect of a call is an outcome.
LEMMA EffectShape ==
  ASSUME NEW env, NEW f, NEW l, NEW call, call.tool \in ToolNames
  PROVE  LET o == Effect(env, f, l, call) IN o = Outcome(o.files, o.items, o.result)
<1>1. \A a, b, c : Outcome(a, b, c).files = a /\ Outcome(a, b, c).items = b
                     /\ Outcome(a, b, c).result = c
  BY DEF Outcome
<1>2. \E a, b, c : Body(env, f, l, call.tool, call.args) = Outcome(a, b, c)
  BY NamesOfTools DEF Body
<1>3. \E a, b, c : Effect(env, f, l, call) = Outcome(a, b, c)
  BY <1>2 DEF Effect
<1> QED BY <1>1, <1>3

-----------------------------------------------------------------------------
(* The inductive invariant of a batch                                      *)

Shape ==
  /\ IsSequence(calls) /\ \A i \in DOMAIN calls : calls[i].tool \in ToolNames
  /\ next \in 1..(Len(calls) + 1)
  /\ stage \in [DOMAIN calls -> Stages]
  /\ held = [i \in DOMAIN calls |-> held[i]]
  /\ results = [i \in DOMAIN calls |-> results[i]]
  /\ at \in [Threads -> 0..Len(calls)]
  /\ promised.results = [i \in DOMAIN calls |-> promised.results[i]]
  /\ promised = [files |-> promised.files, items |-> promised.items,
                 results |-> promised.results]

\* Every call in progress is one thread's, and behind its tool's stages.
Work ==
  /\ \A t \in Threads : at[t] # 0 => t \in Pool /\ at[t] < next /\ stage[at[t]] # "done"
  /\ \A t, u \in Threads : at[t] # 0 /\ at[t] = at[u] => t = u
  /\ \A i \in DOMAIN calls : i >= next => stage[i] = "waiting"
  /\ \A i \in DOMAIN calls :
       /\ stage[i] = "ready" => calls[i].tool \in {"write_file", "edit_file", "todo_add"}
       /\ stage[i] = "opened" => calls[i].tool \in {"write_file", "edit_file"}
       /\ stage[i] = "replaced" => calls[i].tool \in {"todo_set", "todo_add"}

\* What the call of a thread still has to do is what was promised.
Due(t) ==
  LET i       == at[t]
      call    == calls[i]
      promise == Outcome(promised.files, promised.items, promised.results[i])
  IN  /\ stage[i] = "waiting" => Effect(Env, files, items, call) = promise
      /\ stage[i] = "body" => Body(Env, files, items, call.tool, call.args) = promise
      /\ stage[i] \in {"ready", "opened"} /\ call.tool \in {"write_file", "edit_file"} =>
           Outcome(Written(files, Arg(call.args, "path"), held[i]), items, Ok(<< >>)) = promise
      /\ stage[i] = "ready" /\ call.tool = "todo_add" =>
           Outcome(files, Append(held[i], NewItem(call.args)), Ok(<< >>)) = promise
      /\ stage[i] = "replaced" => Outcome(files, items, Ok(<< >>)) = promise

Kept ==
  /\ (\A t \in Threads : at[t] # 0 => calls[at[t]].tool \notin Exclusive) =>
       files = promised.files /\ items = promised.items
  /\ \A i \in DOMAIN calls : stage[i] = "done" => results[i] = promised.results[i]
  /\ \A t \in Threads : at[t] # 0 => Due(t)

TurnInv == Shape /\ Work /\ Kept

LEMMA InitTurn == ASSUME Init PROVE TurnInv
<1>1. /\ calls = << >> /\ next = 1 /\ at = [t \in Threads |-> 0]
      /\ stage = << >> /\ held = << >> /\ results = << >>
      /\ promised = [files |-> files, items |-> items, results |-> << >>]
  BY DEF Init
<1>2. DOMAIN calls = {} /\ Len(calls) = 0 /\ IsSequence(calls)
  BY <1>1 DEF IsSequence
<1>3. Shape
  BY <1>1, <1>2 DEF Shape
<1>4. Work /\ Kept
  BY <1>1, <1>2 DEF Work, Kept
<1> QED BY <1>3, <1>4 DEF TurnInv

\* An exclusive call has the batch for itself.
LEMMA Alone ==
  ASSUME TurnInv, NEW t \in Threads, at[t] # 0, calls[at[t]].tool \in Exclusive
  PROVE  \A u \in Threads : at[u] # 0 => u = t
<1>1. at[t] \in DOMAIN calls
  BY DEF TurnInv, Shape, IsSequence
<1>2. Pool = {0}
  BY <1>1 DEF Pool, Serial
<1> QED BY <1>2 DEF TurnInv, Work

-----------------------------------------------------------------------------
(* Its steps                                                               *)

\* A call that ends with what was promised, its files and items, too, when it
\* is exclusive.
LEMMA SettleStep ==
  ASSUME TurnInv, NEW t \in Threads, at[t] # 0, NEW result, Settle(t, result),
         UNCHANGED <<calls, access, catalog, resources>>,
         result = promised.results[at[t]],
         IF calls[at[t]].tool \in Exclusive
         THEN files' = promised.files /\ items' = promised.items
         ELSE UNCHANGED <<files, items>>
  PROVE  TurnInv'
<1> DEFINE i == at[t]
<1>1. /\ i \in DOMAIN calls /\ i < next /\ stage[i] # "done"
      /\ results' = [results EXCEPT ![i] = result] /\ stage' = [stage EXCEPT ![i] = "done"]
      /\ at' = [at EXCEPT ![t] = 0] /\ UNCHANGED <<next, held, promised>>
  BY DEF TurnInv, Shape, Work, IsSequence, Settle
<1>2. at'[t] = 0 /\ \A u \in Threads : u # t => at'[u] = at[u]
  BY <1>1 DEF TurnInv, Shape
<1>3. stage'[i] = "done" /\ \A j \in DOMAIN calls : j # i => stage'[j] = stage[j]
  BY <1>1 DEF TurnInv, Shape
<1>4. /\ results' = [j \in DOMAIN calls |-> results'[j]]
      /\ results'[i] = result /\ \A j \in DOMAIN calls : j # i => results'[j] = results[j]
  BY <1>1 DEF TurnInv, Shape
<1>5. Pool' = Pool
  BY DEF Pool, Serial
<1>6. Shape'
  <2>1. stage' \in [DOMAIN calls -> Stages] /\ at' \in [Threads -> 0..Len(calls)]
    BY <1>1 DEF TurnInv, Shape, Stages, IsSequence
  <2> QED BY <1>1, <1>4, <2>1 DEF TurnInv, Shape, IsSequence
<1>7. Work'
  <2> HIDE DEF i
  <2>1. \A u \in Threads : u # t /\ at[u] # 0 => at[u] # i /\ at[u] \in DOMAIN calls
    BY DEF TurnInv, Work, Shape, IsSequence, i
  <2>2. \A u \in Threads : at'[u] # 0 => u # t /\ at'[u] = at[u] /\ stage'[at[u]] = stage[at[u]]
    BY <1>2, <1>3, <2>1
  <2>3. \A u \in Threads :
          at'[u] # 0 => u \in Pool' /\ at'[u] < next' /\ stage'[at'[u]] # "done"
    BY <1>1, <1>5, <2>2 DEF TurnInv, Work
  <2>4. \A u, v \in Threads : at'[u] # 0 /\ at'[u] = at'[v] => u = v
    BY <2>2 DEF TurnInv, Work
  <2>5. \A j \in DOMAIN calls : j >= next => stage'[j] = "waiting"
    BY <1>1, <1>3 DEF TurnInv, Work, Shape, IsSequence
  <2>6. \A j \in DOMAIN calls : stage'[j] = stage[j] \/ stage'[j] = "done"
    BY <1>3
  <2> QED BY <1>1, <2>3, <2>4, <2>5, <2>6 DEF TurnInv, Work
<1>8. \A u \in Threads : u # t /\ at[u] # 0 =>
        at[u] # i /\ at[u] \in DOMAIN calls /\ calls[i].tool \notin Exclusive
  <2>1. \A u \in Threads : u # t /\ at[u] # 0 => at[u] # i /\ at[u] \in DOMAIN calls
    BY DEF TurnInv, Work, Shape, IsSequence
  <2>2. calls[i].tool \in Exclusive => \A u \in Threads : at[u] # 0 => u = t
    BY Alone
  <2> QED BY <2>1, <2>2
<1>9. Kept'
  <2> HIDE DEF i
  <2>1. ASSUME \A u \in Threads : at'[u] # 0 => calls[at'[u]].tool \notin Exclusive
        PROVE  files' = promised.files /\ items' = promised.items
    <3>1. CASE calls[i].tool \in Exclusive
      BY <3>1 DEF i
    <3>2. CASE calls[i].tool \notin Exclusive
      <4>1. \A u \in Threads : at[u] # 0 => calls[at[u]].tool \notin Exclusive
        BY <1>2, <2>1, <3>2 DEF i
      <4> QED BY <3>2, <4>1 DEF TurnInv, Kept, i
    <3> QED BY <3>1, <3>2
  <2>2. \A j \in DOMAIN calls : stage'[j] = "done" => results'[j] = promised.results[j]
    BY <1>1, <1>3, <1>4 DEF TurnInv, Kept, i
  <2>3. ASSUME NEW u \in Threads, at'[u] # 0 PROVE Due(u)'
    <3>1. u # t /\ at'[u] = at[u] /\ at[u] # i /\ at[u] \in DOMAIN calls
      BY <1>2, <1>8, <2>3
    <3>2. UNCHANGED <<files, items>>
      BY <1>8, <2>3, <3>1 DEF i
    <3>3. stage'[at[u]] = stage[at[u]] /\ held' = held /\ promised' = promised
      BY <1>1, <1>3, <3>1
    <3>4. Due(u)
      BY <2>3, <3>1 DEF TurnInv, Kept
    <3> QED BY <3>1, <3>2, <3>3, <3>4 DEF Due, Env
  <2> QED BY <1>1, <2>1, <2>2, <2>3 DEF Kept
<1> QED BY <1>6, <1>7, <1>9 DEF TurnInv

\* A call that goes on with what was promised still due.
LEMMA GoStep ==
  ASSUME TurnInv, NEW t \in Threads, at[t] # 0,
         NEW s \in {"body", "ready", "opened", "replaced"}, NEW value, Go(t, s, value),
         UNCHANGED <<calls, access, catalog, resources>>,
         calls[at[t]].tool \notin Exclusive => UNCHANGED <<files, items>>,
         s = "ready" => calls[at[t]].tool \in {"write_file", "edit_file", "todo_add"},
         s = "opened" => calls[at[t]].tool \in {"write_file", "edit_file"},
         s = "replaced" => calls[at[t]].tool \in {"todo_set", "todo_add"},
         Due(t)'
  PROVE  TurnInv'
<1> DEFINE i == at[t]
<1>1. /\ i \in DOMAIN calls /\ i < next /\ stage[i] # "done"
      /\ held' = [held EXCEPT ![i] = value] /\ stage' = [stage EXCEPT ![i] = s]
      /\ UNCHANGED <<next, at, results, promised>>
  BY DEF TurnInv, Shape, Work, IsSequence, Go
<1>2. stage'[i] = s /\ \A j \in DOMAIN calls : j # i => stage'[j] = stage[j]
  BY <1>1 DEF TurnInv, Shape
<1>3. held' = [j \in DOMAIN calls |-> held'[j]] /\ \A j \in DOMAIN calls : j # i => held'[j] = held[j]
  BY <1>1 DEF TurnInv, Shape
<1>4. Pool' = Pool
  BY DEF Pool, Serial
<1>5. Shape'
  <2>1. stage' \in [DOMAIN calls -> Stages]
    BY <1>1 DEF TurnInv, Shape, Stages
  <2> QED BY <1>1, <1>3, <2>1 DEF TurnInv, Shape, IsSequence
<1>6. \A u \in Threads : u # t /\ at[u] # 0 =>
        at[u] # i /\ at[u] \in DOMAIN calls /\ calls[i].tool \notin Exclusive
  <2>1. \A u \in Threads : u # t /\ at[u] # 0 => at[u] # i /\ at[u] \in DOMAIN calls
    BY DEF TurnInv, Work, Shape, IsSequence
  <2>2. calls[i].tool \in Exclusive => \A u \in Threads : at[u] # 0 => u = t
    BY Alone
  <2> QED BY <2>1, <2>2
<1>7. Work'
  <2> HIDE DEF i
  <2>1. \A u \in Threads :
          at'[u] # 0 => u \in Pool' /\ at'[u] < next' /\ stage'[at'[u]] # "done"
    <3>1. \A u \in Threads : at[u] # 0 => at[u] \in DOMAIN calls
      BY DEF TurnInv, Shape, IsSequence
    <3> QED BY <1>1, <1>2, <1>4, <3>1 DEF TurnInv, Work
  <2>2. \A j \in DOMAIN calls : j >= next => stage'[j] = "waiting"
    BY <1>1, <1>2 DEF TurnInv, Work, Shape, IsSequence
  <2>3. \A j \in DOMAIN calls :
          /\ stage'[j] = "ready" => calls[j].tool \in {"write_file", "edit_file", "todo_add"}
          /\ stage'[j] = "opened" => calls[j].tool \in {"write_file", "edit_file"}
          /\ stage'[j] = "replaced" => calls[j].tool \in {"todo_set", "todo_add"}
    BY <1>2 DEF TurnInv, Work, i
  <2> QED BY <1>1, <2>1, <2>2, <2>3 DEF TurnInv, Work
<1>8. Kept'
  <2> HIDE DEF i
  <2>1. ASSUME \A u \in Threads : at[u] # 0 => calls[at[u]].tool \notin Exclusive
        PROVE  files' = promised.files /\ items' = promised.items
    BY <2>1 DEF TurnInv, Kept
  <2>2. \A j \in DOMAIN calls : stage'[j] = "done" => results[j] = promised.results[j]
    BY <1>2 DEF TurnInv, Kept
  <2>3. ASSUME NEW u \in Threads, at[u] # 0 PROVE Due(u)'
    <3>1. CASE u = t
      BY <3>1
    <3>2. CASE u # t
      <4>1. at[u] # i /\ at[u] \in DOMAIN calls /\ UNCHANGED <<files, items>>
        BY <1>6, <2>3, <3>2 DEF i
      <4>2. stage'[at[u]] = stage[at[u]] /\ held'[at[u]] = held[at[u]] /\ promised' = promised
            /\ at' = at
        BY <1>1, <1>2, <1>3, <4>1
      <4>3. Due(u)
        BY <2>3 DEF TurnInv, Kept
      <4> QED BY <4>1, <4>2, <4>3 DEF Due, Env
    <3> QED BY <3>1, <3>2
  <2> QED BY <1>1, <2>1, <2>2, <2>3 DEF Kept
<1> QED BY <1>5, <1>7, <1>8 DEF TurnInv

\* A call that is taken is promised.
LEMMA TakeStep ==
  ASSUME TurnInv, NEW t \in Threads, Take(t), UNCHANGED <<calls, access, catalog, resources>>
  PROVE  TurnInv'
<1> DEFINE call == calls[next]
           outcome == Effect(Env, promised.files, promised.items, call)
<1>1. /\ t \in Pool /\ at[t] = 0 /\ next \in DOMAIN calls /\ next \in Nat
      /\ at' = [at EXCEPT ![t] = next] /\ next' = next + 1
      /\ UNCHANGED <<stage, held, results, files, items, Env, Pool>>
  BY DEF TurnInv, Shape, IsSequence, Take, Env, Pool, Serial
<1>2. at'[t] = next /\ \A u \in Threads : u # t => at'[u] = at[u]
  BY <1>1 DEF TurnInv, Shape
<1>3. /\ promised' = [files |-> outcome.files, items |-> outcome.items,
                      results |-> [promised.results EXCEPT ![next] = outcome.result]]
  BY DEF Take, Promise
<1>4. outcome = Outcome(outcome.files, outcome.items, outcome.result)
  BY <1>1, EffectShape DEF TurnInv, Shape
<1> HIDE DEF call, outcome
<1>5. /\ promised'.files = outcome.files /\ promised'.items = outcome.items
      /\ promised'.results = [j \in DOMAIN calls |-> promised'.results[j]]
      /\ promised'.results[next] = outcome.result
      /\ \A j \in DOMAIN calls : j # next => promised'.results[j] = promised.results[j]
  BY <1>1, <1>3 DEF TurnInv, Shape
<1>6. \A u \in Threads : at[u] # 0 => u # t /\ at[u] < next /\ at[u] \in DOMAIN calls
  BY <1>1 DEF TurnInv, Work, Shape, IsSequence
<1>7. \A u \in Threads : at[u] # 0 => calls[at[u]].tool \notin Exclusive /\ call.tool \notin Exclusive
  <2>1. ASSUME NEW u \in Threads, at[u] # 0, \E j \in DOMAIN calls : calls[j].tool \in Exclusive
        PROVE  FALSE
    <3>1. Pool = {0}
      BY <2>1 DEF Pool, Serial
    <3> QED BY <1>1, <2>1, <3>1 DEF TurnInv, Work
  <2> QED BY <1>1, <1>6, <2>1 DEF call
<1>8. files = promised.files /\ items = promised.items
  BY <1>7 DEF TurnInv, Kept
<1>9. Shape'
  <2>1. next' \in 1..(Len(calls) + 1) /\ at' \in [Threads -> 0..Len(calls)]
    BY <1>1 DEF TurnInv, Shape, IsSequence
  <2> QED BY <1>1, <1>3, <1>5, <2>1 DEF TurnInv, Shape, IsSequence
<1>10. Work'
  <2>1. \A u \in Threads :
          at'[u] # 0 => u \in Pool' /\ at'[u] < next' /\ stage'[at'[u]] # "done"
    <3>1. stage[next] = "waiting"
      BY <1>1 DEF TurnInv, Work
    <3>2. \A u \in Threads : at'[u] # 0 =>
             \/ u = t /\ at'[u] = next
             \/ u # t /\ at'[u] = at[u] /\ at[u] # 0 /\ at[u] < next /\ at[u] \in Nat
      BY <1>2, <1>6 DEF TurnInv, Shape
    <3> QED BY <1>1, <3>1, <3>2 DEF TurnInv, Work
  <2>2. \A u, v \in Threads : at'[u] # 0 /\ at'[u] = at'[v] => u = v
    <3>1. \A u \in Threads : u # t /\ at'[u] # 0 => at'[u] = at[u] /\ at[u] < next /\ at[u] \in Nat
      BY <1>2, <1>6 DEF TurnInv, Shape
    <3>2. \A u \in Threads : u # t /\ at'[u] # 0 => at'[u] # next
      BY <1>1, <3>1
    <3> QED BY <1>2, <3>1, <3>2 DEF TurnInv, Work
  <2>3. \A j \in DOMAIN calls : j >= next' => stage[j] = "waiting"
    BY <1>1 DEF TurnInv, Work, Shape, IsSequence
  <2> QED BY <1>1, <2>1, <2>2, <2>3 DEF TurnInv, Work
<1>11. ASSUME NEW u \in Threads, at'[u] # 0 PROVE Due(u)'
  <2>1. CASE u = t
    <3>1. stage[next] = "waiting"
      BY <1>1 DEF TurnInv, Work
    <3>2. Effect(Env, files, items, call) = outcome
      BY <1>8 DEF outcome
    <3> QED BY <1>1, <1>2, <1>4, <1>5, <2>1, <3>1, <3>2 DEF Due, call
  <2>2. CASE u # t
    <3>1. at'[u] = at[u] /\ at[u] # 0 /\ at[u] # next /\ at[u] \in DOMAIN calls
      BY <1>1, <1>2, <1>6, <1>11, <2>2
    <3>2. promised'.files = files /\ promised'.items = items
      <4>1. call.tool \in ToolNames \ Exclusive
        BY <1>1, <1>7, <3>1 DEF TurnInv, Shape, call
      <4>2. outcome = Outcome(promised.files, promised.items, outcome.result)
        BY <4>1, EffectLooks DEF outcome
      <4>3. outcome.files = promised.files /\ outcome.items = promised.items
        BY <4>2 DEF Outcome
      <4> QED BY <1>5, <1>8, <4>3
    <3>3. promised'.results[at[u]] = promised.results[at[u]]
      BY <1>5, <3>1
    <3>4. Due(u)
      BY <3>1 DEF TurnInv, Kept
    <3> QED BY <1>1, <1>8, <3>1, <3>2, <3>3, <3>4 DEF Due
  <2> QED BY <2>1, <2>2
<1>12. Kept'
  <2>1. ASSUME \A u \in Threads : at'[u] # 0 => calls[at'[u]].tool \notin Exclusive
        PROVE  files = promised'.files /\ items = promised'.items
    <3>1. call.tool \in ToolNames \ Exclusive
      BY <1>1, <1>2, <2>1 DEF TurnInv, Shape, call
    <3>2. outcome = Outcome(promised.files, promised.items, outcome.result)
      BY <3>1, EffectLooks DEF outcome
    <3>3. outcome.files = promised.files /\ outcome.items = promised.items
      BY <3>2 DEF Outcome
    <3> QED BY <1>5, <1>8, <3>3
  <2>2. \A j \in DOMAIN calls : stage[j] = "done" => results[j] = promised'.results[j]
    <3>1. stage[next] = "waiting"
      BY <1>1 DEF TurnInv, Work
    <3> QED BY <1>5, <3>1 DEF TurnInv, Kept
  <2> QED BY <1>1, <1>11, <2>1, <2>2 DEF Kept
<1> QED BY <1>9, <1>10, <1>12 DEF TurnInv

LEMMA SameOutcome ==
  ASSUME NEW a, NEW b, NEW c, NEW d, NEW e, NEW f, Outcome(a, b, c) = Outcome(d, e, f)
  PROVE  a = d /\ b = e /\ c = f
BY DEF Outcome

\* A call that ends as promised where files and items stay or are as promised.
LEMMA EndStep ==
  ASSUME TurnInv, NEW t \in Threads, at[t] # 0, NEW result, Settle(t, result),
         UNCHANGED <<calls, access, catalog, resources>>,
         Outcome(files', items', result)
           = Outcome(promised.files, promised.items, promised.results[at[t]]),
         calls[at[t]].tool \notin Exclusive => UNCHANGED <<files, items>>
  PROVE  TurnInv'
<1>1. files' = promised.files /\ items' = promised.items /\ result = promised.results[at[t]]
  BY SameOutcome
<1> QED BY <1>1, SettleStep

\* What a step of a call starts from.
LEMMA AtWork ==
  ASSUME TurnInv, NEW t \in Threads, at[t] # 0
  PROVE  /\ at[t] \in DOMAIN calls /\ calls[at[t]].tool \in ToolNames /\ Due(t)
         /\ stage[at[t]] \in Stages
         /\ \A s, value : Go(t, s, value) => stage'[at'[t]] = s /\ held'[at'[t]] = value
              /\ at' = at /\ promised' = promised
<1>1. at[t] \in DOMAIN calls
  BY DEF TurnInv, Shape, IsSequence
<1> QED BY <1>1 DEF TurnInv, Shape, Kept, Go

LEMMA EnterStep ==
  ASSUME TurnInv, NEW t \in Threads, Enter(t), UNCHANGED <<calls, access, catalog, resources>>
  PROVE  TurnInv'
<1> DEFINE call == calls[at[t]]
           promise == Outcome(promised.files, promised.items, promised.results[at[t]])
<1>1. /\ at[t] # 0 /\ stage[at[t]] = "waiting" /\ UNCHANGED <<files, items>>
      /\ IF ~call.allowed THEN Settle(t, Denied)
         ELSE IF ~Accepts(call.args, SchemaOf[call.tool]) THEN Settle(t, Error)
         ELSE Keep("body", t)
  BY DEF Enter, In
<1>2. Effect(Env, files, items, call) = promise
  BY <1>1, AtWork DEF Due
<1>3. CASE ~call.allowed
  <2>1. Outcome(files, items, Denied) = promise
    BY <1>2, <1>3 DEF Effect
  <2> QED BY <1>1, <1>3, <2>1, EndStep
<1>4. CASE call.allowed /\ ~Accepts(call.args, SchemaOf[call.tool])
  <2>1. Outcome(files, items, Error) = promise
    BY <1>2, <1>4 DEF Effect
  <2> QED BY <1>1, <1>4, <2>1, EndStep
<1>5. CASE call.allowed /\ Accepts(call.args, SchemaOf[call.tool])
  <2>1. Body(Env, files, items, call.tool, call.args) = promise
    BY <1>2, <1>5 DEF Effect
  <2>2. Go(t, "body", held[at[t]])
    BY <1>1, <1>5 DEF Keep
  <2>3. Due(t)'
    BY <1>1, <2>1, <2>2, AtWork DEF Due, Env
  <2> QED BY <1>1, <2>2, <2>3, GoStep
<1> QED BY <1>3, <1>4, <1>5

LEMMA LookStep ==
  ASSUME TurnInv, NEW t \in Threads, Look(t), UNCHANGED <<calls, access, catalog, resources>>
  PROVE  TurnInv'
<1> DEFINE tool == calls[at[t]].tool
           args == calls[at[t]].args
           promise == Outcome(promised.files, promised.items, promised.results[at[t]])
<1>1. /\ at[t] # 0 /\ stage[at[t]] = "body" /\ UNCHANGED <<files, items>>
      /\ tool \in {"read_file", "list_directory", "todo_list", "use_skill",
                   "read_skill_resource"}
  BY DEF Look, In
<1>2. Body(Env, files, items, tool, args) = promise
  BY <1>1, AtWork DEF Due
<1>3. \E result : Settle(t, result) /\ Body(Env, files, items, tool, args)
                                         = Outcome(files, items, result)
  <2>1. CASE tool = "read_file"
    BY <2>1 DEF Look, In, Body, ArgsOf, PathOf, Env
  <2>2. CASE tool = "list_directory"
    BY <2>2 DEF Look, In, Body, ArgsOf, PathOf, Env
  <2>3. CASE tool = "todo_list"
    BY <2>3 DEF Look, In, Body, ArgsOf, PathOf, Env
  <2>4. CASE tool = "use_skill"
    BY <2>4 DEF Look, In, Body, ArgsOf, PathOf, Env
  <2>5. CASE tool = "read_skill_resource"
    BY <2>5 DEF Look, In, Body, ArgsOf, PathOf, Env
  <2> QED BY <1>1, <2>1, <2>2, <2>3, <2>4, <2>5
<1>4. PICK result : Settle(t, result) /\ Outcome(files, items, result) = promise
  BY <1>2, <1>3
<1> QED BY <1>1, <1>4, EndStep

LEMMA CheckWriteStep ==
  ASSUME TurnInv, NEW t \in Threads, CheckWrite(t),
         UNCHANGED <<calls, access, catalog, resources>>
  PROVE  TurnInv'
<1> DEFINE args == calls[at[t]].args
           path == Arg(args, "path")
           promise == Outcome(promised.files, promised.items, promised.results[at[t]])
<1>1. /\ at[t] # 0 /\ stage[at[t]] = "body" /\ calls[at[t]].tool = "write_file"
      /\ UNCHANGED <<files, items>>
      /\ IF Writable(files, access, path) THEN Go(t, "ready", Arg(args, "content"))
         ELSE Settle(t, Error)
  BY DEF CheckWrite, In, PathOf, ArgsOf
<1>2. Body(Env, files, items, "write_file", args) = promise
  BY <1>1, AtWork DEF Due
<1>3. CASE Writable(files, access, path)
  <2>1. Outcome(Written(files, path, Arg(args, "content")), items, Ok(<< >>)) = promise
    BY <1>2, <1>3 DEF Body, Env
  <2>2. Go(t, "ready", Arg(args, "content"))
    BY <1>1, <1>3
  <2>3. Due(t)'
    BY <1>1, <2>1, <2>2, AtWork DEF Due
  <2> QED BY <1>1, <2>2, <2>3, GoStep DEF Exclusive
<1>4. CASE ~Writable(files, access, path)
  <2>1. Outcome(files, items, Error) = promise
    BY <1>2, <1>4 DEF Body, Env
  <2> QED BY <1>1, <1>4, <2>1, EndStep
<1> QED BY <1>3, <1>4

LEMMA CheckEditStep ==
  ASSUME TurnInv, NEW t \in Threads, CheckEdit(t),
         UNCHANGED <<calls, access, catalog, resources>>
  PROVE  TurnInv'
<1> DEFINE args == calls[at[t]].args
           path == Arg(args, "path")
           old == Arg(args, "old")
           edited == Edited(files[path], old, Arg(args, "new"))
           promise == Outcome(promised.files, promised.items, promised.results[at[t]])
<1>1. /\ at[t] # 0 /\ stage[at[t]] = "body" /\ calls[at[t]].tool = "edit_file"
      /\ UNCHANGED <<files, items>>
      /\ IF Editable(files, access, path, old) THEN Go(t, "ready", edited)
         ELSE Settle(t, Error)
  BY DEF CheckEdit, In, PathOf, ArgsOf
<1>2. Body(Env, files, items, "edit_file", args) = promise
  BY <1>1, AtWork DEF Due
<1>3. CASE Editable(files, access, path, old)
  <2>1. Outcome(Written(files, path, edited), items, Ok(<< >>)) = promise
    BY <1>2, <1>3 DEF Body, Env
  <2>2. Go(t, "ready", edited)
    BY <1>1, <1>3
  <2> HIDE DEF edited
  <2>3. Due(t)'
    BY <1>1, <2>1, <2>2, AtWork DEF Due
  <2> QED BY <1>1, <2>2, <2>3, GoStep DEF Exclusive
<1>4. CASE ~Editable(files, access, path, old)
  <2>1. Outcome(files, items, Error) = promise
    BY <1>2, <1>4 DEF Body, Env
  <2> QED BY <1>1, <1>4, <2>1, EndStep
<1> QED BY <1>3, <1>4

LEMMA TruncateStep ==
  ASSUME TurnInv, NEW t \in Threads, Truncate(t),
         UNCHANGED <<calls, access, catalog, resources>>
  PROVE  TurnInv'
<1> DEFINE path == Arg(calls[at[t]].args, "path")
           promise == Outcome(promised.files, promised.items, promised.results[at[t]])
<1>1. /\ at[t] # 0 /\ stage[at[t]] = "ready" /\ items' = items
      /\ calls[at[t]].tool \in {"write_file", "edit_file"}
      /\ files' = Written(files, path, << >>) /\ Go(t, "opened", held[at[t]])
  BY DEF Truncate, In, PathOf, ArgsOf, Keep
<1>2. Outcome(Written(files, path, held[at[t]]), items, Ok(<< >>)) = promise
  BY <1>1, AtWork DEF Due
<1>3. Outcome(Written(files', path, held[at[t]]), items', Ok(<< >>)) = promise
  BY <1>1, <1>2, WrittenTwice
<1>4. Due(t)'
  BY <1>1, <1>3, AtWork DEF Due
<1> QED BY <1>1, <1>4, GoStep DEF Exclusive

LEMMA FillStep ==
  ASSUME TurnInv, NEW t \in Threads, Fill(t), UNCHANGED <<calls, access, catalog, resources>>
  PROVE  TurnInv'
<1> DEFINE path == Arg(calls[at[t]].args, "path")
<1>1. /\ at[t] # 0 /\ stage[at[t]] = "opened" /\ items' = items
      /\ calls[at[t]].tool \in {"write_file", "edit_file"}
      /\ files' = Written(files, path, held[at[t]]) /\ Settle(t, Ok(<< >>))
  BY DEF Fill, In, PathOf, ArgsOf
<1>2. Outcome(files', items', Ok(<< >>))
        = Outcome(promised.files, promised.items, promised.results[at[t]])
  BY <1>1, AtWork DEF Due
<1> QED BY <1>1, <1>2, EndStep DEF Exclusive

LEMMA SetTodosStep ==
  ASSUME TurnInv, NEW t \in Threads, SetTodos(t),
         UNCHANGED <<calls, access, catalog, resources>>
  PROVE  TurnInv'
<1> DEFINE args == calls[at[t]].args
           promise == Outcome(promised.files, promised.items, promised.results[at[t]])
<1>1. /\ at[t] # 0 /\ stage[at[t]] = "body" /\ calls[at[t]].tool = "todo_set"
      /\ files' = files
      /\ IF ItemsThrow(args) THEN Settle(t, Failed) /\ items' = items
         ELSE items' = NewItems(args) /\ Go(t, "replaced", held[at[t]])
  BY DEF SetTodos, In, ArgsOf, Keep
<1>2. Body(Env, files, items, "todo_set", args) = promise
  BY <1>1, AtWork DEF Due
<1>3. CASE ItemsThrow(args)
  <2>1. Outcome(files, items, Failed) = promise
    BY <1>2, <1>3 DEF Body
  <2> QED BY <1>1, <1>3, <2>1, EndStep DEF Exclusive
<1>4. CASE ~ItemsThrow(args)
  <2>1. Outcome(files, NewItems(args), Ok(<< >>)) = promise
    BY <1>2, <1>4 DEF Body
  <2>2. Outcome(files', items', Ok(<< >>)) = promise /\ Go(t, "replaced", held[at[t]])
    BY <1>1, <1>4, <2>1
  <2>3. Due(t)'
    BY <1>1, <2>2, AtWork DEF Due
  <2> QED BY <1>1, <2>2, <2>3, GoStep DEF Exclusive
<1> QED BY <1>3, <1>4

LEMMA SnapshotStep ==
  ASSUME TurnInv, NEW t \in Threads, SnapshotTodos(t),
         UNCHANGED <<calls, access, catalog, resources>>
  PROVE  TurnInv'
<1>1. /\ at[t] # 0 /\ stage[at[t]] = "body" /\ calls[at[t]].tool = "todo_add"
      /\ UNCHANGED <<files, items>> /\ Go(t, "ready", items)
  BY DEF SnapshotTodos, In
<1>2. Body(Env, files, items, "todo_add", calls[at[t]].args)
        = Outcome(promised.files, promised.items, promised.results[at[t]])
  BY <1>1, AtWork DEF Due
<1>3. Outcome(files, Append(items, NewItem(calls[at[t]].args)), Ok(<< >>))
        = Outcome(promised.files, promised.items, promised.results[at[t]])
  BY <1>2 DEF Body
<1>4. Due(t)'
  BY <1>1, <1>3, AtWork DEF Due
<1> QED BY <1>1, <1>4, GoStep DEF Exclusive

LEMMA AddStep ==
  ASSUME TurnInv, NEW t \in Threads, AddTodo(t),
         UNCHANGED <<calls, access, catalog, resources>>
  PROVE  TurnInv'
<1>1. /\ at[t] # 0 /\ stage[at[t]] = "ready" /\ calls[at[t]].tool = "todo_add"
      /\ files' = files /\ items' = Append(held[at[t]], NewItem(calls[at[t]].args))
      /\ Go(t, "replaced", held[at[t]])
  BY DEF AddTodo, In, Keep, ArgsOf
<1>2. Outcome(files', items', Ok(<< >>))
        = Outcome(promised.files, promised.items, promised.results[at[t]])
  BY <1>1, AtWork DEF Due
<1>3. Due(t)'
  BY <1>1, <1>2, AtWork DEF Due
<1> QED BY <1>1, <1>3, GoStep DEF Exclusive

LEMMA NotifyStep ==
  ASSUME TurnInv, NEW t \in Threads, Notify(t), UNCHANGED <<calls, access, catalog, resources>>
  PROVE  TurnInv'
<1>1. /\ at[t] # 0 /\ stage[at[t]] = "replaced"
      /\ calls[at[t]].tool \in {"todo_set", "todo_add"}
      /\ UNCHANGED <<files, items>> /\ Settle(t, Ok(<< >>))
  BY DEF Notify, In
<1>2. Outcome(files', items', Ok(<< >>))
        = Outcome(promised.files, promised.items, promised.results[at[t]])
  BY <1>1, AtWork DEF Due
<1> QED BY <1>1, <1>2, EndStep DEF Exclusive

LEMMA ThreadStep ==
  ASSUME TurnInv, NEW t \in Threads, Thread(t) PROVE TurnInv'
<1>1. UNCHANGED <<calls, access, catalog, resources>>
  BY DEF Thread, userVars, skillVars, batchVars
<1> QED
  BY <1>1, TakeStep, EnterStep, LookStep, CheckWriteStep, CheckEditStep, TruncateStep,
     FillStep, SetTodosStep, SnapshotStep, AddStep, NotifyStep DEF Thread

-----------------------------------------------------------------------------
(* The inductive invariants of the skills and of the panel                 *)

Places(name) == Defining(Roots, disk, Names, name)
DirectoryAt(p) == disk[Roots[p[1]]][p[2]]

\* The first definition of each name that was visited is in the catalogue.
CatalogInv ==
  /\ disk \in Disks
  /\ here = <<here[1], here[2]>> /\ here[1] \in Nat \ {0} /\ here[2] \in Nat \ {0}
  /\ DOMAIN catalog \subseteq Names
  /\ \A n \in Names :
       n \in DOMAIN catalog <=> \E p \in Places(n) : Earlier(p, here)
  /\ \A n \in DOMAIN catalog :
       \E p \in Places(n) :
         /\ \A q \in Places(n) : q = p \/ Earlier(p, q)
         /\ catalog[n] = Definition(DirectoryAt(p))
  /\ ~Discovered => calls = << >>

\* A skill that was taken is promised as the catalogue has it.
SkillInv ==
  /\ \A i \in DOMAIN calls : calls[i].tool \notin Gated => calls[i].allowed
  /\ \A i \in DOMAIN calls :
       /\ i < next /\ calls[i].tool = "use_skill"
       /\ Accepts(calls[i].args, SchemaOf["use_skill"])
       => promised.results[i] = LoadSkill(catalog, Arg(calls[i].args, "name"))

TodoItems(l) ==
  /\ l \in Seq({l[k] : k \in DOMAIN l})
  /\ \A k \in DOMAIN l : l[k].status \in Statuses

\* The list, what a tool will make of it, and the panel.
PanelInv ==
  /\ TodoItems(items) /\ refreshes \in Nat
  /\ \A i \in DOMAIN calls :
       /\ stage[i] = "body" => Accepts(calls[i].args, SchemaOf[calls[i].tool])
       /\ stage[i] = "ready" /\ calls[i].tool = "todo_add" => TodoItems(held[i])
       /\ calls[i].tool = "todo_set" /\ Accepts(calls[i].args, SchemaOf["todo_set"])
            => IsSequence(calls[i].args.val.items.val)
  /\ refreshes = 0 /\ (\A i \in DOMAIN calls : stage[i] # "replaced") => panel = items

ToolsInv == TurnInv /\ CatalogInv /\ SkillInv /\ PanelInv

LEMMA InitTools == ASSUME Init PROVE ToolsInv
<1>1. /\ calls = << >> /\ items = << >> /\ refreshes = 0 /\ panel = << >>
      /\ disk \in Disks /\ here = <<1, 1>> /\ catalog = << >>
  BY DEF Init
<1>2. DOMAIN calls = {} /\ DOMAIN catalog = {} /\ DOMAIN items = {}
  BY <1>1
<1>3. \A n \in Names : \A p \in Places(n) : ~Earlier(p, here)
  <2> SUFFICES ASSUME NEW n \in Names, NEW p \in Places(n) PROVE ~Earlier(p, here)
    OBVIOUS
  <2>1. p[1] \in DOMAIN Roots /\ Roots[p[1]] # "missing" /\ p[2] \in DOMAIN disk[Roots[p[1]]]
    BY DEF Places, Defining, Counted
  <2>2. p[1] \in Nat \ {0} /\ p[2] \in Nat \ {0}
    BY <1>1, <2>1, ToolsAssumption DEF IsSequence
  <2> QED BY <1>1, <2>2 DEF Earlier
<1>4. CatalogInv
  BY <1>1, <1>2, <1>3 DEF CatalogInv
<1>5. SkillInv
  BY <1>2 DEF SkillInv
<1>6. TodoItems(items)
  BY <1>1, <1>2 DEF TodoItems
<1>7. PanelInv
  BY <1>1, <1>2, <1>6 DEF PanelInv
<1> QED BY <1>4, <1>5, <1>7, InitTurn DEF ToolsInv

\* Where definitions are.
LEMMA PlaceOf ==
  ASSUME CatalogInv, NEW n, NEW p \in Places(n)
  PROVE  /\ p = <<p[1], p[2]>> /\ p[1] \in DOMAIN Roots /\ Counted(Roots, p[1])
         /\ p[1] \in 1..Len(Roots) /\ p[2] \in 1..Len(disk[Roots[p[1]]])
         /\ Len(disk[Roots[p[1]]]) \in Nat /\ Len(Roots) \in Nat
         /\ DirectoryAt(p).dir \notin Names
<1>1. p = <<p[1], p[2]>> /\ p[1] \in DOMAIN Roots /\ Counted(Roots, p[1])
      /\ p[2] \in DOMAIN disk[Roots[p[1]]]
  BY DEF Places, Defining
<1> QED
  BY <1>1, ToolsAssumption DEF IsSequence, Counted, CatalogInv, DirectoryAt

LEMMA PlaceIf ==
  ASSUME CatalogInv, NEW n, NEW r \in DOMAIN Roots, Counted(Roots, r),
         NEW k \in DOMAIN disk[Roots[r]]
  PROVE  <<r, k>> \in Places(n) <=>
           /\ ~DirectoryAt(<<r, k>>).link /\ Accepted(DirectoryAt(<<r, k>>).file, Names)
           /\ Field(DirectoryAt(<<r, k>>).file, "name") = n
BY DEF Places, Defining, DirectoryAt

\* A turn of the loops of discover_skills.
LEMMA DiscoverStep ==
  ASSUME ToolsInv, Discover PROVE ToolsInv'
<1> DEFINE r == here[1]
           k == here[2]
           d == disk[Roots[r]][k]
<1>1. /\ calls = << >> /\ r \in 1..Len(Roots) /\ k \in Nat \ {0} /\ here = <<r, k>>
      /\ Len(Roots) \in Nat /\ DOMAIN Roots = 1..Len(Roots)
      /\ UNCHANGED <<access, files, items, refreshes, panel, disk, resources, calls,
                     next, at, stage, held, results, promised>>
  BY ToolsAssumption
     DEF ToolsInv, CatalogInv, Discover, Discovered, IsSequence, batchVars, callVars
<1>2. \A n : Places(n)' = Places(n) /\ \A p : DirectoryAt(p)' = DirectoryAt(p)
  BY <1>1 DEF Places, DirectoryAt
<1>3. TurnInv'
  <2>1. \A t \in Threads : at[t] = 0
    BY <1>1 DEF ToolsInv, TurnInv, Shape
  <2>2. Shape' /\ Work'
    BY <1>1 DEF ToolsInv, TurnInv, Shape, Work, Pool, Serial
  <2>3. Kept'
    BY <1>1, <2>1 DEF ToolsInv, TurnInv, Kept
  <2> QED BY <2>2, <2>3 DEF TurnInv
<1>4. SkillInv' /\ PanelInv'
  BY <1>1 DEF ToolsInv, SkillInv, PanelInv, TodoItems
<1>7. ASSUME here' = <<here'[1], here'[2]>>, here'[1] \in Nat \ {0}, here'[2] \in Nat \ {0},
             DOMAIN catalog' \subseteq Names,
             \A n \in Names :
               n \in DOMAIN catalog' <=> \E p \in Places(n) : Earlier(p, here'),
             \A n \in DOMAIN catalog' :
               \E p \in Places(n) :
                 /\ \A q \in Places(n) : q = p \/ Earlier(p, q)
                 /\ catalog'[n] = Definition(DirectoryAt(p))
      PROVE  CatalogInv'
  <2>1. disk' \in Disks /\ calls' = << >>
    BY <1>1 DEF ToolsInv, CatalogInv
  <2> QED BY <1>2, <1>7, <2>1 DEF CatalogInv
<1>5. ASSUME Counted(Roots, r) /\ k <= Len(disk[Roots[r]])
      PROVE  CatalogInv'
  <2>1. here' = <<r, k + 1>> /\ catalog' = Visit(catalog, d, Names)
    BY <1>5 DEF Discover
  <2>2. k \in DOMAIN disk[Roots[r]]
    BY <1>1, <1>5, ToolsAssumption DEF IsSequence, Counted, ToolsInv, CatalogInv
  <2>3. DirectoryAt(<<r, k>>) = d
    BY DEF DirectoryAt
  <2>4. \A n : <<r, k>> \in Places(n) <=> ~d.link /\ Accepted(d.file, Names)
                                           /\ Field(d.file, "name") = n
    BY <1>1, <1>5, <2>2, <2>3, PlaceIf DEF ToolsInv
  <2>5. \A n : \A p \in Places(n) : p = <<p[1], p[2]>> /\ p[1] \in Nat /\ p[2] \in Nat
    BY <1>1, PlaceOf DEF ToolsInv
  <2> HIDE DEF r, k, d
  <2>6. \A n : \A p \in Places(n) : Earlier(p, here') <=> Earlier(p, here) \/ p = <<r, k>>
    BY <1>1, <2>1, <2>5 DEF Earlier
  <2>7. \A n : \A p \in Places(n) : ~Earlier(p, here) => p = <<r, k>> \/ Earlier(<<r, k>>, p)
    BY <1>1, <2>5 DEF Earlier
  <2>8. CASE d.link \/ ~Accepted(d.file, Names)
    <3>1. catalog' = catalog
      BY <2>1, <2>8 DEF Visit, Add
    <3>2. \A n : <<r, k>> \notin Places(n)
      BY <2>4, <2>8
    <3>3. \A n : \A p \in Places(n) : Earlier(p, here') <=> Earlier(p, here)
      BY <2>6, <3>2
    <3> QED BY <1>1, <1>7, <2>1, <3>1, <3>3 DEF ToolsInv, CatalogInv
  <2>9. CASE ~d.link /\ Accepted(d.file, Names)
    <3> DEFINE name == Field(d.file, "name")
    <3>1. name \in Names
      BY <2>9 DEF Accepted
    <3> HIDE DEF name
    <3>2. \A n : <<r, k>> \in Places(n) <=> n = name
      BY <2>4, <2>9 DEF name
    <3>3. CASE name \in DOMAIN catalog
      <4>1. catalog' = catalog
        BY <2>1, <2>9, <3>3 DEF Visit, Add, name
      <4>2. \A n \in Names : (\E p \in Places(n) : Earlier(p, here'))
                                <=> (\E p \in Places(n) : Earlier(p, here))
        BY <2>6, <3>1, <3>2, <3>3 DEF ToolsInv, CatalogInv
      <4> QED BY <1>1, <1>7, <2>1, <4>1, <4>2 DEF ToolsInv, CatalogInv
    <3>4. CASE name \notin DOMAIN catalog
      <4>1. catalog' = With(catalog, name, Definition(d))
        BY <2>1, <2>9, <3>4 DEF Visit, Add, name
      <4>2. /\ DOMAIN catalog' = DOMAIN catalog \cup {name}
            /\ catalog'[name] = Definition(d)
            /\ \A n \in DOMAIN catalog : n # name /\ catalog'[n] = catalog[n]
        BY <3>4, <4>1 DEF With
      <4>3. \A n \in Names : n \in DOMAIN catalog' <=> \E p \in Places(n) : Earlier(p, here')
        BY <2>6, <3>1, <3>2, <4>2 DEF ToolsInv, CatalogInv
      <4>4. \A p \in Places(name) : p = <<r, k>> \/ Earlier(<<r, k>>, p)
        BY <2>7, <3>1, <3>4 DEF ToolsInv, CatalogInv
      <4>5. \A n \in DOMAIN catalog' :
              \E p \in Places(n) :
                /\ \A q \in Places(n) : q = p \/ Earlier(p, q)
                /\ catalog'[n] = Definition(DirectoryAt(p))
        <5> SUFFICES ASSUME NEW n \in DOMAIN catalog'
                     PROVE \E p \in Places(n) :
                             /\ \A q \in Places(n) : q = p \/ Earlier(p, q)
                             /\ catalog'[n] = Definition(DirectoryAt(p))
          OBVIOUS
        <5>1. CASE n = name
          BY <2>3, <3>2, <4>2, <4>4, <5>1
        <5>2. CASE n \in DOMAIN catalog
          BY <4>2, <5>2 DEF ToolsInv, CatalogInv
        <5> QED BY <4>2, <5>1, <5>2
      <4>6. DOMAIN catalog' \subseteq Names
        BY <3>1, <4>2 DEF ToolsInv, CatalogInv
      <4>7. /\ here' = <<here'[1], here'[2]>>
            /\ here'[1] \in Nat \ {0} /\ here'[2] \in Nat \ {0}
        BY <1>1, <2>1
      <4> QED BY <1>7, <4>3, <4>5, <4>6, <4>7
    <3> QED BY <3>3, <3>4
  <2> QED BY <2>8, <2>9
<1>6. ASSUME ~(Counted(Roots, r) /\ k <= Len(disk[Roots[r]]))
      PROVE  CatalogInv'
  <2>1. here' = <<r + 1, 1>> /\ catalog' = catalog
    BY <1>6 DEF Discover
  <2>2. \A n : \A p \in Places(n) : Earlier(p, here') <=> Earlier(p, here)
    <3> SUFFICES ASSUME NEW n, NEW p \in Places(n) PROVE Earlier(p, here') <=> Earlier(p, here)
      OBVIOUS
    <3>1. /\ p[1] \in 1..Len(Roots) /\ Counted(Roots, p[1])
          /\ p[2] \in 1..Len(disk[Roots[p[1]]]) /\ Len(disk[Roots[p[1]]]) \in Nat
      BY PlaceOf DEF ToolsInv
    <3>2. p[1] = r => p[2] < k
      BY <1>1, <1>6, <3>1
    <3> QED BY <1>1, <2>1, <3>1, <3>2 DEF Earlier
  <2> QED BY <1>1, <1>7, <2>1, <2>2 DEF ToolsInv, CatalogInv
<1> QED BY <1>3, <1>4, <1>5, <1>6 DEF ToolsInv

\* The model asks for a batch, when no call is in progress.
LEMMA BeginStep ==
  ASSUME ToolsInv, NEW batch \in Batches, BeginBatch(batch) PROVE ToolsInv'
<1>1. /\ Discovered /\ Settled /\ next' = 1
      /\ stage' = [i \in DOMAIN batch |-> "waiting"]
      /\ held' = [i \in DOMAIN batch |-> << >>]
      /\ results' = [i \in DOMAIN batch |-> Error]
      /\ promised' = [files |-> files, items |-> items,
                      results |-> [i \in DOMAIN batch |-> Error]]
      /\ UNCHANGED <<access, disk, here, catalog, resources, files, items, refreshes, panel, at>>
  BY DEF BeginBatch, userVars, skillVars
<1>2. PICK allow \in BOOLEAN :
        calls' = [i \in DOMAIN batch |->
                    [tool |-> batch[i].tool, args |-> batch[i].args,
                     allowed |-> allow \/ batch[i].tool \notin Gated]]
  BY DEF BeginBatch
<1>3. IsSequence(batch) /\ \A i \in DOMAIN batch : batch[i].tool \in ToolNames
  BY ToolsAssumption
<1>4. DOMAIN calls' = 1..Len(batch) /\ DOMAIN batch = 1..Len(batch) /\ Len(batch) \in Nat
  BY <1>2, <1>3 DEF IsSequence
<1>5. /\ \A i \in DOMAIN batch : calls'[i].tool = batch[i].tool /\ calls'[i].args = batch[i].args
      /\ \A i \in DOMAIN batch : calls'[i].tool \notin Gated => calls'[i].allowed
  BY <1>2
<1>6. IsSequence(calls') /\ Len(calls') = Len(batch)
  <2>1. calls' \in Seq({calls'[i] : i \in 1..Len(batch)})
    BY <1>2, <1>4
  <2> QED BY <1>4, <2>1, LenProperties DEF IsSequence
<1>7. \A t \in Threads : at[t] = 0
  BY <1>1 DEF ToolsInv, TurnInv, Shape, Work, Settled, IsSequence
<1>8. TurnInv'
  <2>1. Shape'
    <3>1. stage' \in [DOMAIN calls' -> Stages] /\ at' \in [Threads -> 0..Len(calls')]
      BY <1>1, <1>4, <1>6, <1>7 DEF Stages, ToolsInv, TurnInv, Shape
    <3>2. /\ held' = [i \in DOMAIN calls' |-> held'[i]]
          /\ results' = [i \in DOMAIN calls' |-> results'[i]]
          /\ promised'.results = [i \in DOMAIN calls' |-> promised'.results[i]]
          /\ promised' = [files |-> promised'.files, items |-> promised'.items,
                          results |-> promised'.results]
      BY <1>1, <1>4
    <3>3. next' \in 1..(Len(calls') + 1)
      BY <1>1, <1>4, <1>6
    <3>4. \A i \in DOMAIN calls' : calls'[i].tool \in ToolNames
      BY <1>3, <1>4, <1>5
    <3> QED BY <1>6, <3>1, <3>2, <3>3, <3>4 DEF Shape
  <2>2. Work'
    BY <1>1, <1>4, <1>7 DEF Work
  <2>3. Kept'
    BY <1>1, <1>4, <1>7 DEF Kept
  <2> QED BY <2>1, <2>2, <2>3 DEF TurnInv
<1>9. CatalogInv'
  <2>1. \A n : Places(n)' = Places(n)
    BY <1>1 DEF Places
  <2>2. \A p : DirectoryAt(p)' = DirectoryAt(p)
    BY <1>1 DEF DirectoryAt
  <2>3. Discovered'
    BY <1>1 DEF Discovered
  <2> QED BY <1>1, <2>1, <2>2, <2>3 DEF ToolsInv, CatalogInv
<1>10. SkillInv'
  <2>1. \A i \in DOMAIN calls' : ~(i < next')
    BY <1>1, <1>4
  <2> QED BY <1>4, <1>5, <2>1 DEF SkillInv
<1>11. PanelInv'
  <2>1. \A i \in DOMAIN calls' :
          calls'[i].tool = "todo_set" /\ Accepts(calls'[i].args, SchemaOf["todo_set"])
            => IsSequence(calls'[i].args.val.items.val)
    BY <1>4, <1>5, ToolsAssumption
  <2>2. \A i \in DOMAIN calls' : stage'[i] = "waiting"
    BY <1>1, <1>4
  <2>3. refreshes = 0 => panel = items
    BY <1>1 DEF ToolsInv, PanelInv, Settled
  <2>4. TodoItems(items') /\ refreshes' \in Nat
    BY <1>1 DEF ToolsInv, PanelInv
  <2> QED BY <1>1, <2>1, <2>2, <2>3, <2>4 DEF PanelInv
<1> QED BY <1>8, <1>9, <1>10, <1>11 DEF ToolsInv

\* What the user changes, the redrawing of the panel and a rest.
LEMMA UserStep ==
  ASSUME ToolsInv, Discovered, Settled,
         UNCHANGED <<files, items, refreshes, panel, disk, here, catalog, batchVars, callVars>>
  PROVE  ToolsInv'
<1>1. UNCHANGED <<files, items, refreshes, panel, disk, here, catalog, calls, next, at,
                  stage, held, results, promised>>
  BY DEF batchVars, callVars
<1>2. \A t \in Threads : at[t] = 0
  BY DEF ToolsInv, TurnInv, Shape, Work, Settled, IsSequence
<1>3. TurnInv'
  <2>1. Shape' /\ Work'
    BY <1>1 DEF ToolsInv, TurnInv, Shape, Work, Pool, Serial
  <2>2. Kept'
    BY <1>1, <1>2 DEF ToolsInv, TurnInv, Kept
  <2> QED BY <2>1, <2>2 DEF TurnInv
<1>4. CatalogInv'
  BY <1>1 DEF ToolsInv, CatalogInv, Places, DirectoryAt, Discovered
<1>5. SkillInv' /\ PanelInv'
  BY <1>1 DEF ToolsInv, SkillInv, PanelInv, TodoItems
<1> QED BY <1>3, <1>4, <1>5 DEF ToolsInv

LEMMA RefreshStep == ASSUME ToolsInv, RefreshTodo PROVE ToolsInv'
<1>1. /\ refreshes > 0 /\ refreshes' = refreshes - 1 /\ panel' = items
      /\ UNCHANGED <<access, files, items, disk, here, catalog, resources, calls, next, at,
                     stage, held, results, promised>>
  BY DEF RefreshTodo, userVars, skillVars, batchVars, callVars
<1>2. TurnInv'
  BY <1>1 DEF ToolsInv, TurnInv, Shape, Work, Kept, Due, Env, Pool, Serial
<1>3. CatalogInv'
  <2>1. UNCHANGED <<disk, here, catalog, calls>>
    BY <1>1
  <2> QED BY <2>1 DEF ToolsInv, CatalogInv, Places, DirectoryAt, Discovered
<1>4. SkillInv'
  BY <1>1 DEF ToolsInv, SkillInv
<1>5. PanelInv'
  BY <1>1 DEF ToolsInv, PanelInv
<1> QED BY <1>2, <1>3, <1>4, <1>5 DEF ToolsInv
\* The steps of a thread: what they leave of the skills and of the panel.
LEMMA ThreadSkills ==
  ASSUME ToolsInv, NEW t \in Threads, Thread(t) PROVE CatalogInv' /\ SkillInv'
<1>1. UNCHANGED <<access, disk, here, catalog, resources, calls>>
  BY DEF Thread, userVars, skillVars, batchVars
<1>2. CatalogInv'
  BY <1>1 DEF ToolsInv, CatalogInv, Places, DirectoryAt, Discovered
<1>3. CASE Take(t)
  <2> DEFINE call == calls[next]
  <2>1. /\ next \in DOMAIN calls /\ next \in Nat /\ next' = next + 1
        /\ promised'.results = [promised.results EXCEPT ![next] =
             Effect(Env, promised.files, promised.items, call).result]
    BY <1>3 DEF Take, Promise, ToolsInv, TurnInv, Shape, IsSequence
  <2>2. /\ promised'.results[next] = Effect(Env, promised.files, promised.items, call).result
        /\ \A i \in DOMAIN calls : i # next => promised'.results[i] = promised.results[i]
    BY <2>1 DEF ToolsInv, TurnInv, Shape
  <2>3. ASSUME call.tool = "use_skill", Accepts(call.args, SchemaOf["use_skill"])
        PROVE  promised'.results[next] = LoadSkill(catalog, Arg(call.args, "name"))
    <3>1. call.allowed
      BY <2>1, <2>3 DEF ToolsInv, SkillInv, Gated
    <3>2. Effect(Env, promised.files, promised.items, call)
            = Outcome(promised.files, promised.items,
                      LoadSkill(catalog, Arg(call.args, "name")))
      BY <2>3, <3>1 DEF Effect, Body, Env
    <3>3. \A a, b, c : Outcome(a, b, c).result = c
      BY DEF Outcome
    <3> QED BY <2>2, <3>2, <3>3
  <2>4. \A i \in DOMAIN calls : i < next' => i = next \/ i < next
    BY <2>1 DEF ToolsInv, TurnInv, Shape, IsSequence
  <2> QED BY <1>1, <1>2, <2>2, <2>3, <2>4 DEF ToolsInv, SkillInv
<1>4. CASE ~Take(t)
  <2>1. UNCHANGED <<next, promised>>
    BY <1>4 DEF Thread, Enter, Look, CheckWrite, CheckEdit, Truncate, Fill, SetTodos,
         SnapshotTodos, AddTodo, Notify, Settle, Keep, Go
  <2> QED BY <1>1, <1>2, <2>1 DEF ToolsInv, SkillInv
<1> QED BY <1>3, <1>4

LEMMA NewItemsAreItems ==
  ASSUME NEW args, IsSequence(args.val.items.val) PROVE TodoItems(NewItems(args))
<1> DEFINE v == args.val.items.val
           l == NewItems(args)
<1>1. Len(v) \in Nat /\ l = [i \in 1..Len(v) |-> ItemOf(v[i])]
  BY DEF IsSequence, NewItems
<1> HIDE DEF l
<1>2. l \in Seq({l[k] : k \in DOMAIN l})
  BY <1>1
<1>3. \A value : ItemOf(value).status \in Statuses
  BY DEF ItemOf, Statuses
<1>4. \A k \in DOMAIN l : l[k].status \in Statuses
  BY <1>1, <1>3
<1> QED BY <1>2, <1>4 DEF TodoItems, l

LEMMA OneItemMore ==
  ASSUME NEW l, TodoItems(l), NEW args PROVE TodoItems(Append(l, NewItem(args)))
<1> DEFINE m == Append(l, NewItem(args))
           S == {l[k] : k \in DOMAIN l} \cup {NewItem(args)}
<1>1. l \in Seq(S) /\ NewItem(args) \in S
  BY DEF TodoItems
<1> HIDE DEF S
<1>2. /\ m \in Seq(S) /\ Len(m) = Len(l) + 1 /\ Len(l) \in Nat
      /\ DOMAIN m = 1..Len(m) /\ DOMAIN l = 1..Len(l)
      /\ \A k \in 1..Len(l) : m[k] = l[k]
      /\ m[Len(l) + 1] = NewItem(args)
  BY <1>1
<1>3. \A k \in DOMAIN m : m[k].status \in Statuses
  <2>1. NewItem(args).status \in Statuses
    BY DEF NewItem, Statuses
  <2>2. \A k \in DOMAIN m : k \in DOMAIN l \/ k = Len(l) + 1
    BY <1>2
  <2> QED BY <1>2, <2>1, <2>2 DEF TodoItems
<1> HIDE DEF m
<1>4. m \in Seq({m[k] : k \in DOMAIN m})
  <2>1. m = [k \in 1..Len(m) |-> m[k]] /\ Len(m) \in Nat
    BY <1>2
  <2> QED BY <1>2, <2>1
<1> QED BY <1>3, <1>4 DEF TodoItems, m
\* The panel is as the list, or the list's change is not announced yet.
LEMMA PanelLast ==
  ASSUME ToolsInv, NEW t \in Threads, Thread(t)
  PROVE  refreshes' = 0 /\ (\A i \in DOMAIN calls' : stage'[i] # "replaced") => panel' = items'
<1> SUFFICES ASSUME refreshes' = 0, \A i \in DOMAIN calls' : stage'[i] # "replaced"
             PROVE  panel' = items'
  OBVIOUS
<1>1. UNCHANGED <<calls, panel>>
  BY DEF Thread, batchVars
<1>2. refreshes \in Nat /\ (refreshes = 0 /\ (\A i \in DOMAIN calls : stage[i] # "replaced") => panel = items)
  BY DEF ToolsInv, PanelInv
<1>3. at[t] # 0 => at[t] \in DOMAIN calls
  BY AtWork DEF ToolsInv
<1>4. stage \in [DOMAIN calls -> Stages]
  BY DEF ToolsInv, TurnInv, Shape
<1>5. ~Notify(t)
  BY <1>2 DEF Notify
<1>6. CASE UNCHANGED <<stage, items, refreshes>>
  BY <1>1, <1>2, <1>6
<1>7. ASSUME at[t] # 0, stage[at[t]] # "replaced", NEW s, stage' = [stage EXCEPT ![at[t]] = s],
             UNCHANGED <<items, refreshes>>
      PROVE  panel' = items'
  <2>1. \A i \in DOMAIN calls : stage[i] # "replaced"
    BY <1>1, <1>3, <1>4, <1>7
  <2> QED BY <1>1, <1>2, <1>7, <2>1
<1>8. ASSUME at[t] # 0, stage' = [stage EXCEPT ![at[t]] = "replaced"] PROVE FALSE
  BY <1>1, <1>3, <1>4, <1>8
<1>9. CASE Take(t)
  BY <1>6, <1>9 DEF Take
<1>10. CASE Enter(t) \/ Look(t)
  BY <1>7, <1>10 DEF Enter, Look, In, Settle, Keep, Go
<1>11. CASE CheckWrite(t) \/ CheckEdit(t)
  BY <1>7, <1>11 DEF CheckWrite, CheckEdit, In, Settle, Go
<1>12. CASE Truncate(t) \/ Fill(t)
  BY <1>7, <1>12 DEF Truncate, Fill, In, Settle, Keep, Go
<1>13. CASE SetTodos(t)
  BY <1>7, <1>8, <1>13 DEF SetTodos, In, Settle, Keep, Go
<1>14. CASE SnapshotTodos(t)
  BY <1>7, <1>14 DEF SnapshotTodos, In, Go
<1>15. CASE AddTodo(t)
  BY <1>8, <1>15 DEF AddTodo, In, Keep, Go
<1> QED BY <1>5, <1>9, <1>10, <1>11, <1>12, <1>13, <1>14, <1>15 DEF Thread

LEMMA ThreadPanel ==
  ASSUME ToolsInv, NEW t \in Threads, Thread(t) PROVE PanelInv'
<1> DEFINE i == at[t]
           args == calls[i].args
<1>1. UNCHANGED calls
  BY DEF Thread, batchVars
<1>2. /\ TodoItems(items) /\ refreshes \in Nat
      /\ \A j \in DOMAIN calls :
           /\ stage[j] = "body" => Accepts(calls[j].args, SchemaOf[calls[j].tool])
           /\ stage[j] = "ready" /\ calls[j].tool = "todo_add" => TodoItems(held[j])
           /\ calls[j].tool = "todo_set" /\ Accepts(calls[j].args, SchemaOf["todo_set"])
                => IsSequence(calls[j].args.val.items.val)
  BY DEF ToolsInv, PanelInv
<1>3. i # 0 => i \in DOMAIN calls
  BY AtWork DEF ToolsInv
<1>4. stage \in [DOMAIN calls -> Stages] /\ held = [j \in DOMAIN calls |-> held[j]]
  BY DEF ToolsInv, TurnInv, Shape
<1>5. TodoItems(items')
  <2>1. CASE items' = items
    BY <1>2, <2>1
  <2>2. CASE AddTodo(t)
    <3>1. items' = Append(held[i], NewItem(args)) /\ TodoItems(held[i])
      BY <1>2, <1>3, <2>2 DEF AddTodo, In, ArgsOf
    <3> QED BY <3>1, OneItemMore
  <2>3. CASE SetTodos(t) /\ items' # items
    <3>1. items' = NewItems(args) /\ IsSequence(args.val.items.val)
      BY <1>2, <1>3, <2>3 DEF SetTodos, In, ArgsOf
    <3> QED BY <3>1, NewItemsAreItems
  <2>4. SetTodos(t) \/ AddTodo(t) \/ items' = items
    BY DEF Thread, Take, Enter, Look, CheckWrite, CheckEdit, Truncate, Fill, SnapshotTodos,
       Notify
  <2> QED BY <2>1, <2>2, <2>3, <2>4
<1>6. refreshes' \in Nat
  BY <1>2 DEF Thread, Take, Enter, Look, CheckWrite, CheckEdit, Truncate, Fill, SetTodos,
     SnapshotTodos, AddTodo, Notify
<1>7. ASSUME NEW j \in DOMAIN calls
      PROVE  /\ stage'[j] = "body" => Accepts(calls[j].args, SchemaOf[calls[j].tool])
             /\ stage'[j] = "ready" /\ calls[j].tool = "todo_add" => TodoItems(held'[j])
  <2> HIDE DEF i, args
  <2>1. CASE stage'[j] = stage[j] /\ held'[j] = held[j]
    BY <1>2, <2>1
  <2>2. CASE stage'[j] \in {"opened", "replaced", "done"}
    BY <2>2
  <2>3. \/ UNCHANGED <<stage, held>>
        \/ i # 0 /\ \E s, value : /\ stage' = [stage EXCEPT ![i] = s]
                                  /\ held' = [held EXCEPT ![i] = value]
        \/ i # 0 /\ stage' = [stage EXCEPT ![i] = "done"] /\ held' = held
    BY DEF Thread, Take, Enter, Look, CheckWrite, CheckEdit, Truncate, Fill, SetTodos,
       SnapshotTodos, AddTodo, Notify, In, Settle, Keep, Go, i
  <2>4. CASE j # i
    BY <1>3, <1>4, <2>1, <2>3, <2>4
  <2>5. CASE j = i
    <3>1. CASE Enter(t)
      BY <1>2, <1>4, <2>5, <3>1 DEF Enter, In, Settle, Keep, Go, i
    <3>2. CASE SnapshotTodos(t)
      BY <1>2, <1>4, <2>5, <3>2 DEF SnapshotTodos, In, Go, i
    <3>3. CASE CheckWrite(t) \/ CheckEdit(t)
      BY <1>4, <2>5, <3>3 DEF CheckWrite, CheckEdit, In, Settle, Go, i
    <3>4. CASE Take(t)
      BY <2>1, <3>4 DEF Take
    <3>5. CASE Look(t) \/ Truncate(t) \/ Fill(t) \/ SetTodos(t) \/ AddTodo(t) \/ Notify(t)
      <4>1. stage'[i] \in {"opened", "replaced", "done"}
        BY <1>4, <2>5, <3>5
           DEF Look, Truncate, Fill, SetTodos, AddTodo, Notify, Settle, Keep, Go, i
      <4> QED BY <2>2, <2>5, <4>1
    <3> QED BY <3>1, <3>2, <3>3, <3>4, <3>5 DEF Thread
  <2> QED BY <2>4, <2>5
<1> QED BY <1>1, <1>2, <1>5, <1>6, <1>7, PanelLast DEF PanelInv

-----------------------------------------------------------------------------
(* The theorems                                                            *)

\* The invariants hold however the threads, the panel and the user take turns.
THEOREM ToolsInvariant == Spec => []ToolsInv
<1>1. ToolsInv /\ [Next]_vars => ToolsInv'
  <2> SUFFICES ASSUME ToolsInv, [Next]_vars PROVE ToolsInv'
    OBVIOUS
  <2>1. CASE Discover
    BY <2>1, DiscoverStep
  <2>2. CASE \E batch \in Batches : BeginBatch(batch)
    BY <2>2, BeginStep
  <2>3. CASE \E t \in Threads : Thread(t)
    BY <2>3, ThreadStep, ThreadSkills, ThreadPanel DEF ToolsInv
  <2>4. CASE RefreshTodo
    BY <2>4, RefreshStep
  <2>5. CASE \E mode \in (0..2) \ {access} : SetAccess(mode)
    BY <2>5, UserStep DEF SetAccess, UserChanges, skillVars
  <2>6. CASE \E dir \in DOMAIN resources : ClearSkill(dir)
    BY <2>6, UserStep DEF ClearSkill, UserChanges
  <2>7. CASE UNCHANGED vars
    <3>1. UNCHANGED <<access, files, items, refreshes, panel, disk, here, catalog, resources,
                      calls, next, at, stage, held, results, promised>>
      BY <2>7 DEF vars, userVars, skillVars, batchVars, callVars
    <3>2. TurnInv'
      BY <3>1 DEF ToolsInv, TurnInv, Shape, Work, Kept, Due, Env, Pool, Serial
    <3>3. CatalogInv'
      BY <3>1 DEF ToolsInv, CatalogInv, Places, DirectoryAt, Discovered
    <3>4. SkillInv' /\ PanelInv'
      BY <3>1 DEF ToolsInv, SkillInv, PanelInv
    <3> QED BY <3>2, <3>3, <3>4 DEF ToolsInv
  <2>8. CASE Rest
    BY <2>7, <2>8 DEF Rest
  <2> QED BY <2>1, <2>2, <2>3, <2>4, <2>5, <2>6, <2>7, <2>8 DEF Next
<1> QED BY <1>1, InitTools, PTL DEF Spec

\* A batch does, on any number of threads, what its calls do one after the
\* other in the order of the model.
THEOREM ToolsInTurn == Spec => []InTurn
<1>1. ToolsInv => InTurn
  <2> SUFFICES ASSUME ToolsInv, Settled
               PROVE  [files |-> files, items |-> items, results |-> results] = promised
    BY DEF InTurn
  <2>1. \A t \in Threads : at[t] = 0
    BY DEF ToolsInv, TurnInv, Shape, Work, Settled, IsSequence
  <2>2. files = promised.files /\ items = promised.items
    BY <2>1 DEF ToolsInv, TurnInv, Kept
  <2>3. results = promised.results
    <3>1. \A i \in DOMAIN calls : results[i] = promised.results[i]
      BY DEF ToolsInv, TurnInv, Kept, Settled
    <3>2. /\ results = [i \in DOMAIN calls |-> results[i]]
          /\ promised.results = [i \in DOMAIN calls |-> promised.results[i]]
      BY DEF ToolsInv, TurnInv, Shape
    <3> QED BY <3>1, <3>2
  <2> QED BY <2>2, <2>3 DEF ToolsInv, TurnInv, Shape
<1> QED BY <1>1, ToolsInvariant, PTL

\* The panel shows the list whenever no change of it is unannounced or queued.
THEOREM ToolsPanelCurrent == Spec => []PanelCurrent
<1>1. ToolsInv => PanelCurrent
  BY DEF ToolsInv, PanelInv, TodoItems, PanelCurrent
<1> QED BY <1>1, ToolsInvariant, PTL

\* A name is looked up as a name, and found where it was defined first.
THEOREM ToolsSkillsAsAnnounced == Spec => []SkillsAsAnnounced
<1>1. ToolsInv => SkillsAsAnnounced
  <2> SUFFICES ASSUME ToolsInv, NEW i \in DOMAIN calls,
                      calls[i].tool = "use_skill", stage[i] = "done",
                      Accepts(calls[i].args, SchemaOf["use_skill"]),
                      Arg(calls[i].args, "name") \in Names
               PROVE  LET places == Places(Arg(calls[i].args, "name"))
                      IN  IF places = {} THEN results[i] = Error
                          ELSE \E p \in places :
                                 /\ \A q \in places : q = p \/ Earlier(p, q)
                                 /\ results[i] = Ok(DirectoryAt(p).file.body)
    BY DEF SkillsAsAnnounced, Places, DirectoryAt
  <2> DEFINE name == Arg(calls[i].args, "name")
  <2>1. Discovered /\ i < next
    BY DEF ToolsInv, CatalogInv, TurnInv, Shape, Work, IsSequence
  <2>2. results[i] = LoadSkill(catalog, name)
    BY <2>1 DEF ToolsInv, SkillInv, TurnInv, Kept
  <2> HIDE DEF name
  <2>3. name \in Names
    BY DEF name
  <2>4. \A n \in DOMAIN catalog : catalog[n].dir \notin Names
    BY PlaceOf DEF ToolsInv, CatalogInv, Definition
  <2>5. SkillNamed(catalog, name) = name
    BY <2>3, <2>4 DEF SkillNamed
  <2>6. \A p \in Places(name) : Earlier(p, here)
    BY <2>1, PlaceOf DEF ToolsInv, CatalogInv, Earlier, Discovered
  <2>7. CASE Places(name) = {}
    <3>1. name \notin DOMAIN catalog
      BY <2>3, <2>7 DEF ToolsInv, CatalogInv
    <3> QED BY <2>2, <2>5, <2>7, <3>1 DEF LoadSkill, name
  <2>8. CASE Places(name) # {}
    <3>1. name \in DOMAIN catalog
      BY <2>3, <2>6, <2>8 DEF ToolsInv, CatalogInv
    <3>2. PICK p \in Places(name) : /\ \A q \in Places(name) : q = p \/ Earlier(p, q)
                                    /\ catalog[name] = Definition(DirectoryAt(p))
      BY <3>1 DEF ToolsInv, CatalogInv
    <3>3. results[i] = Ok(DirectoryAt(p).file.body)
      BY <2>2, <2>5, <3>1, <3>2 DEF LoadSkill, Definition
    <3> QED BY <2>8, <3>2, <3>3 DEF name
  <2> QED BY <2>7, <2>8
<1> QED BY <1>1, ToolsInvariant, PTL
==============================================================================
