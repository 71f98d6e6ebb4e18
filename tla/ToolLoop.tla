------------------------------ MODULE ToolLoop ------------------------------
(***************************************************************************)
(* What a turn promises the owner of the log: the log is repaired once,    *)
(* then it only grows, by whole exchanges (an assistant message with calls *)
(* and, right behind it, the output of every call in the order of the      *)
(* calls) and at last by the answer.  A turn that fails leaves whole       *)
(* exchanges behind and nothing else.  The trace records the same calls in *)
(* the same order.                                                         *)
(***************************************************************************)
EXTENDS Integers, Sequences

CONSTANTS
  Rounds,      \* the most exchanges of a turn
  Repair(_),   \* what becomes of a log before it is sent
  Output(_)    \* the output of the call with an id

VARIABLES
  log, done, state,
  told     \* the ids of the records in the trace

Init == done = 0 /\ state = "new"

Begin ==
  /\ state = "new" /\ state' = "open"
  /\ log' = Repair(log) /\ told' = << >>
  /\ UNCHANGED done

Exchange ==
  /\ state = "open" /\ done < Rounds
  /\ done' = done + 1
  /\ state' = IF done' = Rounds THEN "closed" ELSE "open"
  /\ Len(log') > Len(log)
  /\ LET call == log'[Len(log) + 1]
     IN  /\ call.role = "assistant" /\ call.calls # << >>
         /\ log' = Append(log, call) \o
                   [k \in DOMAIN call.calls |-> Output(call.calls[k])]
         /\ told' = told \o call.calls

Close ==
  /\ state = "open" /\ state' = "closed"
  /\ \/ UNCHANGED log
     \/ /\ Len(log') = Len(log) + 1
        /\ log'[Len(log')].role = "assistant" /\ log'[Len(log')].calls = << >>
        /\ log' = Append(log, log'[Len(log')])
  /\ UNCHANGED <<done, told>>

Next == Begin \/ Exchange \/ Close

vars == <<log, done, state, told>>
Spec == Init /\ [][Next]_vars
=============================================================================
