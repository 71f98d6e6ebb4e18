----------------------------- MODULE MessageLog -----------------------------
(***************************************************************************)
(* The conversation log (agent::MessageList, core/agent/model.hpp) and the *)
(* two transformations the program applies to a whole log:                 *)
(*   - AgentEngine::run drops the tool groups that are not complete        *)
(*     (remove_incomplete_tool_groups, core/agent/agent.cpp);              *)
(*   - ChatViewModel::maybe_compact replaces an old prefix by a note       *)
(*     (modules/chat/viewmodel/chat_view_model.cpp).                       *)
(*                                                                         *)
(* A message is a record with the fields the two look at:                  *)
(*   role   the Role of the message                                        *)
(*   calls  the ids of the tool calls of an assistant message              *)
(*   id     the tool_call_id of a tool message (NoId elsewhere)            *)
(*   home   the session whose conversation produced the message; no code   *)
(*          reads it, the properties do                                    *)
(* Texts, arguments and reasoning are left out.  An empty id and an empty  *)
(* tool name have the same effect on a group, and both are NoId.           *)
(***************************************************************************)
EXTENDS Integers, Sequences, FiniteSets

Roles == {"system", "user", "assistant", "tool"}
NoId  == 0

Messages(homes) ==
  [role : Roles, calls : Seq(Nat), id : Nat, home : homes]

Message(role, calls, id, home) ==
  [role |-> role, calls |-> calls, id |-> id, home |-> home]

-----------------------------------------------------------------------------
(* remove_incomplete_tool_groups                                           *)

IsCall(h, i) == h[i].role = "assistant" /\ h[i].calls # << >>

\* The tool messages that directly follow message i.
Outputs(h, i) ==
  {j \in DOMAIN h : j > i /\ \A k \in (i + 1)..j : h[k].role = "tool"}

\* The calls of message i and the outputs after it answer each other one to
\* one: no empty id, no id twice, the same ids on both sides.
Complete(h, i) ==
  LET calls == h[i].calls
      outs  == Outputs(h, i)
  IN  /\ \A m, n \in DOMAIN calls : m # n => calls[m] # calls[n]
      /\ \A j, k \in outs : j # k => h[j].id # h[k].id
      /\ \A n \in DOMAIN calls : calls[n] # NoId
      /\ {h[j].id : j \in outs} = {calls[n] : n \in DOMAIN calls}

\* The output at i belongs to a complete group.
Answers(h, i) ==
  \E g \in DOMAIN h : IsCall(h, g) /\ i \in Outputs(h, g) /\ Complete(h, g)

Keeps(h, i) ==
  IF h[i].role = "tool" THEN Answers(h, i)
                        ELSE IsCall(h, i) => Complete(h, i)

\* The k-th smallest member of a finite set of naturals.
Nth(K, k) == CHOOSE i \in K : Cardinality({j \in K : j <= i}) = k

\* Mutant: the log is sent as it is.
RepairNothing(h) == h

Repair(h) ==
  LET K == {i \in DOMAIN h : Keeps(h, i)}
  IN  [k \in 1..Cardinality(K) |-> h[Nth(K, k)]]

\* What the model API demands of a request: every tool output sits behind the
\* call it answers and every call is answered.
WellFormed(h) == \A i \in DOMAIN h : Keeps(h, i)

-----------------------------------------------------------------------------
(* maybe_compact: where the prefix ends, and the log after the replacement *)

\* Number of messages before the kept tail.  A cut that would start the tail
\* on a tool message moves by one, once.
Cut(h, keep) ==
  LET c == Len(h) - keep
  IN  IF c > 1 /\ h[c + 1].role = "tool" THEN c + 1 ELSE c

Compacted(h, cut, note) == <<Head(h), note>> \o SubSeq(h, cut + 1, Len(h))
=============================================================================
