----------------------------- MODULE TurnTaking -----------------------------
(***************************************************************************)
(* What the chat promises its user: messages are taken one at a time, and  *)
(* each gets exactly one outcome (an answer or an error) before the next   *)
(* one is taken.  The promise ends with the first run that is stopped or   *)
(* that reports an error before it throws.                                 *)
(***************************************************************************)
EXTENDS Naturals

CONSTANT Most     \* bound: messages of one conversation

VARIABLES sent, settled, orderly

Init == sent = 0 /\ settled = 0 /\ orderly = TRUE

Ask ==
  /\ orderly /\ sent = settled /\ sent < Most
  /\ sent' = sent + 1
  /\ UNCHANGED <<settled, orderly>>

Settle ==
  /\ orderly /\ settled < sent
  /\ settled' = settled + 1
  /\ UNCHANGED <<sent, orderly>>

Disturb == orderly' = FALSE /\ UNCHANGED <<sent, settled>>

\* From then on messages are still counted one by one, but in no order.
Disorder ==
  /\ ~orderly /\ UNCHANGED orderly
  /\ sent' \in {sent, sent + 1} /\ settled' \in {settled, settled + 1}

Next == Ask \/ Settle \/ Disturb \/ Disorder

vars == <<sent, settled, orderly>>

Spec == Init /\ [][Next]_vars /\ WF_vars(Settle)
=============================================================================
