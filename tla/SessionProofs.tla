---------------------------- MODULE SessionProofs ----------------------------
(***************************************************************************)
(* What the session store guarantees, and the list at the side of the      *)
(* window with it, for every set of ids, every clock, every number of      *)
(* turns and every number of crashes and failed writes.                    *)
(***************************************************************************)
EXTENDS SessionPanel, SequenceTheorems, TLAPS


-----------------------------------------------------------------------------
(* The store: its inductive invariant                                      *)

\* The session on display, and the one being written, exist.
Alive ==
  /\ pc \in {"idle", "turn", "save"} => current \in Ids \ (fresh \cup gone)
  /\ pc \in {"create", "save"} => target \in Ids \ (fresh \cup gone)
  /\ pc = "save" => target = current
  /\ pc = "create" => said[target] = << >>
  /\ pc = "turn" => said[current] # << >>

\* An id that was not handed out has no file and no history.
Untouched ==
  \A s \in fresh : disk[s] = Absent /\ s \notin gone /\ s \notin hit /\ said[s] = << >>

\* What the file of a session holds: all but the turn in progress.
Saved(s) == IF pc = "turn" /\ s = current THEN Front(said[s]) ELSE said[s]

\* The file of a sound session is whole and up to date.
Filed ==
  \A s \in Sound : ~Writing(s) =>
    disk[s].state = "whole" /\ disk[s].created = born[s] /\ disk[s].log = Saved(s)

\* The log in memory is the conversation of the session on display.
Held == pc \in {"idle", "turn", "save"} /\ current \in Sound => history = said[current]

\* A write puts down the created_at of its session.
Stamped == pc \in {"create", "save"} /\ target \notin hit => stamp = born[target]

\* The session a switch goes to has a whole file, and is another one.
Switchable ==
  pc = "save" /\ next \notin {"stay", "quit"} => next \in Listed \ {current}

IInv ==
  TypeOK /\ Alive /\ Untouched /\ Filed /\ Held /\ Stamped /\ Switchable
    /\ DeletedStaysGone /\ LogsAtHome

-----------------------------------------------------------------------------
(* Lemmas                                                                  *)

\* Front takes back what Append put there.
LEMMA FrontOfAppend ==
  ASSUME NEW S, NEW q \in Seq(S), NEW e \in S
  PROVE  /\ Append(q, e) \in Seq(S) /\ Append(q, e) # << >>
         /\ Front(Append(q, e)) = q
<1>1. /\ Append(q, e) \in Seq(S) /\ Append(q, e) # << >>
      /\ Len(Append(q, e)) = Len(q) + 1
      /\ \A i \in 1..Len(q) : Append(q, e)[i] = q[i]
  BY AppendProperties
<1>2. Len(q) \in Nat
  BY LenProperties
<1> DEFINE f == SubSeq(Append(q, e), 1, Len(q))
<1>3. f \in Seq(S) /\ Len(f) = Len(q) /\ \A i \in 1..Len(q) : f[i] = q[i]
  <2>1. SubSeq(Append(q, e), 1, Len(q)) = [i \in 1..Len(q) |-> Append(q, e)[i]]
    BY <1>1, <1>2
  <2>2. \A i \in 1..Len(q) : q[i] \in S
    BY ElementOfSeq
  <2>3. f = [i \in 1..Len(q) |-> q[i]]
    BY <1>1, <2>1
  <2> QED BY <1>2, <2>2, <2>3, IsASeq
<1>4. f = q
  BY <1>2, <1>3, SeqEqual
<1>5. Len(Append(q, e)) - 1 = Len(q)
  BY <1>1, <1>2
<1> QED BY <1>1, <1>4, <1>5 DEF Front

LEMMA FrontType ==
  ASSUME NEW S, NEW q \in Seq(S), q # << >>
  PROVE  Front(q) \in Seq(S)
<1>1. Len(q) \in Nat /\ Len(q) # 0
  BY EmptySeq, LenProperties
<1>2. SubSeq(q, 1, Len(q) - 1) \in Seq(S)
  <2>1. 1 \in 1..Len(q) + 1 /\ Len(q) - 1 \in 0..Len(q)
    BY <1>1
  <2>2. \A i \in 1..(Len(q) - 1) : q[i] \in S
    BY <1>1, ElementOfSeq
  <2> QED BY <1>1, <2>1, <2>2, SubSeqProperties
<1> QED BY <1>2 DEF Front

\* What the records of a file are made of.
LEMMA FileParts ==
  /\ Absent \in Files /\ Absent.state = "none" /\ Absent.log = << >>
  /\ Torn \in Files /\ Torn.state = "torn" /\ Torn.log = << >>
  /\ Torn # Absent
  /\ \A c \in Nat : \A log \in Seq(Entries) :
       /\ Whole(c, log) \in Files
       /\ Whole(c, log).state = "whole" /\ Whole(c, log).created = c
       /\ Whole(c, log).log = log
  /\ \A f \in Files : f.created \in Nat /\ f.log \in Seq(Entries)
<1>1. << >> \in Seq(Entries)
  BY EmptySeq
<1> QED BY <1>1 DEF Files, Absent, Torn, Whole

\* A file of the list belongs to a session that exists.
LEMMA ListedExist ==
  ASSUME Untouched, DeletedStaysGone
  PROVE  Listed \subseteq Ids \ (fresh \cup gone)
BY FileParts DEF Untouched, DeletedStaysGone, Listed

-----------------------------------------------------------------------------
(* The steps of the store                                                *)

LEMMA StartStep == ASSUME IInv, Start PROVE IInv'
<1> USE DEF IInv, Start, writeVars, boundVars, ghostVars
<1>1. TypeOK'
  BY EmptySeq DEF TypeOK, Pcs
<1>2. Alive' /\ Held' /\ Stamped' /\ Switchable'
  BY DEF Alive, Held, Stamped, Switchable
<1>3. Untouched' /\ DeletedStaysGone'
  BY DEF Untouched, DeletedStaysGone
<1>4. Filed'
  BY DEF Filed, Saved, Sound, Writing
<1>5. LogsAtHome'
  BY DEF LogsAtHome
<1> QED BY <1>1, <1>2, <1>3, <1>4, <1>5

LEMMA ChooseNewestStep == ASSUME IInv, NEW s \in Ids, ChooseNewest(s) PROVE IInv'
<1> USE DEF IInv, ChooseNewest, writeVars, boundVars, ghostVars
<1>1. s \in Listed /\ s \in Ids \ (fresh \cup gone)
  BY ListedExist DEF Newest
<1>2. history' = disk[s].log /\ history' \in Seq(Entries)
  BY FileParts DEF TypeOK, Load
<1>3. TypeOK'
  BY <1>2 DEF TypeOK, Pcs
<1>4. Alive' /\ Stamped' /\ Switchable'
  BY <1>1 DEF Alive, Stamped, Switchable
<1>5. Untouched' /\ DeletedStaysGone'
  BY DEF Untouched, DeletedStaysGone
<1>6. Filed'
  BY DEF Filed, Saved, Sound, Writing
<1>7. Held'
  BY <1>2 DEF Held, Filed, Saved, Sound, Writing
<1>8. LogsAtHome'
  BY <1>2 DEF LogsAtHome
<1> QED BY <1>3, <1>4, <1>5, <1>6, <1>7, <1>8

LEMMA BeginCreateStep ==
  ASSUME IInv, NEW s \in Ids, NEW t \in Times, pc \in {"choose", "idle"}, BeginCreate(s, t)
  PROVE  IInv'
<1> USE FileParts, StoreAssumption DEF IInv, BeginCreate, memoryVars, boundVars
<1>1. TypeOK'
  BY DEF TypeOK, Pcs
<1>2. Alive'
  BY DEF TypeOK, Alive, Untouched
<1>3. Untouched' /\ DeletedStaysGone'
  BY DEF TypeOK, Untouched, DeletedStaysGone
<1>4. Filed'
  BY DEF TypeOK, Filed, Saved, Sound, Writing
<1>5. Held' /\ Switchable'
  BY DEF Held, Switchable
<1>6. Stamped'
  BY DEF TypeOK, Stamped
<1>7. LogsAtHome'
  BY DEF TypeOK, LogsAtHome
<1> QED BY <1>1, <1>2, <1>3, <1>4, <1>5, <1>6, <1>7

LEMMA EndCreateStep == ASSUME IInv, EndCreate PROVE IInv'
<1> USE DEF IInv, EndCreate, writeVars, boundVars, ghostVars
<1>1. target \in Ids \ (fresh \cup gone) /\ said[target] = << >>
  BY DEF Alive
<1>2. << >> \in Seq(Entries)
  BY EmptySeq
<1>3. /\ Whole(stamp, << >>) \in Files
      /\ Whole(stamp, << >>).state = "whole"
      /\ Whole(stamp, << >>).created = stamp
      /\ Whole(stamp, << >>).log = << >>
  BY <1>2, FileParts DEF TypeOK
<1>4. TypeOK'
  BY <1>1, <1>2, <1>3 DEF TypeOK, Pcs
<1>5. Alive' /\ Stamped' /\ Switchable'
  BY <1>1 DEF Alive, Stamped, Switchable
<1>6. Untouched' /\ DeletedStaysGone'
  BY <1>1 DEF TypeOK, Untouched, DeletedStaysGone
<1>7. Filed'
  BY <1>1, <1>3 DEF TypeOK, Filed, Saved, Sound, Writing, Stamped
<1>8. Held'
  BY <1>1 DEF Held
<1>9. LogsAtHome'
  BY <1>3 DEF TypeOK, LogsAtHome
<1> QED BY <1>4, <1>5, <1>6, <1>7, <1>8, <1>9

LEMMA ConverseStep == ASSUME IInv, NEW text \in Texts, Converse(text) PROVE IInv'
<1> USE DEF IInv, Converse, writeVars
<1> DEFINE entry == [home |-> current, text |-> text]
<1>1. current \in Ids \ (fresh \cup gone)
  BY DEF Alive
<1>2. entry \in Entries
  BY <1>1, StoreAssumption DEF Entries
<1>3. /\ history' = Append(history, entry) /\ pc' = "turn" /\ current' = current
      /\ said' = [said EXCEPT ![current] = Append(said[current], entry)]
  OBVIOUS
<1>4. entry.home = current
  OBVIOUS
<1> HIDE DEF entry
<1>5. history \in Seq(Entries) /\ said[current] \in Seq(Entries)
  BY <1>1 DEF TypeOK
<1>6. /\ Append(history, entry) \in Seq(Entries)
      /\ Len(Append(history, entry)) = Len(history) + 1
      /\ Append(history, entry)[Len(history) + 1] = entry
      /\ \A i \in 1..Len(history) : Append(history, entry)[i] = history[i]
      /\ DOMAIN Append(history, entry) = 1..(Len(history) + 1)
      /\ DOMAIN history = 1..Len(history)
      /\ Len(history) \in Nat
  BY <1>2, <1>5, AppendProperties, LenProperties
<1>7. /\ Append(said[current], entry) \in Seq(Entries)
      /\ Append(said[current], entry) # << >>
      /\ Front(Append(said[current], entry)) = said[current]
  BY <1>2, <1>5, FrontOfAppend
<1>8. said' \in [Ids -> Seq(Entries)]
  BY <1>3, <1>7 DEF TypeOK
<1>9. TypeOK'
  BY <1>1, <1>3, <1>6, <1>8 DEF TypeOK, Pcs
<1>10. said'[current] = Append(said[current], entry)
  BY <1>1, <1>3 DEF TypeOK
<1>11. Alive'
  BY <1>1, <1>3, <1>7, <1>10 DEF Alive
<1>12. Untouched' /\ DeletedStaysGone'
  BY <1>1, <1>3 DEF TypeOK, Untouched, DeletedStaysGone
<1>13. Filed'
  <2>1. \A s \in Ids : s # current => said'[s] = said[s]
    BY <1>3 DEF TypeOK
  <2>2. \A s \in Ids : Saved(s)' = said[s]
    BY <1>3, <1>7, <1>10, <2>1 DEF Saved
  <2> QED BY <2>2 DEF Filed, Saved, Sound, Writing
<1>14. Held'
  BY <1>3, <1>10 DEF Held, Sound
<1>15. Stamped' /\ Switchable'
  BY DEF Stamped, Switchable
<1>16. LogsAtHome'
  <2>1. ASSUME NEW i \in DOMAIN history' PROVE history'[i].home = current
    <3>1. i \in 1..Len(history) \/ i = Len(history) + 1
      BY <1>3, <1>6
    <3>2. CASE i \in 1..Len(history)
      BY <1>3, <1>6, <3>2 DEF LogsAtHome
    <3>3. CASE i = Len(history) + 1
      BY <1>3, <1>4, <1>6, <3>3
    <3> QED BY <3>1, <3>2, <3>3
  <2> QED BY <1>3, <2>1 DEF LogsAtHome
<1> QED BY <1>9, <1>11, <1>12, <1>13, <1>14, <1>15, <1>16

LEMMA BeginSaveStep ==
  ASSUME IInv, NEW then \in {"stay", "quit"} \cup (Listed \ {current}), NEW t \in Times,
         pc \in {"idle", "turn"}, BeginSave(then, t)
  PROVE  IInv'
<1> USE FileParts, StoreAssumption DEF IInv, BeginSave, memoryVars, boundVars, ghostVars
<1>1. current \in Ids \ (fresh \cup gone)
  BY DEF Alive
<1>2. CreatedAt(t) \in Nat
  BY <1>1 DEF TypeOK, CreatedAt
<1>3. TypeOK'
  <2>1. disk' \in [Ids -> Files]
    BY DEF TypeOK
  <2>2. next' \in Ids \cup {"stay", "quit"}
    BY DEF Listed
  <2> QED BY <1>1, <1>2, <2>1, <2>2 DEF TypeOK, Pcs
<1>4. Alive'
  BY <1>1 DEF Alive
<1>5. Untouched' /\ DeletedStaysGone'
  BY <1>1 DEF TypeOK, Untouched, DeletedStaysGone
<1>6. Filed'
  BY <1>1 DEF TypeOK, Filed, Saved, Sound, Writing
<1>7. Held'
  BY DEF Held, Sound
<1>8. Stamped'
  <2>1. current \notin hit => disk[current].state = "whole" /\ disk[current].created = born[current]
    BY <1>1 DEF Filed, Sound, Writing
  <2> QED BY <1>1, <2>1 DEF Stamped, CreatedAt
<1>9. Switchable'
  <2>1. \A s \in Ids : s # current => disk'[s] = disk[s]
    BY DEF TypeOK
  <2> QED BY <2>1 DEF Switchable, Listed
<1>10. LogsAtHome'
  BY DEF TypeOK, LogsAtHome
<1> QED BY <1>3, <1>4, <1>5, <1>6, <1>7, <1>8, <1>9, <1>10

\* What follows a save leaves the process idle with a log that is its session's,
\* or down.
LEMMA ProceedEffect ==
  ASSUME IInv, pc = "save", Proceed
  PROVE  /\ pc' \in {"idle", "down"}
         /\ history' \in Seq(Entries)
         /\ \/ current' = current /\ history' = history
            \/ /\ current' = next /\ next \in Listed \ {current}
               /\ history' = disk[next].log
<1> USE DEF IInv, memoryVars
<1>1. current \in Ids /\ history \in Seq(Entries)
  BY DEF TypeOK
<1>2. CASE next \in {"stay", "quit"}
  BY <1>1, <1>2 DEF Proceed
<1>3. CASE next \notin {"stay", "quit"}
  <2>1. next \in Listed \ {current} /\ next \in Ids
    BY <1>3 DEF Switchable, Listed
  <2>2. pc' = "idle" /\ current' = next /\ history' = disk[next].log
    BY <1>3 DEF Proceed, Load
  <2>3. disk[next].log \in Seq(Entries)
    BY <2>1, FileParts DEF TypeOK
  <2> QED BY <2>1, <2>2, <2>3
<1> QED BY <1>2, <1>3

\* The same for the parts of the invariant about the session on display, with
\* whatever became of the file that was written.
LEMMA AfterSave ==
  ASSUME IInv, pc = "save", Proceed,
         disk' \in [Ids -> Files],
         \A s \in Ids : s # target => disk'[s] = disk[s],
         hit \subseteq hit', hit' \subseteq hit \cup {target},
         fresh' = fresh, gone' = gone, said' = said, born' = born,
         target' = target, stamp' = stamp, next' = next,
         turns' = turns, faults' \in Nat
  PROVE  /\ TypeOK' /\ Alive' /\ Untouched' /\ Held' /\ Stamped' /\ Switchable'
         /\ DeletedStaysGone'
         /\ \A i \in DOMAIN history' : history'[i].home = current'
         /\ \A s \in Ids : Saved(s)' = said[s] /\ Saved(s) = said[s]
<1> USE DEF IInv
<1>1. target = current /\ current \in Ids \ (fresh \cup gone)
  BY DEF Alive
<1>2. /\ pc' \in {"idle", "down"} /\ history' \in Seq(Entries)
      /\ \/ current' = current /\ history' = history
         \/ /\ current' = next /\ next \in Listed \ {current}
            /\ history' = disk[next].log
  BY ProceedEffect
<1>3. current' \in Ids \ (fresh \cup gone)
  BY <1>1, <1>2, ListedExist
<1>4. TypeOK'
  <2>1. hit' \subseteq Ids
    BY <1>1 DEF TypeOK
  <2> QED BY <1>2, <1>3, <2>1 DEF TypeOK, Pcs
<1>5. Alive' /\ Stamped' /\ Switchable'
  BY <1>2, <1>3 DEF Alive, Stamped, Switchable
<1>6. Untouched' /\ DeletedStaysGone'
  <2>1. \A s \in fresh \cup gone : s \in Ids /\ s # target
    BY <1>1 DEF TypeOK
  <2> QED BY <2>1 DEF Untouched, DeletedStaysGone
<1>7. Held'
  <2>1. CASE current' = current /\ history' = history
    BY <2>1 DEF Held, Sound
  <2>2. CASE current' = next /\ next \in Listed \ {current} /\ history' = disk[next].log
    BY <1>1, <2>2 DEF Held, Sound, Filed, Writing, Saved
  <2> QED BY <1>2, <2>1, <2>2
<1>8. \A i \in DOMAIN history' : history'[i].home = current'
  BY <1>2 DEF LogsAtHome, Listed
<1>9. \A s \in Ids : Saved(s)' = said[s] /\ Saved(s) = said[s]
  BY <1>2 DEF Saved
<1> QED BY <1>4, <1>5, <1>6, <1>7, <1>8, <1>9

LEMMA EndSaveStep == ASSUME IInv, EndSave PROVE IInv'
<1> USE DEF IInv, EndSave, writeVars, boundVars, ghostVars
<1>1. target = current /\ current \in Ids \ (fresh \cup gone)
  BY DEF Alive
<1>2. /\ Whole(stamp, history) \in Files
      /\ Whole(stamp, history).state = "whole"
      /\ Whole(stamp, history).created = stamp
      /\ Whole(stamp, history).log = history
  BY FileParts DEF TypeOK
<1>3. /\ disk' \in [Ids -> Files] /\ disk'[target] = Whole(stamp, history)
      /\ \A s \in Ids : s # target => disk'[s] = disk[s]
  BY <1>1, <1>2 DEF TypeOK
<1>4. /\ TypeOK' /\ Alive' /\ Untouched' /\ Held' /\ Stamped' /\ Switchable'
      /\ DeletedStaysGone'
      /\ \A i \in DOMAIN history' : history'[i].home = current'
      /\ \A s \in Ids : Saved(s)' = said[s] /\ Saved(s) = said[s]
  <2>1. hit \subseteq hit' /\ hit' \subseteq hit \cup {target} /\ faults' \in Nat
    BY DEF TypeOK
  <2> QED BY <1>3, <2>1, AfterSave
<1>5. Filed'
  <2>1. ASSUME NEW s \in Sound
        PROVE  disk'[s].state = "whole" /\ disk'[s].created = born[s] /\ disk'[s].log = said[s]
    <3>1. CASE s = target
      BY <1>1, <1>2, <1>3, <3>1 DEF Sound, Held, Stamped
    <3>2. CASE s # target
      BY <1>3, <1>4, <3>2 DEF Sound, Filed, Writing
    <3> QED BY <3>1, <3>2
  <2>2. Sound' = Sound
    BY DEF Sound
  <2>3. Sound \subseteq Ids
    BY DEF Sound
  <2> QED BY <1>4, <2>1, <2>2, <2>3 DEF Filed
<1>6. LogsAtHome'
  BY <1>1, <1>2, <1>3, <1>4 DEF LogsAtHome
<1> QED BY <1>4, <1>5, <1>6

LEMMA SaveThrowsStep == ASSUME IInv, SaveThrows PROVE IInv'
<1> USE DEF IInv, SaveThrows, memoryVars, writeVars, boundVars
<1>1. target \in Ids \ (fresh \cup gone)
  BY DEF Alive
<1>2. TypeOK'
  BY <1>1 DEF TypeOK, Pcs
<1>3. Alive' /\ Held' /\ Stamped' /\ Switchable'
  BY DEF Alive, Held, Stamped, Switchable
<1>4. Untouched' /\ DeletedStaysGone'
  BY <1>1 DEF Untouched, DeletedStaysGone
<1>5. Filed'
  BY <1>1 DEF Filed, Saved, Sound, Writing
<1>6. LogsAtHome'
  BY DEF LogsAtHome
<1> QED BY <1>2, <1>3, <1>4, <1>5, <1>6

LEMMA WriteFailsStep == ASSUME IInv, WriteFails PROVE IInv'
<1> USE DEF IInv, WriteFails, writeVars
<1>1. target \in Ids \ (fresh \cup gone)
  BY DEF Alive
<1>2. hit' \subseteq hit \cup {target} /\ hit \subseteq hit' /\ faults' \in Nat /\ disk \in [Ids -> Files]
  BY <1>1 DEF TypeOK
<1>3. \A s \in Sound' : s \in Sound /\ s # target
  BY DEF Sound
<1>4. CASE pc = "save" /\ Proceed
  <2>1. /\ TypeOK' /\ Alive' /\ Untouched' /\ Held' /\ Stamped' /\ Switchable'
        /\ DeletedStaysGone'
        /\ \A i \in DOMAIN history' : history'[i].home = current'
        /\ \A s \in Ids : Saved(s)' = said[s] /\ Saved(s) = said[s]
    <3>1. disk' \in [Ids -> Files] /\ \A s \in Ids : s # target => disk'[s] = disk[s]
      BY <1>2
    <3> QED BY <1>2, <1>4, <3>1, AfterSave
  <2>2. Filed'
    <3>1. \A s \in Sound' : s \in Ids /\ ~Writing(s)
      BY <1>3 DEF Sound, Writing
    <3> QED BY <1>3, <2>1, <3>1 DEF Filed
  <2>3. LogsAtHome'
    BY <2>1 DEF LogsAtHome
  <2> QED BY <2>1, <2>2, <2>3
<1>5. CASE pc = "create" /\ pc' = "idle" /\ current' = target /\ history' = << >>
  <2>1. TypeOK'
    BY <1>1, <1>2, <1>5, EmptySeq DEF TypeOK, Pcs
  <2>2. Alive' /\ Stamped' /\ Switchable'
    BY <1>1, <1>5 DEF Alive, Stamped, Switchable
  <2>3. Untouched' /\ DeletedStaysGone'
    BY <1>1 DEF Untouched, DeletedStaysGone
  <2>4. Filed'
    <3>1. \A s \in Sound' : ~Writing(s) /\ Saved(s) = said[s] /\ Saved(s)' = said'[s]
      BY <1>3, <1>5 DEF Writing, Saved
    <3> QED BY <1>3, <3>1 DEF Filed
  <2>5. Held'
    BY <1>5 DEF Held, Alive
  <2>6. LogsAtHome'
    BY <1>5 DEF LogsAtHome
  <2> QED BY <2>1, <2>2, <2>3, <2>4, <2>5, <2>6
<1> QED BY <1>4, <1>5

LEMMA DeleteSessionStep == ASSUME IInv, NEW s \in Ids, DeleteSession(s) PROVE IInv'
<1> USE FileParts DEF IInv, DeleteSession, memoryVars, writeVars, boundVars
<1>1. s \notin fresh
  BY ListedExist DEF Alive
<1>2. disk' \in [Ids -> Files] /\ disk'[s] = Absent
      /\ \A u \in Ids : u # s => disk'[u] = disk[u]
  BY DEF TypeOK
<1>3. TypeOK'
  BY <1>2, EmptySeq DEF TypeOK, Pcs
<1>4. Alive' /\ Switchable'
  BY DEF Alive, Switchable
<1>5. Untouched' /\ DeletedStaysGone'
  BY <1>1, <1>2 DEF TypeOK, Untouched, DeletedStaysGone
<1>6. Filed'
  BY <1>2 DEF Filed, Saved, Sound, Writing
<1>7. Held' /\ Stamped'
  BY DEF Held, Sound, Stamped
<1>8. LogsAtHome'
  BY <1>2 DEF LogsAtHome
<1> QED BY <1>3, <1>4, <1>5, <1>6, <1>7, <1>8

LEMMA CrashStep == ASSUME IInv, Crash PROVE IInv'
<1> USE DEF IInv, Crash, memoryVars, writeVars
<1>1. pc \in {"create", "save"} => target \in Ids \ (fresh \cup gone)
  BY DEF Alive
<1>2. pc = "turn" => current \in Ids \ (fresh \cup gone)
                     /\ said[current] \in Seq(Entries) /\ said[current] # << >>
  BY DEF TypeOK, Alive
<1>3. said' \in [Ids -> Seq(Entries)] /\ \A s \in Ids : said'[s] = Saved(s)
  <2>1. CASE pc = "turn"
    <3>1. Front(said[current]) \in Seq(Entries)
      BY <1>2, <2>1, FrontType
    <3>2. said' = [said EXCEPT ![current] = Front(said[current])]
      BY <2>1
    <3> QED BY <2>1, <3>1, <3>2 DEF TypeOK, Saved
  <2>2. CASE pc # "turn"
    BY <2>2 DEF TypeOK, Saved
  <2> QED BY <2>1, <2>2
<1>4. TypeOK'
  BY <1>1, <1>3 DEF TypeOK, Pcs
<1>5. Alive' /\ Held' /\ Stamped' /\ Switchable'
  BY DEF Alive, Held, Stamped, Switchable
<1>6. Untouched' /\ DeletedStaysGone'
  BY <1>1, <1>2, <1>3 DEF TypeOK, Untouched, DeletedStaysGone, Saved
<1>7. Filed'
  <2>1. \A s \in Sound' : s \in Ids /\ s \in Sound /\ ~Writing(s) /\ Saved(s)' = said'[s]
    BY DEF Sound, Writing, Saved
  <2> QED BY <1>3, <2>1 DEF Filed
<1>8. LogsAtHome'
  BY DEF LogsAtHome
<1> QED BY <1>4, <1>5, <1>6, <1>7, <1>8

-----------------------------------------------------------------------------
(* The theorems                                                            *)

LEMMA Base == ASSUME Init PROVE IInv
<1> USE FileParts, EmptySeq DEF Init
<1>1. TypeOK
  BY DEF TypeOK, Pcs
<1>2. Alive /\ Held /\ Stamped /\ Switchable
  BY DEF Alive, Held, Stamped, Switchable
<1>3. Untouched /\ DeletedStaysGone
  BY DEF Untouched, DeletedStaysGone
<1>4. Filed
  BY DEF Filed, Sound
<1>5. LogsAtHome
  BY DEF LogsAtHome
<1> QED BY <1>1, <1>2, <1>3, <1>4, <1>5 DEF IInv

LEMMA Stutter == ASSUME IInv, UNCHANGED vars PROVE IInv'
<1> USE DEF vars, memoryVars, writeVars, boundVars, ghostVars
<1>1. TypeOK' /\ Alive' /\ Held' /\ Stamped' /\ Switchable'
  BY DEF IInv, TypeOK, Alive, Held, Stamped, Switchable, Sound, Listed
<1>2. Untouched' /\ DeletedStaysGone' /\ Filed' /\ LogsAtHome'
  BY DEF IInv, Untouched, DeletedStaysGone, Filed, Saved, Sound, Writing, LogsAtHome
<1> QED BY <1>1, <1>2 DEF IInv

LEMMA Inductive == ASSUME IInv, [Next]_vars PROVE IInv'
<1>1. CASE UNCHANGED vars
  BY <1>1, Stutter
<1>2. CASE OutOfIds
  BY <1>2, Stutter DEF OutOfIds
<1>3. CASE Start \/ EndCreate \/ EndSave \/ SaveThrows \/ WriteFails \/ Crash
  BY <1>3, StartStep, EndCreateStep, EndSaveStep, SaveThrowsStep, WriteFailsStep, CrashStep
<1>4. CASE \E text \in Texts : Converse(text)
  BY <1>4, ConverseStep
<1>5. CASE \E s \in Ids : ChooseNewest(s) \/ DeleteSession(s)
  BY <1>5, ChooseNewestStep, DeleteSessionStep
<1>6. ASSUME NEW s \in Ids, NEW t \in Times,
             ChooseFresh(s, t) \/ NewSession(s, t) \/ SwitchSession(s, t)
      PROVE  IInv'
  <2>1. CASE ChooseFresh(s, t) \/ NewSession(s, t)
    BY <2>1, BeginCreateStep DEF ChooseFresh, NewSession
  <2>2. CASE SwitchSession(s, t)
    BY <2>2, BeginSaveStep DEF SwitchSession
  <2> QED BY <1>6, <2>1, <2>2
<1>7. ASSUME NEW t \in Times, EndTurn(t) \/ Quit(t) PROVE IInv'
  BY <1>7, BeginSaveStep DEF EndTurn, Quit
<1> QED BY <1>1, <1>2, <1>3, <1>4, <1>5, <1>6, <1>7 DEF Next

THEOREM StoreInvariant == Spec => []IInv
<1>1. Init => IInv
  BY Base
<1>2. IInv /\ [Next]_vars => IInv'
  BY Inductive
<1> QED BY <1>1, <1>2, PTL DEF Spec

\* Every variable of the store keeps its type.
THEOREM StoreTypeOK == Spec => []TypeOK
<1>1. IInv => TypeOK
  BY DEF IInv
<1> QED BY <1>1, StoreInvariant, PTL

\* Through any sequence of operations, crashes and failed writes, a session
\* whose file was never hit holds its whole conversation (switch_session,
\* persist_current, load).
THEOREM StoreNothingForgotten == Spec => []NothingForgotten
<1>1. IInv => NothingForgotten
  BY DEF IInv, NothingForgotten, Filed, Saved, Held
<1> QED BY <1>1, StoreInvariant, PTL

\* The key of the list survives every save that reads it back
\* (persist_current).
THEOREM StoreCreatedStable == Spec => []CreatedStable
<1>1. IInv => CreatedStable
  BY DEF IInv, CreatedStable, Filed
<1> QED BY <1>1, StoreInvariant, PTL

\* No log is written into the file of another session, and no save writes the
\* file of a session that was deleted (switch_session saves under the outgoing
\* id before it loads; delete_session gives up the current id).
THEOREM StoreLogsApart == Spec => []LogsApart
<1>1. IInv => LogsApart
  BY DEF IInv, LogsApart
<1> QED BY <1>1, StoreInvariant, PTL


-----------------------------------------------------------------------------
(* The list at the side: its invariant, on top of the store's              *)

\* The rows are the sessions there are, but for the one on display.
RowsListed ==
  pc \in {"idle", "turn", "save"} =>
    rows \ {current} = Listed \ {current} /\ shown = current

\* The highlight is where the program is, or where a switch will take it.
HighlightHeld ==
  /\ pc \in {"idle", "turn"} \/ (pc = "save" /\ next \in {"stay", "quit"}) =>
       (current \in rows => chosen = current)
  /\ pc = "save" /\ next \notin {"stay", "quit"} => chosen = next

\* Where another session becomes current without a click, the list changes, so
\* that it is painted.
WillChange ==
  /\ rows \subseteq Ids \ fresh
  /\ pc = "create" => target \notin rows
  /\ pc = "choose" => rows = {} \/ \E r \in rows : r \notin Listed

PanelInv == RowsListed /\ HighlightHeld /\ WillChange

-----------------------------------------------------------------------------
(* The steps with the list                                               *)

\* A step of the panel is a step of the store, or changes nothing of it.
LEMMA PanelStepsStore == ASSUME PanelNext PROVE [Next]_vars
<1>1. Opened => Next
  BY DEF Opened, Next
<1>2. Operated => Next
  BY DEF Operated, Next
<1>3. ASSUME NEW s \in Ids, Deleted(s) PROVE Next
  BY <1>3 DEF Deleted, Next
<1>4. ASSUME NEW s \in Ids, NEW t \in Times, Clicked(s, t) PROVE Next
  BY <1>4 DEF Clicked, Next
<1>5. ASSUME NEW t \in Times, EndTurn(t) \/ Quit(t) PROVE Next
  BY <1>5 DEF Next
<1>6. ASSUME NEW s \in Ids, NEW t \in Times, ChooseFresh(s, t) \/ NewSession(s, t)
      PROVE  Next
  BY <1>6 DEF Next
<1>7. ASSUME NEW text \in Texts, Converse(text) PROVE Next
  BY <1>7 DEF Next
<1>8. OutOfIds \/ SaveThrows \/ Crash => Next
  BY DEF Next
<1> QED BY <1>1, <1>2, <1>3, <1>4, <1>5, <1>6, <1>7, <1>8 DEF PanelNext

\* What a file being written, or removed, does to the list.
LEMMA ListAfter ==
  ASSUME NEW s \in Ids, disk \in [Ids -> Files]
  PROVE  /\ disk' = [disk EXCEPT ![s] = Torn] => Listed' = Listed \ {s}
         /\ disk' = [disk EXCEPT ![s] = Absent] => Listed' = Listed \ {s}
         /\ \A c \in Nat : \A log \in Seq(Entries) :
              disk' = [disk EXCEPT ![s] = Whole(c, log)] => Listed' = Listed \cup {s}
         /\ disk' = disk => Listed' = Listed
<1>1. ASSUME disk' = [disk EXCEPT ![s] = Torn] PROVE Listed' = Listed \ {s}
  BY <1>1, FileParts DEF Listed
<1>2. ASSUME disk' = [disk EXCEPT ![s] = Absent] PROVE Listed' = Listed \ {s}
  BY <1>2, FileParts DEF Listed
<1>3. ASSUME NEW c \in Nat, NEW log \in Seq(Entries),
             disk' = [disk EXCEPT ![s] = Whole(c, log)]
      PROVE  Listed' = Listed \cup {s}
  BY <1>3, FileParts DEF Listed
<1>4. disk' = disk => Listed' = Listed
  BY DEF Listed
<1> QED BY <1>1, <1>2, <1>3, <1>4

\* A refresh after which the list has changed, or whose click came before.
LEMMA RefreshStep ==
  ASSUME IInv', Refresh, pc' = "idle",
         current' \in Listed' /\ Listed' = rows => chosen = current'
  PROVE  PanelInv'
<1>1. Listed' \subseteq Ids \ fresh'
  BY FileParts DEF IInv, Untouched, DeletedStaysGone, Listed
<1>2. rows' = Listed' /\ shown' = current'
  BY DEF Refresh
<1>3. current' \in rows' => chosen' = current'
  BY DEF Refresh, Highlight
<1> QED BY <1>1, <1>2, <1>3 DEF PanelInv, RowsListed, HighlightHeld, WillChange

LEMMA OperatedStep == ASSUME IInv, IInv', PanelInv, Operated PROVE PanelInv'
<1>1. disk \in [Ids -> Files] /\ stamp \in Nat /\ history \in Seq(Entries)
  BY DEF IInv, TypeOK
<1>2. pc \in {"create", "save"} => target \in Ids
  BY DEF IInv, Alive
<1>3. CASE \E s \in Ids : ChooseNewest(s)
  <2>1. PICK s \in Ids : ChooseNewest(s)
    BY <1>3
  <2>2. pc = "choose" /\ pc' = "idle" /\ current' = s /\ s \in Listed /\ disk' = disk
    BY <2>1 DEF ChooseNewest, Newest
  <2>3. Refresh
    BY <2>2 DEF Operated, Emits
  <2>4. Listed' = Listed
    BY <2>2 DEF Listed
  <2>5. Listed # rows
    BY <2>2 DEF PanelInv, WillChange
  <2> QED BY <2>2, <2>3, <2>4, <2>5, RefreshStep
<1>4. CASE pc = "create" /\ (EndCreate \/ WriteFails)
  <2>1. pc' = "idle" /\ current' = target
    BY <1>4 DEF EndCreate, WriteFails
  <2>2. Refresh
    BY <1>4 DEF Operated, Emits
  <2>3. target \notin rows
    BY <1>4 DEF PanelInv, WillChange
  <2> QED BY <2>1, <2>2, <2>3, RefreshStep
<1>5. CASE pc = "save" /\ (EndSave \/ WriteFails)
  <2>1. target = current /\ current \in Ids
    BY <1>5 DEF IInv, Alive
  <2>2. Proceed
    BY <1>5 DEF EndSave, WriteFails
  <2>3. Listed' = Listed \/ Listed' = Listed \cup {current}
    BY <1>1, <1>5, <2>1, ListAfter DEF EndSave, WriteFails
  <2>4. CASE next \notin {"stay", "quit"}
    <3>1. pc' = "idle" /\ current' = next
      BY <2>2, <2>4 DEF Proceed
    <3>2. Refresh
      BY <1>5, <2>4 DEF Operated, Emits
    <3>3. chosen = next
      BY <1>5, <2>4 DEF PanelInv, HighlightHeld
    <3> QED BY <3>1, <3>2, <3>3, RefreshStep
  <2>5. CASE next \in {"stay", "quit"}
    <3>1. pc' \in {"idle", "down"} /\ current' = current
      BY <2>2, <2>5 DEF Proceed, memoryVars
    <3>2. Unseen
      BY <1>5, <2>5 DEF Operated, Emits
    <3>3. rows' = rows /\ shown' = shown /\ chosen' = chosen /\ fresh' = fresh
      BY <1>5, <3>2 DEF Unseen, panelVars, EndSave, WriteFails
    <3>4. RowsListed'
      BY <1>5, <2>3, <3>1, <3>3 DEF PanelInv, RowsListed
    <3>5. HighlightHeld'
      BY <1>5, <2>5, <3>1, <3>3 DEF PanelInv, HighlightHeld
    <3>6. WillChange'
      BY <3>1, <3>3 DEF PanelInv, WillChange
    <3> QED BY <3>4, <3>5, <3>6 DEF PanelInv
  <2> QED BY <2>4, <2>5
<1> QED BY <1>3, <1>4, <1>5 DEF Operated, EndCreate, EndSave, WriteFails

LEMMA DeletedStep ==
  ASSUME IInv, IInv', PanelInv, NEW s \in Ids, Deleted(s) PROVE PanelInv'
<1>1. disk \in [Ids -> Files]
  BY DEF IInv, TypeOK
<1>2. pc = "idle" /\ fresh' = fresh /\ Listed' = Listed \ {s}
  BY <1>1, ListAfter DEF Deleted, DeleteSession
<1>3. CASE s = current
  <2>1. pc' = "choose" /\ rows' = rows /\ s \in rows
    BY <1>3 DEF Deleted, DeleteSession, Unseen, panelVars
  <2> QED BY <1>2, <2>1 DEF PanelInv, RowsListed, HighlightHeld, WillChange
<1>4. CASE s # current
  <2>1. pc' = "idle" /\ Refresh
    BY <1>2, <1>4 DEF Deleted, DeleteSession
  <2>2. Listed' # rows
    BY <1>2 DEF Deleted
  <2> QED BY <2>1, <2>2, RefreshStep
<1> QED BY <1>3, <1>4

LEMMA ClickedStep ==
  ASSUME IInv, PanelInv, NEW s \in Ids, NEW t \in Times, Clicked(s, t)
  PROVE  PanelInv'
<1>1. disk \in [Ids -> Files]
  BY DEF IInv, TypeOK
<1>2. pc = "idle" /\ pc' = "save" /\ next' = s /\ current' = current /\ current \in Ids
      /\ disk' = [disk EXCEPT ![current] = Torn] /\ fresh' = fresh
  BY DEF Clicked, SwitchSession, BeginSave, memoryVars, IInv, Alive
<1>3. Listed' = Listed \ {current}
  BY <1>1, <1>2, ListAfter
<1>4. rows' = rows /\ shown' = shown /\ chosen' = s
  BY DEF Clicked
<1>5. s \notin {"stay", "quit"}
  BY <1>1, StoreAssumption
<1>6. RowsListed'
  BY <1>2, <1>3, <1>4 DEF PanelInv, RowsListed
<1>7. HighlightHeld'
  BY <1>2, <1>4, <1>5 DEF HighlightHeld
<1>8. WillChange'
  BY <1>2, <1>4 DEF PanelInv, WillChange
<1> QED BY <1>6, <1>7, <1>8 DEF PanelInv

\* The steps that tell nobody.
LEMMA UnseenStep ==
  ASSUME IInv, PanelInv, Unseen,
         \/ OutOfIds \/ SaveThrows \/ Crash
         \/ \E text \in Texts : Converse(text)
         \/ \E s \in Ids, t \in Times : ChooseFresh(s, t) \/ NewSession(s, t)
         \/ \E t \in Times : EndTurn(t) \/ Quit(t)
  PROVE  PanelInv'
<1>1. rows' = rows /\ shown' = shown /\ chosen' = chosen
  BY DEF Unseen, panelVars
<1>2. disk \in [Ids -> Files]
  BY DEF IInv, TypeOK
<1>3. CASE OutOfIds
  <2>1. UNCHANGED vars
    BY <1>3 DEF OutOfIds
  <2> QED BY <1>1, <2>1 DEF vars, memoryVars, writeVars, PanelInv, RowsListed,
                            HighlightHeld, WillChange, Listed
<1>4. CASE SaveThrows \/ Crash
  <2>1. pc' = "down" /\ fresh' = fresh
    BY <1>4 DEF SaveThrows, Crash
  <2> QED BY <1>1, <2>1 DEF PanelInv, RowsListed, HighlightHeld, WillChange
<1>5. ASSUME NEW text \in Texts, Converse(text) PROVE PanelInv'
  <2>1. pc = "idle" /\ pc' = "turn" /\ current' = current /\ disk' = disk /\ fresh' = fresh
    BY <1>5 DEF Converse
  <2> QED BY <1>1, <2>1 DEF PanelInv, RowsListed, HighlightHeld, WillChange, Listed
<1>6. ASSUME NEW s \in Ids, NEW t \in Times, ChooseFresh(s, t) \/ NewSession(s, t)
      PROVE  PanelInv'
  <2>1. pc' = "create" /\ target' = s /\ s \in fresh /\ fresh' = fresh \ {s}
    BY <1>6 DEF ChooseFresh, NewSession, BeginCreate
  <2> QED BY <1>1, <2>1 DEF PanelInv, RowsListed, HighlightHeld, WillChange
<1>7. ASSUME NEW t \in Times, EndTurn(t) \/ Quit(t) PROVE PanelInv'
  <2>1. pc \in {"idle", "turn"} /\ pc' = "save" /\ next' \in {"stay", "quit"}
        /\ current' = current /\ fresh' = fresh
        /\ disk' = [disk EXCEPT ![current] = Torn]
    BY <1>7 DEF EndTurn, Quit, BeginSave, memoryVars
  <2>2. current \in Ids
    BY <2>1 DEF IInv, Alive
  <2>3. Listed' = Listed \ {current}
    BY <1>2, <2>1, <2>2, ListAfter
  <2> QED BY <1>1, <2>1, <2>3 DEF PanelInv, RowsListed, HighlightHeld, WillChange
<1> QED BY <1>3, <1>4, <1>5, <1>6, <1>7

LEMMA PanelInductive ==
  ASSUME IInv, IInv', PanelInv, [PanelNext]_allVars PROVE PanelInv'
<1>1. CASE Opened
  <2>1. pc' = "choose" /\ rows' = {}
    BY <1>1 DEF Opened, Start
  <2> QED BY <2>1 DEF PanelInv, RowsListed, HighlightHeld, WillChange
<1>2. CASE UNCHANGED allVars
  BY <1>2 DEF allVars, vars, panelVars, memoryVars, writeVars, PanelInv, RowsListed,
              HighlightHeld, WillChange, Listed
<1> QED BY <1>1, <1>2, OperatedStep, DeletedStep, ClickedStep, UnseenStep DEF PanelNext

-----------------------------------------------------------------------------
(* The theorems                                                            *)

\* The panel runs the store, and nothing but the store (session_list_vm.hpp:28).
THEOREM PanelImplementsStore == PanelSpec => Spec
<1>1. PanelInit => Init
  BY DEF PanelInit
<1>2. [PanelNext]_allVars => [Next]_vars
  BY PanelStepsStore DEF allVars
<1> QED BY <1>1, <1>2, PTL DEF PanelSpec, Spec

\* The list at the side shows the sessions there are, and its highlight the one
\* on display, whenever the user can click (SessionListVm::refresh and
\* MainWindow::refresh_session_list).
THEOREM PanelSidebarCurrent == PanelSpec => []SidebarCurrent
<1>1. PanelInit => PanelInv
  BY DEF PanelInit, Init, PanelInv, RowsListed, HighlightHeld, WillChange
<1>2. PanelSpec => []IInv
  BY PanelImplementsStore, StoreInvariant, PTL
<1>3. IInv /\ IInv' /\ PanelInv /\ [PanelNext]_allVars => PanelInv'
  BY PanelInductive
<1>4. PanelInv => SidebarCurrent
  BY DEF PanelInv, RowsListed, HighlightHeld, SidebarCurrent
<1> QED BY <1>1, <1>2, <1>3, <1>4, PTL DEF PanelSpec
==============================================================================
