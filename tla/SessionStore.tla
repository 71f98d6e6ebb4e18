---------------------------- MODULE SessionStore ----------------------------
(***************************************************************************)
(* SessionStore (core/agent/session_store.cpp): one file per session, the  *)
(* session on display and its log in memory, through saves that truncate   *)
(* the file before they fill it, crashes, restarts and a full disk.        *)
(*                                                                         *)
(* The store is used by one thread.  Between two of its file operations    *)
(* only the end of the process can come, so an operation is one step up to *)
(* the truncation of the file it writes, and one step from there.          *)
(*                                                                         *)
(* Abstractions: a message stands for a whole turn of the chat and keeps   *)
(* its session and the effect of its text on the title: "cut" is a user    *)
(* text with a character across its 24th byte.  updated_at is not read by  *)
(* any code.  created_at is any of Times, because the system clock may     *)
(* stand still between two sessions, or be set back.                       *)
(***************************************************************************)
EXTENDS Integers, Sequences, SequencesExt

CONSTANTS
  Ids,         \* session ids
  NoSession,   \* the empty id
  Times,       \* what now_ms may return
  Texts,       \* the texts a turn may begin with
  MaxTurns,    \* bound: turns of the conversations
  MaxFaults    \* bound: crashes and failed writes

ASSUME StoreAssumption ==
  /\ NoSession \notin Ids /\ "stay" \notin Ids /\ "quit" \notin Ids
  /\ Times # {} /\ Times \subseteq Nat
  /\ Texts \subseteq {"whole", "cut"}
  /\ MaxTurns \in Nat /\ MaxFaults \in Nat

VARIABLES
  disk,      \* the file of every id
  pc,        \* what the process is doing
  current,   \* current_id_
  history,   \* current_history_
  target,    \* the file being written
  stamp,     \* the created_at that will be written to it
  next,      \* what follows the save: "stay", "quit" or the id to switch to
  fresh,     \* ids not handed out yet
  turns,     \* turns so far
  faults,    \* crashes and failed writes so far
  \* ghosts
  said,      \* the conversation of every session
  born,      \* created_at when the session was created
  hit,       \* sessions whose file a write once left unfinished
  gone       \* sessions the user deleted

memoryVars == <<current, history>>
writeVars  == <<target, stamp, next>>
boundVars  == <<turns, faults>>
ghostVars  == <<said, born, hit, gone>>
vars == <<disk, pc, memoryVars, writeVars, fresh, boundVars, ghostVars>>

Pcs == {"down", "choose", "idle", "turn", "create", "save"}

Entries == [home : Ids, text : {"whole", "cut"}]
Files   == [state : {"none", "torn", "whole"}, created : Nat, log : Seq(Entries)]

Absent == [state |-> "none", created |-> 0, log |-> << >>]
Torn   == [state |-> "torn", created |-> 0, log |-> << >>]
Whole(created, log) == [state |-> "whole", created |-> created, log |-> log]

\* The sessions list() finds: a file that does not parse is skipped.
Listed == {s \in Ids : disk[s].state = "whole"}

\* The newest sessions of the list; several may be of the same millisecond.
Newest == {s \in Listed : \A other \in Listed : disk[other].created <= disk[s].created}

\* Mutant: the log is not read.
LoadNothing(s) == << >>

\* load: a file that does not parse yields an empty log.
Load(s) == disk[s].log

\* derive_title cuts the first user text after 24 bytes; dump throws when that
\* is in the middle of a character.
Dumpable(log) == log # << >> => Head(log).text # "cut"

Init ==
  /\ disk = [s \in Ids |-> Absent]
  /\ pc = "down"
  /\ current = NoSession /\ history = << >>
  /\ target = NoSession /\ stamp = 0 /\ next = "stay"
  /\ fresh = Ids
  /\ turns = 0 /\ faults = 0
  /\ said = [s \in Ids |-> << >>] /\ born = [s \in Ids |-> 0]
  /\ hit = {} /\ gone = {}

-----------------------------------------------------------------------------
(* Starting, creating and choosing a session                               *)

\* The program is started: the constructor looks for a session.
Start ==
  /\ pc = "down"
  /\ pc' = "choose" /\ current' = NoSession /\ history' = << >>
  /\ UNCHANGED <<disk, writeVars, fresh, boundVars, ghostVars>>

\* The constructor and delete_session take the newest session of the list.
ChooseNewest(s) ==
  /\ pc = "choose"
  /\ s \in Newest
  /\ pc' = "idle" /\ current' = s /\ history' = Load(s)
  /\ UNCHANGED <<disk, writeVars, fresh, boundVars, ghostVars>>

\* create up to the truncation of the new file.
BeginCreate(s, t) ==
  /\ s \in fresh /\ t \in Times
  /\ fresh' = fresh \ {s}
  /\ disk' = [disk EXCEPT ![s] = Torn]
  /\ pc' = "create" /\ target' = s /\ stamp' = t
  /\ born' = [born EXCEPT ![s] = t]
  /\ UNCHANGED <<memoryVars, next, boundVars, said, hit, gone>>

\* There is no session to take.
ChooseFresh(s, t) ==
  /\ pc = "choose" /\ Listed = {}
  /\ BeginCreate(s, t)

\* create_session, from the list's button.
NewSession(s, t) ==
  /\ pc = "idle"
  /\ BeginCreate(s, t)

\* The new file is filled and becomes the current session.
EndCreate ==
  /\ pc = "create"
  /\ disk' = [disk EXCEPT ![target] = Whole(stamp, << >>)]
  /\ pc' = "idle" /\ current' = target /\ history' = << >>
  /\ UNCHANGED <<writeVars, fresh, boundVars, ghostVars>>

-----------------------------------------------------------------------------
(* Conversing and saving                                                   *)

\* A turn of the chat grows the log in memory; the list is disabled meanwhile.
Converse(text) ==
  /\ pc = "idle" /\ turns < MaxTurns
  /\ turns' = turns + 1
  /\ pc' = "turn"
  /\ LET entry == [home |-> current, text |-> text]
     IN  /\ history' = Append(history, entry)
         /\ said' = [said EXCEPT ![current] = Append(@, entry)]
  /\ UNCHANGED <<disk, current, writeVars, fresh, faults, born, hit, gone>>

\* Mutant: a save stamps the session anew.
CreatedNow(t) == t

\* persist_current keeps the created_at of a file it can read.
CreatedAt(t) == IF disk[current].state = "whole" THEN disk[current].created ELSE t

\* persist_current up to the truncation of the file.
BeginSave(then, t) ==
  /\ t \in Times
  /\ disk' = [disk EXCEPT ![current] = Torn]
  /\ pc' = "save" /\ target' = current /\ stamp' = CreatedAt(t) /\ next' = then
  /\ UNCHANGED <<memoryVars, fresh, boundVars, ghostVars>>

\* finalize_success and finalize_error save when the turn is over.
EndTurn(t) == pc = "turn" /\ BeginSave("stay", t)

\* The window is closed; a run in progress is joined first.
Quit(t) == pc \in {"idle", "turn"} /\ BeginSave("quit", t)

\* Mutant: the incoming session is made current before the outgoing is saved.
SwitchFirst(s, t) ==
  /\ pc = "idle" /\ s \in Listed \ {current} /\ t \in Times
  /\ disk' = [disk EXCEPT ![s] = Torn]
  /\ pc' = "save" /\ target' = s /\ stamp' = disk[s].created /\ next' = s
  /\ current' = s
  /\ UNCHANGED <<history, fresh, boundVars, ghostVars>>

\* switch_session saves the outgoing session first.
SwitchSession(s, t) ==
  /\ pc = "idle"
  /\ s \in Listed \ {current}
  /\ BeginSave(s, t)

\* What a caller of persist_current does next.
Proceed ==
  CASE next = "quit" -> pc' = "down" /\ UNCHANGED memoryVars
    [] next = "stay" -> pc' = "idle" /\ UNCHANGED memoryVars
    [] OTHER         -> pc' = "idle" /\ current' = next /\ history' = Load(next)

\* The file is filled with the log.
EndSave ==
  /\ pc = "save" /\ Dumpable(history)
  /\ disk' = [disk EXCEPT ![target] = Whole(stamp, history)]
  /\ Proceed
  /\ UNCHANGED <<writeVars, fresh, boundVars, ghostVars>>

\* dump throws after the truncation; nothing between here and the event loop
\* catches the exception, and the process ends.
SaveThrows ==
  /\ pc = "save" /\ ~Dumpable(history)
  /\ pc' = "down" /\ hit' = hit \cup {target}
  /\ UNCHANGED <<disk, memoryVars, writeVars, fresh, boundVars, said, born, gone>>

\* The disk is full: the stream fails in silence and the program goes on.
WriteFails ==
  /\ faults < MaxFaults
  /\ \/ pc = "save" /\ Dumpable(history) /\ Proceed
     \/ pc = "create" /\ pc' = "idle" /\ current' = target /\ history' = << >>
  /\ faults' = faults + 1
  /\ hit' = hit \cup {target}
  /\ UNCHANGED <<disk, writeVars, fresh, turns, said, born, gone>>

-----------------------------------------------------------------------------
(* Deleting, crashing                                                      *)

\* Mutant: no other session takes the place of the current one.
DeleteChoosesNone(s) ==
  /\ pc = "idle" /\ s \in Listed \cup {current}
  /\ disk' = [disk EXCEPT ![s] = Absent] /\ gone' = gone \cup {s}
  /\ current' = IF s = current THEN NoSession ELSE current
  /\ UNCHANGED <<pc, history, writeVars, fresh, boundVars, said, born, hit>>

\* delete_session, of another session or of the current one.
DeleteSession(s) ==
  /\ pc = "idle"
  /\ s \in Listed \cup {current}
  /\ disk' = [disk EXCEPT ![s] = Absent]
  /\ gone' = gone \cup {s}
  /\ IF s = current
     THEN pc' = "choose" /\ current' = NoSession /\ history' = << >>
     ELSE UNCHANGED <<pc, memoryVars>>
  /\ UNCHANGED <<writeVars, fresh, boundVars, said, born, hit>>

\* The process dies.  A file that is being written stays unfinished; the turn
\* in progress has not been saved.
Crash ==
  /\ pc # "down" /\ faults < MaxFaults
  /\ faults' = faults + 1
  /\ pc' = "down"
  /\ hit' = IF pc \in {"create", "save"} THEN hit \cup {target} ELSE hit
  /\ said' = IF pc = "turn" THEN [said EXCEPT ![current] = Front(@)] ELSE said
  /\ UNCHANGED <<disk, memoryVars, writeVars, fresh, turns, born, gone>>

\* Bound: the model has handed out all its ids.
OutOfIds ==
  /\ pc = "choose" /\ Listed = {} /\ fresh = {}
  /\ UNCHANGED vars

Next ==
  \/ OutOfIds
  \/ Start \/ EndCreate \/ EndSave \/ SaveThrows \/ WriteFails \/ Crash
  \/ \E text \in Texts : Converse(text)
  \/ \E s \in Ids : ChooseNewest(s) \/ DeleteSession(s)
  \/ \E s \in Ids, t \in Times :
       ChooseFresh(s, t) \/ NewSession(s, t) \/ SwitchSession(s, t)
  \/ \E t \in Times : EndTurn(t) \/ Quit(t)

Spec == Init /\ [][Next]_vars

-----------------------------------------------------------------------------
(* Properties                                                              *)

TypeOK ==
  /\ disk \in [Ids -> Files]
  /\ pc \in Pcs
  /\ current \in Ids \cup {NoSession}
  /\ pc \in {"idle", "turn", "save"} => current \in Ids
  /\ history \in Seq(Entries)
  /\ target \in Ids \cup {NoSession} /\ stamp \in Nat
  /\ next \in Ids \cup {"stay", "quit"}
  /\ fresh \subseteq Ids /\ hit \subseteq Ids /\ gone \subseteq Ids
  /\ turns \in Nat /\ faults \in Nat
  /\ said \in [Ids -> Seq(Entries)] /\ born \in [Ids -> Nat]

Writing(s) == pc \in {"create", "save"} /\ target = s

\* Sessions that exist and whose file no crash and no failed write ever hit.
Sound == Ids \ (fresh \cup gone \cup hit)

\* Nothing a user said is forgotten, through any sequence of switches, new and
\* deleted sessions, restarts and crashes, but for the turn a crash interrupts
\* and for the one session that was being written: its file holds the whole
\* conversation, and so does the memory for the session on display.
NothingForgotten ==
  /\ \A s \in Sound : ~Writing(s) /\ ~(pc = "turn" /\ s = current) =>
       disk[s].state = "whole" /\ disk[s].log = said[s]
  /\ pc \in {"idle", "turn", "save"} /\ current \in Sound => history = said[current]

\* A session keeps the created_at it was born with, the key of the list
\* (persist_current reads it back from the file it is about to truncate).
CreatedStable ==
  \A s \in Sound : ~Writing(s) => disk[s].created = born[s]

DeletedStaysGone == \A s \in gone : disk[s] = Absent

LogsAtHome ==
  /\ \A s \in Ids : \A i \in DOMAIN disk[s].log : disk[s].log[i].home = s
  /\ \A i \in DOMAIN history : history[i].home = current

\* No log ever ends up in the file of another session, and a deleted session
\* does not come back with a later save (persist_current writes what
\* current_id_ and current_history_ hold when it is called).
LogsApart == LogsAtHome /\ DeletedStaysGone
=============================================================================
