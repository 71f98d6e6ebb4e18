---------------------------- MODULE SessionPanel ----------------------------
(***************************************************************************)
(* The list of sessions at the side of the window, on top of the session   *)
(* store: SessionListVm (modules/sessions) and the part of MainWindow that *)
(* shows it and forwards its clicks.                                       *)
(*                                                                         *)
(* The store tells its listeners at the end of creating, switching and     *)
(* deleting, and never when it saves.  The window repaints the list when   *)
(* the property `sessions` changes; between two lists of the same sessions *)
(* a title or an updated_at may differ, or nothing, so that with the same  *)
(* ids either may happen.                                                  *)
(***************************************************************************)
EXTENDS SessionStore

VARIABLES
  rows,     \* ids of SessionListVm::sessions, and of the rows on display
  shown,    \* SessionListVm::current_id
  chosen    \* the highlighted row, NoSession if none

panelVars == <<rows, shown, chosen>>
allVars   == <<vars, panelVars>>

PanelInit == Init /\ rows = {} /\ shown = NoSession /\ chosen = NoSession

\* MainWindow::refresh_session_list highlights the current session if it has a
\* row; clear() took the old highlight away.
Highlight(id) == IF id \in Listed' THEN id ELSE NoSession

\* Mutant: `sessions` is assigned, and observed, before current_id.
RefreshListFirst ==
  /\ shown' = current' /\ rows' = Listed'
  /\ \/ chosen' = Highlight(shown)
     \/ Listed' = rows /\ chosen' = chosen

\* SessionListVm::refresh: current_id first, then the list, which is painted if
\* it changed.
Refresh ==
  /\ shown' = current' /\ rows' = Listed'
  /\ \/ chosen' = Highlight(shown')
     \/ Listed' = rows /\ chosen' = chosen

Unseen == UNCHANGED panelVars

\* The step after which create_session, switch_session, delete_session of the
\* current session, or the constructor, are done.
Emits == pc \in {"create", "choose"} \/ (pc = "save" /\ next \notin {"stay", "quit"})

\* The view-model and the window are made anew.
Opened == Start /\ rows' = {} /\ shown' = NoSession /\ chosen' = NoSession

\* A step of the store that may end an operation.
Operated ==
  /\ EndCreate \/ EndSave \/ WriteFails \/ \E s \in Ids : ChooseNewest(s)
  /\ IF Emits THEN Refresh ELSE Unseen

\* The mouse highlights a row, then the click is forwarded.
Clicked(s, t) ==
  /\ s \in rows
  /\ SwitchSession(s, t)
  /\ chosen' = s /\ UNCHANGED <<rows, shown>>

\* The context menu of a row.  The current session is replaced before the
\* listeners hear of it.
Deleted(s) ==
  /\ s \in rows
  /\ DeleteSession(s)
  /\ IF s = current THEN Unseen ELSE Refresh

PanelNext ==
  \/ Opened \/ Operated
  \/ \E s \in Ids : Deleted(s)
  \/ \E s \in Ids, t \in Times : Clicked(s, t)
  \/ /\ \/ OutOfIds \/ SaveThrows \/ Crash
        \/ \E text \in Texts : Converse(text)
        \/ \E s \in Ids, t \in Times : ChooseFresh(s, t) \/ NewSession(s, t)
        \/ \E t \in Times : EndTurn(t) \/ Quit(t)
     /\ Unseen

PanelSpec == PanelInit /\ [][PanelNext]_allVars

-----------------------------------------------------------------------------
(* Properties                                                              *)

\* While the user can click, the list shows the sessions there are, and the
\* highlight is on the session whose conversation is on display, through
\* deletions of the current session, files that were left unfinished, full
\* disks and restarts.  The session on display is left out of the first part:
\* if its file could not be written when it was created it has no row until
\* the next refresh, and a save that fails takes no row away
\* (session_list_vm.cpp:12, main_window.cpp:572).
SidebarCurrent ==
  pc \in {"idle", "turn"} =>
    /\ rows \ {current} = Listed \ {current}
    /\ shown = current
    /\ current \in rows => chosen = current
=============================================================================
