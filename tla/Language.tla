------------------------------ MODULE Language ------------------------------
(***************************************************************************)
(* The language of the user interface, on top of the settings: the service *)
(* that looks texts up (core/i18n), the two kinds of copies the program    *)
(* keeps of them (AppText and the text properties of a BaseVm), and what   *)
(* MainWindow shows.                                                       *)
(*                                                                         *)
(* A text is named by the language it is written in, "[app]" for the       *)
(* placeholder.  The files of texts do not change while the program runs,  *)
(* so the tables the service caches are the files.                         *)
(*                                                                         *)
(* Of the window, what apply_language writes is modelled.  It leaves out   *)
(* the name of the program, written once by the constructor, the texts of  *)
(* rows and phases, written when they happen, and the tooltip of the send  *)
(* button, whose writer busy_sub ends with the constructor.                *)
(***************************************************************************)
EXTENDS Settings

CONSTANTS
  Texts,          \* keys of texts
  Installations   \* what the files may hold: the texts of each language

ASSUME InstallationsAssumption ==
  \A installation \in Installations :
    installation \in [DOMAIN installation -> SUBSET Texts]

VARIABLES
  files,    \* the texts of the installation
  cache,    \* AppText::cache_
  labels,   \* text properties of SettingsVm
  window,   \* the texts of MainWindow that apply_language writes itself
  tool,     \* the text of tool_btn_, which update_workspace writes
  refused,  \* ghost: the last update_workspace wrote nothing
  button,   \* the model on the button at the bottom
  queued    \* applications of the language in the event queue

toolVars == <<tool, refused>>
textVars == <<cache, labels, window, toolVars, button, queued>>
allVars  == <<vars, files, textVars>>

\* file_for_ and parse_file_: the elements of a file that have a name and an
\* end.  A file that cannot be read has none.
Table(lang) == IF lang \in DOMAIN files THEN files[lang] ELSE {}

\* find_in and tr_in.
Found(lang, k) ==
  CASE k \in Table(lang) -> lang
    [] k \notin Table(lang) /\ k \in Table(DefaultLanguage) -> DefaultLanguage
    [] OTHER -> "[app]"

In(lang) == [k \in Texts |-> Found(lang, k)]

\* set_language: observers are told of another language only.
Told(old, lang) == IF lang = language THEN old ELSE In(lang)

\* Mutant: the window hears of the settings before the language is set.
WindowBeforeLanguage(lang) == cache

\* settings_saved comes last in SettingsVm::save, and apply_language reads the
\* copy of AppText.
WindowAtSave(lang) == Told(cache, lang)

\* The text of tool_btn_ before the first update_workspace is no text of a file.
Literal == [k \in Texts |-> "[literal]"]

\* update_workspace, which returns early if the chat is busy or the directory
\* gone: see Update and Accept in Workspace.
UpdateTool(old, texts) ==
  /\ refused' \in BOOLEAN
  /\ tool' = IF refused' THEN old ELSE texts

-----------------------------------------------------------------------------

TextInit ==
  /\ Init
  /\ files \in Installations
  /\ cache = In(DefaultLanguage) /\ labels = In(DefaultLanguage)
  /\ window = In(DefaultLanguage) /\ tool = Literal /\ refused = TRUE
  /\ button = vm.model /\ queued = 0

\* AppText and the view-models are made in the default language; the settings
\* are loaded by the constructor of theirs, and the window is made last.
LaunchTexts(e) ==
  /\ Launch(e)
  /\ cache' = In(language')
  /\ labels' = cache' /\ window' = cache'
  /\ UpdateTool(Literal, window')
  /\ button' = vm'.model /\ queued' = 0
  /\ UNCHANGED files

\* The end of SettingsVm::save: the language is set, which also puts an
\* application of it into the event queue, and the window is told.
SaveTexts ==
  /\ EndSave \/ WriteFails
  /\ cache' = Told(cache, language') /\ labels' = Told(labels, language')
  /\ window' = WindowAtSave(language')
  /\ UpdateTool(tool, window')
  /\ button' = vm.model
  /\ queued' = IF language' = language THEN queued ELSE queued + 1
  /\ UNCHANGED files

\* apply_language, from the event queue.
ApplyQueued ==
  /\ pc = "rest" /\ queued > 0
  /\ queued' = queued - 1 /\ window' = cache
  /\ UpdateTool(tool, window')
  /\ UNCHANGED <<vars, files, cache, labels, button>>

\* on_choose_workspace and on_workspace_mode_select.
ChooseWorkspace ==
  /\ pc = "rest"
  /\ UpdateTool(tool, cache)
  /\ UNCHANGED <<vars, files, cache, labels, window, button, queued>>

TextNext ==
  \/ \E e \in Environments : LaunchTexts(e)
  \/ SaveTexts \/ ApplyQueued \/ ChooseWorkspace
  \/ /\ \/ End \/ Run
        \/ \E form \in Forms : SaveDialog(form)
        \/ \E model \in Models : SelectModel(model)
     /\ UNCHANGED <<files, textVars>>

TextSpec == TextInit /\ [][TextNext]_allVars

-----------------------------------------------------------------------------
(* Properties                                                              *)

\* The copies and the window show the texts of the settings' language.
CopiesCurrent ==
  /\ language = vm.language /\ button = vm.model
  /\ {cache, labels, window} = {In(vm.language)}
  /\ tool # window => refused

\* The menu of models offers every model once, the one of the settings too.
MenuWhole == vm.model \in ToSet(vm.models) /\ IsInjective(vm.models)

\* Whenever the user can look, the labels of the settings and the texts that
\* apply_language writes are in the language of the settings, a text that
\* language lacks in the default one, and so is the text of the workspace
\* button, unless update_workspace came last when it returns early; the button
\* of the model names the one of the settings, and its menu offers every model
\* once, that one too: however the copies were refreshed and whatever is still
\* in the event queue (settings_vm.cpp:147, main_window.cpp:808-823, 756-770).
TextsCurrent ==
  pc = "rest" => CopiesCurrent /\ MenuWhole
=============================================================================
