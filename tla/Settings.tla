------------------------------ MODULE Settings ------------------------------
(***************************************************************************)
(* The settings of the program: SettingsVm with its dialog, SettingsStore  *)
(* with its file, the environment through which a run learns of them, and  *)
(* the client that is built from the environment                           *)
(* (modules/settings/viewmodel/settings_vm.cpp, settings_store.cpp,        *)
(* settings_dialog.cpp, core/agent/llm_client.cpp).                        *)
(*                                                                         *)
(* "" is an empty text and, in the environment, an unset variable.  Theme, *)
(* streaming and the enter key pass through like the language, and are     *)
(* left out.  The system prompt the program brings along is named by the   *)
(* language it is written in.  A file is sound when it parses and every    *)
(* field has its type.                                                     *)
(***************************************************************************)
EXTENDS Integers, SequencesExt

CONSTANTS
  Keys,          \* API keys
  Models,        \* names of models, DefaultModel among them
  Environments,  \* the environments the program may be started in
  FirstFiles,    \* what the settings file may be at first
  Forms,         \* what the user may enter in the dialog
  MaxLaunches,   \* bound: launches
  MaxSaves       \* bound: saves

DefaultUrl    == "deepseek"
DefaultModel  == "deepseek-chat"
DefaultLanguage == "zh-CN"
Translated      == {DefaultLanguage, "en"}     \* languages with a file of texts
Languages       == Translated \cup {"fr"}      \* what a settings file may name
Urls    == {"deepseek", "openai", "elsewhere", "unusable"}
Prompts == Translated \cup {"own", "creative", "concise"}
Fields  == {"url", "key", "model", "models", "prompt", "language", "preset"}

Variables == {"url", "key", "model", "prompt", "deepseek", "openai"}

IsList(l) == l \in Seq(ToSet(l))

\* A list of models in a sound file is a list.
ASSUME SettingsAssumption ==
  /\ DefaultModel \in Models /\ "" \notin Models \cup Keys
  /\ \A e \in Environments : e = [v \in Variables |-> e[v]]
  /\ \A form \in Forms : form = [f \in Fields |-> form[f]]
  /\ \A f \in FirstFiles :
       f.sound /\ "models" \in DOMAIN f.fields => IsList(f.fields.models)
  /\ MaxLaunches \in Nat \ {0} /\ MaxSaves \in Nat

VARIABLES
  pc,        \* "off", "rest", or "saving": behind the truncation of the file
  env,       \* the environment of the process
  language,  \* language_ of the i18n service
  vm,        \* the properties of SettingsVm: what the user sees
  file,      \* settings.json: [sound, fields]
  run,       \* ghost: what the last run used since the last save, or << >>
  start,     \* ghost: the environment the program was started with
  last,      \* ghost: the values of the last save, << >> if a fault hit it
  launches, saves   \* counters for the bounds

vars == <<pc, env, language, vm, file, run, start, last, launches, saves>>

-----------------------------------------------------------------------------
(* Loading                                                                 *)

Or(value, default) == IF value = "" THEN default ELSE value

\* default_system_prompt in a language, by default in the default one.
Localized(lang) == IF lang \in Translated THEN lang ELSE DefaultLanguage

\* The constructor: the environment, and behind it the defaults.  The service
\* is still in the default language.
Defaults(e) ==
  LET model == Or(e.model, DefaultModel)
  IN  [url |-> Or(e.url, DefaultUrl), key |-> e.key, model |-> model,
       models |-> <<model>>, prompt |-> Or(e.prompt, Localized(DefaultLanguage)),
       language |-> DefaultLanguage, preset |-> 0]

Broken == [sound |-> FALSE, fields |-> << >>]

\* The fields of f as far as it has them, the model's list from its model.
Overlay(values, f) ==
  LET merged == [k \in DOMAIN values |-> IF k \in DOMAIN f THEN f[k] ELSE values[k]]
  IN  IF "models" \in DOMAIN f THEN merged ELSE [merged EXCEPT !.models = <<merged.model>>]

\* Mutant: fields are taken one by one until one of them throws.
LoadedInPlace(values, f) == IF f.sound THEN Overlay(values, f.fields)
                            ELSE [k \in DOMAIN values |->
                                    IF k \in DOMAIN f.fields THEN f.fields[k] ELSE values[k]]

\* SettingsStore::load: all the fields, or none.
Loaded(values, f) == IF f.sound THEN Overlay(values, f.fields) ELSE values

\* The k-th smallest member of a finite set of naturals.
Nth(K, k) == CHOOSE i \in K : Cardinality({j \in K : j <= i}) = k

\* The positions of a list where a name that is not empty comes first.
Firsts(list) ==
  {i \in DOMAIN list : list[i] # "" /\ \A j \in DOMAIN list : j < i => list[j] # list[i]}

\* normalize_models: no empty name, the current model, every name once.
Normalized(models, current) ==
  LET all  == Append(models, current)
      kept == Firsts(all)
  IN  [k \in 1..Cardinality(kept) |-> all[Nth(kept, k)]]

Completed(values) ==
  LET model == Or(values.model, DefaultModel)
  IN  [values EXCEPT !.url = Or(@, DefaultUrl), !.model = model,
                     !.models = Normalized(@, model)]

\* Mutant: an empty key leaves the variable alone.
AppliedUnlessEmpty(e, v) ==
  [e EXCEPT !.url = v.url, !.model = v.model, !.key = Or(v.key, @), !.prompt = v.prompt]

\* apply_runtime.
Applied(e, v) ==
  [e EXCEPT !.url = v.url, !.model = v.model, !.key = v.key, !.prompt = v.prompt]

-----------------------------------------------------------------------------
(* The program starts and ends                                             *)

Init ==
  /\ pc = "off" /\ file \in FirstFiles
  /\ start \in Environments /\ env = start /\ language = DefaultLanguage
  /\ vm = Completed(Defaults(start))
  /\ run = << >> /\ last = << >> /\ launches = 0 /\ saves = 0

Launch(e) ==
  /\ pc = "off" /\ pc' = "rest"
  /\ start' = e
  /\ vm' = Completed(Loaded(Defaults(e), file))
  /\ env' = Applied(e, vm') /\ language' = vm'.language
  /\ launches' = launches + 1
  /\ UNCHANGED <<file, run, last, saves>>

\* The window is closed, or the process dies.
End ==
  /\ pc # "off" /\ pc' = "off"
  /\ launches < MaxLaunches
  /\ run' = << >>
  /\ last' = IF pc = "saving" THEN << >> ELSE last
  /\ UNCHANGED <<env, language, vm, file, start, launches, saves>>

-----------------------------------------------------------------------------
(* Saving                                                                  *)

\* A preset other than the standard one replaces the system prompt.
WithPreset(values) ==
  CASE values.preset = 1 -> [values EXCEPT !.prompt = "creative"]
    [] values.preset = 2 -> [values EXCEPT !.prompt = "concise"]
    [] OTHER -> values

\* SettingsVm::save up to the truncation of the file.
BeginSave(values) ==
  /\ pc = "rest" /\ pc' = "saving"
  /\ saves < MaxSaves /\ saves' = saves + 1
  /\ vm' = WithPreset(Completed(values))
  /\ file' = Broken
  /\ run' = << >>
  /\ UNCHANGED <<env, language, start, last, launches>>

\* SettingsDialog::save: the form has no list of models.
SaveDialog(form) == BeginSave([form EXCEPT !.models = vm.models])

SelectModel(model) ==
  /\ model \in ToSet(vm.models) \ {vm.model}
  /\ BeginSave([vm EXCEPT !.model = model])

\* The values are written and injected into the environment, and the language
\* is set.
EndSave ==
  /\ pc = "saving" /\ pc' = "rest"
  /\ file' = [sound |-> TRUE, fields |-> vm]
  /\ env' = Applied(env, vm) /\ language' = vm.language
  /\ last' = <<vm>>
  /\ UNCHANGED <<vm, run, start, launches, saves>>

\* The disk is full: nobody looks, and the program goes on.
WriteFails ==
  /\ pc = "saving" /\ pc' = "rest"
  /\ env' = Applied(env, vm) /\ language' = vm.language
  /\ last' = << >>
  /\ UNCHANGED <<vm, file, run, start, launches, saves>>

-----------------------------------------------------------------------------
(* A run                                                                   *)

\* OpenAiCompatClient: the key of the settings, or the one of the provider.
KeyOf(e) ==
  IF e.key # "" THEN e.key
  ELSE IF e.url = "deepseek" THEN e.deepseek
  ELSE IF e.url = "openai" THEN e.openai ELSE ""

\* create_llm_client and parse_endpoint refuse, or a request goes out, with the
\* system prompt send takes from the environment.
Request(e) ==
  IF KeyOf(e) = "" \/ e.url = "unusable" THEN <<"refused">>
  ELSE <<e.url, KeyOf(e), e.model, Or(e.prompt, Localized(language))>>

Run ==
  /\ pc = "rest"
  /\ run' = Request([env EXCEPT !.url = Or(@, DefaultUrl), !.model = Or(@, DefaultModel)])
  /\ UNCHANGED <<pc, env, language, vm, file, start, last, launches, saves>>

Next ==
  \/ \E e \in Environments : Launch(e)
  \/ End
  \/ \E form \in Forms : SaveDialog(form)
  \/ \E model \in Models : SelectModel(model)
  \/ EndSave \/ WriteFails \/ Run

Spec == Init /\ [][Next]_vars

-----------------------------------------------------------------------------
(* Properties                                                              *)

\* "Values are also injected into the process environment so the engine's lazy
\* LLM client picks them up" (settings_store.hpp:5-6): a run uses the settings
\* on display, and with no key on display the key of their provider, whatever
\* was saved or started with before.
RunAsShown ==
  run # << >> =>
    LET key == CASE vm.key # "" -> vm.key
                 [] vm.key = "" /\ vm.url = "deepseek" -> start.deepseek
                 [] vm.key = "" /\ vm.url = "openai" -> start.openai
                 [] OTHER -> ""
    IN  run = IF key = "" \/ vm.url = "unusable" THEN <<"refused">>
              ELSE <<vm.url, key, vm.model, Or(vm.prompt, Localized(vm.language))>>

\* A launch shows what was saved last; if that save was hit by a crash or a
\* full disk, or the file is otherwise unsound, it shows the environment and
\* the defaults, and nothing of the file ("keep all caller-provided defaults
\* unchanged", settings_store.cpp:56).
SettingsSurvive ==
  [][pc = "off" /\ pc' = "rest" =>
       /\ last # << >> => vm' = last[1]
       /\ ~file.sound => vm' = Completed(Defaults(start'))]_vars
=============================================================================
