----------------------------- MODULE MCSettings -----------------------------
(* Instances of Settings and Language for TLC.                             *)
EXTENDS Language

Unset == [url |-> "", key |-> "", model |-> "", prompt |-> "",
          deepseek |-> "", openai |-> ""]

\* Nothing set, a key of a provider set, everything set.
MCEnvironments ==
  {Unset, [Unset EXCEPT !.deepseek = "k1", !.openai = "k2"],
   [Unset EXCEPT !.url = "elsewhere", !.key = "k2", !.model = "m1", !.prompt = "own"]}

\* No file or a broken one, one of a version without a list, one with doubles
\* and an empty prompt, one with a field of the wrong type.
MCFiles ==
  {Broken,
   [sound |-> TRUE, fields |-> [model |-> "m1", url |-> "openai"]],
   [sound |-> TRUE, fields |-> [models |-> <<"m2", "", "m2">>, prompt |-> "", url |-> "",
                                  language |-> "fr"]],
   [sound |-> FALSE, fields |-> [url |-> "openai", key |-> "k1"]]}

Form(url, key, model, prompt, lang, preset) ==
  [url |-> url, key |-> key, model |-> model, models |-> << >>, prompt |-> prompt,
   language |-> lang, preset |-> preset]

MCForms ==
  {Form("openai", "k1", "m2", "own", "en", 0), Form("", "", "", "own", "zh-CN", 1),
   Form("unusable", "k2", "m1", "zh-CN", "en", 2), Form("openai", "", "m1", "", "en", 0)}

\* Both files; a Chinese one that was cut, an English one that is missing.
MCInstallations ==
  {[lang \in Translated |-> Texts],
   [lang \in {DefaultLanguage} |-> {"send"}]}
=============================================================================
