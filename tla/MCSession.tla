----------------------------- MODULE MCSession -----------------------------
(* Instances of SessionStore and its panel for TLC.                        *)
EXTENDS SessionPanel

\* No operation treats one id differently from another.
IdSymmetry == Permutations(Ids)
=============================================================================
