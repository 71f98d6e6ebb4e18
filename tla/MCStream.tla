------------------------------ MODULE MCStream ------------------------------
(* Instances of StreamParser for TLC.                                      *)
EXTENDS StreamParser

\* No call, one call, one whose arguments repeat their opening, two calls, one
\* without arguments.
MCReplies == { << >>, << <<"{", "a", "a">> >>, << <<"{", "{", "a">> >>,
               << <<"{", "a">>, << >> >>, << <<"{", "a">>, <<"{", "b">> >> }
=============================================================================
