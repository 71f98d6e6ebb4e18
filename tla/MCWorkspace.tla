----------------------------- MODULE MCWorkspace -----------------------------
(* Instances of Workspace for TLC.                                         *)
EXTENDS Workspace

\* Nothing saved yet, a directory of its own with full access, an access mode
\* that does not exist.
MCSaved == {[root |-> NoPath, access |-> 1], [root |-> "own", access |-> 2],
            [root |-> "own", access |-> 7]}
=============================================================================
