------------------------------- MODULE MCChat -------------------------------
(* Instances of ChatViewModel for TLC.                                     *)
EXTENDS ChatProperties

\* A dangerous call alone, and one behind a skill.
MCBatches == {<<"danger">>, <<"skill", "danger">>}

MCDanger == {<<"danger">>}

MCSkill == {<<"skill", "danger">>}

MCNone == {{}}

MCStop == {{}, {"stop"}}

MCRoam == {{}, {"roam"}}

\* At most one kind of untimely event in a behaviour.
MCOneKind == {{}} \cup {{event} : event \in UntimelyEvents}
=============================================================================
