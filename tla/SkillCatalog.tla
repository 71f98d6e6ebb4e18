---------------------------- MODULE SkillCatalog ----------------------------
(***************************************************************************)
(* Which skills the agent knows (core/agent/skill_tools.cpp): directories  *)
(* under several roots, each with a SKILL.md, of which the first one of a  *)
(* name counts.                                                            *)
(*                                                                         *)
(* A root is "missing" or the sequence of its directories in the order of  *)
(* their names; a directory is a record [link, file, resources].  A file   *)
(* is a record of what parse_skill looks at: its size class, whether it    *)
(* opens and closes a front matter, the fields of it in order, its body.   *)
(***************************************************************************)
EXTENDS Integers, Sequences, FiniteSetsExt

\* The last field of a key counts; an absent key reads as the empty string.
Field(file, key) ==
  LET at == {i \in DOMAIN file.fields : file.fields[i].key = key}
  IN  IF at = {} THEN "" ELSE file.fields[Max(at)].value

Truthy == {"true", "yes", "on", "1"}

\* A file that parse_skill turns into a definition.
Accepted(file, names) ==
  /\ file.size = "regular"     \* neither missing, empty nor above 256 KB
  /\ file.opened /\ file.closed
  /\ Field(file, "name") \in names
  /\ Field(file, "description") # ""
  /\ Field(file, "disable") \notin Truthy
  /\ Field(file, "disable-model-invocation") \notin Truthy
  /\ file.body # ""

\* add_root: a root that is a directory, and no earlier one.
Counted(roots, r) ==
  roots[r] # "missing" /\ \A q \in 1..(r - 1) : roots[q] # roots[r]

\* A map with an entry added or replaced.
With(map, key, value) ==
  [k \in DOMAIN map \cup {key} |-> IF k = key THEN value ELSE map[k]]

Definition(d) == [dir |-> d.dir, body |-> d.file.body]

\* Mutant: a later definition replaces an earlier one.
AddLast(catalog, d, names) ==
  IF Accepted(d.file, names)
  THEN With(catalog, Field(d.file, "name"), Definition(d)) ELSE catalog

\* A definition is added unless its name is taken.
Add(catalog, d, names) ==
  IF Accepted(d.file, names) /\ Field(d.file, "name") \notin DOMAIN catalog
  THEN With(catalog, Field(d.file, "name"), Definition(d)) ELSE catalog

\* What a directory adds; links are not looked at.
Visit(catalog, d, names) == IF d.link THEN catalog ELSE Add(catalog, d, names)

\* Where the definitions of a name are: root and directory.
Defining(roots, disk, names, name) ==
  UNION {{<<r, k>> : k \in {k \in DOMAIN disk[roots[r]] :
                              LET d == disk[roots[r]][k]
                              IN  ~d.link /\ Accepted(d.file, names)
                                    /\ Field(d.file, "name") = name}}
          : r \in {r \in DOMAIN roots : Counted(roots, r)}}

\* The order in which directories are visited.
Earlier(a, b) == a[1] < b[1] \/ (a[1] = b[1] /\ a[2] < b[2])
=============================================================================
