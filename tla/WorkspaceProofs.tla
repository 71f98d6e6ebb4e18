--------------------------- MODULE WorkspaceProofs ---------------------------
(***************************************************************************)
(* What the workspace and the registry of background processes guarantee   *)
(* for every set of paths, every file of settings and every number of      *)
(* launches, changes and processes.                                        *)
(***************************************************************************)
EXTENDS Workspace, TLAPS

-----------------------------------------------------------------------------
(* The inductive invariant                                                 *)

\* What holds between launches, and in the window's constructor.
Outside ==
  /\ pc = "down" => procs = NoProcs
  /\ pc \in {"down", "starting"} => job = "none"
  /\ pc # "rest" => ~running
  /\ pc = "starting" => env.access = NoMode

\* Processes are stopped for another workspace only.
Departing == pc = "stopping" => target # engine

\* A process that was killed and still runs gave its output away.
Spent(p) == p.closed /\ p.shell = "running" => ~p.piped

Registered ==
  /\ \A h \in DOMAIN procs : Spent(procs[h])
  /\ \A p \in forked : Spent(p)
  /\ \A p \in strays : ~p.piped
  /\ joining # 0 => procs[joining].closed

IInv == TypeOK /\ Outside /\ Departing /\ Registered /\ OneWorkspace

\* While running_ is set, the workspace of a batch is the engine's, and so is
\* what it starts; what is registered in this time is killed before the engine
\* changes its workspace.
Here(p) == PlaceOf(p) = engine /\ engine.access = 2

Tooling == job \in {"batch", "fork", "kill"}

Placed ==
  /\ running /\ Tooling => ctx = engine
  /\ \A h \in DOMAIN procs \ late : Here(procs[h])
  /\ running => \A p \in forked : Here(p)
  /\ pc = "accepting" => target = engine \/ DOMAIN procs \subseteq late

-----------------------------------------------------------------------------
(* Lemmas about places and processes                                       *)

LEMMA PlaceParts ==
  /\ NoContext \in Places
  /\ \A root, access : Place(root, access).root = root /\ Place(root, access).access = access
  /\ \A p \in Places : Place(p.root, Clamped(p.access)) = p
  /\ \A root \in Paths : \A level : Place(root, Clamped(level)) \in Places
BY WorkspaceAssumption DEF Place, Places, Clamped, Modes, NoContext

LEMMA ProcessParts ==
  /\ \A place \in Places :
       /\ Process(place) \in Procs /\ PlaceOf(Process(place)) = place
       /\ ~Process(place).closed
  /\ DOMAIN NoProcs = {}
BY DEF Process, Places, Procs, PlaceOf, Place, NoProcs

\* What a process does by itself, and a kill, keep of it.
LEMMA LaterKeeps ==
  ASSUME NEW p \in Procs, NEW q \in Later(p)
  PROVE  q \in Procs /\ q.closed = p.closed /\ PlaceOf(q) = PlaceOf(p)
         /\ (Spent(p) => Spent(q))
BY DEF Later, Procs, PlaceOf, Place, Spent

LEMMA KilledKeeps ==
  ASSUME NEW p \in Procs, NEW q \in Killed(p)
  PROVE  q \in Procs /\ q.closed /\ PlaceOf(q) = PlaceOf(p) /\ Spent(q)
BY DEF Killed, Writes, Procs, PlaceOf, Place, Spent

-----------------------------------------------------------------------------
(* Steps that leave the registry and the copies of the workspace alone     *)

LEMMA StillStep ==
  ASSUME IInv, UNCHANGED <<settingVars, target, registryVars>>,
         pc' = pc, dirs' \in SUBSET Paths, Cwd \in dirs', Project \in dirs',
         running' \in BOOLEAN, ends' \in Nat, job' \in {"none", "run", "batch", "kill"},
         job # "fork", ctx' \in Places, launches' \in Nat, changes' \in Nat,
         pc # "rest" => ~running', pc \in {"down", "starting"} => job' = "none"
  PROVE  IInv'
<1> USE DEF settingVars, runVars, registryVars
<1>1. TypeOK'
  BY DEF IInv, TypeOK
<1>2. Outside' /\ Departing'
  BY DEF IInv, Outside, Departing
<1>3. Registered'
  BY DEF IInv, Registered, Spent
<1>4. OneWorkspace'
  BY DEF IInv, OneWorkspace
<1> QED BY <1>1, <1>2, <1>3, <1>4 DEF IInv

\* A change of the workspace up to the first process to be stopped.
LEMMA UpdateStep ==
  ASSUME IInv, NEW path \in Paths, NEW level \in Int, Update(path, level),
         pc \in {"starting", "rest"}, changes' \in Nat,
         UNCHANGED <<dirs, settingVars, runVars, registryVars, launches>>
  PROVE  IInv'
<1> USE DEF settingVars, runVars, registryVars
<1>1. target' \in Places /\ pc' \in {"rest", "stopping", "accepting"}
      /\ (pc' # "rest" => ~running) /\ (pc' = "stopping" => target' # engine)
  <2>1. Place(path, Clamped(level)) \in Places /\ target \in Places
    BY PlaceParts DEF IInv, TypeOK
  <2>2. CASE path \in dirs /\ ~running
    BY <2>1, <2>2 DEF Update, Differs
  <2>3. CASE ~(path \in dirs /\ ~running)
    BY <2>1, <2>3 DEF Update
  <2> QED BY <2>2, <2>3
<1>2. TypeOK'
  BY <1>1 DEF IInv, TypeOK
<1>3. Outside' /\ Departing'
  BY <1>1 DEF IInv, Outside, Departing
<1>4. Registered'
  BY DEF IInv, Registered, Spent
<1>5. OneWorkspace'
  BY DEF IInv, OneWorkspace, Outside
<1> QED BY <1>2, <1>3, <1>4, <1>5 DEF IInv

LEMMA UpdatesStep ==
  ASSUME IInv,
         \/ Restore \/ ApplyLanguage
         \/ \E path \in Paths : ChooseWorkspace(path)
         \/ \E level \in Modes : ChooseMode(level)
  PROVE  IInv'
<1>1. window.root \in Paths /\ window.access \in Int /\ changes \in Nat
  BY DEF IInv, TypeOK
<1>2. Modes \subseteq Int
  BY DEF Modes
<1>3. ASSUME NEW path \in Paths, ChooseWorkspace(path) PROVE IInv'
  <2>1. changes' \in Nat
    BY <1>1, <1>3 DEF ChooseWorkspace
  <2> QED BY <1>1, <1>3, <2>1, UpdateStep DEF ChooseWorkspace, Keeping
<1>4. ASSUME NEW level \in Modes, ChooseMode(level) PROVE IInv'
  <2>1. changes' \in Nat
    BY <1>1, <1>4 DEF ChooseMode
  <2> QED BY <1>1, <1>2, <1>4, <2>1, UpdateStep DEF ChooseMode, Keeping
<1>5. ASSUME Restore \/ ApplyLanguage PROVE IInv'
  BY <1>1, <1>5, UpdateStep DEF Restore, ApplyLanguage, Keeping
<1> QED BY <1>3, <1>4, <1>5

-----------------------------------------------------------------------------
(* Launch, end, and the steps of a change                                  *)

LEMMA LaunchStep == ASSUME IInv, Launch PROVE IInv'
<1>1. FirstRoot \in Paths
  BY WorkspaceAssumption DEF FirstRoot, IInv, TypeOK, Saved
<1>2. /\ pc = "down" /\ pc' = "starting" /\ job = "none" /\ ~running
      /\ env' = Place(Project, NoMode) /\ engine' = Place(Project, 1)
      /\ window' = Place(FirstRoot, saved.access)
      /\ procs' = NoProcs /\ handle' = 1
      /\ UNCHANGED <<dirs, saved, target, running, ends, job, ctx, changes, forked, joining, strays, late>>
  BY DEF Launch, runVars, IInv, Outside
<1>3. env' \in [root : Paths, access : Int] /\ window' \in [root : Paths, access : Int]
      /\ engine' \in Places /\ env'.access = NoMode
  BY <1>1, <1>2, WorkspaceAssumption DEF Place, Places, Modes, NoMode, IInv, TypeOK, Saved
<1>4. joining = 0 /\ forked = {} /\ late = {}
  BY <1>2, ProcessParts DEF IInv, TypeOK, Outside
<1>5. launches' \in Nat
  BY DEF Launch, IInv, TypeOK
<1>6. DOMAIN procs' = {} /\ procs' \in [DOMAIN procs' -> Procs]
  BY <1>2, ProcessParts DEF NoProcs
<1>7. TypeOK'
  BY <1>2, <1>3, <1>4, <1>5, <1>6 DEF IInv, TypeOK
<1>8. Outside' /\ Departing'
  BY <1>2, <1>3 DEF Outside, Departing
<1>9. Registered'
  BY <1>2, <1>4, <1>6 DEF IInv, Registered
<1>10. OneWorkspace'
  BY <1>2 DEF OneWorkspace
<1> QED BY <1>7, <1>8, <1>9, <1>10 DEF IInv

LEMMA EndStep == ASSUME IInv, End PROVE IInv'
<1> USE DEF End, settingVars, runVars, boundVars
<1>1. DOMAIN procs' = {} /\ procs' \in [DOMAIN procs' -> Procs]
  BY ProcessParts DEF NoProcs
<1>2. TypeOK'
  BY <1>1, PlaceParts DEF IInv, TypeOK
<1>3. Outside' /\ Departing' /\ OneWorkspace'
  BY DEF Outside, Departing, OneWorkspace
<1>4. Registered'
  BY <1>1 DEF Registered
<1> QED BY <1>2, <1>3, <1>4 DEF IInv

\* A process is killed, on whichever thread.
LEMMA KillEffect ==
  ASSUME IInv, NEW h \in DOMAIN procs, KillAndClose(h)
  PROVE  /\ DOMAIN procs' = DOMAIN procs /\ procs' \in [DOMAIN procs' -> Procs]
         /\ \A i \in DOMAIN procs : PlaceOf(procs'[i]) = PlaceOf(procs[i])
         /\ joining' = h /\ Registered'
<1>1. PICK p \in Killed(procs[h]) : procs' = [procs EXCEPT ![h] = p]
  BY DEF KillAndClose
<1>2. procs[h] \in Procs /\ procs \in [DOMAIN procs -> Procs]
  BY DEF IInv, TypeOK
<1>3. p \in Procs /\ p.closed /\ PlaceOf(p) = PlaceOf(procs[h]) /\ Spent(p)
  BY <1>2, KilledKeeps
<1>4. DOMAIN procs' = DOMAIN procs
      /\ \A i \in DOMAIN procs : procs'[i] = IF i = h THEN p ELSE procs[i]
  BY <1>1
<1>5. procs' \in [DOMAIN procs' -> Procs]
  BY <1>1, <1>2, <1>3
<1>6. joining' = h /\ forked' = forked /\ strays' = strays
  BY DEF KillAndClose
<1>7. Registered'
  <2>1. \A i \in DOMAIN procs' : Spent(procs'[i])
    BY <1>3, <1>4 DEF IInv, Registered
  <2>2. procs'[joining'].closed
    BY <1>3, <1>4, <1>6
  <2> QED BY <1>6, <2>1, <2>2 DEF IInv, Registered
<1> QED BY <1>3, <1>4, <1>5, <1>6, <1>7

LEMMA StopNextStep ==
  ASSUME IInv, NEW h \in DOMAIN procs, StopNext(h) PROVE IInv'
<1>1. KillAndClose(h) /\ pc = "stopping"
      /\ UNCHANGED <<dirs, saved, env, window, engine, pc, target, running, ends, job, ctx,
                     launches, changes, handle, forked, strays, late>>
  BY DEF StopNext, KillAndClose, settingVars, runVars, boundVars
<1>2. /\ DOMAIN procs' = DOMAIN procs /\ procs' \in [DOMAIN procs' -> Procs]
      /\ joining' = h /\ Registered'
  BY <1>1, KillEffect
<1>3. TypeOK'
  BY <1>1, <1>2 DEF IInv, TypeOK
<1>4. Outside' /\ Departing' /\ OneWorkspace'
  BY <1>1 DEF IInv, Outside, Departing, OneWorkspace
<1> QED BY <1>2, <1>3, <1>4 DEF IInv

LEMMA StopJoinedStep == ASSUME IInv, StopJoined PROVE IInv'
<1> USE DEF StopJoined, Joined, settingVars, runVars, boundVars
<1>1. TypeOK'
  BY DEF IInv, TypeOK
<1>2. Outside' /\ Departing' /\ OneWorkspace'
  BY DEF IInv, Outside, Departing, OneWorkspace
<1>3. Registered'
  BY DEF IInv, Registered, Spent
<1> QED BY <1>1, <1>2, <1>3 DEF IInv

LEMMA StopDoneStep == ASSUME IInv, StopDone PROVE IInv'
<1> USE DEF StopDone, settingVars, runVars, boundVars
<1>1. DOMAIN procs' = {} /\ procs' \in [DOMAIN procs' -> Procs]
  BY ProcessParts DEF NoProcs
<1>2. \A p \in LeftRunning(Range(procs)) : p \in Procs /\ ~p.piped
  BY DEF LeftRunning, Range, IInv, TypeOK, Registered, Spent
<1>3. strays' \subseteq Procs /\ \A p \in strays' : ~p.piped
  BY <1>2 DEF IInv, TypeOK, Registered
<1>4. TypeOK'
  BY <1>1, <1>3 DEF IInv, TypeOK
<1>5. Outside' /\ Departing' /\ OneWorkspace'
  BY DEF IInv, Outside, Departing, OneWorkspace
<1>6. Registered'
  BY <1>1, <1>3 DEF IInv, Registered
<1> QED BY <1>4, <1>5, <1>6 DEF IInv

\* What Accept makes of the four copies.
LEMMA AcceptEffect ==
  ASSUME IInv, Accept
  PROVE  \/ /\ engine' = target /\ window' = target /\ env' = target /\ saved' = target
         \/ UNCHANGED settingVars
BY PlaceParts DEF Accept, IInv, TypeOK

LEMMA AcceptStep == ASSUME IInv, Accept PROVE IInv'
<1>1. pc = "accepting" /\ pc' = "rest"
      /\ UNCHANGED <<dirs, target, running, ends, job, ctx, procs, handle, forked, joining,
                     strays, late, launches, changes>>
  BY DEF Accept, runVars, registryVars, boundVars
<1>2. Places \subseteq [root : Paths, access : Int] /\ Places \subseteq Saved
  BY DEF Places, Saved, Modes
<1>3. TypeOK'
  BY <1>1, <1>2, AcceptEffect DEF IInv, TypeOK, settingVars
<1>4. Outside' /\ Departing'
  BY <1>1 DEF Outside, Departing
<1>5. Registered'
  BY <1>1 DEF IInv, Registered, Spent
<1>6. OneWorkspace'
  BY <1>1, AcceptEffect DEF IInv, OneWorkspace, settingVars
<1> QED BY <1>3, <1>4, <1>5, <1>6 DEF IInv

-----------------------------------------------------------------------------
(* Processes and runs                                                      *)

LEMMA ProcessChangesStep == ASSUME IInv, ProcessChanges PROVE IInv'
<1> USE DEF settingVars, runVars, boundVars
<1>1. UNCHANGED <<dirs, settingVars, pc, target, runVars, handle, joining, strays, late,
                  boundVars>>
  BY DEF ProcessChanges
<1>2. Outside' /\ Departing' /\ OneWorkspace'
  <2>1. pc # "down" \/ procs' = procs
    BY ProcessParts DEF ProcessChanges, IInv, Outside
  <2> QED BY <1>1, <2>1 DEF IInv, Outside, Departing, OneWorkspace
<1>3. CASE \E h \in DOMAIN procs : \E p \in Later(procs[h]) :
             procs' = [procs EXCEPT ![h] = p] /\ UNCHANGED forked
  <2>0. PICK h \in DOMAIN procs : \E p \in Later(procs[h]) :
          procs' = [procs EXCEPT ![h] = p] /\ UNCHANGED forked
    BY <1>3
  <2>1. PICK p \in Later(procs[h]) : procs' = [procs EXCEPT ![h] = p] /\ UNCHANGED forked
    BY <2>0
  <2>2. procs[h] \in Procs /\ procs \in [DOMAIN procs -> Procs]
    BY DEF IInv, TypeOK
  <2>3. p \in Procs /\ p.closed = procs[h].closed /\ (Spent(procs[h]) => Spent(p))
    BY <2>2, LaterKeeps
  <2>4. DOMAIN procs' = DOMAIN procs /\ procs' \in [DOMAIN procs' -> Procs]
        /\ \A i \in DOMAIN procs : procs'[i] = IF i = h THEN p ELSE procs[i]
    BY <2>1, <2>2, <2>3
  <2>5. TypeOK'
    BY <1>1, <2>1, <2>4 DEF IInv, TypeOK
  <2>6. Registered'
    <3>1. \A i \in DOMAIN procs' : Spent(procs'[i])
      BY <2>3, <2>4 DEF IInv, Registered
    <3>2. joining # 0 => procs'[joining].closed
      BY <2>3, <2>4 DEF IInv, Registered, TypeOK
    <3> QED BY <1>1, <2>1, <3>1, <3>2 DEF IInv, Registered
  <2> QED BY <1>2, <2>5, <2>6 DEF IInv
<1>4. CASE \E q \in forked : \E p \in Later(q) : forked' = {p} /\ UNCHANGED procs
  <2>0. PICK q \in forked : \E p \in Later(q) : forked' = {p} /\ UNCHANGED procs
    BY <1>4
  <2>1. PICK p \in Later(q) : forked' = {p} /\ UNCHANGED procs
    BY <2>0
  <2>2. q \in Procs
    BY DEF IInv, TypeOK
  <2>3. p \in Procs /\ (Spent(q) => Spent(p))
    BY <2>2, LaterKeeps
  <2>4. TypeOK'
    BY <1>1, <2>1, <2>3 DEF IInv, TypeOK
  <2>5. Registered'
    BY <1>1, <2>1, <2>3 DEF IInv, Registered
  <2> QED BY <1>2, <2>4, <2>5 DEF IInv
<1> QED BY <1>3, <1>4 DEF ProcessChanges

LEMMA DirectoryStep ==
  ASSUME IInv, NEW path \in Paths, DirectoryChanges(path) PROVE IInv'
<1>1. dirs' \in SUBSET Paths /\ Cwd \in dirs' /\ Project \in dirs' /\ changes' \in Nat
  BY DEF DirectoryChanges, IInv, TypeOK
<1> USE DEF DirectoryChanges, settingVars, runVars, registryVars
<1>2. TypeOK'
  BY <1>1 DEF IInv, TypeOK
<1>3. Outside' /\ Departing' /\ OneWorkspace'
  BY DEF IInv, Outside, Departing, OneWorkspace
<1>4. Registered'
  BY DEF IInv, Registered, Spent
<1> QED BY <1>2, <1>3, <1>4 DEF IInv

LEMMA RunSteps ==
  ASSUME IInv, Send \/ Finalize \/ Stop \/ StartBatch \/ EndBatch \/ EndRun PROVE IInv'
<1>1. dirs \in SUBSET Paths /\ Cwd \in dirs /\ Project \in dirs /\ engine \in Places
      /\ ctx \in Places /\ launches \in Nat /\ changes \in Nat /\ running \in BOOLEAN
      /\ ends \in Nat /\ job \in {"none", "run", "batch", "fork", "kill"}
      /\ (pc # "rest" => ~running) /\ (pc \in {"down", "starting"} => job = "none")
  BY DEF IInv, TypeOK, Outside
<1>2. CASE Send
  <2>1. /\ UNCHANGED <<dirs, settingVars, target, registryVars, pc, ends, ctx, launches, changes>>
        /\ pc = "rest" /\ running' = TRUE /\ job' = "run" /\ job = "none"
    BY <1>2 DEF Send, Otherwise, boundVars
  <2> QED BY <1>1, <2>1, StillStep
<1>3. CASE (Finalize \/ Stop) /\ job # "fork"
  <2>1. /\ UNCHANGED <<dirs, settingVars, target, registryVars, pc, job, ctx, launches, changes>>
        /\ running' = FALSE /\ ends' \in Nat
    BY <1>1, <1>3 DEF Finalize, Stop, Otherwise, boundVars
  <2> QED BY <1>1, <1>3, <2>1, StillStep
<1>4. CASE StartBatch
  <2>1. Readable \subseteq Places
    BY DEF Readable, Places, IInv, TypeOK
  <2>2. /\ UNCHANGED <<dirs, settingVars, target, registryVars, pc, running, ends, launches, changes>>
        /\ job = "run" /\ job' = "batch" /\ ctx' \in Places
    BY <1>4, <2>1 DEF StartBatch, Otherwise, boundVars
  <2> QED BY <1>1, <2>2, StillStep
<1>5. CASE EndBatch
  <2>1. ctx' \in Places
    BY <1>5, PlaceParts DEF EndBatch
  <2> QED BY <1>1, <1>5, <2>1, StillStep DEF EndBatch, Otherwise, boundVars
<1>6. CASE EndRun
  <2>1. ends' \in Nat
    BY <1>1, <1>6 DEF EndRun
  <2> QED BY <1>1, <1>6, <2>1, StillStep DEF EndRun, Otherwise, boundVars
<1>7. CASE (Finalize \/ Stop) /\ job = "fork"
  <2>0. /\ UNCHANGED <<dirs, settingVars, target, registryVars, pc, job, ctx, boundVars>>
        /\ running' = FALSE /\ ends' \in Nat
    BY <1>1, <1>7 DEF Finalize, Stop, Otherwise
  <2> USE <2>0 DEF boundVars, settingVars, registryVars
  <2>1. TypeOK'
    BY DEF IInv, TypeOK
  <2>2. Outside' /\ Departing' /\ OneWorkspace'
    BY DEF IInv, Outside, Departing, OneWorkspace
  <2>3. Registered'
    BY DEF IInv, Registered, Spent
  <2> QED BY <2>1, <2>2, <2>3 DEF IInv
<1> QED BY <1>2, <1>3, <1>4, <1>5, <1>6, <1>7

LEMMA ForkStep == ASSUME IInv, Fork PROVE IInv'
<1> USE DEF Fork, Otherwise, settingVars, runVars, boundVars
<1>1. Process(ctx) \in Procs /\ Spent(Process(ctx))
  BY ProcessParts DEF IInv, TypeOK, Spent
<1>2. TypeOK'
  BY <1>1 DEF IInv, TypeOK
<1>3. Outside' /\ Departing' /\ OneWorkspace'
  BY DEF IInv, Outside, Departing, OneWorkspace
<1>4. Registered'
  BY <1>1 DEF IInv, Registered
<1> QED BY <1>2, <1>3, <1>4 DEF IInv

LEMMA RegisterEffect ==
  ASSUME IInv, Register
  PROVE  \E p \in forked :
           /\ DOMAIN procs' = DOMAIN procs \cup {handle} /\ handle \notin DOMAIN procs
           /\ procs'[handle] = p /\ \A h \in DOMAIN procs : procs'[h] = procs[h]
           /\ procs' \in [DOMAIN procs' -> Procs]
<1>1. handle \in Nat /\ DOMAIN procs \subseteq 1..(handle - 1) /\ forked \subseteq Procs
      /\ procs \in [DOMAIN procs -> Procs]
  BY DEF IInv, TypeOK
<1>2. PICK p \in forked : procs' = [h \in DOMAIN procs \cup {handle} |->
                                     IF h = handle THEN p ELSE procs[h]]
  BY DEF Register
<1>3. handle \notin DOMAIN procs
  BY <1>1
<1>4. DOMAIN procs' = DOMAIN procs \cup {handle} /\ procs' \in [DOMAIN procs' -> Procs]
  BY <1>1, <1>2
<1>5. procs'[handle] = p /\ \A h \in DOMAIN procs : procs'[h] = procs[h]
  BY <1>2, <1>3
<1> QED BY <1>3, <1>4, <1>5

LEMMA RegisterStep == ASSUME IInv, Register PROVE IInv'
<1>1. PICK p \in forked :
        /\ DOMAIN procs' = DOMAIN procs \cup {handle} /\ handle \notin DOMAIN procs
        /\ procs'[handle] = p /\ \A h \in DOMAIN procs : procs'[h] = procs[h]
        /\ procs' \in [DOMAIN procs' -> Procs]
  BY RegisterEffect
<1>2. /\ job = "fork" /\ job' = "batch" /\ handle' = handle + 1 /\ forked' = {}
      /\ late' \subseteq late \cup {handle}
      /\ UNCHANGED <<dirs, saved, env, window, engine, pc, target, running, ends, ctx,
                     joining, strays, launches, changes>>
  BY DEF Register, Otherwise, settingVars, boundVars
<1>3. handle \in Nat \ {0} /\ DOMAIN procs \subseteq 1..(handle - 1)
  BY DEF IInv, TypeOK
<1>4. DOMAIN procs' \subseteq 1..(handle' - 1) /\ handle' \in Nat \ {0}
  BY <1>1, <1>2, <1>3
<1>5. TypeOK'
  BY <1>1, <1>2, <1>4 DEF IInv, TypeOK
<1>6. Outside' /\ Departing' /\ OneWorkspace'
  BY <1>2 DEF IInv, Outside, Departing, OneWorkspace
<1>7. Registered'
  <2>1. \A h \in DOMAIN procs' : Spent(procs'[h])
    BY <1>1 DEF IInv, Registered
  <2>2. joining # 0 => procs'[joining].closed
    BY <1>1 DEF IInv, Registered, TypeOK
  <2> QED BY <1>2, <2>1, <2>2 DEF IInv, Registered
<1> QED BY <1>5, <1>6, <1>7 DEF IInv

LEMMA BeginKillStep ==
  ASSUME IInv, NEW h \in DOMAIN procs, BeginKill(h) PROVE IInv'
<1>1. KillAndClose(h) /\ job = "batch" /\ job' = "kill"
      /\ UNCHANGED <<dirs, saved, env, window, engine, pc, target, running, ends, ctx,
                     launches, changes, handle, forked, strays, late>>
  BY DEF BeginKill, KillAndClose, Otherwise, settingVars, boundVars
<1>2. /\ DOMAIN procs' = DOMAIN procs /\ procs' \in [DOMAIN procs' -> Procs]
      /\ joining' = h /\ Registered'
  BY <1>1, KillEffect
<1>3. TypeOK'
  BY <1>1, <1>2 DEF IInv, TypeOK
<1>4. Outside' /\ Departing' /\ OneWorkspace'
  <2>1. pc \notin {"down", "starting"}
    BY <1>1 DEF IInv, Outside
  <2> QED BY <1>1, <2>1 DEF IInv, Outside, Departing, OneWorkspace
<1> QED BY <1>2, <1>3, <1>4 DEF IInv

\* The registry behind the end of kill_process.
LEMMA EndKillEffect ==
  ASSUME IInv, EndKill
  PROVE  /\ joining \in DOMAIN procs /\ DOMAIN procs' = DOMAIN procs \ {joining}
         /\ procs' \in [DOMAIN procs' -> Procs]
         /\ \A h \in DOMAIN procs' : procs'[h] = procs[h]
BY DEF EndKill, Restrict, IInv, TypeOK

LEMMA EndKillStep == ASSUME IInv, EndKill PROVE IInv'
<1>1. /\ job = "kill" /\ job' = "batch" /\ joining' = 0
      /\ strays' = strays \cup LeftRunning({procs[joining]})
      /\ late' = late \ {joining}
      /\ UNCHANGED <<dirs, saved, env, window, engine, pc, target, running, ends, ctx,
                     handle, forked, launches, changes>>
  BY DEF EndKill, Otherwise, settingVars, boundVars
<1>2. procs[joining] \in Procs /\ joining # 0
  BY EndKillEffect DEF EndKill, IInv, TypeOK
<1>3. procs[joining].closed /\ Spent(procs[joining])
  BY <1>2, EndKillEffect DEF IInv, Registered
<1>4. \A p \in LeftRunning({procs[joining]}) : p \in Procs /\ ~p.piped
  BY <1>2, <1>3 DEF LeftRunning, Spent
<1>5. TypeOK'
  BY <1>1, <1>4, EndKillEffect DEF IInv, TypeOK
<1>6. Outside' /\ Departing' /\ OneWorkspace'
  <2>1. pc \notin {"down", "starting"}
    BY <1>1 DEF IInv, Outside
  <2> QED BY <1>1, <2>1 DEF IInv, Outside, Departing, OneWorkspace
<1>7. Registered'
  BY <1>1, <1>4, EndKillEffect DEF IInv, Registered
<1> QED BY <1>5, <1>6, <1>7 DEF IInv

-----------------------------------------------------------------------------
(* The invariant                                                           *)

LEMMA Base == ASSUME Init PROVE IInv
<1> USE DEF Init
<1>1. engine \in Places /\ ctx \in Places /\ env \in [root : Paths, access : Int]
      /\ window \in [root : Paths, access : Int]
  BY PlaceParts, WorkspaceAssumption DEF Place, Places, Modes, NoMode
<1>2. DOMAIN procs = {} /\ procs \in [DOMAIN procs -> Procs]
  BY ProcessParts DEF NoProcs
<1>3. TypeOK
  <2>1. dirs \in SUBSET Paths /\ Cwd \in dirs /\ Project \in dirs /\ saved \in Saved
    BY WorkspaceAssumption
  <2>2. DOMAIN procs \subseteq 1..(handle - 1) /\ handle \in Nat \ {0}
    BY <1>2
  <2>3. forked \subseteq Procs /\ strays \subseteq Procs /\ late = {} /\ (job = "fork" <=> forked # {})
    OBVIOUS
  <2> QED BY <1>1, <1>2, <2>1, <2>2, <2>3 DEF TypeOK
<1>4. Outside /\ Departing /\ OneWorkspace
  BY DEF Outside, Departing, OneWorkspace
<1>5. Registered
  BY <1>2 DEF Registered
<1> QED BY <1>3, <1>4, <1>5 DEF IInv

LEMMA Stutter == ASSUME IInv, UNCHANGED vars PROVE IInv'
<1> USE DEF vars, settingVars, runVars, registryVars, boundVars
<1>1. TypeOK'
  BY DEF IInv, TypeOK
<1>2. Outside' /\ Departing' /\ OneWorkspace'
  BY DEF IInv, Outside, Departing, OneWorkspace
<1>3. Registered'
  BY DEF IInv, Registered, Spent
<1> QED BY <1>1, <1>2, <1>3 DEF IInv

LEMMA Inductive == ASSUME IInv, [Next]_vars PROVE IInv'
<1>1. CASE Rest \/ UNCHANGED vars
  BY <1>1, Stutter DEF Rest
<1>2. CASE Launch \/ End
  BY <1>2, LaunchStep, EndStep
<1>3. CASE StopJoined \/ StopDone \/ Accept \/ \E h \in DOMAIN procs : StopNext(h)
  BY <1>3, StopJoinedStep, StopDoneStep, AcceptStep, StopNextStep
<1>4. CASE \/ Restore \/ ApplyLanguage
           \/ \E path \in Paths : ChooseWorkspace(path)
           \/ \E level \in Modes : ChooseMode(level)
  BY <1>4, UpdatesStep
<1>5. CASE Send \/ Finalize \/ Stop \/ StartBatch \/ EndBatch \/ EndRun
  BY <1>5, RunSteps
<1>6. CASE Fork \/ Register \/ EndKill \/ \E h \in DOMAIN procs : BeginKill(h)
  BY <1>6, ForkStep, RegisterStep, EndKillStep, BeginKillStep
<1>7. CASE ProcessChanges \/ \E path \in Paths : DirectoryChanges(path)
  BY <1>7, ProcessChangesStep, DirectoryStep
<1> QED BY <1>1, <1>2, <1>3, <1>4, <1>5, <1>6, <1>7 DEF Next, Change, Work

\* The inductive invariant holds in every reachable state.
THEOREM WorkspaceInvariant == Spec => []IInv
<1>1. Init => IInv
  BY Base
<1>2. IInv /\ [Next]_vars => IInv'
  BY Inductive
<1> QED BY <1>1, <1>2, PTL DEF Spec

\* Every variable keeps its type (the four copies of the workspace, the
\* registry).
THEOREM WorkspaceTypeOK == Spec => []TypeOK
<1>1. IInv => TypeOK
  BY DEF IInv
<1> QED BY <1>1, WorkspaceInvariant, PTL

\* The four copies of the workspace agree once one was accepted
\* (update_workspace).
THEOREM WorkspaceOne == Spec => []OneWorkspace
<1>1. IInv => OneWorkspace
  BY DEF IInv
<1> QED BY <1>1, WorkspaceInvariant, PTL

-----------------------------------------------------------------------------
(* Which steps lose a process                                              *)

LEMMA KeepStep ==
  ASSUME IInv, [Next]_vars, NEW h \in DOMAIN procs \ DOMAIN procs'
  PROVE  \/ pc' = "down"
         \/ job = "kill" /\ joining = h
         \/ pc = "stopping" /\ target # engine
<1> SUFFICES ASSUME pc' # "down", ~(job = "kill" /\ joining = h),
                    ~(pc = "stopping" /\ target # engine)
             PROVE  FALSE
  OBVIOUS
<1>1. DOMAIN procs' # DOMAIN procs /\ procs' # procs
  OBVIOUS
<1>2. ~(Rest \/ UNCHANGED vars)
  BY <1>1 DEF Rest, vars, registryVars
<1>3. ~(Launch \/ End)
  BY ProcessParts DEF Launch, End, IInv, Outside
<1>4. ~StopDone
  BY DEF StopDone, IInv, Departing
<1>5. ~(StopJoined \/ Accept)
  BY <1>1 DEF StopJoined, Joined, Accept, registryVars
<1>6. ASSUME NEW i \in DOMAIN procs, StopNext(i) \/ BeginKill(i) PROVE FALSE
  BY <1>1, <1>6, KillEffect DEF StopNext, BeginKill
<1>7. ~(Restore \/ ApplyLanguage)
  BY <1>1 DEF Restore, ApplyLanguage, Keeping, registryVars
<1>8. /\ \A path \in Paths : ~(ChooseWorkspace(path) \/ DirectoryChanges(path))
      /\ \A level \in Modes : ~ChooseMode(level)
  BY <1>1 DEF ChooseWorkspace, ChooseMode, DirectoryChanges, Keeping, registryVars
<1>9. ~(Send \/ Finalize \/ Stop \/ StartBatch \/ EndBatch \/ EndRun \/ Fork)
  BY <1>1 DEF Send, Finalize, Stop, StartBatch, EndBatch, EndRun, Fork, registryVars
<1>10. ~Register
  BY RegisterEffect
<1>11. ~EndKill
  BY EndKillEffect DEF EndKill
<1>12. ~ProcessChanges
  BY <1>1 DEF ProcessChanges
<1> QED
  BY <1>2, <1>3, <1>4, <1>5, <1>6, <1>7, <1>8, <1>9, <1>10, <1>11, <1>12
  DEF Next, Change, Work

\* A handle is lost only by kill_process of that handle, by the end of the
\* program and by a change to another workspace (set_workspace,
\* stop_all_background_processes).
THEOREM WorkspaceProcessesKept == Spec => ProcessesKept
<1>1. IInv /\ [Next]_vars =>
        [\A h \in DOMAIN procs \ DOMAIN procs' :
           \/ pc' = "down"
           \/ job = "kill" /\ joining = h
           \/ pc = "stopping" /\ target # engine]_vars
  BY KeepStep
<1> QED BY <1>1, WorkspaceInvariant, PTL DEF Spec, ProcessesKept

-----------------------------------------------------------------------------
(* Where processes run                                                     *)

\* A step that starts neither a batch nor a process of a run in progress, and
\* leaves the engine's workspace alone.
LEMMA PlacedStill ==
  ASSUME Placed, UNCHANGED engine,
         running' => /\ running \/ (~Tooling' /\ forked = {})
                     /\ Tooling' => Tooling /\ ctx' = ctx
                     /\ forked' = forked \/ forked' = {},
         pc' = "accepting" => target' = engine' \/ DOMAIN procs' \subseteq late',
         \A h \in DOMAIN procs' : /\ h \in DOMAIN procs /\ PlaceOf(procs'[h]) = PlaceOf(procs[h])
                                  /\ h \in late => h \in late'
  PROVE  Placed'
BY DEF Placed, Here

LEMMA ProcessPlaces ==
  ASSUME IInv, ProcessChanges
  PROVE  /\ \A h \in DOMAIN procs' : h \in DOMAIN procs /\ PlaceOf(procs'[h]) = PlaceOf(procs[h])
         /\ \A p \in forked' : \E q \in forked : PlaceOf(p) = PlaceOf(q)
<1>1. procs \in [DOMAIN procs -> Procs] /\ forked \subseteq Procs
  BY DEF IInv, TypeOK
<1>2. ASSUME NEW h \in DOMAIN procs, NEW p \in Later(procs[h]),
             procs' = [procs EXCEPT ![h] = p], forked' = forked
      PROVE  /\ \A i \in DOMAIN procs' :
                  i \in DOMAIN procs /\ PlaceOf(procs'[i]) = PlaceOf(procs[i])
             /\ \A q \in forked' : \E r \in forked : PlaceOf(q) = PlaceOf(r)
  <2>1. PlaceOf(p) = PlaceOf(procs[h])
    BY <1>1, LaterKeeps
  <2> QED BY <1>2, <2>1
<1>3. ASSUME NEW q \in forked, NEW p \in Later(q), forked' = {p}, procs' = procs
      PROVE  \A i \in forked' : \E r \in forked : PlaceOf(i) = PlaceOf(r)
  BY <1>1, <1>3, LaterKeeps
<1> QED BY <1>2, <1>3 DEF ProcessChanges

LEMMA PlacedStep ==
  ASSUME IInv, Placed, [Next]_vars PROVE Placed'
<1> USE DEF settingVars, runVars, registryVars, boundVars
<1>1. /\ pc # "rest" => ~running
      /\ job = "none" => forked = {} /\ ~Tooling
      /\ late \subseteq DOMAIN procs
  BY DEF IInv, Outside, TypeOK, Tooling
<1>2. CASE Rest \/ UNCHANGED vars
  BY <1>2, PlacedStill DEF Rest, vars, Placed, Tooling
<1>3. CASE Launch
  <2>1. ~running' /\ procs' = NoProcs /\ pc' = "starting"
    BY <1>1, <1>3 DEF Launch
  <2> QED BY <2>1, ProcessParts DEF Placed
<1>4. CASE End
  BY <1>4, ProcessParts DEF End, Placed
<1>5. CASE \/ Restore \/ ApplyLanguage
           \/ \E path \in Paths : ChooseWorkspace(path)
           \/ \E level \in Modes : ChooseMode(level)
  <2>1. Keeping /\ (pc' = "accepting" => target' = engine)
    BY <1>5 DEF Restore, ApplyLanguage, ChooseWorkspace, ChooseMode, Update, Differs, Keeping
  <2> QED BY <1>1, <2>1, PlacedStill DEF Keeping, Tooling
<1>6. ASSUME NEW h \in DOMAIN procs, StopNext(h) PROVE Placed'
  <2>1. /\ DOMAIN procs' = DOMAIN procs
        /\ \A i \in DOMAIN procs : PlaceOf(procs'[i]) = PlaceOf(procs[i])
    BY <1>6, KillEffect DEF StopNext
  <2> QED BY <1>1, <1>6, <2>1, PlacedStill DEF StopNext, KillAndClose
<1>7. CASE StopJoined
  BY <1>1, <1>7, PlacedStill DEF StopJoined, Joined
<1>8. CASE StopDone
  BY <1>1, <1>8, ProcessParts, PlacedStill DEF StopDone
<1>9. CASE Accept
  <2>1. ~running' /\ procs' = procs /\ late' = late /\ pc' = "rest"
    BY <1>1, <1>9 DEF Accept
  <2>2. engine' = engine \/ DOMAIN procs \subseteq late
    BY <1>9, AcceptEffect DEF Placed, Accept
  <2> QED BY <2>1, <2>2 DEF Placed, Here
<1>10. CASE Send \/ EndBatch \/ EndRun
  <2>1. ~Tooling' /\ (running \/ forked = {}) /\ pc' = pc /\ UNCHANGED <<target, procs, late>>
        /\ UNCHANGED <<engine, forked>>
    BY <1>1, <1>10 DEF Send, EndBatch, EndRun, Otherwise, Tooling, IInv, TypeOK, Outside
  <2>2. pc' = "accepting" => target' = engine' \/ DOMAIN procs' \subseteq late'
    BY <2>1 DEF Placed
  <2>3. CASE running
    BY <2>1, <2>2, <2>3, PlacedStill
  <2>4. CASE ~running
    BY <1>10, <2>1, <2>2, <2>4, PlacedStill
  <2> QED BY <2>3, <2>4
<1>11. CASE Finalize \/ Stop
  <2>1. ~running' /\ UNCHANGED <<pc, target, engine, procs, late>>
    BY <1>11 DEF Finalize, Stop, Otherwise
  <2>2. pc' = "accepting" => target' = engine' \/ DOMAIN procs' \subseteq late'
    BY <2>1 DEF Placed
  <2> QED BY <2>1, <2>2, PlacedStill
<1>12. CASE StartBatch
  <2>1. UNCHANGED <<pc, target, engine, procs, late, running, forked>>
        /\ (running => ctx' = engine)
    BY <1>1, <1>12 DEF StartBatch, Readable, Otherwise
  <2> QED BY <2>1 DEF Placed, Here
<1>13. CASE Fork
  <2>1. running => ctx = engine /\ engine.access = 2 /\ PlaceOf(Process(ctx)) = engine
    BY <1>13, ProcessParts DEF Fork, MayExecute, IInv, TypeOK, Placed, Tooling
  <2>2. UNCHANGED <<pc, target, engine, procs, late, running, ctx>> /\ forked' = {Process(ctx)}
    BY <1>13 DEF Fork, Otherwise
  <2> QED BY <1>13, <2>1, <2>2 DEF Fork, Placed, Here, Tooling
<1>14. CASE Register
  <2>1. PICK p \in forked :
          /\ DOMAIN procs' = DOMAIN procs \cup {handle}
          /\ procs'[handle] = p /\ \A h \in DOMAIN procs : procs'[h] = procs[h]
    BY <1>14, RegisterEffect
  <2>2. /\ late' = late \cup (IF running THEN {} ELSE {handle}) /\ forked' = {}
        /\ job = "fork" /\ UNCHANGED <<pc, target, engine, running, ctx>>
    BY <1>14 DEF Register, Otherwise
  <2>3. \A h \in DOMAIN procs' \ late' : Here(procs'[h])
    <3>1. running => Here(p)
      BY DEF Placed
    <3>2. ASSUME NEW h \in DOMAIN procs, h \notin late' PROVE Here(procs'[h])
      BY <2>1, <2>2, <3>2 DEF Placed
    <3>3. handle \notin late' => Here(procs'[handle])
      BY <2>1, <2>2, <3>1
    <3> QED BY <2>1, <3>2, <3>3
  <2>4. pc' = "accepting" => target' = engine' \/ DOMAIN procs' \subseteq late'
    BY <1>1, <2>1, <2>2 DEF Placed
  <2> QED BY <2>2, <2>3, <2>4 DEF Placed, Here, Tooling
<1>15. ASSUME NEW h \in DOMAIN procs, BeginKill(h) PROVE Placed'
  <2>1. /\ DOMAIN procs' = DOMAIN procs
        /\ \A i \in DOMAIN procs : PlaceOf(procs'[i]) = PlaceOf(procs[i])
    BY <1>15, KillEffect DEF BeginKill
  <2>2. UNCHANGED <<pc, target, engine, late, running, ctx, forked>> /\ Tooling
    BY <1>15 DEF BeginKill, KillAndClose, Otherwise, Tooling
  <2> QED BY <2>1, <2>2, PlacedStill DEF Placed
<1>16. CASE EndKill
  <2>1. UNCHANGED <<pc, target, engine, running, ctx, forked>> /\ Tooling
        /\ late' = late \ {joining}
    BY <1>16 DEF EndKill, Otherwise, Tooling
  <2>2. DOMAIN procs' = DOMAIN procs \ {joining} /\ \A h \in DOMAIN procs' : procs'[h] = procs[h]
    BY <1>16, EndKillEffect
  <2> QED BY <2>1, <2>2, PlacedStill DEF Placed
<1>17. CASE ProcessChanges
  <2>1. \A h \in DOMAIN procs' : h \in DOMAIN procs /\ PlaceOf(procs'[h]) = PlaceOf(procs[h])
    BY <1>17, ProcessPlaces
  <2>2. running => \A p \in forked' : Here(p)
    BY <1>17, ProcessPlaces DEF Placed, Here
  <2>3. UNCHANGED <<pc, target, engine, late, running, job, ctx>>
    BY <1>17 DEF ProcessChanges
  <2> QED BY <2>1, <2>2, <2>3 DEF Placed, Here, Tooling
<1>18. ASSUME NEW path \in Paths, DirectoryChanges(path) PROVE Placed'
  BY <1>1, <1>18, PlacedStill DEF DirectoryChanges, Placed, Tooling
<1> QED
  BY <1>2, <1>3, <1>4, <1>5, <1>6, <1>7, <1>8, <1>9, <1>10, <1>11, <1>12, <1>13, <1>14,
     <1>15, <1>16, <1>17, <1>18
  DEF Next, Change, Work

\* A background process never outlives the workspace it was started in, except
\* with its output given away, or registered by a run whose flag the closure of
\* an earlier one has cleared (set_workspace, run_in_background, kill_process).
THEOREM WorkspaceProcesses == Spec => []ProcessesOfWorkspace
<1>1. Init => IInv /\ Placed
  BY Base, ProcessParts DEF Init, Placed, Tooling
<1>2. IInv /\ Placed /\ [Next]_vars => IInv' /\ Placed'
  BY Inductive, PlacedStep
<1>3. IInv /\ Placed => ProcessesOfWorkspace
  BY DEF IInv, Registered, Placed, Here, ProcessesOfWorkspace
<1> QED BY <1>1, <1>2, <1>3, PTL DEF Spec
=============================================================================
