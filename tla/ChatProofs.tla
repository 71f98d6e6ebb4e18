----------------------------- MODULE ChatProofs -----------------------------
(***************************************************************************)
(* What the chat guarantees for every set of sessions, every choice of the *)
(* user's operations and of the failures of a run, every batch of tools    *)
(* and every bound: typing first, then the invariants that hold whatever   *)
(* the user does, and last what holds as long as nothing untimely happens. *)
(***************************************************************************)
EXTENDS ChatProperties, FiniteSetTheorems, SequenceTheorems, TLAPS

-----------------------------------------------------------------------------
(* The operators on the conversation log                                   *)

\* A nonempty set of naturals has a least member.
LEMMA LeastNat ==
  ASSUME NEW T \in SUBSET Nat, T # {}
  PROVE  \E x \in T : \A y \in T : x <= y
<1> DEFINE R == OpToRel(<, Nat)
<1>1. IsWellFoundedOn(R, Nat)
  BY NatLessThanWellFounded
<1> HIDE DEF R
<1>2. \E x \in T : \A y \in T : ~(<<y, x>> \in R)
  BY <1>1, WFMin
<1>3. PICK x \in T : \A y \in T : ~(<<y, x>> \in R)
  BY <1>2
<1>4. ASSUME NEW y \in T PROVE x <= y
  <2>1. x \in Nat /\ y \in Nat
    OBVIOUS
  <2>2. ~(<<y, x>> \in R)
    BY <1>3
  <2> QED BY <2>1, <2>2 DEF R, OpToRel
<1> QED BY <1>4

\* A set of positions of a log is finite.
LEMMA Positions ==
  ASSUME NEW n \in Nat, NEW K \in SUBSET (1..n)
  PROVE  /\ IsFiniteSet(K) /\ Cardinality(K) \in Nat
         /\ \A j \in K : j \in Nat /\ 1 <= j /\ j <= n
<1>1. IsFiniteSet(1..n)
  BY FS_Interval
<1>2. IsFiniteSet(K)
  BY <1>1, FS_Subset
<1>3. Cardinality(K) \in Nat
  BY <1>2, FS_CardinalityType
<1> QED BY <1>2, <1>3

\* A finite set of positive numbers has a k-th smallest member, for every k up
\* to its size: the CHOOSE of Nth chooses it.
LEMMA NthMember ==
  ASSUME NEW n \in Nat, NEW K \in SUBSET (1..n), NEW k \in 1..Cardinality(K)
  PROVE  /\ Nth(K, k) \in K
         /\ Cardinality({j \in K : j <= Nth(K, k)}) = k
<1> DEFINE Below(m) == {j \in K : j <= m}
<1>1. IsFiniteSet(K) /\ Cardinality(K) \in Nat
  BY Positions
<1>2. \A j \in K : j \in Nat /\ 1 <= j /\ j <= n
  BY Positions
<1>3. k \in Nat /\ 1 <= k /\ k <= Cardinality(K)
  BY <1>1
<1>4. ASSUME NEW m \in Nat
      PROVE  IsFiniteSet(Below(m)) /\ Cardinality(Below(m)) \in Nat
  <2>1. Below(m) \in SUBSET K
    OBVIOUS
  <2>2. IsFiniteSet(Below(m))
    BY <1>1, <2>1, FS_Subset
  <2> QED BY <2>2, FS_CardinalityType
<1>5. Below(n) = K
  BY <1>2
<1>6. Below(0) = {}
  <2>1. \A j \in K : ~(j <= 0)
    BY <1>2
  <2> QED BY <2>1
<1>7. ASSUME NEW m \in Nat, m + 1 \in K
      PROVE  Below(m + 1) = Below(m) \cup {m + 1} /\ m + 1 \notin Below(m)
  <2>1. \A j \in K : j <= m + 1 <=> j <= m \/ j = m + 1
    BY <1>2
  <2>2. ~(m + 1 <= m)
    OBVIOUS
  <2> QED BY <2>1, <2>2, <1>7
<1>8. ASSUME NEW m \in Nat, m + 1 \notin K
      PROVE  Below(m + 1) = Below(m)
  <2>1. \A j \in K : j <= m + 1 <=> j <= m
    BY <1>2, <1>8
  <2> QED BY <2>1
<1> HIDE DEF Below
<1> DEFINE T == {m \in Nat : Cardinality(Below(m)) >= k}
<1>9. n \in T
  BY <1>5, <1>3, <1>1
<1>10. PICK m \in T : \A y \in T : m <= y
  <2>1. T \in SUBSET Nat /\ T # {}
    BY <1>9
  <2> HIDE DEF T
  <2> QED BY <2>1, LeastNat
<1>11. m \in Nat /\ Cardinality(Below(m)) >= k
  OBVIOUS
<1>12. m # 0
  BY <1>11, <1>6, <1>3, FS_EmptySet
<1>13. PICK p \in Nat : m = p + 1
  <2>1. m - 1 \in Nat /\ m = (m - 1) + 1
    BY <1>11, <1>12
  <2> QED BY <2>1
<1>14. Cardinality(Below(p)) < k
  <2>1. p \notin T
    BY <1>10, <1>11, <1>13
  <2> QED BY <2>1, <1>4, <1>3
<1>15. m \in K
  BY <1>8, <1>13, <1>14, <1>11, <1>3, <1>4
<1>16. Cardinality(Below(m)) = Cardinality(Below(p)) + 1
  BY <1>4, <1>7, <1>13, <1>15, FS_AddElement
<1>17. Cardinality(Below(m)) = k
  BY <1>16, <1>14, <1>11, <1>3, <1>4
<1> QED BY <1>15, <1>17 DEF Nth, Below

\* The constructor builds messages.
LEMMA MessageType ==
  ASSUME NEW homes, NEW role \in Roles, NEW ids \in Seq(Nat), NEW id \in Nat,
         NEW home \in homes
  PROVE  Message(role, ids, id, home) \in Messages(homes)
BY DEF Message, Messages

\* Repair returns a log over the same messages: it invents and alters none.
LEMMA RepairType ==
  ASSUME NEW S, NEW h \in Seq(S)
  PROVE  Repair(h) \in Seq(S)
<1> DEFINE K == {i \in DOMAIN h : Keeps(h, i)}
<1>1. Len(h) \in Nat /\ DOMAIN h = 1..Len(h)
  OBVIOUS
<1>2. K \in SUBSET (1..Len(h))
  BY <1>1
<1>3. Cardinality(K) \in Nat
  BY <1>1, <1>2, Positions
<1> HIDE DEF K
<1>4. ASSUME NEW k \in 1..Cardinality(K) PROVE h[Nth(K, k)] \in S
  <2>1. Nth(K, k) \in K
    BY <1>1, <1>2, NthMember
  <2>2. Nth(K, k) \in 1..Len(h)
    BY <2>1, <1>2
  <2> HIDE DEF Nth
  <2> QED BY <2>2
<1>5. [k \in 1..Cardinality(K) |-> h[Nth(K, k)]] \in Seq(S)
  BY <1>3, <1>4, IsASeq
<1> QED BY <1>5 DEF Repair, K

\* The cut of a log longer than the tail lies inside the log.
LEMMA CutBounds ==
  ASSUME NEW h, NEW S, h \in Seq(S), NEW keep \in Nat \ {0}, Len(h) >= keep
  PROVE  Cut(h, keep) \in 0..Len(h)
BY DEF Cut

\* Compacted returns a log over the old messages and the note.
LEMMA CompactedType ==
  ASSUME NEW S, NEW h \in Seq(S), h # << >>, NEW cut \in Nat, NEW note \in S
  PROVE  Compacted(h, cut, note) \in Seq(S)
<1>1. Head(h) \in S
  BY HeadTailProperties
<1>2. <<Head(h), note>> \in Seq(S)
  BY <1>1
<1>3. SubSeq(h, cut + 1, Len(h)) \in Seq(S)
  OBVIOUS
<1> QED BY <1>2, <1>3, ConcatProperties DEF Compacted

-----------------------------------------------------------------------------
(* Typing of the parts                                                     *)

LEMMA ClosureType ==
  ASSUME TypeOK, NEW op \in ClosureOps, NEW ok \in BOOLEAN
  PROVE  Append(queue, Closure(op, ok)) \in Seq(Closures)
<1>1. Closure(op, ok) \in Closures
  BY DEF Closure, Closures, TypeOK
<1> QED BY <1>1, AppendProperties DEF TypeOK

LEMMA PostType ==
  ASSUME TypeOK, NEW op \in ClosureOps, Post(op)
  PROVE  queue' \in Seq(Closures)
BY ClosureType DEF Post

\* A message with no call and no id, from any session.
LEMMA PlainType ==
  ASSUME NEW role \in Roles, NEW s \in Sessions
  PROVE  Message(role, << >>, NoId, s) \in LogMessages
<1>1. << >> \in Seq(Nat) /\ NoId \in Nat
  BY DEF NoId
<1> QED BY <1>1, MessageType DEF LogMessages

LEMMA InitTypeOK == Init => TypeOK
<1> SUFFICES ASSUME Init PROVE TypeOK
  OBVIOUS
<1>1. << >> \in Seq(Closures) /\ << >> \in Seq(LogMessages) /\ << >> \in Seq(ToolKinds)
  OBVIOUS
<1>2. /\ uiPc \in UiPcs /\ wpc \in WorkerPcs
      /\ lastRow \in {"none", "row", "stream"}
      /\ answer \in {"none", "pending", "yes", "no"}
  BY DEF Init, UiPcs, WorkerPcs
<1>3. /\ stopFlag \in BOOLEAN /\ running \in BOOLEAN /\ compacting \in BOOLEAN
      /\ busy \in BOOLEAN /\ dirty \in BOOLEAN /\ skillLoaded \in BOOLEAN
      /\ streamRow \in BOOLEAN /\ wspoke \in BOOLEAN /\ fullAccess \in BOOLEAN
  BY DEF Init
<1>4. /\ queue \in Seq(Closures) /\ prefix \in Seq(LogMessages)
      /\ wprefix \in Seq(LogMessages) /\ wcalls \in Seq(ToolKinds)
      /\ history \in Seq(LogMessages) /\ files \in [Sessions -> Seq(LogMessages)]
  BY <1>1 DEF Init
<1>5. /\ current \in Sessions /\ whome \in Sessions
      /\ live \subseteq Sessions /\ fresh \subseteq Sessions
  <2>1. current \in Sessions
    BY ParameterAssumption DEF Init
  <2> QED BY <2>1 DEF Init
<1>6. /\ wround \in Nat /\ windex \in Nat \ {0} /\ client \in Nat
      /\ epoch \in Nat \ {0} /\ needed \in Nat /\ sent \in Nat
      /\ settled \in Nat /\ skillRun \in Nat /\ streamText \subseteq Nat
      /\ skillRound \in Nat /\ wskills \subseteq Nat
      /\ untimely \subseteq UntimelyEvents
  BY DEF Init
<1> QED BY <1>2, <1>3, <1>4, <1>5, <1>6 DEF TypeOK

-----------------------------------------------------------------------------
(* The steps of the worker                                                 *)

LEMMA WorkerTypeOK == TypeOK /\ Worker => TypeOK'
<1> SUFFICES ASSUME TypeOK, Worker PROVE TypeOK'
  OBVIOUS
<1> USE ParameterAssumption
<1> USE DEF uiVars, flagVars, viewVars, sessionVars, jobVars, batchVars, skillVars,
            countVars, WorkerPcs, EnginePcs
<1>0. UNCHANGED <<uiVars, viewVars, sessionVars, jobVars, fullAccess, dirty,
                  epoch, needed, countVars>>
  BY DEF Worker
<1>u. untimely' \subseteq UntimelyEvents
  BY DEF Worker, AskTools, ReportAhead, ReportError, MayReport, Untimely,
     UntimelyEvents, TypeOK
<1>1. CASE BeginRun
  <2>1. Repair(history) \in Seq(LogMessages)
    BY RepairType DEF TypeOK
  <2> QED BY <1>0, <1>u, <1>1, <2>1 DEF BeginRun, TypeOK
<1>2. CASE Speak
  <2>1. queue' \in Seq(Closures)
    BY <1>2, PostType DEF Speak, ClosureOps
  <2> QED BY <1>0, <1>u, <1>2, <2>1 DEF Speak, TypeOK
<1>3. ASSUME NEW batch \in Batches, AskTools(batch) PROVE TypeOK'
  <2>1. batch \in Seq(ToolKinds) /\ Len(batch) \in Nat /\ DOMAIN batch = 1..Len(batch)
    OBVIOUS
  <2>2. [i \in DOMAIN batch |-> i] \in Seq(Nat)
    <3>1. [i \in 1..Len(batch) |-> i] \in Seq(Nat)
      BY <2>1, IsASeq
    <3> QED BY <2>1, <3>1
  <2>3. Message("assistant", [i \in DOMAIN batch |-> i], NoId, whome) \in LogMessages
    BY <2>2, MessageType DEF LogMessages, Roles, NoId, TypeOK
  <2>4. history' \in Seq(LogMessages)
    BY <1>3, <2>3, AppendProperties DEF AskTools, Write, TypeOK
  <2>5. /\ wpc' = "exec" /\ wcalls' = batch /\ windex' = 1 /\ wskills' = {}
        /\ UNCHANGED <<wround, wspoke, client, skillVars, queue, answer>>
    BY <1>3 DEF AskTools
  <2> QED BY <1>0, <1>u, <2>1, <2>4, <2>5 DEF TypeOK
<1>4. ASSUME NEW succeeded \in BOOLEAN, ExecuteTool(succeeded) PROVE TypeOK'
  <2>1. /\ windex' = windex + 1
        /\ UNCHANGED <<wpc, wround, wspoke, wcalls, history, client, skillLoaded,
                       queue, answer>>
    BY <1>4 DEF ExecuteTool
  <2>2. wskills' \subseteq Nat /\ skillRun' \in Nat /\ skillRound' \in Nat
    BY <1>0, <1>4 DEF ExecuteTool, LoadSkill, TypeOK
  <2> HIDE <1>4
  <2> QED BY <1>0, <1>u, <2>1, <2>2 DEF TypeOK
<1>5. CASE AskApproval
  <2>1. queue' \in Seq(Closures)
    BY <1>5, PostType DEF AskApproval, ClosureOps
  <2> QED BY <1>0, <1>u, <1>5, <2>1 DEF AskApproval, TypeOK
<1>6. CASE TakeAnswer
  BY <1>0, <1>u, <1>6 DEF TakeAnswer, TypeOK
<1>7. CASE BatchDone
  BY <1>0, <1>u, <1>7 DEF BatchDone, TypeOK
<1>8. CASE RecordResult
  <2>1. queue' \in Seq(Closures)
    BY <1>8, PostType DEF RecordResult, ClosureOps
  <2>2. skillLoaded' \in BOOLEAN
    BY <1>8 DEF RecordResult, MarkSkill, TypeOK
  <2>3. << >> \in Seq(Nat)
    OBVIOUS
  <2>4. Message("tool", << >>, windex, whome) \in LogMessages
    BY <2>3, MessageType DEF LogMessages, Roles, TypeOK
  <2>5. history' \in Seq(LogMessages)
    BY <1>8, <2>4, AppendProperties DEF RecordResult, Write, TypeOK
  <2>6. /\ windex' = windex + 1
        /\ UNCHANGED <<wpc, wround, wspoke, wcalls, wskills, client, skillRun,
                       skillRound, answer>>
    BY <1>8 DEF RecordResult
  <2> QED BY <1>0, <1>u, <2>1, <2>2, <2>5, <2>6 DEF TypeOK
<1>9. CASE NextRound
  <2>1. /\ wpc' = "stream" /\ wround' = wround + 1 /\ wspoke' = FALSE
        /\ UNCHANGED <<batchVars, history, client, skillVars, queue, answer>>
    BY <1>9 DEF NextRound
  <2>2. wround' \in Nat
    BY <2>1 DEF TypeOK
  <2> HIDE <1>9
  <2>3. wspoke' \in BOOLEAN /\ wpc' \in WorkerPcs
    BY <2>1
  <2> QED BY <1>0, <1>u, <2>1, <2>2, <2>3 DEF TypeOK
<1>10. CASE Finish
  <2>1. queue' \in Seq(Closures)
    BY <1>10, PostType DEF Finish, ClosureOps
  <2>2. Message("assistant", << >>, NoId, whome) \in LogMessages
    BY PlainType DEF Roles, TypeOK
  <2>3. history' \in Seq(LogMessages)
    <3> DEFINE m == Message("assistant", << >>, NoId, whome)
    <3>1. history' = Append(history, m) \/ history' = history
      BY <1>10 DEF Finish, Write
    <3> HIDE DEF m
    <3>2. history \in Seq(LogMessages)
      BY DEF TypeOK
    <3>3. Append(history, m) \in Seq(LogMessages)
      BY <2>2, <3>2, AppendProperties DEF m
    <3> QED BY <3>1, <3>2, <3>3
  <2>4. /\ wpc' = "exited"
        /\ UNCHANGED <<wround, wspoke, batchVars, client, skillVars, answer>>
    BY <1>10 DEF Finish
  <2> HIDE <1>10
  <2>5. wpc' \in WorkerPcs
    BY <2>4
  <2> QED BY <1>0, <1>u, <2>1, <2>3, <2>4, <2>5 DEF TypeOK
<1>11. CASE ProviderFails
  BY <1>0, <1>u, <1>11 DEF ProviderFails, TypeOK
<1>12. CASE ReportError
  <2>1. queue' \in Seq(Closures)
    BY <1>12, PostType DEF ReportError, ClosureOps
  <2> QED BY <1>0, <1>u, <1>12, <2>1 DEF ReportError, TypeOK
<1>13. CASE CatchError
  <2>1. queue' \in Seq(Closures)
    BY <1>13, PostType DEF CatchError, ClosureOps
  <2> QED BY <1>0, <1>u, <1>13, <2>1 DEF CatchError, TypeOK
<1>14. ASSUME NEW ok \in BOOLEAN, Summarize(ok) PROVE TypeOK'
  <2>1. queue' \in Seq(Closures)
    BY <1>14, ClosureType DEF Summarize, ClosureOps
  <2> QED BY <1>0, <1>u, <1>14, <2>1 DEF Summarize, TypeOK
<1> QED
  BY <1>1, <1>2, <1>3, <1>4, <1>5, <1>6, <1>7, <1>8, <1>9, <1>10, <1>11, <1>12,
     <1>13, <1>14 DEF Worker, WorkerStep

-----------------------------------------------------------------------------
(* The closures on the UI thread                                           *)

LEMMA DeliveredType ==
  ASSUME TypeOK, queue # << >>
  PROVE  Head(queue) \in Closures /\ Tail(queue) \in Seq(Closures)
BY HeadTailProperties DEF TypeOK

LEMMA PersistType ==
  ASSUME TypeOK, Persist
  PROVE  files' \in [Sessions -> Seq(LogMessages)]
BY DEF Persist, TypeOK

LEMMA DeliverTypeOK == TypeOK /\ Deliver => TypeOK'
<1> SUFFICES ASSUME TypeOK, Deliver PROVE TypeOK'
  OBVIOUS
<1> USE ParameterAssumption
<1> USE DEF viewVars, workerVars, progressVars, jobVars, batchVars, configVars,
            clientVars, skillVars
<1>0. UNCHANGED <<workerVars, current, live, fresh, stopFlag, configVars,
                  skillVars, sent, answer, untimely>>
  BY DEF Deliver
<1>a. Head(queue) \in Closures /\ queue' \in Seq(Closures)
  BY DeliveredType DEF Deliver, DeliverStep, Delivers, DeliverDelta, DeliverTool,
     DeliverApprove, DeliverSuccess, DeliverError, DeliverNoSummary, DeliverSummary
<1>1. CASE DeliverDelta
  <2>1. streamText' \subseteq Nat /\ lastRow' \in {"none", "row", "stream"}
    BY <1>1, <1>a DEF DeliverDelta, UnlessStopped, ReplaceLast, Closures, TypeOK
  <2>2. UNCHANGED <<streamRow, uiPc, running, compacting, busy, prefix, history,
                    files, settled>>
    BY <1>1 DEF DeliverDelta, UnlessStopped
  <2> QED BY <1>0, <1>a, <2>1, <2>2 DEF TypeOK
<1>2. CASE DeliverTool
  <2>1. /\ streamText' \subseteq Nat /\ lastRow' \in {"none", "row", "stream"}
        /\ streamRow' \in BOOLEAN
    BY <1>2 DEF DeliverTool, UnlessStopped, TypeOK
  <2>2. UNCHANGED <<uiPc, running, compacting, busy, prefix, history, files, settled>>
    BY <1>2 DEF DeliverTool
  <2> QED BY <1>0, <1>a, <2>1, <2>2 DEF TypeOK
<1>3. CASE DeliverApprove
  BY <1>0, <1>a, <1>3 DEF DeliverApprove, TypeOK, UiPcs
<1>4. CASE DeliverSuccess
  <2>1. /\ streamText' \subseteq Nat /\ lastRow' \in {"none", "row", "stream"}
        /\ streamRow' = FALSE /\ running' = FALSE /\ settled' \in Nat
        /\ UNCHANGED <<compacting, history>>
    BY <1>4 DEF DeliverSuccess, ReplaceLast, TypeOK
  <2>2. files' \in [Sessions -> Seq(LogMessages)]
    BY <1>4, PersistType DEF DeliverSuccess
  <2>3. uiPc' \in UiPcs /\ busy' \in BOOLEAN
    BY <1>4 DEF DeliverSuccess, UiPcs, Joins, TypeOK
  <2>4. prefix' \in Seq(LogMessages)
    <3>1. CASE Len(history) >= Threshold /\ Cut(history, KeepTail) > 1
      <4>1. history \in Seq(LogMessages) /\ Len(history) \in Nat
        BY DEF TypeOK
      <4>2. Len(history) >= KeepTail
        BY <3>1, <4>1
      <4>3. Cut(history, KeepTail) \in 0..Len(history)
        BY <4>1, <4>2, CutBounds
      <4>4. CutOff \in Seq(LogMessages)
        BY <4>1, <4>3, SubSeqProperties DEF CutOff
      <4>5. prefix' = CutOff
        BY <1>4, <3>1 DEF DeliverSuccess
      <4> QED BY <4>4, <4>5
    <3>2. CASE ~(Len(history) >= Threshold /\ Cut(history, KeepTail) > 1)
      <4>1. prefix' = prefix
        BY <1>4, <3>2 DEF DeliverSuccess
      <4> QED BY <4>1 DEF TypeOK
    <3> QED BY <3>1, <3>2
  <2> QED BY <1>0, <1>a, <2>1, <2>2, <2>3, <2>4 DEF TypeOK
<1>5. CASE DeliverError
  <2>1. /\ streamText' \subseteq Nat /\ lastRow' \in {"none", "row", "stream"}
        /\ streamRow' = FALSE /\ running' = FALSE /\ busy' = FALSE
        /\ settled' \in Nat
        /\ UNCHANGED <<uiPc, compacting, prefix, history>>
    BY <1>5 DEF DeliverError, ReplaceLast, TypeOK
  <2>2. files' \in [Sessions -> Seq(LogMessages)]
    BY <1>5, PersistType DEF DeliverError
  <2> QED BY <1>0, <1>a, <2>1, <2>2 DEF TypeOK
<1>6. CASE DeliverNoSummary
  <2>1. UNCHANGED <<uiPc, running, prefix, streamRow, lastRow, streamText,
                    history, files, settled>>
    BY <1>6 DEF DeliverNoSummary
  <2>2. compacting' \in BOOLEAN /\ busy' \in BOOLEAN
    BY <1>6 DEF DeliverNoSummary
  <2> QED BY <1>0, <1>a, <2>1, <2>2 DEF TypeOK
<1>7. CASE DeliverSummary
  <2>1. /\ compacting' \in BOOLEAN /\ busy' \in BOOLEAN
        /\ UNCHANGED <<running, prefix, settled>>
    BY <1>7 DEF DeliverSummary
  <2>2. CASE history = << >>
    <3>1. UNCHANGED <<streamRow, lastRow, streamText, history, files>>
      BY <1>7, <2>2 DEF DeliverSummary
    <3>2. uiPc' \in UiPcs
      BY <1>7, <2>2 DEF DeliverSummary, UiPcs
    <3> QED BY <1>0, <1>a, <2>1, <3>1, <3>2 DEF TypeOK
  <2>3. CASE history # << >>
    <3> DEFINE note == Message("system", << >>, NoId, Head(queue).home)
               log  == Compacted(history, Len(Head(queue).prefix), note)
    <3>1. /\ history' = log /\ files' = [files EXCEPT ![current] = log]
          /\ Reload(log) /\ UNCHANGED uiPc
      BY <1>7, <2>3 DEF DeliverSummary
    <3>2. Head(queue).home \in Sessions /\ Len(Head(queue).prefix) \in Nat
      BY <1>a DEF Closures
    <3>3. note \in LogMessages
      BY <3>2, PlainType DEF Roles
    <3>4. log \in Seq(LogMessages)
      <4> HIDE DEF note
      <4> QED BY <2>3, <3>2, <3>3, CompactedType DEF TypeOK
    <3> HIDE DEF log
    <3>5. /\ lastRow' \in {"none", "row", "stream"} /\ streamText' = {}
          /\ UNCHANGED streamRow
      BY <3>1 DEF Reload
    <3>6. files' \in [Sessions -> Seq(LogMessages)]
      BY <3>1, <3>4 DEF TypeOK
    <3> QED BY <1>0, <1>a, <2>1, <3>1, <3>4, <3>5, <3>6 DEF TypeOK
  <2> QED BY <2>2, <2>3
<1> QED
  BY <1>1, <1>2, <1>3, <1>4, <1>5, <1>6, <1>7 DEF Deliver, DeliverStep

-----------------------------------------------------------------------------
(* The UI thread after a join or a dialog, and the user's operations       *)

LEMMA ResumeTypeOK == TypeOK /\ Resume => TypeOK'
<1> SUFFICES ASSUME TypeOK, Resume PROVE TypeOK'
  OBVIOUS
<1> USE DEF flagVars, viewVars, workerVars, progressVars, jobVars, batchVars,
            storeVars, sessionVars, configVars, clientVars, skillVars, countVars
<1>u. untimely' = untimely
  BY DEF Resume
<1>1. CASE StartRun
  <2>1. Message("system", << >>, NoId, current) \in LogMessages
    BY PlainType DEF Roles, TypeOK
  <2>2. Message("user", << >>, NoId, current) \in LogMessages
    BY PlainType DEF Roles, TypeOK
  <2>3. WithSystem(history) \in Seq(LogMessages)
    <3> DEFINE m == Message("system", << >>, NoId, current)
    <3>1. history \in Seq(LogMessages) /\ <<m>> \in Seq(LogMessages)
      BY <2>1 DEF TypeOK
    <3>2. WithSystem(history) \in {history, <<m>> \o history}
      BY DEF WithSystem
    <3> HIDE DEF m
    <3>3. <<m>> \o history \in Seq(LogMessages)
      BY <3>1, ConcatProperties
    <3> QED BY <3>1, <3>2, <3>3
  <2>4. history' \in Seq(LogMessages)
    <3> DEFINE m == Message("user", << >>, NoId, current)
               log == WithSystem(history)
    <3>1. history' = Append(log, m)
      BY <1>1 DEF StartRun
    <3> HIDE DEF m, log
    <3> QED BY <2>2, <2>3, <3>1, AppendProperties DEF m, log
  <2>5. /\ dirty' = FALSE /\ running' = TRUE /\ busy' = TRUE
        /\ skillLoaded' = FALSE /\ streamRow' = TRUE /\ wspoke' = FALSE
        /\ stopFlag' = (uiPc = "clickSend")
        /\ UNCHANGED <<compacting, fullAccess>>
    BY <1>1 DEF StartRun
  <2>6. /\ client' \in Nat /\ needed' \in Nat /\ sent' \in Nat /\ wround' \in Nat
    BY <1>1 DEF StartRun, ClientAtSend, TypeOK
  <2>7. uiPc' \in UiPcs /\ wpc' \in WorkerPcs
    BY <1>1 DEF StartRun, UiPcs, Joins, WorkerPcs, EnginePcs
  <2>8. /\ lastRow' = "stream" /\ streamText' = {}
        /\ whome' = current /\ wprefix' = << >>
        /\ UNCHANGED <<prefix, batchVars, sessionVars, epoch, skillRun, skillRound,
                       settled, queue, answer>>
    BY <1>1 DEF StartRun
  <2>9. /\ stopFlag' \in BOOLEAN /\ wprefix' \in Seq(LogMessages)
    BY <2>5, <2>8
  <2> HIDE <1>1
  <2> QED BY <1>u, <2>4, <2>5, <2>6, <2>7, <2>8, <2>9 DEF TypeOK
<1>2. CASE EndStop
  BY <1>u, <1>2 DEF EndStop, TypeOK, UiPcs, WorkerPcs
<1>3. CASE EndQuit
  <2>1. files' \in [Sessions -> Seq(LogMessages)]
    BY <1>3, PersistType DEF EndQuit
  <2> QED BY <1>u, <1>3, <2>1 DEF EndQuit, TypeOK, UiPcs, WorkerPcs
<1>4. CASE StartCompaction
  BY <1>u, <1>4 DEF StartCompaction, TypeOK, UiPcs, WorkerPcs
<1>5. ASSUME NEW yes \in BOOLEAN, AnswerPrompt(yes) PROVE TypeOK'
  BY <1>u, <1>5 DEF AnswerPrompt, Verdict, TypeOK, UiPcs
<1> QED BY <1>1, <1>2, <1>3, <1>4, <1>5 DEF Resume

\* A reload shows a row or none, whatever the log.
LEMMA ReloadType ==
  ASSUME TypeOK, NEW log, Reload(log)
  PROVE  /\ lastRow' \in {"none", "row", "stream"}
         /\ streamText' \subseteq Nat /\ streamRow' \in BOOLEAN
BY DEF Reload, TypeOK

\* What every operation of the user leaves alone.
LEMMA UserKeeps ==
  UserStep => UNCHANGED <<workerVars, client, needed, running, compacting, busy,
                          prefix, skillVars, countVars, queue, answer>>
BY DEF UserStep, UserOp, PressEnter, ClickSend, ClickStop, Quit, SaveSettings,
   NewSession, SwitchSession, DeleteOther, DeleteCurrent, SetWorkspace

LEMMA UserTypeOK == TypeOK /\ UserStep => TypeOK'
<1> SUFFICES ASSUME TypeOK, UserStep PROVE TypeOK'
  OBVIOUS
<1> USE DEF viewVars, workerVars, progressVars, jobVars, batchVars, storeVars,
            sessionVars, skillVars, countVars
<1>0. UNCHANGED <<workerVars, client, needed, running, compacting, busy, prefix,
                  skillVars, countVars, queue, answer>>
  BY UserKeeps
<1>u. untimely' \subseteq UntimelyEvents
  BY DEF UserStep, UserOp, PressEnter, ClickSend, ClickStop, Quit, SaveSettings,
     NewSession, SwitchSession, DeleteOther, DeleteCurrent, SetWorkspace, Roam,
     Untimely, UntimelyEvents, TypeOK
<1>1. CASE PressEnter
  BY <1>0, <1>u, <1>1 DEF PressEnter, TypeOK, UiPcs, Joins
<1>2. CASE ClickSend
  BY <1>0, <1>u, <1>2 DEF ClickSend, TypeOK, UiPcs, Joins
<1>3. CASE ClickStop
  BY <1>0, <1>u, <1>3 DEF ClickStop, TypeOK, UiPcs, Joins
<1>4. CASE Quit
  BY <1>0, <1>u, <1>4 DEF Quit, TypeOK, UiPcs, Joins
<1>5. CASE SaveSettings
  <2>1. epoch' \in Nat \ {0}
    BY <1>5 DEF SaveSettings, TypeOK
  <2>2. /\ dirty' = TRUE
        /\ UNCHANGED <<uiPc, stopFlag, viewVars, storeVars, fullAccess>>
    BY <1>5 DEF SaveSettings
  <2> HIDE <1>5
  <2> QED BY <1>0, <1>u, <2>1, <2>2 DEF TypeOK
<1>6. ASSUME NEW s \in Sessions, NewSession(s) PROVE TypeOK'
  <2>1. /\ lastRow' \in {"none", "row", "stream"}
        /\ streamText' \subseteq Nat /\ streamRow' \in BOOLEAN
    BY <1>6, ReloadType DEF NewSession
  <2>2. files' \in [Sessions -> Seq(LogMessages)] /\ history' \in Seq(LogMessages)
    BY <1>6 DEF NewSession, TypeOK
  <2>3. current' \in Sessions /\ live' \subseteq Sessions /\ fresh' \subseteq Sessions
    BY <1>6 DEF NewSession, TypeOK
  <2>4. UNCHANGED <<uiPc, stopFlag, dirty, epoch, fullAccess>>
    BY <1>6 DEF NewSession
  <2> QED BY <1>0, <1>u, <2>1, <2>2, <2>3, <2>4 DEF TypeOK
<1>7. ASSUME NEW s \in Sessions, SwitchSession(s) PROVE TypeOK'
  <2>1. /\ lastRow' \in {"none", "row", "stream"}
        /\ streamText' \subseteq Nat /\ streamRow' \in BOOLEAN
    BY <1>7, ReloadType DEF SwitchSession
  <2>2. files' \in [Sessions -> Seq(LogMessages)]
    BY <1>7, PersistType DEF SwitchSession
  <2>3. current' \in Sessions /\ history' \in Seq(LogMessages)
    BY <1>7 DEF SwitchSession, TypeOK
  <2>4. UNCHANGED <<uiPc, stopFlag, live, fresh, dirty, epoch, fullAccess>>
    BY <1>7 DEF SwitchSession
  <2> QED BY <1>0, <1>u, <2>1, <2>2, <2>3, <2>4 DEF TypeOK
<1>8. ASSUME NEW s \in Sessions, DeleteOther(s) PROVE TypeOK'
  <2>1. /\ lastRow' \in {"none", "row", "stream"}
        /\ streamText' \subseteq Nat /\ streamRow' \in BOOLEAN
    BY <1>8, ReloadType DEF DeleteOther
  <2>2. files' \in [Sessions -> Seq(LogMessages)] /\ live' \subseteq Sessions
    BY <1>8 DEF DeleteOther, TypeOK
  <2>3. UNCHANGED <<uiPc, stopFlag, history, current, fresh, dirty, epoch,
                    fullAccess>>
    BY <1>8 DEF DeleteOther
  <2> QED BY <1>0, <1>u, <2>1, <2>2, <2>3 DEF TypeOK
<1>9. ASSUME NEW s \in Sessions, DeleteCurrent(s) PROVE TypeOK'
  <2>1. /\ lastRow' \in {"none", "row", "stream"}
        /\ streamText' \subseteq Nat /\ streamRow' \in BOOLEAN
    BY <1>9, ReloadType DEF DeleteCurrent
  <2>2. files' \in [Sessions -> Seq(LogMessages)] /\ history' \in Seq(LogMessages)
    BY <1>9 DEF DeleteCurrent, TypeOK
  <2>3. current' \in Sessions /\ live' \subseteq Sessions /\ fresh' \subseteq Sessions
    BY <1>9 DEF DeleteCurrent, TypeOK
  <2>4. UNCHANGED <<uiPc, stopFlag, dirty, epoch, fullAccess>>
    BY <1>9 DEF DeleteCurrent
  <2> QED BY <1>0, <1>u, <2>1, <2>2, <2>3, <2>4 DEF TypeOK
<1>10. ASSUME NEW full \in BOOLEAN, SetWorkspace(full) PROVE TypeOK'
  BY <1>0, <1>u, <1>10 DEF SetWorkspace, TypeOK
<1> QED
  BY <1>1, <1>2, <1>3, <1>4, <1>5, <1>6, <1>7, <1>8, <1>9, <1>10
     DEF UserStep, UserOp

LEMMA StutterTypeOK == TypeOK /\ UNCHANGED vars => TypeOK'
BY DEF vars, uiVars, flagVars, viewVars, workerVars, progressVars, jobVars,
       batchVars, storeVars, sessionVars, configVars, clientVars, skillVars,
       countVars, TypeOK

\* Type correctness, whatever the sessions, operations, faults and bounds: the
\* model's steps are defined in every state they are taken in.
THEOREM ChatTypeOK == Spec => []TypeOK
<1>1. TypeOK /\ [Next]_vars => TypeOK'
  BY WorkerTypeOK, DeliverTypeOK, ResumeTypeOK, UserTypeOK, StutterTypeOK
     DEF Next, Rest
<1> QED BY InitTypeOK, <1>1, PTL DEF Spec

-----------------------------------------------------------------------------
(* stop_ is never seen                                                     *)

\* stop_ is set only while the UI thread is inside stop or the destructor: it
\* is not set while send or maybe_compact joins either.
StopInside == stopFlag => uiPc \in {"stop", "quit"}

LEMMA StopInsideStep == StopInside /\ [Next]_vars => StopInside'
<1> SUFFICES ASSUME StopInside, [Next]_vars PROVE StopInside'
  OBVIOUS
<1> USE DEF StopInside
<1>1. CASE Worker
  BY <1>1 DEF Worker, uiVars, flagVars
<1>2. CASE Deliver
  <2>1. uiPc = "loop" /\ stopFlag' = stopFlag
    BY <1>2 DEF Deliver, DeliverStep, Delivers, DeliverDelta, DeliverTool,
       DeliverApprove, DeliverSuccess, DeliverError, DeliverNoSummary, DeliverSummary
  <2> QED BY <2>1
<1>3. CASE Resume
  <2>1. CASE StartRun
    BY <2>1 DEF StartRun
  <2>2. CASE EndStop \/ EndQuit
    BY <2>2 DEF EndStop, EndQuit
  <2>3. CASE StartCompaction
    BY <2>3 DEF StartCompaction
  <2>4. ASSUME NEW yes \in BOOLEAN, AnswerPrompt(yes) PROVE StopInside'
    BY <2>4 DEF AnswerPrompt, flagVars
  <2> QED BY <1>3, <2>1, <2>2, <2>3, <2>4 DEF Resume
<1>4. CASE UserStep
  <2>1. uiPc = "loop"
    BY <1>4 DEF UserStep, UserOp, User, PressEnter, ClickSend, ClickStop, Quit,
       SaveSettings, NewSession, SwitchSession, DeleteOther, DeleteCurrent,
       SetWorkspace
  <2>2. stopFlag' = stopFlag \/ uiPc' \in {"stop", "quit"}
    BY <1>4 DEF UserStep, UserOp, PressEnter, ClickSend, ClickStop, Quit,
       SaveSettings, NewSession, SwitchSession, DeleteOther, DeleteCurrent,
       SetWorkspace
  <2> QED BY <2>1, <2>2
<1>5. CASE UNCHANGED vars
  BY <1>5 DEF vars, uiVars, flagVars
<1> QED BY <1>1, <1>2, <1>3, <1>4, <1>5 DEF Next, Rest

\* No closure and no operation of the user ever finds stop_ set: the guards
\* `if (stop_) return;` never hold a closure back.
THEOREM ChatStopUnseen == Spec => []StopUnseen
<1>1. Init => StopInside
  BY DEF Init, StopInside
<1>2. StopInside => StopUnseen
  BY DEF StopInside, StopUnseen
<1> QED BY <1>1, <1>2, StopInsideStep, PTL DEF Spec

-----------------------------------------------------------------------------
(* The settings reach the run                                              *)

\* The client is as new as the last save, unless the save is still marked, and
\* as new as a run needs it from the run's first step on.
SettingsInv ==
  /\ needed <= epoch
  /\ ~dirty => client = 0 \/ client >= epoch
  /\ EngineRuns => client = 0 \/ client >= needed
  /\ SettingsReachRun

LEMMA SettingsStep == TypeOK /\ SettingsInv /\ [Next]_vars => SettingsInv'
<1> SUFFICES ASSUME TypeOK, SettingsInv, [Next]_vars PROVE SettingsInv'
  OBVIOUS
<1>t. /\ needed \in Nat /\ epoch \in Nat \ {0} /\ client \in Nat
      /\ dirty \in BOOLEAN
  BY DEF TypeOK
<1> USE DEF SettingsInv, SettingsReachRun, EngineRuns, EnginePcs
<1>1. CASE Worker
  <2>0. UNCHANGED <<dirty, epoch, needed>>
    BY <1>1 DEF Worker
  <2>1. CASE BeginRun
    BY <1>t, <2>0, <2>1 DEF BeginRun
  <2>2. ASSUME NEW ok \in BOOLEAN, Summarize(ok) PROVE SettingsInv'
    BY <1>t, <2>0, <2>2 DEF Summarize
  <2>3. CASE ~BeginRun /\ ~(\E ok \in BOOLEAN : Summarize(ok))
    <3>1. client' = client /\ (wpc' \in EnginePcs => wpc \in EnginePcs \ {"begin"})
      BY <1>1, <2>3 DEF Worker, WorkerStep, Speak, AskTools, ExecuteTool, AskApproval,
         TakeAnswer, BatchDone, RecordResult, NextRound, Finish, ProviderFails,
         ReportError, CatchError
    <3> QED BY <2>0, <3>1
  <2> QED BY <2>1, <2>2, <2>3
<1>2. CASE Deliver
  BY <1>2 DEF Deliver, configVars, clientVars, workerVars
<1>3. CASE Resume
  <2>1. CASE StartRun
    <3>1. /\ client' = IF dirty THEN 0 ELSE client
          /\ dirty' = FALSE /\ needed' = epoch /\ wpc' = "begin" /\ epoch' = epoch
      BY <2>1 DEF StartRun, ClientAtSend
    <3> QED BY <1>t, <3>1
  <2>2. CASE EndStop \/ EndQuit \/ StartCompaction
    <3>1. wpc' \in {"none", "summarize"} /\ UNCHANGED <<dirty, client, epoch, needed>>
      BY <2>2 DEF EndStop, EndQuit, StartCompaction, configVars, clientVars
    <3> QED BY <3>1
  <2>3. ASSUME NEW yes \in BOOLEAN, AnswerPrompt(yes) PROVE SettingsInv'
    BY <2>3 DEF AnswerPrompt, workerVars, configVars, clientVars
  <2> QED BY <1>3, <2>1, <2>2, <2>3 DEF Resume
<1>4. CASE UserStep
  <2>1. UNCHANGED <<wpc, client, needed>>
    BY <1>4, UserKeeps DEF workerVars
  <2>2. CASE SaveSettings
    <3>1. epoch' = epoch + 1 /\ dirty' = TRUE
      BY <2>2 DEF SaveSettings
    <3> QED BY <1>t, <2>1, <3>1
  <2>3. CASE ~SaveSettings
    <3>1. UNCHANGED <<epoch, dirty>>
      BY <1>4, <2>3 DEF UserStep, UserOp, PressEnter, ClickSend, ClickStop, Quit,
         NewSession, SwitchSession, DeleteOther, DeleteCurrent, SetWorkspace
    <3> QED BY <2>1, <3>1
  <2> QED BY <2>2, <2>3
<1>5. CASE UNCHANGED vars
  BY <1>5 DEF vars, workerVars, configVars, clientVars
<1> QED BY <1>1, <1>2, <1>3, <1>4, <1>5 DEF Next, Rest

\* Every request of a run uses the settings in force when its message was
\* sent, or newer ones, however saves, runs and summaries interleave.
THEOREM ChatSettingsReachRun == Spec => []SettingsReachRun
<1>1. Init => SettingsInv
  BY DEF Init, SettingsInv, SettingsReachRun, EngineRuns, EnginePcs
<1>2. SettingsInv => SettingsReachRun
  BY DEF SettingsInv
<1> QED BY <1>1, <1>2, SettingsStep, ChatTypeOK, PTL DEF Spec

-----------------------------------------------------------------------------
(* The mark of a loaded skill                                              *)

\* A run that loaded a skill is marked, or it loaded it in the batch at hand and
\* has not yet come to report it.
MarkAhead ==
  /\ skillRound = wround
  /\ \/ wpc \in {"exec", "await"} /\ \E k \in wskills : k \in DOMAIN wcalls
     \/ wpc = "record" /\ \E k \in wskills : k \in DOMAIN wcalls /\ windex <= k

SkillInv ==
  /\ skillRun <= sent
  /\ EngineRuns /\ skillRun = sent => skillLoaded \/ MarkAhead

LEMMA SkillStep == TypeOK /\ SkillInv /\ [Next]_vars => SkillInv'
<1> SUFFICES ASSUME TypeOK, SkillInv, [Next]_vars PROVE SkillInv'
  OBVIOUS
<1>t. /\ sent \in Nat /\ skillRun \in Nat /\ windex \in Nat \ {0}
      /\ wskills \subseteq Nat /\ Len(wcalls) \in Nat
      /\ DOMAIN wcalls = 1..Len(wcalls)
  BY DEF TypeOK
<1> USE DEF SkillInv, EngineRuns, EnginePcs
<1>1. CASE Worker
  <2>0. sent' = sent /\ (wpc' \in EnginePcs => wpc \in EnginePcs)
    BY <1>1 DEF Worker, WorkerStep, BeginRun, Speak, AskTools, ExecuteTool, AskApproval,
       TakeAnswer, BatchDone, RecordResult, NextRound, Finish, ProviderFails,
       ReportError, CatchError, Summarize, countVars
  <2>1. ASSUME NEW succeeded \in BOOLEAN, ExecuteTool(succeeded) PROVE SkillInv'
    <3>1. /\ wpc = "exec" /\ windex \in DOMAIN wcalls
          /\ UNCHANGED <<wpc, wround, wcalls, skillLoaded>>
      BY <1>t, <2>1 DEF ExecuteTool
    <3>2. CASE UNCHANGED <<wskills, skillRun, skillRound>>
      BY <2>0, <3>1, <3>2 DEF MarkAhead
    <3>3. CASE LoadSkill
      <4>1. windex \in wskills' /\ skillRun' = sent
        BY <3>3 DEF LoadSkill
      <4>2. skillLoaded \/ skillRound' = wround
        BY <3>1, <3>3 DEF LoadSkill, MarkAhead
      <4>3. skillLoaded' \/ MarkAhead'
        BY <3>1, <4>1, <4>2 DEF MarkAhead
      <4> QED BY <1>t, <2>0, <4>1, <4>3
    <3> QED BY <2>1, <3>2, <3>3 DEF ExecuteTool
  <2>2. CASE AskApproval \/ TakeAnswer
    <3>1. /\ wpc \in {"exec", "await"} /\ wpc' \in {"exec", "await"}
          /\ UNCHANGED <<wround, wcalls, wskills, skillVars>>
      BY <2>2 DEF AskApproval, TakeAnswer, batchVars
    <3> QED BY <2>0, <3>1 DEF MarkAhead, skillVars
  <2>3. CASE BatchDone
    <3>1. /\ wpc = "exec" /\ wpc' = "record" /\ windex' = 1
          /\ UNCHANGED <<wround, wcalls, wskills, skillVars>>
      BY <2>3 DEF BatchDone
    <3>2. ASSUME MarkAhead PROVE MarkAhead'
      <4>1. skillRound = wround
        BY <3>2 DEF MarkAhead
      <4>2. PICK k \in wskills : k \in DOMAIN wcalls
        BY <3>1, <3>2 DEF MarkAhead
      <4>3. 1 <= k
        BY <1>t, <4>2
      <4>4. skillRound' = wround' /\ k \in wskills' /\ k \in DOMAIN wcalls' /\ windex' <= k
        BY <3>1, <4>1, <4>2, <4>3 DEF skillVars
      <4> QED BY <3>1, <4>4 DEF MarkAhead
    <3> QED BY <2>0, <3>1, <3>2 DEF skillVars
  <2>4. CASE RecordResult
    <3>1. /\ wpc = "record" /\ windex' = windex + 1
          /\ skillLoaded' = (skillLoaded \/ windex \in wskills)
          /\ UNCHANGED <<wpc, wround, wcalls, wskills, skillRun, skillRound>>
      BY <2>4 DEF RecordResult, MarkSkill
    <3>2. ASSUME MarkAhead, windex \notin wskills PROVE MarkAhead'
      <4>1. skillRound = wround
        BY <3>2 DEF MarkAhead
      <4>2. PICK k \in wskills : k \in DOMAIN wcalls /\ windex <= k
        BY <3>1, <3>2 DEF MarkAhead
      <4>3. windex + 1 <= k
        BY <1>t, <3>2, <4>2
      <4>4. /\ skillRound' = wround' /\ k \in wskills' /\ k \in DOMAIN wcalls'
            /\ windex' <= k /\ wpc' = "record"
        BY <3>1, <4>1, <4>2, <4>3
      <4> QED BY <4>4 DEF MarkAhead
    <3>3. (skillLoaded \/ windex \in wskills) => skillLoaded'
      BY <3>1
    <3>4. wpc \in EnginePcs /\ UNCHANGED <<skillRun, sent>>
      BY <2>0, <3>1
    <3> HIDE DEF EnginePcs
    <3> QED BY <3>2, <3>3, <3>4
  <2>5. CASE NextRound
    <3>1. /\ wpc = "record" /\ windex > Len(wcalls) /\ UNCHANGED skillVars
      BY <2>5 DEF NextRound
    <3>2. ~MarkAhead
      BY <1>t, <3>1 DEF MarkAhead
    <3> QED BY <2>0, <3>1, <3>2 DEF skillVars
  <2>6. CASE BeginRun \/ Speak \/ (\E batch \in Batches : AskTools(batch))
    <3>1. wpc \in {"begin", "stream"} /\ UNCHANGED skillVars
      BY <2>6 DEF BeginRun, Speak, AskTools
    <3> QED BY <2>0, <3>1 DEF MarkAhead, skillVars
  <2>7. CASE Finish \/ ProviderFails \/ ReportError \/ CatchError
             \/ (\E ok \in BOOLEAN : Summarize(ok))
    <3>1. wpc' \notin EnginePcs /\ UNCHANGED skillVars
      BY <2>7 DEF Finish, ProviderFails, ReportError, CatchError, Summarize
    <3> QED BY <2>0, <3>1 DEF skillVars
  <2> QED
    BY <1>1, <2>1, <2>2, <2>3, <2>4, <2>5, <2>6, <2>7 DEF Worker, WorkerStep
<1>2. CASE Deliver
  BY <1>2 DEF Deliver, MarkAhead, workerVars, progressVars, batchVars, skillVars
<1>3. CASE Resume
  <2>1. CASE StartRun
    <3>1. sent' = sent + 1 /\ skillRun' = skillRun
      BY <2>1 DEF StartRun
    <3> QED BY <1>t, <3>1
  <2>2. CASE EndStop \/ EndQuit \/ StartCompaction
    <3>1. wpc' \in {"none", "summarize"} /\ UNCHANGED <<sent, skillRun>>
      BY <2>2 DEF EndStop, EndQuit, StartCompaction, skillVars, countVars
    <3> QED BY <3>1
  <2>3. ASSUME NEW yes \in BOOLEAN, AnswerPrompt(yes) PROVE SkillInv'
    BY <2>3 DEF AnswerPrompt, MarkAhead, workerVars, progressVars, batchVars,
       skillVars, countVars
  <2> QED BY <1>3, <2>1, <2>2, <2>3 DEF Resume
<1>4. CASE UserStep
  BY <1>4 DEF UserStep, MarkAhead, workerVars, progressVars, batchVars, skillVars,
     countVars
<1>5. CASE UNCHANGED vars
  BY <1>5 DEF vars, MarkAhead, workerVars, progressVars, batchVars, skillVars, countVars
<1> QED BY <1>1, <1>2, <1>3, <1>4, <1>5 DEF Next, Rest

\* A dangerous call runs without a question only under Full Access, and in no
\* round behind the one in which the run loaded a skill.
THEOREM ChatSkillAsks == Spec => SkillAsks
<1>1. Init => SkillInv
  BY DEF Init, SkillInv, EngineRuns, EnginePcs
<1>2. TypeOK /\ SkillInv /\ [Next]_vars =>
        [Unasked => fullAccess /\ ~SkillInEarlierRound]_vars
  <2> SUFFICES ASSUME TypeOK, SkillInv, Next, Unasked
               PROVE  fullAccess /\ ~SkillInEarlierRound
    OBVIOUS
  <2>1. /\ wpc = "exec" /\ wpc' = "exec" /\ windex' # windex
        /\ wcalls[windex] = "danger"
    BY DEF Unasked
  <2>2. CASE Worker
    <3>1. PICK succeeded \in BOOLEAN : ExecuteTool(succeeded)
      BY <2>1, <2>2 DEF Worker, WorkerStep, BeginRun, Speak, AskTools, AskApproval,
         TakeAnswer, BatchDone, RecordResult, NextRound, Finish, ProviderFails,
         ReportError, CatchError, Summarize
    <3>2. fullAccess /\ ~skillLoaded
      BY <2>1, <3>1 DEF ExecuteTool, Waived
    <3>3. skillRun = sent => skillRound = wround
      BY <2>1, <3>2 DEF SkillInv, EngineRuns, EnginePcs, MarkAhead
    <3> QED BY <3>2, <3>3 DEF SkillInEarlierRound, TypeOK
  <2>3. CASE Deliver \/ UserStep \/ Rest
    BY <2>1, <2>3 DEF Deliver, UserStep, Rest, vars, workerVars, progressVars, batchVars
  <2>4. CASE Resume
    BY <2>1, <2>4 DEF Resume, StartRun, EndStop, EndQuit, StartCompaction,
       AnswerPrompt, workerVars, progressVars, batchVars
  <2> QED BY <2>2, <2>3, <2>4 DEF Next
<1> QED BY <1>1, <1>2, SkillStep, ChatTypeOK, PTL DEF Spec, SkillAsks

-----------------------------------------------------------------------------
(* Approvals                                                               *)

\* The parts of OneQuestion: an open dialog, a question on its way, and no
\* stray question.
Waits       == wpc = "await" /\ answer = "pending"
DialogInv   == uiPc = "prompt" => Waits /\ queue = << >>
PendingInv  == Waits /\ uiPc # "prompt" =>
                 queue # << >> /\ queue[Len(queue)].op = "approve"
NoStray     == \A i \in DOMAIN queue : queue[i].op = "approve" => i = Len(queue) /\ Waits

LEMMA QuestionParts == OneQuestion <=> DialogInv /\ PendingInv /\ NoStray
BY DEF OneQuestion, DialogInv, PendingInv, NoStray, Waits

\* A worker that does not wait posts something else than a question.
LEMMA PostOther ==
  ASSUME TypeOK, NoStray, ~Waits, ~Waits', NEW c \in Closures, c.op # "approve",
         queue' = Append(queue, c)
  PROVE  NoStray'
<1>1. queue \in Seq(Closures) /\ Len(queue) \in Nat
  BY DEF TypeOK
<1>2. /\ Len(queue') = Len(queue) + 1 /\ DOMAIN queue' = 1..(Len(queue) + 1)
      /\ queue'[Len(queue) + 1] = c
      /\ \A i \in 1..Len(queue) : queue'[i] = queue[i]
  BY <1>1, AppendProperties
<1>3. \A i \in DOMAIN queue : queue[i].op # "approve"
  BY DEF NoStray
<1>4. DOMAIN queue = 1..Len(queue)
  BY <1>1
<1>5. ASSUME NEW i \in DOMAIN queue' PROVE queue'[i].op # "approve"
  <2>1. i \in 1..Len(queue) \/ i = Len(queue) + 1
    BY <1>1, <1>2
  <2> QED BY <1>2, <1>3, <1>4, <2>1
<1> QED BY <1>5 DEF NoStray

\* Taking a closure off the queue.
LEMMA TakeOff ==
  ASSUME TypeOK, queue # << >>, queue' = Tail(queue)
  PROVE  /\ Len(queue') = Len(queue) - 1 /\ Len(queue) \in Nat \ {0}
         /\ DOMAIN queue' = 1..(Len(queue) - 1)
         /\ \A i \in 1..(Len(queue) - 1) :
              i + 1 \in DOMAIN queue /\ queue'[i] = queue[i + 1]
<1>1. queue \in Seq(Closures) /\ Len(queue) \in Nat /\ DOMAIN queue = 1..Len(queue)
  BY DEF TypeOK
<1>2. Len(queue) # 0
  BY <1>1, EmptySeq
<1>3. /\ Tail(queue) \in Seq(Closures) /\ Len(Tail(queue)) = Len(queue) - 1
      /\ \A i \in 1..Len(Tail(queue)) : Tail(queue)[i] = queue[i + 1]
  BY <1>1, HeadTailProperties
<1> QED BY <1>1, <1>2, <1>3

LEMMA QuestionStep == TypeOK /\ OneQuestion /\ [Next]_vars => OneQuestion'
<1> SUFFICES ASSUME TypeOK, OneQuestion, [Next]_vars
             PROVE  DialogInv' /\ PendingInv' /\ NoStray'
  BY QuestionParts DEF OneQuestion, DialogInv, PendingInv, NoStray, Waits
<1>0. DialogInv /\ PendingInv /\ NoStray
  BY QuestionParts
<1>1. CASE Worker
  <2>0. uiPc' = uiPc
    BY <1>1 DEF Worker, uiVars
  <2>1. CASE AskApproval
    <3>1. wpc' = "await" /\ answer' = "pending" /\ Post("approve") /\ wpc = "exec"
      BY <2>1 DEF AskApproval
    <3>2. queue' \in Seq(Closures)
      BY <3>1, PostType DEF ClosureOps
    <3>3. uiPc # "prompt" /\ \A i \in DOMAIN queue : queue[i].op # "approve"
      BY <1>0, <3>1 DEF DialogInv, NoStray, Waits
    <3>4. /\ Closure("approve", TRUE).op = "approve"
          /\ queue' = Append(queue, Closure("approve", TRUE))
      BY <3>1 DEF Post, Closure
    <3> DEFINE c == Closure("approve", TRUE)
    <3>c. c \in Closures
      BY DEF Closure, Closures, ClosureOps, TypeOK
    <3> HIDE DEF c
    <3>d. c.op = "approve" /\ queue' = Append(queue, c)
      BY <3>4 DEF c
    <3>5. queue \in Seq(Closures) /\ Len(queue) \in Nat /\ DOMAIN queue = 1..Len(queue)
      BY DEF TypeOK
    <3>6. /\ Len(queue') = Len(queue) + 1 /\ DOMAIN queue' = 1..(Len(queue) + 1)
          /\ queue'[Len(queue) + 1] = c
          /\ \A i \in 1..Len(queue) : queue'[i] = queue[i]
      BY <3>d, <3>5, <3>c, AppendProperties
    <3>7. queue' # << >> /\ queue'[Len(queue')].op = "approve"
      <4>1. Len(queue') # 0 /\ queue'[Len(queue')] = c
        BY <3>5, <3>6
      <4> QED BY <3>2, <3>d, <4>1, EmptySeq
    <3>8. \A i \in DOMAIN queue' : queue'[i].op = "approve" => i = Len(queue')
      BY <3>3, <3>5, <3>6
    <3> QED BY <2>0, <3>1, <3>3, <3>7, <3>8 DEF DialogInv, PendingInv, NoStray, Waits
  <2>2. CASE TakeAnswer
    <3>1. answer \in {"yes", "no"} /\ wpc' = "exec" /\ queue' = queue
      BY <2>2 DEF TakeAnswer
    <3> QED BY <1>0, <2>0, <3>1 DEF DialogInv, PendingInv, NoStray, Waits
  <2>3. CASE ~AskApproval /\ ~TakeAnswer
    <3>1. wpc # "await" /\ wpc' # "await"
      BY <1>1, <2>3 DEF Worker, WorkerStep, BeginRun, Speak, AskTools, ExecuteTool,
         BatchDone, RecordResult, NextRound, Finish, ProviderFails, ReportError,
         CatchError, Summarize
    <3>2. \/ queue' = queue
          \/ \E op \in ClosureOps \ {"approve"}, ok \in BOOLEAN :
               queue' = Append(queue, Closure(op, ok))
      BY <1>1, <2>3 DEF Worker, WorkerStep, BeginRun, Speak, AskTools, ExecuteTool,
         BatchDone, RecordResult, NextRound, Finish, ProviderFails, ReportError,
         CatchError, Summarize, Post, ClosureOps
    <3>3. DialogInv' /\ PendingInv'
      BY <1>0, <2>0, <3>1 DEF DialogInv, PendingInv, Waits
    <3>4. CASE queue' = queue
      BY <1>0, <3>1, <3>3, <3>4 DEF NoStray, Waits
    <3>5. ASSUME NEW op \in ClosureOps \ {"approve"}, NEW ok \in BOOLEAN,
                 queue' = Append(queue, Closure(op, ok))
          PROVE  NoStray'
      <4>1. Closure(op, ok) \in Closures /\ Closure(op, ok).op # "approve"
        BY DEF Closure, Closures, TypeOK
      <4> QED BY <1>0, <3>1, <3>5, <4>1, PostOther DEF Waits
    <3> QED BY <3>2, <3>3, <3>4, <3>5
  <2> QED BY <2>1, <2>2, <2>3
<1>2. CASE Deliver
  <2>1. /\ uiPc = "loop" /\ queue # << >> /\ queue' = Tail(queue)
        /\ UNCHANGED <<wpc, answer>>
        /\ Head(queue).op = "approve" <=> uiPc' = "prompt"
    BY <1>2 DEF Deliver, DeliverStep, Delivers, DeliverDelta, DeliverTool,
       DeliverApprove, DeliverSuccess, DeliverError, DeliverNoSummary,
       DeliverSummary, workerVars
  <2>2. /\ Len(queue') = Len(queue) - 1 /\ Len(queue) \in Nat \ {0}
        /\ DOMAIN queue' = 1..(Len(queue) - 1)
        /\ \A i \in 1..(Len(queue) - 1) :
              i + 1 \in DOMAIN queue /\ queue'[i] = queue[i + 1]
    BY <2>1, TakeOff
  <2>3. queue' \in Seq(Closures) /\ Head(queue) = queue[1] /\ 1 \in DOMAIN queue
    BY <2>1, <2>2, DeliveredType, HeadTailProperties DEF TypeOK
  <2>4. Waits' <=> Waits
    BY <2>1 DEF Waits
  <2>5. NoStray'
    BY <1>0, <2>2, <2>4 DEF NoStray
  <2>6. CASE Head(queue).op = "approve"
    <3>1. Len(queue) = 1 /\ Waits
      BY <1>0, <2>3, <2>6 DEF NoStray
    <3>2. queue' = << >>
      BY <2>2, <2>3, <3>1, EmptySeq
    <3> QED BY <2>1, <2>4, <2>5, <2>6, <3>1, <3>2 DEF DialogInv, PendingInv
  <2>7. CASE Head(queue).op # "approve"
    <3>1. DialogInv'
      BY <2>1, <2>7 DEF DialogInv
    <3>2. ASSUME Waits' PROVE queue' # << >> /\ queue'[Len(queue')].op = "approve"
      <4>1. queue[Len(queue)].op = "approve"
        BY <1>0, <2>1, <2>4, <3>2 DEF PendingInv
      <4>2. Len(queue) # 1
        BY <2>3, <2>7, <4>1
      <4>3. Len(queue') \in 1..(Len(queue) - 1) /\ Len(queue') + 1 = Len(queue)
        BY <2>2, <4>2
      <4> QED BY <2>2, <2>3, <4>1, <4>3
    <3> QED BY <2>5, <3>1, <3>2 DEF PendingInv
  <2> QED BY <2>6, <2>7
<1>3. CASE Resume
  <2>1. CASE StartRun \/ EndStop \/ EndQuit \/ StartCompaction
    <3>1. /\ wpc \in {"none", "exited"} /\ wpc' # "await" /\ queue' = queue
          /\ uiPc' # "prompt"
      BY <2>1 DEF StartRun, EndStop, EndQuit, StartCompaction, Joinable
    <3> QED BY <1>0, <3>1 DEF DialogInv, PendingInv, NoStray, Waits
  <2>2. ASSUME NEW yes \in BOOLEAN, AnswerPrompt(yes)
        PROVE  DialogInv' /\ PendingInv' /\ NoStray'
    <3>1. /\ uiPc = "prompt" /\ uiPc' = "loop" /\ answer' # "pending"
          /\ UNCHANGED <<wpc, queue>>
      BY <2>2 DEF AnswerPrompt, Verdict, workerVars
    <3>2. queue = << >>
      BY <1>0, <3>1 DEF DialogInv
    <3> QED BY <3>1, <3>2 DEF DialogInv, PendingInv, NoStray, Waits
  <2> QED BY <1>3, <2>1, <2>2 DEF Resume
<1>4. CASE UserStep
  <2>1. UNCHANGED <<wpc, queue, answer>>
    BY <1>4 DEF UserStep, workerVars
  <2>2. uiPc = "loop" /\ uiPc' # "prompt"
    BY <1>4 DEF UserStep, UserOp, User, PressEnter, ClickSend, ClickStop, Quit,
       SaveSettings, NewSession, SwitchSession, DeleteOther, DeleteCurrent,
       SetWorkspace
  <2> QED BY <1>0, <2>1, <2>2 DEF DialogInv, PendingInv, NoStray, Waits
<1>5. CASE UNCHANGED vars
  BY <1>0, <1>5 DEF vars, uiVars, workerVars, DialogInv, PendingInv, NoStray, Waits
<1> QED BY <1>1, <1>2, <1>3, <1>4, <1>5 DEF Next, Rest

\* An approval is asked for once, is never lost on its way to the dialog, and
\* no dialog outlives the worker that asked.
THEOREM ChatOneQuestion == Spec => []OneQuestion
<1>1. Init => OneQuestion
  BY DEF Init, OneQuestion
<1> QED BY <1>1, QuestionStep, ChatTypeOK, PTL DEF Spec

-----------------------------------------------------------------------------
(* The client and the end of the program                                   *)

\* The engine's client is dropped only by a send that has joined the previous
\* worker: no run and no summary loses it under its feet.
THEOREM ChatClientKept == Spec => ClientKept
<1>1. TypeOK /\ [Next]_vars =>
        [client' = 0 /\ client # 0 => ~EngineRuns /\ wpc # "summarize"]_vars
  <2> SUFFICES ASSUME TypeOK, Next, client' = 0, client # 0
               PROVE  ~EngineRuns /\ wpc # "summarize"
    OBVIOUS
  <2>1. client' # client
    OBVIOUS
  <2>2. CASE Worker
    <3>1. client' \in {client, epoch} \/ client' = client
      BY <2>2 DEF Worker, WorkerStep, BeginRun, Speak, AskTools, ExecuteTool,
         AskApproval, TakeAnswer, BatchDone, RecordResult, NextRound, Finish,
         ProviderFails, ReportError, CatchError, Summarize
    <3> QED BY <2>1, <3>1 DEF TypeOK
  <2>3. CASE StartRun
    BY <2>3 DEF StartRun, Joinable, EngineRuns, EnginePcs
  <2>4. CASE Deliver \/ UserStep \/ Rest
    BY <2>1, <2>4, UserKeeps DEF Deliver, Rest, vars, configVars, clientVars
  <2>5. CASE Resume /\ ~StartRun
    BY <2>1, <2>5 DEF Resume, EndStop, EndQuit, StartCompaction, AnswerPrompt,
       configVars, clientVars
  <2> QED BY <2>2, <2>3, <2>4, <2>5 DEF Next
<1> QED BY <1>1, ChatTypeOK, PTL DEF Spec, ClientKept

\* Whatever was going on when the window was closed, the program ends with no
\* worker and with the whole log in its session's file.
LEMMA AlwaysQuitPersists == Spec => []QuitPersists
<1>1. Init => QuitPersists
  BY DEF Init, QuitPersists
<1>2. TypeOK /\ QuitPersists /\ [Next]_vars => QuitPersists'
  <2> SUFFICES ASSUME TypeOK, QuitPersists, [Next]_vars, uiPc' = "gone"
               PROVE  wpc' = "none" /\ files'[current'] = history'
    BY DEF QuitPersists
  <2>1. CASE EndQuit
    BY <2>1 DEF EndQuit, Persist, TypeOK
  <2>2. CASE Worker
    <3>1. uiPc = "gone"
      BY <2>2 DEF Worker, uiVars
    <3>2. wpc = "none"
      BY <3>1 DEF QuitPersists
    <3>3. wpc # "none"
      BY <2>2 DEF Worker, WorkerStep, BeginRun, Speak, AskTools, ExecuteTool,
         AskApproval, TakeAnswer, BatchDone, RecordResult, NextRound, Finish,
         ProviderFails, ReportError, CatchError, Summarize
    <3> QED BY <3>2, <3>3
  <2>3. CASE Deliver
    BY <2>3 DEF Deliver, DeliverStep, Delivers, DeliverDelta, DeliverTool,
       DeliverApprove, DeliverSuccess, DeliverError, DeliverNoSummary, DeliverSummary
  <2>4. CASE Resume /\ ~EndQuit
    BY <2>4 DEF Resume, StartRun, EndStop, StartCompaction, AnswerPrompt
  <2>5. CASE UserStep
    BY <2>5 DEF UserStep, UserOp, User, PressEnter, ClickSend, ClickStop, Quit,
       SaveSettings, NewSession, SwitchSession, DeleteOther, DeleteCurrent,
       SetWorkspace
  <2>6. CASE UNCHANGED vars
    BY <2>6 DEF vars, uiVars, workerVars, storeVars, sessionVars, QuitPersists
  <2> QED BY <2>1, <2>2, <2>3, <2>4, <2>5, <2>6 DEF Next, Rest
<1> QED BY <1>1, <1>2, ChatTypeOK, PTL DEF Spec

-----------------------------------------------------------------------------
(* The log and its file                                                    *)

\* The current session has a file, and an id is handed out once.
PlaceInv == current \in live /\ live \cap fresh = {}

\* The closures a run ends with.
Ends == {"success", "error"}

Unsettled == \E i \in DOMAIN queue : queue[i].op \in Ends

SavedInv == files[current] # history => EngineRuns \/ wpc = "throwing" \/ Unsettled

\* A closure behind the others ends a run, or leaves the ends there are.
LEMMA UnsettledPost ==
  ASSUME TypeOK, NEW c \in Closures, queue' = Append(queue, c), c.op \in Ends \/ Unsettled
  PROVE  Unsettled'
<1>1. queue \in Seq(Closures) /\ Len(queue) \in Nat /\ DOMAIN queue = 1..Len(queue)
  BY DEF TypeOK
<1>2. /\ DOMAIN queue' = 1..(Len(queue) + 1)
      /\ queue'[Len(queue) + 1] = c
      /\ \A i \in 1..Len(queue) : queue'[i] = queue[i]
  BY <1>1, AppendProperties
<1>3. CASE c.op \in Ends
  BY <1>1, <1>2, <1>3 DEF Unsettled
<1>4. CASE Unsettled
  BY <1>1, <1>2, <1>4 DEF Unsettled
<1> QED BY <1>3, <1>4

\* Taking another closure off the queue leaves the ends there are.
LEMMA UnsettledTake ==
  ASSUME TypeOK, queue # << >>, queue' = Tail(queue), queue[1].op \notin Ends, Unsettled
  PROVE  Unsettled'
<1>1. /\ Len(queue) \in Nat \ {0} /\ DOMAIN queue' = 1..(Len(queue) - 1)
      /\ \A i \in 1..(Len(queue) - 1) : queue'[i] = queue[i + 1]
  BY TakeOff
<1>2. PICK i \in DOMAIN queue : queue[i].op \in Ends
  BY DEF Unsettled
<1>3. DOMAIN queue = 1..Len(queue)
  BY DEF TypeOK
<1>4. i - 1 \in 1..(Len(queue) - 1) /\ (i - 1) + 1 = i
  BY <1>1, <1>2, <1>3
<1>5. queue'[i - 1].op \in Ends /\ i - 1 \in DOMAIN queue'
  BY <1>1, <1>2, <1>4
<1> QED BY <1>5 DEF Unsettled

\* What the worker leaves alone.
LEMMA WorkerKeeps ==
  Worker => /\ UNCHANGED <<uiPc, stopFlag, busy, running, compacting, prefix, streamRow,
                           lastRow, streamText, sent, settled, whome, wprefix, current,
                           files, live, fresh, fullAccess>>
            /\ wpc \notin {"none", "exited"}
BY DEF Worker, WorkerStep, BeginRun, Speak, AskTools, ExecuteTool, AskApproval,
   TakeAnswer, BatchDone, RecordResult, NextRound, Finish, ProviderFails, ReportError,
   CatchError, Summarize, uiVars, flagVars, viewVars, countVars, jobVars, sessionVars,
   EnginePcs

\* Where the worker goes, and what it posts on the way.
LEMMA WorkerMoves ==
  ASSUME Worker
  PROVE  \/ /\ wpc \in EnginePcs /\ wpc' \in EnginePcs \cup {"throwing"}
            /\ \/ queue' = queue
               \/ \E op \in {"delta", "tool", "approve"} : Post(op)
         \/ ReportError /\ wpc \in EnginePcs /\ wpc' = "throwing" /\ Post("error")
         \/ wpc \in EnginePcs /\ wpc' = "exited" /\ Post("success")
         \/ /\ wpc = "throwing" /\ wpc' = "exited" /\ Post("error")
            /\ history' = history
         \/ /\ wpc = "summarize" /\ wpc' = "exited" /\ history' = history
            /\ \E ok \in BOOLEAN : queue' = Append(queue, Closure("compacted", ok))
<1> USE DEF EnginePcs
<1>1. CASE BeginRun \/ (\E batch \in Batches : AskTools(batch))
           \/ (\E succeeded \in BOOLEAN : ExecuteTool(succeeded)) \/ TakeAnswer
           \/ BatchDone \/ NextRound \/ ProviderFails
  <2>1. queue' = queue /\ wpc \in EnginePcs /\ wpc' \in EnginePcs \cup {"throwing"}
    BY <1>1 DEF BeginRun, AskTools, ExecuteTool, TakeAnswer, BatchDone, NextRound,
       ProviderFails
  <2> QED BY <2>1
<1>2. CASE Speak \/ AskApproval \/ RecordResult
  BY <1>2 DEF Speak, AskApproval, RecordResult
<1>3. CASE Finish
  BY <1>3 DEF Finish
<1>4. CASE CatchError
  BY <1>4 DEF CatchError
<1>5. CASE ReportError
  BY <1>5 DEF ReportError
<1>6. CASE \E ok \in BOOLEAN : Summarize(ok)
  BY <1>6 DEF Summarize
<1> QED BY <1>1, <1>2, <1>3, <1>4, <1>5, <1>6 DEF Worker, WorkerStep

\* What a closure finds and leaves alone.
LEMMA DeliverKeeps ==
  ASSUME TypeOK, Deliver
  PROVE  /\ uiPc = "loop" /\ queue # << >> /\ queue' = Tail(queue)
         /\ Head(queue) = queue[1] /\ 1 \in DOMAIN queue /\ queue[1] \in Closures
         /\ UNCHANGED <<stopFlag, wpc, whome, wprefix, current, live, fresh, fullAccess,
                        sent, untimely>>
<1>1. /\ uiPc = "loop" /\ queue # << >> /\ queue' = Tail(queue)
      /\ UNCHANGED <<stopFlag, wpc, whome, wprefix, current, live, fresh, fullAccess,
                     sent, untimely>>
  BY DEF Deliver, DeliverStep, Delivers, DeliverDelta, DeliverTool, DeliverApprove,
     DeliverSuccess, DeliverError, DeliverNoSummary, DeliverSummary, workerVars,
     progressVars, jobVars, configVars
<1>2. queue \in Seq(Closures) /\ Len(queue) \in Nat \ {0}
  BY <1>1, TakeOff DEF TypeOK
<1>3. Head(queue) = queue[1] /\ 1 \in DOMAIN queue /\ queue[1] \in Closures
  BY <1>1, <1>2, HeadTailProperties
<1> QED BY <1>1, <1>3

\* What a join or an answer leaves alone, and what it waits for.
LEMMA ResumeKeeps ==
  ASSUME Resume
  PROVE  /\ UNCHANGED <<current, live, fresh, fullAccess, settled, queue, untimely>>
         /\ StartRun \/ UNCHANGED <<history, sent>>
         /\ (\E yes \in BOOLEAN : AnswerPrompt(yes)) \/ Joinable
<1> USE DEF storeVars, sessionVars, countVars, configVars
<1>1. UNCHANGED untimely
  BY DEF Resume
<1>2. CASE StartRun
  BY <1>1, <1>2 DEF StartRun
<1>3. CASE EndStop
  BY <1>1, <1>3 DEF EndStop
<1>4. CASE EndQuit
  BY <1>1, <1>4 DEF EndQuit
<1>5. CASE StartCompaction
  BY <1>1, <1>5 DEF StartCompaction
<1>6. ASSUME NEW yes \in BOOLEAN, AnswerPrompt(yes)
      PROVE  UNCHANGED <<storeVars, countVars, configVars, queue>>
  BY <1>6 DEF AnswerPrompt
<1> QED BY <1>1, <1>2, <1>3, <1>4, <1>5, <1>6 DEF Resume

LEMMA SavedStep ==
  ASSUME TypeOK, PlaceInv, SavedInv, [Next]_vars PROVE PlaceInv' /\ SavedInv'
<1>f. files \in [Sessions -> Seq(LogMessages)] /\ current \in Sessions
  BY DEF TypeOK
<1>1. CASE Worker
  <2>0. UNCHANGED <<files, current, live, fresh>>
    BY <1>1, WorkerKeeps
  <2>1. CASE wpc' \in EnginePcs \cup {"throwing"}
    BY <2>0, <2>1 DEF PlaceInv, SavedInv, EngineRuns
  <2>2. ASSUME NEW op \in Ends, Post(op) PROVE Unsettled'
    <3>1. Closure(op, TRUE) \in Closures /\ Closure(op, TRUE).op = op
      BY DEF Closure, Closures, ClosureOps, Ends, TypeOK
    <3> QED BY <2>2, <3>1, UnsettledPost DEF Post
  <2>3. ASSUME wpc = "summarize", history' = history, NEW ok \in BOOLEAN,
               queue' = Append(queue, Closure("compacted", ok)), Unsettled
        PROVE  Unsettled'
    <3>1. Closure("compacted", ok) \in Closures
      BY DEF Closure, Closures, ClosureOps, TypeOK
    <3> QED BY <2>3, <3>1, UnsettledPost
  <2>4. CASE wpc' = "exited"
    <3>1. \/ \E op \in Ends : Post(op)
          \/ /\ wpc = "summarize" /\ history' = history
             /\ \E ok \in BOOLEAN : queue' = Append(queue, Closure("compacted", ok))
      BY <1>1, <2>4, WorkerMoves DEF EnginePcs, Ends
    <3>2. SavedInv'
      BY <2>0, <2>2, <2>3, <3>1 DEF SavedInv, EngineRuns, EnginePcs
    <3> QED BY <2>0, <3>2 DEF PlaceInv
  <2> QED BY <1>1, <2>1, <2>4, WorkerMoves
<1>2. CASE Deliver
  <2>0. /\ queue # << >> /\ queue' = Tail(queue) /\ Head(queue) = queue[1]
        /\ UNCHANGED <<wpc, current, live, fresh>>
    BY <1>2, DeliverKeeps
  <2>1. CASE queue[1].op \notin Ends /\ UNCHANGED <<history, files>>
    BY <2>0, <2>1, UnsettledTake DEF PlaceInv, SavedInv, EngineRuns
  <2>2. CASE files'[current] = history'
    BY <2>0, <2>2 DEF PlaceInv, SavedInv
  <2>3. CASE DeliverDelta \/ DeliverTool \/ DeliverApprove \/ DeliverNoSummary
    <3>1. queue[1].op \notin Ends /\ UNCHANGED <<history, files>>
      BY <2>0, <2>3 DEF DeliverDelta, DeliverTool, DeliverApprove, DeliverNoSummary,
         Delivers, Ends
    <3> QED BY <2>1, <3>1
  <2>4. CASE DeliverSuccess \/ DeliverError
    BY <1>f, <2>2, <2>4 DEF DeliverSuccess, DeliverError, Persist
  <2>5. CASE DeliverSummary
    <3>1. queue[1].op \notin Ends
      BY <2>0, <2>5 DEF DeliverSummary, Delivers, Ends
    <3>2. UNCHANGED <<history, files>> \/ files'[current] = history'
      BY <1>f, <2>5 DEF DeliverSummary
    <3> QED BY <2>1, <2>2, <3>1, <3>2
  <2> QED BY <1>2, <2>3, <2>4, <2>5 DEF Deliver, DeliverStep
<1>3. CASE Resume
  <2>0. /\ UNCHANGED <<current, live, fresh, queue>>
        /\ StartRun \/ UNCHANGED <<history, sent>>
        /\ (\E yes \in BOOLEAN : AnswerPrompt(yes)) \/ Joinable
    BY <1>3, ResumeKeeps
  <2>1. CASE StartRun
    BY <2>0, <2>1 DEF StartRun, PlaceInv, SavedInv, EngineRuns, EnginePcs
  <2>2. CASE EndStop \/ StartCompaction
    <3>1. Joinable /\ UNCHANGED <<history, files>>
      BY <2>2 DEF EndStop, StartCompaction, storeVars, sessionVars
    <3> QED
      BY <2>0, <3>1 DEF Joinable, PlaceInv, SavedInv, EngineRuns, EnginePcs, Unsettled
  <2>3. CASE EndQuit
    BY <1>f, <2>0, <2>3 DEF EndQuit, Persist, PlaceInv, SavedInv
  <2>4. ASSUME NEW yes \in BOOLEAN, AnswerPrompt(yes) PROVE PlaceInv' /\ SavedInv'
    BY <2>0, <2>4 DEF AnswerPrompt, PlaceInv, SavedInv, EngineRuns, Unsettled,
       workerVars, storeVars, sessionVars
  <2> QED BY <1>3, <2>1, <2>2, <2>3, <2>4 DEF Resume
<1>4. CASE UserStep
  <2>0. UNCHANGED <<wpc, queue>>
    BY <1>4, UserKeeps DEF workerVars
  <2>1. ASSUME files'[current'] = history' PROVE SavedInv'
    BY <2>1 DEF SavedInv
  <2>2. CASE UNCHANGED <<files, history, current, live, fresh>>
    BY <2>0, <2>2 DEF PlaceInv, SavedInv, EngineRuns, Unsettled
  <2>3. CASE PressEnter \/ ClickSend \/ ClickStop \/ Quit \/ SaveSettings
             \/ \E full \in BOOLEAN : SetWorkspace(full)
    BY <2>2, <2>3 DEF PressEnter, ClickSend, ClickStop, Quit, SaveSettings, SetWorkspace,
       storeVars, sessionVars
  <2>4. ASSUME NEW s \in Sessions, NewSession(s) PROVE PlaceInv' /\ SavedInv'
    BY <1>f, <2>1, <2>4 DEF NewSession, PlaceInv
  <2>5. ASSUME NEW s \in Sessions, SwitchSession(s) PROVE PlaceInv' /\ SavedInv'
    BY <1>f, <2>1, <2>5 DEF SwitchSession, Persist, PlaceInv
  <2>6. ASSUME NEW s \in Sessions, DeleteOther(s) PROVE PlaceInv' /\ SavedInv'
    <3>1. /\ s # current /\ live' = live \ {s} /\ UNCHANGED <<history, current, fresh>>
          /\ files' = [files EXCEPT ![s] = << >>]
      BY <2>6 DEF DeleteOther
    <3>2. files'[current'] = files[current]
      BY <1>f, <3>1
    <3> QED BY <2>0, <3>1, <3>2 DEF PlaceInv, SavedInv, EngineRuns, Unsettled
  <2>7. ASSUME NEW s \in Sessions, DeleteCurrent(s) PROVE PlaceInv' /\ SavedInv'
    <3>1. s # current
      BY <2>7 DEF DeleteCurrent, PlaceInv
    <3> QED BY <1>f, <2>1, <2>7, <3>1 DEF DeleteCurrent, PlaceInv
  <2> QED BY <1>4, <2>3, <2>4, <2>5, <2>6, <2>7 DEF UserStep, UserOp
<1>5. CASE UNCHANGED vars
  BY <1>5 DEF vars, workerVars, storeVars, sessionVars, PlaceInv, SavedInv, EngineRuns,
     Unsettled
<1> QED BY <1>1, <1>2, <1>3, <1>4, <1>5 DEF Next, Rest

\* Whatever the user does and however runs end, the log in memory is in its file
\* unless a run is at it or its outcome is still to be delivered, and it is there
\* when the program is over.
THEOREM ChatLogSaved == Spec => []LogSaved
<1>1. Init => PlaceInv /\ SavedInv
  <2> SUFFICES ASSUME Init PROVE PlaceInv /\ SavedInv
    OBVIOUS
  <2>1. current \in Sessions
    BY ParameterAssumption DEF Init
  <2> QED BY <2>1 DEF Init, PlaceInv, SavedInv
<1>2. TypeOK /\ (PlaceInv /\ SavedInv) /\ [Next]_vars => (PlaceInv /\ SavedInv)'
  BY SavedStep
<1>3. QuitPersists /\ SavedInv => LogSaved
  BY DEF SavedInv, LogSaved, Unsettled, Ends
<1> QED BY <1>1, <1>2, <1>3, ChatTypeOK, AlwaysQuitPersists, PTL DEF Spec

-----------------------------------------------------------------------------
(* Messages stay in their session                                          *)

\* The messages of a session.
Of(s) == Messages({s})

\* Every thread, closure and log belongs to the session on display.
OwnInv ==
  /\ history \in Seq(Of(current)) /\ \A s \in Sessions : files[s] \in Seq(Of(s))
  /\ ~Joinable => whome = current
  /\ \A i \in DOMAIN queue : queue[i].home = current

HomeInv == "roam" \notin untimely => OwnInv

\* A new message of a session, and one with neither calls nor an id.
LEMMA PlainOf ==
  ASSUME NEW role \in Roles, NEW calls \in Seq(Nat), NEW id \in Nat, NEW s
  PROVE  Message(role, calls, id, s) \in Of(s)
BY MessageType DEF Of

LEMMA BareOf ==
  ASSUME NEW role \in Roles, NEW s
  PROVE  Message(role, << >>, NoId, s) \in Of(s)
<1>1. << >> \in Seq(Nat) /\ NoId \in Nat
  BY DEF NoId
<1> QED BY <1>1, PlainOf

\* What the worker writes belongs to its session.
LEMMA WorkerOwn ==
  ASSUME TypeOK, Worker, whome = current, history \in Seq(Of(current))
  PROVE  history' \in Seq(Of(current))
<1> USE ParameterAssumption
<1>1. CASE BeginRun
  BY <1>1, RepairType DEF BeginRun
<1>2. ASSUME NEW batch \in Batches, AskTools(batch) PROVE history' \in Seq(Of(current))
  <2>1. batch \in Seq(ToolKinds) /\ Len(batch) \in Nat /\ DOMAIN batch = 1..Len(batch)
    OBVIOUS
  <2>2. [i \in DOMAIN batch |-> i] \in Seq(Nat)
    <3>1. [i \in 1..Len(batch) |-> i] \in Seq(Nat)
      BY <2>1, IsASeq
    <3> QED BY <2>1, <3>1
  <2>3. Message("assistant", [i \in DOMAIN batch |-> i], NoId, whome) \in Of(current)
    BY <2>2, PlainOf DEF Roles, NoId
  <2> QED BY <1>2, <2>3, AppendProperties DEF AskTools, Write
<1>3. CASE RecordResult
  <2>1. << >> \in Seq(Nat) /\ windex \in Nat
    BY DEF TypeOK
  <2>2. Message("tool", << >>, windex, whome) \in Of(current)
    BY <2>1, PlainOf DEF Roles
  <2> QED BY <1>3, <2>2, AppendProperties DEF RecordResult, Write
<1>4. CASE Finish
  <2>1. << >> \in Seq(Nat)
    OBVIOUS
  <2>2. Message("assistant", << >>, NoId, whome) \in Of(current)
    BY <2>1, PlainOf DEF Roles, NoId
  <2> QED BY <1>4, <2>2, AppendProperties DEF Finish, Write
<1>5. CASE ~BeginRun /\ ~Finish /\ ~RecordResult
           /\ ~(\E batch \in Batches : AskTools(batch))
  BY <1>5 DEF Worker, WorkerStep, Speak, ExecuteTool, AskApproval, TakeAnswer, BatchDone,
     NextRound, ProviderFails, ReportError, CatchError, Summarize
<1> QED BY <1>1, <1>2, <1>3, <1>4, <1>5

\* A closure of the current session behind others of it.
LEMMA HomePost ==
  ASSUME TypeOK, NEW c \in Closures, c.home = current, queue' = Append(queue, c),
         current' = current, \A i \in DOMAIN queue : queue[i].home = current
  PROVE  \A i \in DOMAIN queue' : queue'[i].home = current'
<1>1. queue \in Seq(Closures) /\ Len(queue) \in Nat /\ DOMAIN queue = 1..Len(queue)
  BY DEF TypeOK
<1>2. /\ DOMAIN queue' = 1..(Len(queue) + 1)
      /\ queue'[Len(queue) + 1] = c
      /\ \A i \in 1..Len(queue) : queue'[i] = queue[i]
  BY <1>1, AppendProperties
<1> QED BY <1>1, <1>2

\* The log of a session after send has put its messages.
LEMMA StartOwn ==
  ASSUME StartRun, history \in Seq(Of(current))
  PROVE  history' \in Seq(Of(current))
<1> DEFINE system == Message("system", << >>, NoId, current)
           user   == Message("user", << >>, NoId, current)
           log    == WithSystem(history)
<1>1. system \in Of(current) /\ user \in Of(current)
  BY BareOf DEF Roles
<1>2. log \in {history, <<system>> \o history}
  BY DEF WithSystem
<1>3. history' = Append(log, user)
  BY DEF StartRun
<1> HIDE DEF system, user, log
<1>4. <<system>> \o history \in Seq(Of(current))
  <2>1. <<system>> \in Seq(Of(current))
    BY <1>1
  <2> QED BY <2>1, ConcatProperties
<1> QED BY <1>1, <1>2, <1>3, <1>4, AppendProperties

\* The closure of a compaction puts a note of its own session.
LEMMA SummaryOwn ==
  ASSUME TypeOK, Deliver, DeliverSummary, OwnInv
  PROVE  /\ history' \in Seq(Of(current))
         /\ files' = files \/ files' = [files EXCEPT ![current] = history']
<1>0. Head(queue) = queue[1] /\ 1 \in DOMAIN queue /\ queue[1] \in Closures
  BY DeliverKeeps
<1>1. CASE history = << >>
  BY <1>1 DEF DeliverSummary, OwnInv
<1>2. CASE history # << >>
  <2> DEFINE note == Message("system", << >>, NoId, current)
             cut  == Len(queue[1].prefix)
             log  == Compacted(history, cut, note)
  <2>1. queue[1].home = current
    BY <1>0 DEF OwnInv
  <2>2. history' = log /\ files' = [files EXCEPT ![current] = log]
    BY <1>0, <1>2, <2>1 DEF DeliverSummary
  <2>3. note \in Of(current)
    BY BareOf DEF Roles
  <2>4. cut \in Nat
    BY <1>0 DEF Closures
  <2>5. log \in Seq(Of(current))
    <3> HIDE DEF note, cut
    <3>1. history \in Seq(Of(current))
      BY DEF OwnInv
    <3> QED BY <1>2, <2>3, <2>4, <3>1, CompactedType
  <2> HIDE DEF log
  <2> QED BY <2>2, <2>5
<1> QED BY <1>1, <1>2

LEMMA HomeStep == ASSUME TypeOK, HomeInv, [Next]_vars PROVE HomeInv'
<1> SUFFICES ASSUME "roam" \notin untimely' PROVE OwnInv'
  BY DEF HomeInv
<1>m. untimely \subseteq untimely'
  BY DEF Next, Worker, AskTools, ReportAhead, ReportError, MayReport, Deliver, Resume,
     UserStep, UserOp, PressEnter, ClickSend, ClickStop, Quit, SaveSettings, NewSession,
     SwitchSession, DeleteOther, DeleteCurrent, SetWorkspace, Roam, Untimely, Rest, vars
<1>o. OwnInv
  BY <1>m DEF HomeInv
<1>f. files \in [Sessions -> Seq(LogMessages)] /\ current \in Sessions
  BY DEF TypeOK
<1>1. CASE Worker
  <2>0. UNCHANGED <<files, current, whome>> /\ wpc \notin {"none", "exited"}
    BY <1>1, WorkerKeeps
  <2>1. whome = current
    BY <1>o, <2>0 DEF OwnInv, Joinable
  <2>2. history' \in Seq(Of(current))
    BY <1>1, <1>o, <2>1, WorkerOwn DEF OwnInv
  <2>3. ASSUME NEW op \in ClosureOps, NEW ok \in BOOLEAN,
               queue' = Append(queue, Closure(op, ok))
        PROVE  \A i \in DOMAIN queue' : queue'[i].home = current'
    <3>1. Closure(op, ok) \in Closures /\ Closure(op, ok).home = current
      BY <2>1 DEF Closure, Closures, TypeOK
    <3> QED BY <1>o, <2>0, <2>3, <3>1, HomePost DEF OwnInv
  <2>4. \/ queue' = queue
        \/ \E op \in ClosureOps, ok \in BOOLEAN : queue' = Append(queue, Closure(op, ok))
    BY <1>1, WorkerMoves DEF Post, ClosureOps
  <2>5. \A i \in DOMAIN queue' : queue'[i].home = current'
    BY <1>o, <2>0, <2>3, <2>4 DEF OwnInv
  <2> QED BY <1>o, <2>0, <2>1, <2>2, <2>5 DEF OwnInv
<1>2. CASE Deliver
  <2>0. /\ queue # << >> /\ queue' = Tail(queue)
        /\ UNCHANGED <<wpc, whome, current>>
    BY <1>2, DeliverKeeps
  <2>1. \A i \in DOMAIN queue' : queue'[i].home = current'
    <3>1. /\ DOMAIN queue' = 1..(Len(queue) - 1)
          /\ \A i \in 1..(Len(queue) - 1) :
               i + 1 \in DOMAIN queue /\ queue'[i] = queue[i + 1]
      BY <2>0, TakeOff
    <3> QED BY <1>o, <2>0, <3>1 DEF OwnInv
  <2>2. /\ history' \in Seq(Of(current))
        /\ files' = files \/ files' = [files EXCEPT ![current] = history']
    <3>1. CASE DeliverSummary
      BY <1>2, <1>o, <3>1, SummaryOwn
    <3>2. CASE ~DeliverSummary
      BY <1>2, <1>o, <3>2 DEF Deliver, DeliverStep, DeliverDelta, DeliverTool,
         DeliverApprove, DeliverSuccess, DeliverError, DeliverNoSummary, Persist, OwnInv
    <3> QED BY <3>1, <3>2
  <2>3. \A s \in Sessions : files'[s] \in Seq(Of(s))
    BY <1>f, <1>o, <2>2 DEF OwnInv
  <2> QED BY <1>o, <2>0, <2>1, <2>2, <2>3 DEF OwnInv, Joinable
<1>3. CASE Resume
  <2>0. UNCHANGED <<current, queue>> /\ (StartRun \/ history' = history)
    BY <1>3, ResumeKeeps
  <2>1. history' \in Seq(Of(current))
    BY <1>o, <2>0, StartOwn DEF OwnInv
  <2>2. files' = files \/ files' = [files EXCEPT ![current] = history]
    BY <1>3 DEF Resume, StartRun, EndStop, EndQuit, Persist, StartCompaction,
       AnswerPrompt, storeVars, sessionVars
  <2>3. \A s \in Sessions : files'[s] \in Seq(Of(s))
    BY <1>f, <1>o, <2>2 DEF OwnInv
  <2>4. whome' = current \/ wpc' = "none" \/ UNCHANGED <<wpc, whome>>
    BY <1>3 DEF Resume, StartRun, EndStop, EndQuit, StartCompaction, AnswerPrompt,
       workerVars, progressVars, jobVars
  <2> QED BY <1>o, <2>0, <2>1, <2>3, <2>4 DEF OwnInv, Joinable
<1>4. CASE UserStep
  <2>0. UNCHANGED <<wpc, whome, queue>>
    BY <1>4, UserKeeps DEF workerVars, progressVars, jobVars
  <2>1. CASE UNCHANGED <<files, history, current>>
    BY <1>o, <2>0, <2>1 DEF OwnInv, Joinable
  <2>2. CASE PressEnter \/ ClickSend \/ ClickStop \/ Quit \/ SaveSettings
             \/ \E full \in BOOLEAN : SetWorkspace(full)
    BY <2>1, <2>2 DEF PressEnter, ClickSend, ClickStop, Quit, SaveSettings, SetWorkspace,
       storeVars, sessionVars
  <2>3. ASSUME Roam PROVE Joinable /\ queue = << >>
    <3>1. ~Untimely("roam")
      BY DEF Untimely
    <3> QED BY <2>3, <3>1 DEF Roam, InFlight
  <2>4. ASSUME Roam, history' \in Seq(Of(current')),
               \A s \in Sessions : files'[s] \in Seq(Of(s))
        PROVE  OwnInv'
    BY <2>0, <2>3, <2>4 DEF OwnInv, Joinable
  <2>e. \A s : << >> \in Seq(Of(s))
    OBVIOUS
  <2>5. ASSUME NEW s \in Sessions, NewSession(s) PROVE OwnInv'
    <3>1. \A t \in Sessions : files'[t] \in Seq(Of(t))
      BY <1>f, <1>o, <2>e, <2>5 DEF NewSession, OwnInv
    <3> QED BY <2>4, <2>5, <2>e, <3>1 DEF NewSession
  <2>6. ASSUME NEW s \in Sessions, SwitchSession(s) PROVE OwnInv'
    <3>1. \A t \in Sessions : files'[t] \in Seq(Of(t))
      BY <1>f, <1>o, <2>6 DEF SwitchSession, Persist, OwnInv
    <3>2. history' \in Seq(Of(current'))
      BY <1>o, <2>6 DEF SwitchSession, OwnInv
    <3> QED BY <2>4, <2>6, <3>1, <3>2 DEF SwitchSession
  <2>7. ASSUME NEW s \in Sessions, DeleteOther(s) PROVE OwnInv'
    <3>1. \A t \in Sessions : files'[t] \in Seq(Of(t))
      BY <1>f, <1>o, <2>e, <2>7 DEF DeleteOther, OwnInv
    <3>2. history' \in Seq(Of(current'))
      BY <1>o, <2>7 DEF DeleteOther, OwnInv
    <3> QED BY <2>4, <2>7, <3>1, <3>2 DEF DeleteOther
  <2>8. ASSUME NEW s \in Sessions, DeleteCurrent(s) PROVE OwnInv'
    <3>1. \A t \in Sessions : files'[t] \in Seq(Of(t))
      BY <1>f, <1>o, <2>e, <2>8 DEF DeleteCurrent, OwnInv
    <3>2. history' \in Seq(Of(current'))
      BY <1>o, <2>8 DEF DeleteCurrent, OwnInv
    <3> QED BY <2>4, <2>8, <3>1, <3>2 DEF DeleteCurrent
  <2> QED BY <1>4, <2>2, <2>5, <2>6, <2>7, <2>8 DEF UserStep, UserOp
<1>5. CASE UNCHANGED vars
  BY <1>o, <1>5 DEF vars, workerVars, progressVars, jobVars, storeVars, sessionVars,
     OwnInv, Joinable
<1> QED BY <1>1, <1>2, <1>3, <1>4, <1>5 DEF Next, Rest

\* A message never leaves the session whose conversation produced it, although
\* the worker and the compaction's closure write whatever log is current: as
\* long as the user changes sessions only while nothing is in flight, and
\* whatever is stopped, fails or comes late.
THEOREM ChatLogOwnership == Spec => []LogOwnership
<1>1. Init => HomeInv
  <2> SUFFICES ASSUME Init PROVE OwnInv
    BY DEF HomeInv
  <2> QED BY DEF Init, OwnInv, Joinable
<1>2. ASSUME TypeOK, HomeInv PROVE LogOwnership
  <2> SUFFICES ASSUME OwnInv PROVE Owned
    BY <1>2 DEF LogOwnership, HomeInv
  <2>1. ASSUME NEW s, NEW log \in Seq(Of(s)), NEW i \in DOMAIN log PROVE log[i].home = s
    <3>1. log[i] \in Of(s)
      BY <2>1
    <3> QED BY <3>1 DEF Of, Messages
  <2>2. \A i \in DOMAIN history : history[i].home = current
    BY <2>1 DEF OwnInv
  <2>3. ASSUME NEW s \in live, NEW i \in DOMAIN files[s] PROVE files[s][i].home = s
    <3>1. files[s] \in Seq(Of(s))
      BY <1>2 DEF OwnInv, TypeOK
    <3> QED BY <2>1, <3>1
  <2> QED BY <2>2, <2>3 DEF Owned
<1>3. TypeOK /\ HomeInv /\ [Next]_vars => HomeInv'
  BY HomeStep
<1> QED BY <1>1, <1>2, <1>3, ChatTypeOK, PTL DEF Spec

-----------------------------------------------------------------------------
(* An orderly chat: no run was stopped, and none reported an error before  *)
(* it threw                                                                *)

\* The closures that a run posts on its way.
Chatter == {"delta", "tool", "approve"}

\* Nothing is open on display.
Settles == ~streamRow /\ settled = sent

\* A prefix of the log.
Fits(p) == p # << >> /\ Len(p) <= Len(history) /\ SubSeq(history, 1, Len(p)) = p

\* Nothing is in progress, or a send waits for a worker that has ended.
Idle ==
  /\ uiPc \in {"loop", "send"} /\ queue = << >> /\ Joinable
  /\ ~busy /\ ~running /\ ~compacting
  /\ Settles
  /\ uiPc = "send" => sent < MaxSends

\* A run is in progress, or has ended and its last closure is not delivered.
AtWork ==
  /\ uiPc \in {"loop", "prompt"} /\ wpc \in EnginePcs \cup {"throwing", "exited"}
  /\ busy /\ running /\ ~compacting
  /\ streamRow /\ sent = settled + 1
  /\ wpc = "exited" => queue # << >>
  /\ \A i \in DOMAIN queue :
       /\ queue[i].run = sent
       /\ queue[i].op \in IF wpc = "exited" /\ i = Len(queue) THEN Ends ELSE Chatter

\* The run has settled and maybe_compact waits for its thread.
Cutting ==
  /\ uiPc = "compact" /\ queue = << >> /\ wpc = "exited"
  /\ busy /\ ~running /\ ~compacting
  /\ Settles /\ Fits(prefix)

\* A prefix of a log is being summarized, or its summary is on its way: of the log
\* on display, unless the user went to another session meanwhile.
Summing ==
  /\ uiPc = "loop" /\ busy /\ ~running /\ compacting
  /\ Settles
  /\ \/ wpc = "summarize" /\ queue = << >> /\ (untimely = {} => Fits(wprefix))
     \/ /\ wpc = "exited" /\ Len(queue) = 1 /\ queue[1].op = "compacted"
        /\ untimely = {} => Fits(queue[1].prefix)

\* A summary arrived in a session without messages.
Crashed == uiPc = "crashed" /\ Settles /\ queue = << >>

Modes   == Idle \/ AtWork \/ Cutting \/ Summing \/ Crashed
ModeInv == Orderly => Modes

\* What is on display belongs to the last message.
RowInv == untimely = {} => /\ streamRow => lastRow = "stream"
                           /\ streamText \subseteq {sent}

\* A run that works on tools in its last round is going to report an error.
ReportInv == wpc \in {"exec", "await", "record"} /\ LastRound => "report" \in untimely

OrderInv == ModeInv /\ RowInv /\ ReportInv

LEMMA InitOrder == Init => OrderInv
BY DEF Init, OrderInv, ModeInv, Modes, RowInv, ReportInv, Idle, Joinable, Settles

\* Nothing untimely is taken back.
LEMMA UntimelyStays == [Next]_vars => untimely \subseteq untimely'
BY DEF Next, Worker, AskTools, ReportAhead, ReportError, MayReport, Deliver, Resume,
   UserStep, UserOp, PressEnter, ClickSend, ClickStop, Quit, SaveSettings, NewSession,
   SwitchSession, DeleteOther, DeleteCurrent, SetWorkspace, Roam, Untimely, Rest, vars

LEMMA ReportStep == ReportInv /\ [Next]_vars => ReportInv'
<1> SUFFICES ASSUME ReportInv, [Next]_vars PROVE ReportInv'
  OBVIOUS
<1>m. untimely \subseteq untimely'
  BY UntimelyStays
<1> USE DEF ReportInv, LastRound
<1>1. CASE Worker
  <2>1. ASSUME NEW batch \in Batches, AskTools(batch) PROVE ReportInv'
    <3>1. wround' = wround /\ (LastRound => "report" \in untimely')
      BY <2>1 DEF AskTools, ReportAhead, MayReport, Untimely
    <3> QED BY <3>1
  <2>2. CASE ~(\E batch \in Batches : AskTools(batch))
    <3>1. \/ wpc' \notin {"exec", "await", "record"}
          \/ wround' = wround /\ wpc \in {"exec", "await", "record"}
      BY <1>1, <2>2 DEF Worker, WorkerStep, BeginRun, Speak, ExecuteTool, AskApproval,
         TakeAnswer, BatchDone, RecordResult, NextRound, Finish, ProviderFails,
         ReportError, CatchError, Summarize
    <3> QED BY <1>m, <3>1
  <2> QED BY <2>1, <2>2
<1>2. CASE Deliver \/ UserStep \/ UNCHANGED vars
  BY <1>m, <1>2 DEF Deliver, UserStep, vars, workerVars, progressVars
<1>3. CASE Resume
  <2>1. \/ wpc' \notin {"exec", "await", "record"} \/ UNCHANGED <<wpc, wround>>
    BY <1>3 DEF Resume, StartRun, EndStop, EndQuit, StartCompaction, AnswerPrompt,
       workerVars, progressVars
  <2> QED BY <1>m, <2>1
<1> QED BY <1>1, <1>2, <1>3 DEF Next, Rest

\* A closure behind the queue of a run at work.
LEMMA WorkPosts ==
  ASSUME TypeOK, AtWork, wpc # "exited", NEW c \in Closures, c.run = sent,
         UNCHANGED <<uiPc, busy, running, compacting, streamRow, sent, settled>>,
         queue' = Append(queue, c),
         \/ c.op \in Chatter /\ wpc' \in EnginePcs \cup {"throwing"}
         \/ c.op \in Ends /\ wpc' = "exited"
  PROVE  AtWork'
<1>1. queue \in Seq(Closures) /\ Len(queue) \in Nat /\ DOMAIN queue = 1..Len(queue)
  BY DEF TypeOK
<1>2. /\ Len(queue') = Len(queue) + 1 /\ DOMAIN queue' = 1..(Len(queue) + 1)
      /\ queue'[Len(queue) + 1] = c
      /\ \A i \in 1..Len(queue) : queue'[i] = queue[i]
  BY <1>1, AppendProperties
<1>3. queue' # << >>
  BY <1>1, <1>2
<1>4. \A i \in 1..Len(queue) : queue[i].run = sent /\ queue[i].op \in Chatter
  BY <1>1 DEF AtWork
<1>5. (wpc' = "exited") <=> (c.op \in Ends)
  BY DEF Ends, Chatter, EnginePcs
<1>6. ASSUME NEW i \in DOMAIN queue'
      PROVE  /\ queue'[i].run = sent'
             /\ queue'[i].op \in IF wpc' = "exited" /\ i = Len(queue') THEN Ends ELSE Chatter
  <2>1. i \in 1..Len(queue) \/ i = Len(queue) + 1
    BY <1>1, <1>2
  <2>2. CASE i \in 1..Len(queue)
    BY <1>1, <1>2, <1>4, <2>2
  <2>3. CASE i = Len(queue) + 1
    BY <1>2, <1>5, <2>3
  <2> QED BY <2>1, <2>2, <2>3
<1>7. wpc' \in EnginePcs \cup {"throwing", "exited"}
  OBVIOUS
<1>8. /\ uiPc' \in {"loop", "prompt"} /\ busy' /\ running' /\ ~compacting'
      /\ streamRow' /\ sent' = settled' + 1
  BY DEF AtWork
<1> QED BY <1>3, <1>6, <1>7, <1>8 DEF AtWork

\* A step of the run without a closure.
LEMMA WorkKeeps ==
  ASSUME AtWork, wpc # "exited", wpc' \in EnginePcs \cup {"throwing"},
         UNCHANGED <<uiPc, busy, running, compacting, streamRow, sent, settled, queue>>
  PROVE  AtWork'
BY DEF AtWork, EnginePcs

LEMMA WorkerOrder == ASSUME TypeOK, OrderInv, Worker PROVE OrderInv'
<1>0. /\ UNCHANGED <<uiPc, busy, running, compacting, prefix, streamRow, lastRow,
                     streamText, sent, settled, wprefix>>
      /\ wpc \notin {"none", "exited"}
  BY WorkerKeeps
<1>m. untimely \subseteq untimely'
  BY UntimelyStays DEF Next
<1>1. RowInv'
  BY <1>0, <1>m DEF OrderInv, RowInv
<1>r. ReportInv'
  BY ReportStep DEF OrderInv, Next
<1> SUFFICES ASSUME Orderly' PROVE Modes'
  BY <1>1, <1>r DEF OrderInv, ModeInv
<1>2. Orderly
  BY <1>m DEF Orderly
<1>3. (wpc # "summarize" /\ AtWork) \/ (wpc = "summarize" /\ Summing)
  BY <1>0, <1>2 DEF OrderInv, ModeInv, Modes, Idle, AtWork, Cutting, Summing, Crashed,
     Joinable, EnginePcs, Worker
<1>4. ASSUME NEW op \in ClosureOps, NEW ok \in BOOLEAN
      PROVE  LET c == Closure(op, ok)
             IN  c \in Closures /\ c.op = op /\ c.run = sent /\ c.prefix = wprefix
  BY DEF Closure, Closures, TypeOK
<1>5. CASE wpc = "summarize"
  <2>1. PICK ok \in BOOLEAN : /\ wpc' = "exited" /\ history' = history
                              /\ queue' = Append(queue, Closure("compacted", ok))
    BY <1>5, WorkerMoves DEF EnginePcs
  <2>2. Summing /\ queue = << >> /\ (untimely = {} => Fits(wprefix))
    BY <1>3, <1>5 DEF Summing
  <2> DEFINE c == Closure("compacted", ok)
  <2>4. c \in Closures /\ c.op = "compacted" /\ c.prefix = wprefix
    BY <1>4 DEF ClosureOps
  <2> HIDE DEF c
  <2>5. queue' = Append(queue, c)
    BY <2>1 DEF c
  <2>6. Len(queue') = 1 /\ queue'[1] = c
    BY <2>2, <2>4, <2>5
  <2>7. untimely' = {} => Fits(queue[1].prefix)'
    BY <1>m, <2>1, <2>2, <2>4, <2>6 DEF Fits
  <2>8. uiPc' = "loop" /\ busy' /\ ~running' /\ compacting' /\ Settles'
    BY <1>0, <2>2 DEF Summing, Settles
  <2>9. Summing'
    BY <2>1, <2>4, <2>6, <2>7, <2>8 DEF Summing
  <2> QED BY <2>9 DEF Modes
<1>6. CASE wpc # "summarize"
  <2>1. AtWork /\ wpc # "exited"
    BY <1>0, <1>3, <1>6
  <2>2. CASE queue' = queue /\ wpc' \in EnginePcs \cup {"throwing"}
    BY <1>0, <2>1, <2>2, WorkKeeps DEF Modes
  <2>3. ASSUME NEW op \in Chatter, Post(op), wpc' \in EnginePcs \cup {"throwing"}
        PROVE  AtWork'
    <3>1. op \in ClosureOps
      BY DEF Chatter, ClosureOps
    <3>2. /\ Closure(op, TRUE) \in Closures /\ Closure(op, TRUE).op = op
          /\ Closure(op, TRUE).run = sent
      BY <1>4, <3>1
    <3> QED BY <1>0, <2>1, <2>3, <3>2, WorkPosts DEF Post
  <2>4. ASSUME NEW op \in Ends, Post(op), wpc' = "exited" PROVE AtWork'
    <3>1. op \in ClosureOps
      BY DEF Ends, ClosureOps
    <3>2. /\ Closure(op, TRUE) \in Closures /\ Closure(op, TRUE).op = op
          /\ Closure(op, TRUE).run = sent
      BY <1>4, <3>1
    <3> QED BY <1>0, <2>1, <2>4, <3>2, WorkPosts DEF Post
  <2>5. ~ReportError
    <3>1. "report" \notin untimely /\ "report" \notin untimely'
      BY <1>2 DEF Orderly
    <3> QED BY <3>1 DEF ReportError, MayReport, Untimely, OrderInv, ReportInv
  <2> QED BY <1>6, <2>2, <2>3, <2>4, <2>5, WorkerMoves DEF Modes, Chatter, Ends
<1> QED BY <1>5, <1>6

-----------------------------------------------------------------------------
(* The closures of an orderly chat                                         *)

\* The closures of a run that go before its last.
LEMMA ChatterOrder ==
  ASSUME TypeOK, StopInside, Deliver, AtWork, queue[1].op \in Chatter
  PROVE  /\ AtWork'
         /\ lastRow = "stream" => lastRow' = "stream"
         /\ streamText' \subseteq streamText \cup {sent}
<1>0. /\ uiPc = "loop" /\ ~stopFlag /\ queue # << >> /\ queue' = Tail(queue)
      /\ Head(queue) = queue[1] /\ 1 \in DOMAIN queue
      /\ UNCHANGED <<wpc, sent>>
  BY DeliverKeeps DEF StopInside
<1>1. DeliverDelta \/ DeliverTool \/ DeliverApprove
  BY <1>0 DEF Deliver, DeliverStep, Delivers, Chatter, DeliverSuccess, DeliverError,
     DeliverNoSummary, DeliverSummary
<1>2. queue[1].run = sent
  BY <1>0 DEF AtWork
<1>3. /\ uiPc' \in {"loop", "prompt"} /\ streamRow'
      /\ lastRow = "stream" => lastRow' = "stream"
      /\ streamText' \subseteq streamText \cup {sent}
      /\ UNCHANGED <<running, compacting, busy, settled>>
  <2>1. streamRow
    BY DEF AtWork
  <2>2. CASE DeliverDelta
    BY <1>0, <1>2, <2>1, <2>2 DEF DeliverDelta, UnlessStopped, ReplaceLast
  <2>3. CASE DeliverTool
    BY <1>0, <2>3 DEF DeliverTool, UnlessStopped
  <2>4. CASE DeliverApprove
    BY <2>1, <2>4 DEF DeliverApprove, viewVars
  <2> QED BY <1>1, <2>2, <2>3, <2>4
<1>4. /\ Len(queue') = Len(queue) - 1 /\ Len(queue) \in Nat \ {0}
      /\ DOMAIN queue' = 1..(Len(queue) - 1)
      /\ \A i \in 1..(Len(queue) - 1) :
           i + 1 \in DOMAIN queue /\ queue'[i] = queue[i + 1]
  BY <1>0, TakeOff
<1>5. wpc = "exited" => Len(queue) # 1
  BY <1>0 DEF AtWork, Chatter, Ends
<1>6. ASSUME wpc' = "exited" PROVE queue' # << >>
  <2>1. Len(queue') # 0
    BY <1>0, <1>4, <1>5, <1>6
  <2> QED BY <2>1
<1>7. ASSUME NEW i \in DOMAIN queue'
      PROVE  /\ queue'[i].run = sent'
             /\ queue'[i].op \in IF wpc' = "exited" /\ i = Len(queue') THEN Ends ELSE Chatter
  <2>1. /\ i + 1 \in DOMAIN queue /\ queue'[i] = queue[i + 1]
        /\ (i = Len(queue')) <=> (i + 1 = Len(queue))
    BY <1>4
  <2>2. /\ queue[i + 1].run = sent
        /\ queue[i + 1].op \in IF wpc = "exited" /\ i + 1 = Len(queue) THEN Ends ELSE Chatter
    BY <2>1 DEF AtWork
  <2> QED BY <1>0, <2>1, <2>2
<1>8. AtWork'
  BY <1>0, <1>3, <1>6, <1>7 DEF AtWork
<1> QED BY <1>3, <1>8

\* The cut of maybe_compact is a prefix of the log.
LEMMA CutFits ==
  ASSUME TypeOK, Len(history) >= Threshold, Cut(history, KeepTail) > 1,
         prefix' = CutOff, history' = history
  PROVE  Fits(prefix)'
<1> USE ParameterAssumption
<1> DEFINE cut == Cut(history, KeepTail)
<1>1. history \in Seq(LogMessages) /\ Len(history) \in Nat
  BY DEF TypeOK
<1>2. Len(history) >= KeepTail
  BY <1>1
<1>3. cut \in 0..Len(history) /\ cut > 1
  BY <1>1, <1>2, CutBounds
<1>4. prefix' = SubSeq(history, 1, cut)
  BY DEF CutOff
<1> HIDE DEF cut
<1>5. SubSeq(history, 1, cut) \in Seq(LogMessages) /\ Len(SubSeq(history, 1, cut)) = cut
  BY <1>1, <1>3, SubSeqProperties
<1>6. /\ prefix' # << >> /\ Len(prefix') <= Len(history)
      /\ SubSeq(history, 1, Len(prefix')) = prefix'
  BY <1>1, <1>3, <1>4, <1>5
<1> QED BY <1>6 DEF Fits

\* The last closure of a run: the worker has ended and nothing is behind it.
LEMMA EndsOrder ==
  ASSUME TypeOK, Deliver, AtWork, queue[1].op \in Ends
  PROVE  /\ Idle' \/ Cutting'
         /\ ~streamRow' /\ streamText' = {} /\ settled' = settled + 1
<1> USE ParameterAssumption
<1>0. /\ uiPc = "loop" /\ queue # << >> /\ queue' = Tail(queue)
      /\ Head(queue) = queue[1] /\ 1 \in DOMAIN queue
      /\ UNCHANGED <<wpc, sent>>
  BY DeliverKeeps
<1>1. DeliverSuccess \/ DeliverError
  BY <1>0 DEF Deliver, DeliverStep, Delivers, Ends, DeliverDelta, DeliverTool,
     DeliverApprove, DeliverNoSummary, DeliverSummary
<1>2. wpc = "exited" /\ Len(queue) = 1
  BY <1>0 DEF AtWork, Ends, Chatter
<1>3. queue' = << >>
  <2>1. Len(queue') = 0 /\ queue' \in Seq(Closures)
    BY <1>0, <1>2, TakeOff, DeliveredType
  <2> QED BY <2>1, EmptySeq
<1>4. /\ ~streamRow' /\ streamText' = {} /\ ~running' /\ settled' = settled + 1
      /\ UNCHANGED <<compacting, history>>
  BY <1>1 DEF DeliverSuccess, DeliverError
<1>5. Settles' /\ ~compacting'
  BY <1>0, <1>4 DEF AtWork, Settles
<1>6. CASE ~(DeliverSuccess /\ Len(history) >= Threshold /\ Cut(history, KeepTail) > 1)
  <2>1. uiPc' = uiPc /\ ~busy'
    BY <1>1, <1>6 DEF DeliverSuccess, DeliverError, AtWork
  <2>2. Idle'
    BY <1>0, <1>2, <1>3, <1>4, <1>5, <2>1 DEF Idle, Joinable
  <2> QED BY <1>4, <2>2
<1>7. CASE DeliverSuccess /\ Len(history) >= Threshold /\ Cut(history, KeepTail) > 1
  <2>1. uiPc' = "compact" /\ prefix' = CutOff /\ busy' = busy
    BY <1>7 DEF DeliverSuccess
  <2>2. Fits(prefix)'
    BY <1>4, <1>7, <2>1, CutFits
  <2>3. busy'
    BY <2>1 DEF AtWork
  <2>4. Cutting'
    BY <1>0, <1>2, <1>3, <1>4, <1>5, <2>1, <2>2, <2>3 DEF Cutting
  <2> QED BY <1>4, <2>4
<1> QED BY <1>6, <1>7

\* The closure of a compaction.
LEMMA SummaryOrder ==
  ASSUME TypeOK, Deliver, Summing
  PROVE  /\ Idle' \/ Crashed'
         /\ ~streamRow' /\ streamText' \subseteq streamText
         /\ settled' = settled
<1>0. /\ uiPc = "loop" /\ queue # << >> /\ queue' = Tail(queue)
      /\ Head(queue) = queue[1] /\ 1 \in DOMAIN queue
      /\ UNCHANGED <<wpc, sent>>
  BY DeliverKeeps
<1>1. wpc = "exited" /\ Len(queue) = 1 /\ queue[1].op = "compacted"
  BY <1>0 DEF Summing
<1>2. DeliverNoSummary \/ DeliverSummary
  BY <1>0, <1>1 DEF Deliver, DeliverStep, Delivers, DeliverDelta, DeliverTool,
     DeliverApprove, DeliverSuccess, DeliverError
<1>3. queue' = << >>
  <2>1. Len(queue') = 0 /\ queue' \in Seq(Closures)
    BY <1>0, <1>1, TakeOff, DeliveredType
  <2> QED BY <2>1, EmptySeq
<1>4. ~compacting' /\ ~busy' /\ UNCHANGED <<running, settled>>
  BY <1>2 DEF DeliverNoSummary, DeliverSummary
<1>5. /\ streamRow' = streamRow /\ streamText' \subseteq streamText
      /\ uiPc' \in {uiPc, "crashed"}
  BY <1>2 DEF DeliverNoSummary, DeliverSummary, Reload, viewVars
<1>6. Settles' /\ ~streamRow' /\ ~running'
  BY <1>0, <1>4, <1>5 DEF Summing, Settles
<1>7. Idle' \/ Crashed'
  BY <1>0, <1>1, <1>3, <1>4, <1>5, <1>6 DEF Idle, Crashed, Joinable
<1> QED BY <1>4, <1>5, <1>6, <1>7

\* Where a delivery finds an orderly chat.
LEMMA DeliverMode ==
  ASSUME TypeOK, OrderInv, Deliver, Orderly
  PROVE  \/ AtWork /\ queue[1].op \in Chatter
         \/ AtWork /\ queue[1].op \in Ends
         \/ Summing
<1>0. uiPc = "loop" /\ queue # << >> /\ 1 \in DOMAIN queue
  BY DeliverKeeps
<1>1. AtWork \/ Summing
  BY <1>0 DEF OrderInv, ModeInv, Modes, Idle, Cutting, Crashed
<1>2. AtWork => queue[1].op \in Chatter \cup Ends
  BY <1>0 DEF AtWork
<1> QED BY <1>1, <1>2

LEMMA DeliverOrder == ASSUME TypeOK, StopInside, OrderInv, Deliver PROVE OrderInv'
<1>0. UNCHANGED <<untimely, sent>>
  BY DeliverKeeps
<1>1. ReportInv'
  BY ReportStep DEF OrderInv, Next
<1>2. CASE ~Orderly
  BY <1>0, <1>1, <1>2 DEF OrderInv, ModeInv, RowInv, Orderly
<1>3. CASE Orderly
  <2>1. CASE AtWork /\ queue[1].op \in Chatter
    <3>1. /\ AtWork' /\ (lastRow = "stream" => lastRow' = "stream")
          /\ streamText' \subseteq streamText \cup {sent}
      BY <2>1, ChatterOrder
    <3>2. streamRow
      BY <2>1 DEF AtWork
    <3> QED BY <1>0, <1>1, <3>1, <3>2 DEF OrderInv, ModeInv, Modes, RowInv
  <2>2. CASE AtWork /\ queue[1].op \in Ends
    BY <1>1, <2>2, EndsOrder DEF OrderInv, ModeInv, Modes, RowInv
  <2>3. CASE Summing
    BY <1>0, <1>1, <2>3, SummaryOrder DEF OrderInv, ModeInv, Modes, RowInv
  <2> QED BY <1>3, <2>1, <2>2, <2>3, DeliverMode
<1> QED BY <1>2, <1>3

-----------------------------------------------------------------------------
(* The UI thread of an orderly chat                                        *)

LEMMA ResumeOrder == ASSUME TypeOK, OrderInv, Resume PROVE OrderInv'
<1>0. UNCHANGED <<queue, settled, untimely>>
  BY ResumeKeeps
<1>1. ReportInv'
  BY ReportStep DEF OrderInv, Next
<1>2. CASE StartRun
  <2>1. /\ running' /\ busy' /\ streamRow' /\ lastRow' = "stream" /\ streamText' = {}
        /\ wpc' = "begin" /\ sent' = sent + 1 /\ uiPc \in {"send", "clickSend"}
        /\ uiPc = "send" => uiPc' = "loop"
        /\ UNCHANGED compacting
    BY <1>2 DEF StartRun
  <2>2. ASSUME Orderly PROVE AtWork'
    <3>1. Idle /\ uiPc = "send"
      BY <2>1, <2>2 DEF OrderInv, ModeInv, Modes, Idle, AtWork, Cutting, Summing, Crashed
    <3> QED BY <1>0, <2>1, <3>1 DEF AtWork, Idle, Settles, EnginePcs
  <2> QED BY <1>0, <1>1, <2>1, <2>2 DEF OrderInv, ModeInv, Modes, RowInv, Orderly
<1>3. CASE EndStop \/ EndQuit
  <2>1. uiPc \in {"stop", "quit"}
    BY <1>3 DEF EndStop, EndQuit
  <2>2. ~Orderly
    BY <2>1 DEF OrderInv, ModeInv, Modes, Idle, AtWork, Cutting, Summing, Crashed
  <2> QED BY <1>0, <1>1, <2>2 DEF OrderInv, ModeInv, RowInv, Orderly
<1>4. CASE StartCompaction
  <2>1. /\ uiPc = "compact" /\ uiPc' = "loop" /\ compacting' /\ busy'
        /\ wpc' = "summarize" /\ wprefix' = prefix
        /\ UNCHANGED <<running, viewVars, storeVars, countVars>>
    BY <1>4 DEF StartCompaction
  <2>2. ASSUME Orderly PROVE Summing'
    <3>1. Cutting
      BY <2>1, <2>2 DEF OrderInv, ModeInv, Modes, Idle, AtWork, Summing, Crashed
    <3>2. Fits(wprefix)'
      BY <2>1, <3>1 DEF Cutting, Fits, storeVars
    <3> QED BY <1>0, <2>1, <3>1, <3>2 DEF Cutting, Summing, Settles, viewVars, countVars
  <2> QED BY <1>0, <1>1, <2>1, <2>2 DEF OrderInv, ModeInv, Modes, RowInv, Orderly,
         viewVars, countVars
<1>5. ASSUME NEW yes \in BOOLEAN, AnswerPrompt(yes) PROVE OrderInv'
  <2>1. /\ uiPc = "prompt" /\ uiPc' = "loop"
        /\ UNCHANGED <<flagVars, viewVars, wpc, countVars>>
    BY <1>5 DEF AnswerPrompt, workerVars
  <2>2. ASSUME Orderly PROVE AtWork'
    <3>1. AtWork
      BY <2>1, <2>2 DEF OrderInv, ModeInv, Modes, Idle, Cutting, Summing, Crashed
    <3> QED BY <1>0, <2>1, <3>1 DEF AtWork, flagVars, viewVars, countVars
  <2> QED BY <1>0, <1>1, <2>1, <2>2 DEF OrderInv, ModeInv, Modes, RowInv, Orderly,
         viewVars, countVars
<1> QED BY <1>2, <1>3, <1>4, <1>5 DEF Resume

\* The user finds an orderly chat idle or busy; what he does then, unless it ends the
\* order, leaves a busy chat as it is, and an idle one idle.
LEMMA UserModes ==
  ASSUME TypeOK, OrderInv, UserStep, Orderly, Orderly'
  PROVE  Modes'
<1>0. UNCHANGED <<wpc, wprefix, running, compacting, busy, prefix, countVars, queue>>
  BY UserKeeps DEF workerVars, progressVars, jobVars
<1>1. uiPc = "loop" /\ streamRow' = streamRow
  BY DEF UserStep, UserOp, User, PressEnter, ClickSend, ClickStop, Quit, SaveSettings,
     NewSession, SwitchSession, DeleteOther, DeleteCurrent, SetWorkspace, Reload, viewVars
<1>2. ~ClickSend /\ ~ClickStop /\ ~Quit
  <2>1. ~Untimely("stop")
    BY DEF Untimely, Orderly
  <2> QED BY <2>1 DEF ClickSend, ClickStop, Quit
<1>3. \/ uiPc' = "loop"
      \/ uiPc' = "send" /\ Ready
  BY <1>1, <1>2 DEF UserStep, UserOp, PressEnter, SaveSettings, NewSession,
     SwitchSession, DeleteOther, DeleteCurrent, SetWorkspace
<1>4. CASE Idle
  <2>1. Idle'
    BY <1>0, <1>1, <1>3, <1>4 DEF Idle, Ready, Settles, Joinable, countVars
  <2> QED BY <2>1 DEF Modes
<1>5. CASE AtWork
  <2>1. uiPc' = "loop"
    BY <1>3, <1>5 DEF AtWork, Ready
  <2>2. AtWork'
    BY <1>0, <1>1, <1>5, <2>1 DEF AtWork, countVars
  <2> QED BY <2>2 DEF Modes
<1>6. CASE Summing
  <2>1. uiPc' = "loop"
    BY <1>3, <1>6 DEF Summing, Ready
  <2>2. ~Joinable \/ queue # << >>
    BY <1>6 DEF Summing, Joinable
  <2>3. ASSUME untimely' = {} PROVE untimely = {} /\ history' = history
    <3>1. ~Roam
      BY <2>2, <2>3 DEF Roam, InFlight, Untimely
    <3>2. PressEnter \/ SaveSettings \/ \E full \in BOOLEAN : SetWorkspace(full)
      BY <1>2, <3>1 DEF UserStep, UserOp, NewSession, SwitchSession, DeleteOther,
         DeleteCurrent
    <3> QED BY <2>3, <3>2 DEF PressEnter, SaveSettings, SetWorkspace, storeVars
  <2>4. Summing'
    BY <1>0, <1>1, <1>6, <2>1, <2>3 DEF Summing, Settles, Fits, countVars
  <2> QED BY <2>4 DEF Modes
<1> QED
  BY <1>1, <1>4, <1>5, <1>6 DEF OrderInv, ModeInv, Modes, Cutting, Crashed

LEMMA UserOrder == ASSUME TypeOK, OrderInv, UserStep PROVE OrderInv'
<1>m. untimely \subseteq untimely'
  BY UntimelyStays DEF Next
<1>1. ReportInv'
  BY ReportStep DEF OrderInv, Next
<1>2. ModeInv'
  BY <1>m, UserModes DEF ModeInv, Orderly
<1>3. ASSUME untimely' = {}
      PROVE  (streamRow' => lastRow' = "stream") /\ streamText' \subseteq {sent'}
  <2>1. untimely = {} /\ sent' = sent
    BY <1>m, <1>3, UserKeeps DEF countVars
  <2>2. CASE UNCHANGED viewVars
    BY <2>1, <2>2 DEF OrderInv, RowInv, viewVars
  <2>3. ASSUME Roam PROVE ~streamRow
    <3>1. Joinable /\ queue = << >>
      BY <1>3, <2>3 DEF Roam, InFlight, Untimely
    <3>2. Modes
      BY <2>1 DEF OrderInv, ModeInv, Orderly
    <3> QED BY <3>1, <3>2 DEF Modes, Idle, AtWork, Cutting, Summing, Crashed, Settles,
           Joinable, EnginePcs
  <2>4. ASSUME Roam, NEW log, Reload(log)
        PROVE  (streamRow' => lastRow' = "stream") /\ streamText' \subseteq {sent'}
    BY <2>3, <2>4 DEF Reload
  <2>5. CASE PressEnter \/ ClickSend \/ ClickStop \/ Quit \/ SaveSettings
             \/ \E full \in BOOLEAN : SetWorkspace(full)
    BY <2>2, <2>5 DEF PressEnter, ClickSend, ClickStop, Quit, SaveSettings, SetWorkspace
  <2>6. CASE \E s \in Sessions : NewSession(s) \/ SwitchSession(s) \/ DeleteOther(s)
                                   \/ DeleteCurrent(s)
    BY <2>4, <2>6 DEF NewSession, SwitchSession, DeleteOther, DeleteCurrent
  <2> QED BY <2>5, <2>6 DEF UserStep, UserOp
<1> QED BY <1>1, <1>2, <1>3 DEF OrderInv, RowInv

LEMMA StutterOrder == ASSUME OrderInv, UNCHANGED vars PROVE OrderInv'
BY DEF vars, uiVars, flagVars, viewVars, workerVars, progressVars, jobVars, storeVars,
   countVars, OrderInv, ModeInv, Modes, RowInv, ReportInv, LastRound, Orderly, Idle,
   AtWork, Cutting, Summing, Crashed, Settles, Fits, Joinable

LEMMA OrderStep == ASSUME TypeOK, StopInside, OrderInv, [Next]_vars PROVE OrderInv'
BY WorkerOrder, DeliverOrder, ResumeOrder, UserOrder, StutterOrder DEF Next, Rest

LEMMA AlwaysStopInside == Spec => []StopInside
<1>1. Init => StopInside
  BY DEF Init, StopInside
<1> QED BY <1>1, StopInsideStep, PTL DEF Spec

\* An orderly chat is idle, at work, about to cut its log, waiting for a summary or
\* gone with one, and never anything in between.
LEMMA AlwaysOrder == Spec => []OrderInv
<1>1. TypeOK /\ StopInside /\ OrderInv /\ [Next]_vars => OrderInv'
  BY OrderStep
<1> QED BY <1>1, InitOrder, ChatTypeOK, AlwaysStopInside, PTL DEF Spec

-----------------------------------------------------------------------------
(* What an orderly chat guarantees                                         *)

\* The access mode of the workspace stays what it is while a run or a summary uses
\* the engine (agent.hpp:78), wherever the user goes meanwhile, until a run is
\* stopped or reports an error before it throws.
THEOREM ChatWorkspaceStill == Spec => WorkspaceStill
<1>1. TypeOK /\ OrderInv /\ [Next]_vars =>
        [Orderly /\ (EngineRuns \/ wpc = "summarize") => UNCHANGED fullAccess]_vars
  <2> SUFFICES ASSUME TypeOK, OrderInv, Next, Orderly, EngineRuns \/ wpc = "summarize"
               PROVE  UNCHANGED fullAccess
    OBVIOUS
  <2>1. AtWork \/ Summing \/ Crashed
    BY DEF EngineRuns, EnginePcs, OrderInv, ModeInv, Modes, Idle, Cutting, Joinable
  <2>2. CASE Worker \/ Deliver \/ Resume
    BY <2>2, WorkerKeeps, DeliverKeeps, ResumeKeeps
  <2>3. CASE UserStep
    <3>1. ASSUME NEW full \in BOOLEAN, SetWorkspace(full) PROVE FALSE
      BY <2>1, <3>1 DEF SetWorkspace, EngineFree, User, AtWork, Summing, Crashed
    <3> QED BY <2>3, <3>1 DEF UserStep, UserOp, PressEnter, ClickSend, ClickStop, Quit,
           SaveSettings, NewSession, SwitchSession, DeleteOther, DeleteCurrent
  <2>4. CASE Rest
    BY <2>4 DEF Rest, vars, configVars
  <2> QED BY <2>2, <2>3, <2>4 DEF Next
<1> QED BY <1>1, AlwaysOrder, ChatTypeOK, PTL DEF Spec, WorkspaceStill

\* The streaming row is the last row whenever a closure replaces the last row
\* in its place, and it shows text of the last message only, as long as nothing
\* untimely happens.
THEOREM ChatStreamRow == Spec => []StreamRow
<1>1. OrderInv => StreamRow
  BY DEF OrderInv, RowInv, StreamRow
<1> QED BY <1>1, AlwaysOrder, PTL

\* A summary finds the messages it was made from still at the head of the log, as
\* long as nothing untimely happens.
THEOREM ChatSummaryFits == Spec => []SummaryFits
<1>1. ASSUME TypeOK, OrderInv PROVE SummaryFits
  <2> SUFFICES ASSUME untimely = {}, NEW i \in DOMAIN queue, queue[i].op = "compacted"
               PROVE  Fits(queue[i].prefix)
    BY DEF SummaryFits, Fits
  <2>1. queue # << >>
    OBVIOUS
  <2>2. Summing
    BY <1>1, <2>1 DEF OrderInv, ModeInv, Modes, Orderly, Idle, Cutting, Crashed, AtWork,
       Chatter, Ends
  <2>3. Len(queue) = 1 /\ Fits(queue[1].prefix)
    BY <2>1, <2>2 DEF Summing
  <2>4. i = 1
    BY <1>1, <2>3 DEF TypeOK
  <2> QED BY <2>3, <2>4
<1> QED BY <1>1, AlwaysOrder, ChatTypeOK, PTL

\* The safety of turn taking: every step takes a message when none is open, settles
\* the open one, leaves both counts as they are, or ends the order.
THEOREM ChatTakesTurns == Spec => Turns!Init /\ [][Turns!Next]_Turns!vars
<1>1. Init => Turns!Init
  BY DEF Init, Turns!Init, Orderly
<1>2. TypeOK /\ OrderInv /\ [Next]_vars => [Turns!Next]_Turns!vars
  <2> SUFFICES ASSUME TypeOK, OrderInv, [Next]_vars PROVE [Turns!Next]_Turns!vars
    OBVIOUS
  <2>t. sent \in Nat /\ settled \in Nat
    BY DEF TypeOK
  <2>m. ~Orderly => ~Orderly'
    BY UntimelyStays DEF Orderly
  <2>1. CASE Worker \/ UserStep \/ UNCHANGED vars
    <3>1. UNCHANGED <<sent, settled>>
      BY <2>1, WorkerKeeps, UserKeeps DEF countVars, vars
    <3>2. Orderly \in BOOLEAN /\ Orderly' \in BOOLEAN
      BY DEF Orderly
    <3>3. Orderly' = Orderly \/ Orderly' = FALSE
      BY <2>m, <3>2
    <3> QED BY <3>1, <3>3 DEF Turns!Next, Turns!Disturb, Turns!vars
  <2>2. CASE Deliver
    <3>1. UNCHANGED <<sent, untimely>> /\ Orderly' = Orderly
      BY <2>2, DeliverKeeps DEF Orderly
    <3>2. settled' \in {settled, settled + 1}
      BY <2>2 DEF Deliver, DeliverStep, DeliverDelta, DeliverTool, DeliverApprove,
         DeliverSuccess, DeliverError, DeliverNoSummary, DeliverSummary
    <3>3. CASE ~Orderly
      BY <3>1, <3>2, <3>3 DEF Turns!Next, Turns!Disorder, Turns!vars
    <3>4. CASE Orderly
      <4>1. settled' = settled \/ AtWork
        BY <2>2, <3>4, DeliverMode, SummaryOrder
      <4>2. AtWork => settled < sent
        BY <2>t DEF AtWork
      <4> QED
        BY <3>1, <3>2, <3>4, <4>1, <4>2 DEF Turns!Next, Turns!Settle, Turns!vars
    <3> QED BY <3>3, <3>4
  <2>3. CASE Resume
    <3>1. UNCHANGED <<settled, untimely>> /\ Orderly' = Orderly
      BY <2>3, ResumeKeeps DEF Orderly
    <3>2. CASE ~StartRun
      BY <2>3, <3>1, <3>2, ResumeKeeps DEF Turns!vars
    <3>3. CASE StartRun
      <4>1. sent' = sent + 1 /\ uiPc \in {"send", "clickSend"}
        BY <3>3 DEF StartRun
      <4>2. CASE ~Orderly
        BY <3>1, <4>1, <4>2 DEF Turns!Next, Turns!Disorder, Turns!vars
      <4>3. CASE Orderly
        <5>1. Idle /\ uiPc = "send"
          BY <4>1, <4>3 DEF OrderInv, ModeInv, Modes, Idle, AtWork, Cutting, Summing,
             Crashed
        <5>2. sent = settled /\ sent < MaxSends
          BY <5>1 DEF Idle, Settles
        <5> QED BY <3>1, <4>1, <4>3, <5>2 DEF Turns!Next, Turns!Ask
      <4> QED BY <4>2, <4>3
    <3> QED BY <3>2, <3>3
  <2> QED BY <2>1, <2>2, <2>3 DEF Next, Rest
<1> QED BY <1>1, <1>2, AlwaysOrder, ChatTypeOK, PTL DEF Spec
=============================================================================
