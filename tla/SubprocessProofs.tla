-------------------------- MODULE SubprocessProofs --------------------------
(***************************************************************************)
(* What a command run by a tool guarantees for every amount of output,     *)
(* every size of the pipe and every number of reads.                       *)
(***************************************************************************)
EXTENDS Subprocess, SequenceTheorems, TLAPS

-----------------------------------------------------------------------------
(* The inductive invariant                                                 *)

\* Each caller keeps to its part of the program.
Modal ==
  /\ mode = "sync" => pc \in SyncPcs \cup {"kill", "close", "join", "done"}
  /\ mode = "background" => pc \in BackgroundPcs \cup {"kill", "close", "join", "done"}

\* The read end is open until the caller closes it.
Open == pc \notin {"join", "done"} => fd

\* Whoever may still send a signal has not waited for the shell.
Unreaped ==
  /\ mode = "sync" /\ pc \in {"poll", "check", "kill", "reap"} => shell # "reaped"
  /\ mode = "background" /\ (running \/ pc = "kill") => shell # "reaped"

\* A shell that runs and has not given its output away is known to run.
Known ==
  mode = "background" /\ shellOut /\ shell = "running" =>
    running /\ pc \notin {"close", "join", "done"}

All == [i \in 1..written |-> i]
Got == taken \o (buffer \o carried)

\* Every chunk is in exactly one place.
Accounted ==
  /\ Got \o pipe = All
  /\ reader # "append" => carried = << >>
  /\ mode = "sync" /\ pc # "done" => taken = << >>

IInv == TypeOK /\ Modal /\ Open /\ Unreaped /\ Known /\ Accounted

\* The type invariant in two parts, which the provers treat apart.
NumberTypes ==
  /\ code \in {0, 1, -1} /\ exitCode \in {0, 1, -1}
  /\ written \in 0..MaxChunks /\ reads \in Nat
  /\ report \in Reports

PlainTypes ==
  /\ mode \in {"sync", "background"}
  /\ shell \in {"running", "dying", "zombie", "reaped"}
  /\ shellOut \in BOOLEAN /\ child \in {"none", "running", "ended"}
  /\ pipe \in Chunks /\ carried \in Chunks /\ buffer \in Chunks /\ taken \in Chunks
  /\ fd \in BOOLEAN /\ late \in BOOLEAN
  /\ reader \in {"call", "blocked", "append", "ended"}
  /\ pc \in Pcs
  /\ running \in BOOLEAN /\ closed \in BOOLEAN /\ timedOut \in BOOLEAN

-----------------------------------------------------------------------------
(* Lemmas                                                                  *)

LEMMA TypeParts == TypeOK <=> NumberTypes /\ PlainTypes
BY DEF TypeOK, NumberTypes, PlainTypes

LEMMA TypePartsNext == TypeOK' <=> NumberTypes' /\ PlainTypes'
BY DEF TypeOK, NumberTypes, PlainTypes

LEMMA PrefixOfConcat ==
  ASSUME NEW S, NEW p \in Seq(S), NEW q \in Seq(S)
  PROVE  IsPrefix(p, p \o q)
<1>1. p \o q \in Seq(S) /\ Len(p \o q) = Len(p) + Len(q) /\ Len(p) \in Nat /\ Len(q) \in Nat
  BY ConcatProperties, LenProperties
<1>2. CASE p = << >>
  BY <1>1, <1>2, SubSeqEmpty DEF IsPrefix
<1>3. CASE p # << >>
  <2>1. 1 \in 1..Len(p) /\ Len(p) \in 1..Len(p)
    BY <1>1, <1>3, EmptySeq
  <2> QED BY <1>1, <2>1, SubSeqOfConcat1 DEF IsPrefix
<1> QED BY <1>2, <1>3

LEMMA AllType ==
  ASSUME NEW n \in 0..MaxChunks
  PROVE  [i \in 1..n |-> i] \in Chunks /\ Len([i \in 1..n |-> i]) = n
<1>1. n \in Nat /\ MaxChunks \in Nat /\ n <= MaxChunks
  BY SubprocessAssumption
<1>2. \A i \in 1..n : i \in 1..MaxChunks
  BY <1>1
<1>3. [i \in 1..n |-> i] \in Seq(1..MaxChunks)
  BY <1>1, <1>2, IsASeq
<1> QED BY <1>1, <1>3, LenProperties DEF Chunks

LEMMA Associative ==
  ASSUME NEW r \in Chunks, NEW s \in Chunks, NEW t \in Chunks
  PROVE  (r \o s) \o t = r \o (s \o t)
BY ConcatAssociative DEF Chunks

\* The next chunk continues the output.
LEMMA AllGrows ==
  ASSUME NEW n \in 0..MaxChunks, n < MaxChunks
  PROVE  [i \in 1..(n + 1) |-> i] = Append([i \in 1..n |-> i], n + 1)
<1>1. n \in Nat /\ MaxChunks \in Nat /\ n + 1 \in 0..MaxChunks /\ n + 1 \in 1..MaxChunks
  BY SubprocessAssumption
<1> DEFINE a == [i \in 1..n |-> i]
           b == [i \in 1..(n + 1) |-> i]
<1>2. /\ a \in Seq(1..MaxChunks) /\ Len(a) = n
      /\ b \in Seq(1..MaxChunks) /\ Len(b) = n + 1
  BY <1>1, AllType DEF Chunks
<1>3. (\A i \in 1..n : a[i] = i) /\ (\A i \in 1..(n + 1) : b[i] = i)
  OBVIOUS
<1> HIDE DEF a, b
<1>4. /\ Append(a, n + 1) \in Seq(1..MaxChunks)
      /\ Len(Append(a, n + 1)) = n + 1
      /\ \A i \in 1..n : Append(a, n + 1)[i] = a[i]
      /\ Append(a, n + 1)[n + 1] = n + 1
  BY <1>1, <1>2, AppendProperties
<1>5. \A i \in 1..(n + 1) : i \in 1..n \/ i = n + 1
  BY <1>1
<1>6. \A i \in 1..(n + 1) : b[i] = Append(a, n + 1)[i]
  BY <1>3, <1>4, <1>5
<1>7. b = Append(a, n + 1)
  BY <1>2, <1>4, <1>6, SeqEqual
<1> QED BY <1>7 DEF a, b

LEMMA ConcatType ==
  ASSUME NEW s \in Chunks, NEW t \in Chunks
  PROVE  s \o t \in Chunks
BY ConcatProperties DEF Chunks

LEMMA ConcatEmpty ==
  ASSUME NEW s \in Chunks
  PROVE  << >> \in Chunks /\ s \o << >> = s /\ << >> \o s = s
BY EmptySeq, ConcatEmptySeq DEF Chunks

\* Chunks move from the pipe to the reader, ...
LEMMA MoveRead ==
  ASSUME NEW t \in Chunks, NEW b \in Chunks, NEW p \in Chunks
  PROVE  (t \o (b \o << >>)) \o p = (t \o (b \o p)) \o << >>
<1>1. b \o p \in Chunks /\ t \o (b \o p) \in Chunks
  BY ConcatType
<1>2. b \o << >> = b /\ (t \o (b \o p)) \o << >> = t \o (b \o p)
  BY <1>1, ConcatEmpty
<1>3. (t \o b) \o p = t \o (b \o p)
  BY Associative
<1> QED BY <1>2, <1>3

\* ... to the buffer ...
LEMMA MoveAppend ==
  ASSUME NEW t \in Chunks, NEW b \in Chunks, NEW c \in Chunks
  PROVE  b \o c \in Chunks /\ t \o ((b \o c) \o << >>) = t \o (b \o c)
<1>1. b \o c \in Chunks
  BY ConcatType
<1>2. (b \o c) \o << >> = b \o c
  BY <1>1, ConcatEmpty
<1> QED BY <1>1, <1>2

\* ... and out.
LEMMA MoveAll ==
  ASSUME NEW b \in Chunks
  PROVE  b \o (<< >> \o << >>) = << >> \o (b \o << >>)
<1>1. << >> \in Chunks /\ b \o << >> = b /\ << >> \o b = b
  BY ConcatEmpty
<1>2. << >> \o << >> = << >>
  BY <1>1, ConcatEmpty
<1> QED BY <1>1, <1>2

LEMMA GotType ==
  ASSUME TypeOK
  PROVE  Got \in Chunks
<1>1. taken \in Chunks /\ buffer \in Chunks /\ carried \in Chunks
  BY DEF TypeOK
<1>2. buffer \o carried \in Chunks
  BY <1>1, ConcatType
<1> QED BY <1>1, <1>2, ConcatType DEF Got

-----------------------------------------------------------------------------
(* The steps                                                               *)

LEMMA SystemStep == ASSUME IInv, System PROVE IInv'
<1> USE SubprocessAssumption DEF IInv, System, readerVars, handleVars, resultVars
<1>1. CASE WriteChunk
  <2> USE <1>1 DEF WriteChunk
  <2>1. /\ written \in Nat /\ MaxChunks \in Nat /\ written' = written + 1
        /\ written + 1 \in 1..MaxChunks /\ written' \in 0..MaxChunks
    BY DEF TypeOK
  <2>2. pipe' = Append(pipe, written + 1)
    OBVIOUS
  <2>3. pipe \in Seq(1..MaxChunks) /\ Got \in Seq(1..MaxChunks)
    BY GotType DEF TypeOK, Chunks
  <2>4. pipe' \in Chunks
    BY <2>1, <2>2, <2>3, AppendProperties DEF Chunks
  <2>5. TypeOK'
    BY <2>1, <2>4 DEF TypeOK
  <2>6. Modal' /\ Open' /\ Unreaped' /\ Known'
    BY DEF Modal, Open, Unreaped, Known
  <2>7. All' = Append(All, written + 1)
    BY <2>1, AllGrows DEF TypeOK, All
  <2>8. Got \o Append(pipe, written + 1) = Append(Got \o pipe, written + 1)
    <3>1. << written + 1 >> \in Seq(1..MaxChunks)
      BY <2>1
    <3>2. Append(pipe, written + 1) = pipe \o << written + 1 >>
      BY <2>1, <2>3, AppendIsConcat
    <3>3. Got \o pipe \in Seq(1..MaxChunks)
      BY <2>3, ConcatProperties
    <3>4. Append(Got \o pipe, written + 1) = (Got \o pipe) \o << written + 1 >>
      BY <2>1, <3>3, AppendIsConcat
    <3>5. (Got \o pipe) \o << written + 1 >> = Got \o (pipe \o << written + 1 >>)
      BY <2>3, <3>1, Associative DEF Chunks
    <3> QED BY <3>2, <3>4, <3>5
  <2>9. Got' = Got
    BY DEF Got
  <2>10. Accounted'
    BY <2>2, <2>7, <2>8, <2>9 DEF Accounted
  <2> QED BY <2>5, <2>6, <2>10
<1>2. CASE BrokenPipe \/ Fork \/ Redirect \/ ChildEnds \/ TimePasses
  <2> USE <1>2 DEF BrokenPipe, Fork, Redirect, ChildEnds, TimePasses, osVars, pipeVars
  <2>1. TypeOK'
    <3>1. NumberTypes'
      BY TypeParts DEF NumberTypes
    <3>2. /\ child' \in {child, "running", "ended"}
          /\ UNCHANGED <<mode, shell, pipe, fd, reader, carried, buffer, pc, running,
                         closed, timedOut, taken>>
      OBVIOUS
    <3>3. shellOut' \in BOOLEAN
      BY TypeParts DEF PlainTypes
    <3>4. late' \in BOOLEAN
      BY TypeParts DEF PlainTypes
    <3>5. PlainTypes'
      BY <3>2, <3>3, <3>4, TypeParts DEF PlainTypes
    <3> QED BY <3>1, <3>5, TypePartsNext
  <2>2. Modal' /\ Open' /\ Unreaped' /\ Known'
    BY DEF Modal, Open, Unreaped, Known
  <2>3. Accounted'
    BY DEF Accounted, Got, All
  <2> QED BY <2>1, <2>2, <2>3
<1>3. CASE Die \/ \E c \in {0, 1} : Exit(c)
  <2>1. /\ shell' = "zombie" /\ code' \in {0, 1, -1} /\ shell \in {"running", "dying"}
        /\ UNCHANGED <<mode, shellOut, child, written, pipe, fd, late, reader, carried,
                       buffer, pc, running, exitCode, closed, timedOut, report, taken, reads>>
    BY <1>3 DEF Die, Exit, pipeVars
  <2>2. TypeOK'
    <3>1. NumberTypes'
      BY <2>1, TypeParts DEF NumberTypes
    <3>2. PlainTypes'
      BY <2>1, TypeParts DEF PlainTypes
    <3> QED BY <3>1, <3>2, TypePartsNext
  <2>3. Modal' /\ Open' /\ Unreaped' /\ Known'
    BY <2>1 DEF Modal, Open, Unreaped, Known
  <2>4. Accounted'
    BY <2>1 DEF Accounted, Got, All
  <2> QED BY <2>2, <2>3, <2>4
<1> QED BY <1>1, <1>2, <1>3

LEMMA ReaderStep == ASSUME IInv, Reader PROVE IInv'
<1> USE DEF IInv, Reader, osVars, resultVars
<1>1. taken \in Chunks /\ buffer \in Chunks /\ carried \in Chunks /\ pipe \in Chunks
  BY DEF TypeOK
<1>2. << >> \in Chunks
  BY EmptySeq DEF Chunks
<1>3. Modal' /\ Open'
  BY DEF Modal, Open
<1>4. CASE CallRead
  <2>1. TypeOK'
    <3>1. NumberTypes'
      BY <1>4, TypeParts DEF NumberTypes, CallRead
    <3>2. PlainTypes'
      BY <1>4, TypeParts DEF PlainTypes, CallRead
    <3> QED BY <3>1, <3>2, TypePartsNext
  <2>2. Unreaped' /\ Known'
    BY <1>4 DEF Unreaped, Known, Open, CallRead
  <2>3. Accounted'
    BY <1>4 DEF Accounted, Got, All, CallRead
  <2> QED BY <1>3, <2>1, <2>2, <2>3
<1>5. CASE ReadReturns
  <2>1. TypeOK'
    BY <1>2, <1>5 DEF TypeOK, ReadReturns
  <2>2. Unreaped' /\ Known'
    BY <1>5 DEF Unreaped, Known, ReadReturns
  <2>3. Got' \o pipe' = Got \o pipe
    <3>1. /\ carried = << >> /\ carried' = pipe /\ pipe' = << >>
          /\ taken' = taken /\ buffer' = buffer
      BY <1>5 DEF Accounted, ReadReturns
    <3>2. (taken \o (buffer \o << >>)) \o pipe = (taken \o (buffer \o pipe)) \o << >>
      BY <1>1, MoveRead
    <3> QED BY <3>1, <3>2 DEF Got
  <2>4. Accounted'
    BY <1>5, <2>3 DEF Accounted, All, ReadReturns
  <2> QED BY <1>3, <2>1, <2>2, <2>4
<1>6. CASE ReadEnds
  <2>1. TypeOK'
    <3>1. NumberTypes'
      BY <1>6, TypeParts DEF NumberTypes, ReadEnds
    <3>2. PlainTypes'
      BY <1>6, TypeParts DEF PlainTypes, ReadEnds
    <3> QED BY <3>1, <3>2, TypePartsNext
  <2>2. Unreaped' /\ Known'
    BY <1>6 DEF Unreaped, Known, ReadEnds, Writers
  <2>3. Accounted'
    BY <1>6 DEF Accounted, Got, All, ReadEnds
  <2> QED BY <1>3, <2>1, <2>2, <2>3
<1>7. CASE AppendRead
  <2>1. buffer' = buffer \o carried /\ buffer' \in Chunks
    BY <1>1, <1>7, MoveAppend DEF AppendRead
  <2>2. TypeOK'
    BY <1>2, <1>7, <2>1 DEF TypeOK, AppendRead
  <2>3. Unreaped' /\ Known'
    BY <1>7 DEF Unreaped, Known, AppendRead
  <2>4. Got' = Got
    <3>1. taken \o ((buffer \o carried) \o << >>) = taken \o (buffer \o carried)
      BY <1>1, MoveAppend
    <3> QED BY <1>7, <3>1 DEF Got, AppendRead
  <2>5. Accounted'
    BY <1>7, <2>4 DEF Accounted, All, AppendRead
  <2> QED BY <1>3, <2>2, <2>3, <2>5
<1> QED BY <1>4, <1>5, <1>6, <1>7

LEMMA RunSyncStep == ASSUME IInv, RunSync PROVE IInv'
<1> USE DEF IInv, RunSync, PollReaps, PollFindsNone, NotYet, TooLate, ReapKilled,
            pipeVars, readerVars, handleVars
<1>1. TypeOK'
  <2>1. NumberTypes'
    BY TypeParts DEF NumberTypes
  <2>2. /\ pc' \in SyncPcs \cup {"kill", "close"} /\ shell' \in {shell, "reaped"}
        /\ UNCHANGED <<mode, shellOut, child, pipe, fd, late, reader, carried, buffer,
                       running, closed, taken>>
    BY DEF SyncPcs
  <2>3. timedOut' \in BOOLEAN
    BY TypeParts DEF PlainTypes
  <2>4. PlainTypes'
    BY <2>2, <2>3, TypeParts DEF PlainTypes, Pcs
  <2> QED BY <2>1, <2>4, TypePartsNext
<1>2. mode = "sync"
  BY DEF TypeOK, Modal, BackgroundPcs
<1>3. Modal' /\ Open'
  BY <1>2 DEF Modal, Open, SyncPcs
<1>4. Unreaped' /\ Known'
  BY <1>2 DEF Unreaped, Known
<1>5. Accounted'
  BY DEF Accounted, Got, All
<1> QED BY <1>1, <1>3, <1>4, <1>5

LEMMA BackgroundStep == ASSUME IInv, Background PROVE IInv'
<1> USE DEF IInv, Background, pipeVars, readerVars
<1>1. mode = "background" /\ pc \notin {"join", "done"}
  BY DEF TypeOK, Modal, SyncPcs, TakeOutput, TellRunning, TellCode, KillProcess, TryKill, Closing
<1>2. CASE TakeOutput
  <2>1. taken \in Chunks /\ buffer \in Chunks /\ carried \in Chunks /\ << >> \in Chunks
    BY EmptySeq DEF TypeOK, Chunks
  <2>2. << >> \o carried = carried /\ (taken \o buffer) \o carried = taken \o (buffer \o carried)
    BY <2>1, ConcatEmpty, Associative
  <2>3. /\ pc = "idle" /\ pc' = "status" /\ reads' = reads + 1
        /\ taken' = taken \o buffer /\ buffer' = << >>
        /\ UNCHANGED <<mode, shell, shellOut, child, code, written, pipe, fd, late, reader,
                       carried, running, exitCode, closed, timedOut, report>>
    BY <1>2 DEF TakeOutput, osVars
  <2>4. taken' \in Chunks /\ buffer' \in Chunks /\ Got' = Got
    BY <2>1, <2>2, <2>3, ConcatType DEF Got
  <2>5. TypeOK'
    BY <2>3, <2>4 DEF TypeOK, Pcs, BackgroundPcs
  <2>6. Modal' /\ Open' /\ Unreaped' /\ Known'
    <3>1. Modal' /\ Open'
      BY <1>1, <2>3 DEF Modal, Open, BackgroundPcs
    <3>2. Unreaped'
      BY <1>1, <2>3 DEF Unreaped
    <3>3. Known'
      BY <1>1, <2>3 DEF Known
    <3> QED BY <3>1, <3>2, <3>3
  <2>7. Accounted'
    BY <1>1, <2>3, <2>4 DEF Accounted, All
  <2> QED BY <2>5, <2>6, <2>7
<1>3. CASE TellRunning \/ TellCode \/ KillProcess \/ TryKill \/ Closing
  <2>1. /\ UNCHANGED <<mode, shellOut, child, code, written, pipe, fd, late, reader,
                       carried, buffer, timedOut, taken, reads>>
        /\ pc' \in BackgroundPcs \cup {"kill", "close"}
        /\ \/ UNCHANGED <<shell, exitCode, running>>
           \/ /\ shell = "zombie" /\ shell' = "reaped"
              /\ exitCode' = code /\ running' = FALSE
    <3>1. UNCHANGED <<mode, shellOut, child, code, written, pipe, fd, late, reader,
                      carried, buffer, timedOut, taken, reads>>
      BY <1>3 DEF TellRunning, TellCode, KillProcess, TryKill, Closing
    <3>2. pc' \in BackgroundPcs \cup {"kill", "close"}
      BY <1>3 DEF TellRunning, TellCode, KillProcess, TryKill, Closing, BackgroundPcs
    <3>3. CASE KillProcess
      BY <3>1, <3>2, <3>3 DEF KillProcess
    <3>4. CASE TellRunning \/ TellCode \/ TryKill \/ Closing
      BY <3>1, <3>2, <3>4 DEF TellRunning, TellCode, TryKill, Closing, BgRunning
    <3> QED BY <1>3, <3>3, <3>4
  <2>2. closed' \in {closed, TRUE}
    BY <1>3 DEF TellRunning, TellCode, KillProcess, TryKill, Closing
  <2>3. report' \in Reports
    <3>1. report \in Reports /\ exitCode' \in {0, 1, -1}
      BY <2>1, TypeParts DEF NumberTypes
    <3>2. report.running \in BOOLEAN /\ Finds \in BOOLEAN
      BY <3>1, TypeParts DEF PlainTypes, Reports, Finds
    <3>3. CASE TellRunning
      BY <3>2, <3>3 DEF TellRunning, Report, Reports
    <3>4. CASE TellCode
      BY <3>1, <3>2, <3>4 DEF TellCode, Report, Reports
    <3>5. CASE KillProcess \/ TryKill \/ Closing
      BY <3>1, <3>5 DEF KillProcess, TryKill, Closing
    <3> QED BY <1>3, <3>3, <3>4, <3>5
  <2>4. TypeOK'
    <3>1. NumberTypes'
      BY <2>1, <2>3, TypeParts DEF NumberTypes
    <3>2. PlainTypes'
      BY <2>1, <2>2, TypeParts DEF PlainTypes, Pcs
    <3> QED BY <3>1, <3>2, TypePartsNext
  <2>5. Modal' /\ Open'
    BY <1>1, <2>1 DEF Modal, Open
  <2>6. pc' \in {"kill", "close"} =>
          \/ pc' = "kill" /\ running /\ shell' = shell
          \/ pc' = "close" /\ ~Finds
    BY <1>3 DEF TellRunning, TellCode, KillProcess, TryKill, Closing, Finds, BgRunning
  <2>7. Unreaped'
    BY <1>1, <2>1, <2>6 DEF Unreaped
  <2>8. Known'
    BY <1>1, <2>1, <2>6 DEF Known, Finds, BackgroundPcs
  <2>9. Accounted'
    BY <1>1, <2>1 DEF Accounted, Got, All
  <2> QED BY <2>4, <2>5, <2>7, <2>8, <2>9
<1> QED BY <1>2, <1>3

LEMMA FinishStep == ASSUME IInv, Finish PROVE IInv'
<1> USE DEF IInv, Finish, readerVars, handleVars
<1>1. CASE Kill
  <2> USE <1>1 DEF Kill
  <2>1. TypeOK'
    BY DEF TypeOK, Pcs, SyncPcs, BackgroundPcs
  <2>2. Modal' /\ Open'
    BY DEF TypeOK, Modal, Open, SyncPcs, BackgroundPcs
  <2>3. Unreaped' /\ Known'
    BY DEF TypeOK, Unreaped, Known
  <2>4. Accounted'
    BY DEF TypeOK, Accounted, Got, All
  <2> QED BY <2>1, <2>2, <2>3, <2>4
<1>2. CASE Close
  <2> USE <1>2 DEF Close
  <2>1. TypeOK'
    <3>1. NumberTypes'
      BY TypeParts DEF NumberTypes
    <3>2. PlainTypes'
      BY TypeParts DEF PlainTypes, Pcs
    <3> QED BY <3>1, <3>2, TypePartsNext
  <2>2. Modal' /\ Open' /\ Unreaped' /\ Known'
    BY DEF Modal, Open, Unreaped, Known
  <2>3. Accounted'
    BY DEF Accounted, Got, All
  <2> QED BY <2>1, <2>2, <2>3
<1>3. CASE Join
  <2> USE <1>3 DEF Join
  <2>1. << >> \in Chunks /\ buffer \in Chunks /\ carried = << >>
    BY EmptySeq DEF TypeOK, Chunks, Accounted
  <2>2. TypeOK'
    <3>1. timedOut \in BOOLEAN /\ report \in Reports /\ code \in {0, 1, -1}
      BY DEF TypeOK
    <3>2. /\ UNCHANGED <<code, exitCode, written, reads>>
          /\ \/ report' = Report(FALSE, IF timedOut THEN -1 ELSE code, timedOut)
             \/ report' = report
      OBVIOUS
    <3>3. Report(FALSE, IF timedOut THEN -1 ELSE code, timedOut) \in Reports
      BY <3>1 DEF Report, Reports
    <3>4. NumberTypes'
      BY <3>1, <3>2, <3>3, TypeParts DEF NumberTypes
    <3>5. PlainTypes'
      BY <2>1, TypeParts DEF PlainTypes, Pcs
    <3> QED BY <3>4, <3>5, TypePartsNext
  <2>3. Modal' /\ Open' /\ Unreaped' /\ Known'
    BY DEF Modal, Open, Unreaped, Known
  <2>4. Got' = Got
    <3>1. CASE mode = "sync"
      <4>1. buffer \o (<< >> \o << >>) = << >> \o (buffer \o << >>)
        BY <2>1, MoveAll
      <4>2. taken = << >> /\ taken' = buffer /\ buffer' = << >> /\ carried' = << >>
        BY <2>1, <3>1 DEF Accounted
      <4> QED BY <2>1, <4>1, <4>2 DEF Got
    <3>2. CASE mode # "sync"
      BY <3>2 DEF Got
    <3> QED BY <3>1, <3>2
  <2>5. Accounted'
    BY <2>1, <2>4 DEF Accounted, All
  <2> QED BY <2>2, <2>3, <2>5
<1> QED BY <1>1, <1>2, <1>3

-----------------------------------------------------------------------------
(* The theorems                                                            *)

LEMMA Base == ASSUME Init PROVE IInv
<1> USE SubprocessAssumption DEF Init
<1>1. << >> \in Chunks
  BY EmptySeq DEF Chunks
<1>2. TypeOK
  <2>1. NumberTypes
    BY DEF NumberTypes, Report, Reports
  <2>2. PlainTypes
    BY <1>1 DEF PlainTypes, Pcs, SyncPcs, BackgroundPcs
  <2> QED BY <2>1, <2>2, TypeParts
<1>3. Modal /\ Open /\ Unreaped /\ Known
  BY DEF Modal, Open, Unreaped, Known, SyncPcs, BackgroundPcs
<1>4. Accounted
  <2>1. All = << >>
    BY DEF All
  <2>2. << >> \o << >> = << >>
    BY <1>1, ConcatEmptySeq DEF Chunks
  <2> QED BY <2>1, <2>2 DEF Accounted, Got
<1> QED BY <1>2, <1>3, <1>4 DEF IInv

LEMMA Stutter == ASSUME IInv, UNCHANGED vars PROVE IInv'
<1> USE DEF vars, osVars, pipeVars, readerVars, handleVars, resultVars
<1>1. TypeOK' /\ Modal' /\ Open' /\ Unreaped' /\ Known'
  BY DEF IInv, TypeOK, Modal, Open, Unreaped, Known
<1>2. Accounted'
  BY DEF IInv, Accounted, Got, All
<1> QED BY <1>1, <1>2 DEF IInv

THEOREM ProcessInvariant == Spec => []IInv
<1>1. Init => IInv
  BY Base
<1>2. IInv /\ [Next]_vars => IInv'
  BY Stutter, SystemStep, ReaderStep, RunSyncStep, BackgroundStep, FinishStep
     DEF Next, Caller, Rest
<1> QED BY <1>1, <1>2, PTL DEF Spec

\* Every variable keeps its type.
THEOREM ProcessTypeOK == Spec => []TypeOK
<1>1. IInv => TypeOK
  BY DEF IInv
<1> QED BY <1>1, ProcessInvariant, PTL

\* No signal is sent to a process id behind the waitpid that frees it (the loop
\* of run_sync, bg_kill), and kill_process leaves no shell running that still
\* has the pipe as its output.
THEOREM ProcessKillsOwn == Spec => []KillsOwn
<1>1. IInv => SignalsOwn
  BY DEF IInv, SignalsOwn, Unreaped, TypeOK
<1>2. IInv => KillEnds
  BY DEF IInv, KillEnds, Known
<1>3. IInv => KillsOwn
  BY <1>1, <1>2 DEF KillsOwn
<1> QED BY <1>3, ProcessInvariant, PTL

\* Output is handed out once, in order and without gaps (bg_reader, bg_read,
\* the reader of run_sync).
THEOREM ProcessOutputOnce == Spec => []OutputOnce
<1>1. ASSUME IInv PROVE OutputOnce
  <2>1. taken \in Chunks /\ buffer \in Chunks /\ carried \in Chunks /\ pipe \in Chunks
    BY <1>1 DEF IInv, TypeOK
  <2>2. (taken \o buffer) \o carried = Got
    BY <2>1, Associative DEF Got
  <2>3. Got \in Seq(1..MaxChunks)
    BY <1>1, GotType DEF IInv, Chunks
  <2>4. Got \o pipe = All
    BY <1>1 DEF IInv, Accounted
  <2>5. IsPrefix(Got, All)
    BY <2>1, <2>3, <2>4, PrefixOfConcat DEF Chunks
  <2> QED BY <2>2, <2>4, <2>5 DEF OutputOnce, All
<1> QED BY <1>1, ProcessInvariant, PTL

-----------------------------------------------------------------------------
(* The exit code                                                           *)

\* Who finds the shell ended takes its code; who does not has the 0 it began
\* with, and then it was the reader that cleared running.  A report that the
\* process is over was made behind that.
Coded ==
  mode = "background" =>
    /\ running => exitCode = 0
    /\ ~running => \/ shell = "reaped" /\ exitCode = code
                   \/ shell # "reaped" /\ exitCode = 0 /\ reader = "ended"
    /\ ~report.running /\ pc \in {"idle", "code"} => ~running
    /\ ~report.running /\ pc = "idle" => report.exit = exitCode

LEMMA CodedStep == ASSUME IInv, Coded, [Next]_vars PROVE Coded'
<1> USE DEF IInv
<1>1. CASE mode = "sync"
  BY <1>1 DEF Next, vars, System, Reader, Caller, RunSync, Background, Finish, Rest, Coded
<1>2. CASE mode = "background"
  <2> USE <1>2
  <2>1. /\ mode' = mode /\ running \in BOOLEAN /\ (running => shell # "reaped")
        /\ report \in Reports
    BY DEF Next, vars, System, Reader, Caller, RunSync, Background, Finish, Rest,
           TypeOK, Unreaped
  <2>2. CASE Rest \/ UNCHANGED vars
    BY <2>1, <2>2 DEF Rest, vars, osVars, readerVars, handleVars, resultVars, Coded
  <2>3. CASE System
    <3>1. UNCHANGED <<reader, pc, running, exitCode, report>>
      BY <2>3 DEF System, readerVars, handleVars, resultVars
    <3>2. (shell' = "reaped") <=> (shell = "reaped")
      BY <2>3 DEF System, WriteChunk, BrokenPipe, Fork, Redirect, ChildEnds, Die,
                  TimePasses, Exit, osVars
    <3>3. shell = "reaped" => code' = code
      BY <2>3 DEF System, WriteChunk, BrokenPipe, Fork, Redirect, ChildEnds, Die,
                  TimePasses, Exit, osVars
    <3> QED BY <2>1, <3>1, <3>2, <3>3 DEF Coded
  <2>4. CASE Reader
    <3>1. UNCHANGED <<shell, code, pc, exitCode, report>>
      BY <2>4 DEF Reader, osVars, resultVars
    <3>2. \/ running' = running /\ (reader = "ended" => reader' = "ended")
          \/ running' = FALSE /\ reader' = "ended"
      BY <2>4 DEF Reader, CallRead, ReadReturns, ReadEnds, AppendRead
    <3> QED BY <2>1, <3>1, <3>2 DEF Coded
  <2>5. CASE RunSync
    BY <2>5 DEF RunSync, PollReaps, PollFindsNone, NotYet, TooLate, ReapKilled, Modal,
                BackgroundPcs
  <2>6. CASE Background
    <3>1. UNCHANGED <<code, reader>>
      BY <2>6 DEF Background, readerVars
    <3>2. \/ UNCHANGED <<shell, exitCode, running>>
          \/ /\ running /\ shell = "zombie" /\ shell' = "reaped"
             /\ exitCode' = code /\ running' = FALSE
      BY <2>6 DEF Background, TakeOutput, TellRunning, TellCode, KillProcess, TryKill,
                  Closing, BgRunning
    <3>3. CASE TellRunning
      <4>1. report' = Report(Finds, 0, FALSE) /\ pc' = "code" /\ (~Finds => ~running')
        BY <2>1, <3>3 DEF TellRunning, BgRunning, Finds
      <4>2. report'.running = Finds
        BY <4>1 DEF Report
      <4> QED BY <2>1, <3>1, <3>2, <4>1, <4>2 DEF Coded
    <3>4. CASE TellCode
      <4>1. /\ report' = Report(report.running, IF Finds THEN 0 ELSE exitCode', FALSE)
            /\ pc = "code" /\ pc' = "idle"
        BY <3>4 DEF TellCode
      <4>2. report'.running = report.running
            /\ report'.exit = IF Finds THEN 0 ELSE exitCode'
        BY <4>1 DEF Report
      <4>3. ~report.running => ~running /\ ~Finds
        BY <4>1 DEF Coded, Finds
      <4> QED BY <2>1, <3>1, <3>2, <4>1, <4>2, <4>3 DEF Coded
    <3>5. CASE TakeOutput \/ KillProcess \/ TryKill \/ Closing
      <4>1. report' = report /\ pc' \notin {"idle", "code"}
        BY <3>5 DEF TakeOutput, KillProcess, TryKill, Closing
      <4> QED BY <2>1, <3>1, <3>2, <4>1 DEF Coded
    <3> QED BY <2>6, <3>3, <3>4, <3>5 DEF Background
  <2>7. CASE Finish
    <3>1. UNCHANGED <<code, reader, exitCode, running>> /\ pc' \notin {"idle", "code"}
      BY <2>7 DEF Finish, Kill, Close, Join, osVars, readerVars, handleVars
    <3>2. (shell' = "reaped") <=> (shell = "reaped")
      BY <2>7 DEF Finish, Kill, Close, Join
    <3> QED BY <2>1, <3>1, <3>2 DEF Coded
  <2> QED BY <2>2, <2>3, <2>4, <2>5, <2>6, <2>7 DEF Next, Caller
<1> QED BY <1>1, <1>2 DEF TypeOK

\* A process told to be over is told the exit code of its shell, if it was
\* waited for, and otherwise 0 on the word of the reader (bg_running,
\* bg_exit_code, the reader of bg_start).
THEOREM ProcessCodeTold == Spec => []CodeTold
<1>1. Init => Coded
  BY DEF Init, Coded, Report
<1>2. IInv /\ Coded /\ [Next]_vars => Coded'
  BY CodedStep
<1>3. IInv /\ Coded => CodeTold
  BY DEF IInv, TypeOK, Coded, CodeTold
<1> QED BY <1>1, <1>2, <1>3, ProcessInvariant, PTL DEF Spec
=============================================================================
