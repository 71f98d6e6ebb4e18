----------------------------- MODULE Subprocess -----------------------------
(***************************************************************************)
(* A command run by a tool (core/agent/subprocess.cpp, POSIX; the registry *)
(* of core/agent/shell_tools.cpp): the shell and what it starts, the pipe  *)
(* that takes their output, the reader thread, and the thread that called  *)
(* run_sync ("sync") or works on a background process by its handle        *)
(* ("background").                                                         *)
(*                                                                         *)
(* The registry's mutex is held during a whole tool call, so a background  *)
(* process meets one operation at a time.  The reader interleaves with     *)
(* everything, and so do the processes.                                    *)
(*                                                                         *)
(* Abstractions: output is a sequence of numbered chunks; the child stands *)
(* for all processes the shell leaves behind with the pipe in their hands; *)
(* an exit code is 0 or 1; a descriptor number is not handed out again.    *)
(***************************************************************************)
EXTENDS Integers, Sequences, SequencesExt

CONSTANTS
  Modes,       \* "sync" and "background", or one of them
  MaxChunks,   \* bound: chunks the command writes
  PipeSize,    \* chunks the pipe holds
  MaxReads     \* bound: calls of read_output

ASSUME SubprocessAssumption ==
  /\ Modes \subseteq {"sync", "background"}
  /\ MaxChunks \in Nat /\ MaxReads \in Nat
  /\ PipeSize \in Nat \ {0}

VARIABLES
  mode,       \* who called
  \* operating system
  shell,      \* the process that was forked
  shellOut,   \* it still has the pipe as its output
  child,      \* processes it left behind, with the pipe as their output
  code,       \* the exit code of the shell
  pipe,       \* chunks in the pipe
  written,    \* chunks written so far
  fd,         \* the read end is open
  late,       \* timeout_ms have passed
  \* reader thread
  reader,     \* where it is
  carried,    \* what read returned and append has not taken
  buffer,     \* accumulated (sync), BgProc::buffer (background)
  \* caller
  pc,         \* where it is
  running,    \* BgProc::running
  exitCode,   \* BgProc::exit_code
  closed,     \* BgProc::closed
  timedOut,   \* ProcResult::timed_out
  report,     \* what the last call told the model
  taken,      \* output handed out
  reads       \* calls of read_output so far

osVars     == <<shell, shellOut, child, code, written>>
pipeVars   == <<pipe, fd>>
readerVars == <<reader, carried>>
handleVars == <<running, exitCode, closed>>
resultVars == <<timedOut, report, taken, reads>>
vars == <<mode, osVars, pipeVars, late, readerVars, buffer, pc, handleVars, resultVars>>

SyncPcs       == {"poll", "check", "reap"}
BackgroundPcs == {"idle", "status", "code", "tryKill", "closing"}
Pcs == SyncPcs \cup BackgroundPcs \cup {"kill", "close", "join", "done"}

Reports == [running : BOOLEAN, exit : {0, 1, -1}, timedOut : BOOLEAN]
Report(alive, exit, out) == [running |-> alive, exit |-> exit, timedOut |-> out]

\* Somebody can still write to the pipe.
Writers == (shellOut /\ shell \in {"running", "dying"}) \/ child = "running"

\* The read end exists as long as the descriptor or a read in progress holds it.
ReadEnd == fd \/ reader = "blocked"

\* run_sync and bg_start: fork, the parent's write end closed, the reader started.
Init ==
  /\ mode \in Modes
  /\ shell = "running" /\ shellOut = TRUE /\ child = "none" /\ code = 0
  /\ pipe = << >> /\ written = 0 /\ fd = TRUE /\ late = FALSE
  /\ reader = "call" /\ carried = << >> /\ buffer = << >>
  /\ pc = IF mode = "sync" THEN "poll" ELSE "idle"
  /\ running = TRUE /\ exitCode = 0 /\ closed = FALSE
  /\ timedOut = FALSE /\ report = Report(TRUE, 0, FALSE)
  /\ taken = << >> /\ reads = 0

-----------------------------------------------------------------------------
(* The operating system                                                    *)

\* A write blocks while the pipe is full.
WriteChunk ==
  /\ Writers /\ ReadEnd
  /\ written < MaxChunks /\ Len(pipe) < PipeSize
  /\ written' = written + 1 /\ pipe' = Append(pipe, written + 1)
  /\ UNCHANGED <<shell, shellOut, child, code, fd, late>>

\* A child that writes to a pipe nobody reads gets SIGPIPE.
BrokenPipe ==
  /\ child = "running" /\ ~ReadEnd
  /\ child' = "ended"
  /\ UNCHANGED <<shell, shellOut, code, written, pipeVars, late>>

\* The shell starts a process that inherits its output.
Fork ==
  /\ shell = "running" /\ shellOut /\ child = "none"
  /\ child' = "running"
  /\ UNCHANGED <<shell, shellOut, code, written, pipeVars, late>>

\* The shell redirects its output, or becomes a program whose output is
\* redirected: `exec server > log`.
Redirect ==
  /\ shell = "running" /\ shellOut
  /\ shellOut' = FALSE
  /\ UNCHANGED <<shell, child, code, written, pipeVars, late>>

Exit(c) ==
  /\ shell = "running"
  /\ shell' = "zombie" /\ code' = c
  /\ UNCHANGED <<shellOut, child, written, pipeVars, late>>

ChildEnds ==
  /\ child = "running"
  /\ child' = "ended"
  /\ UNCHANGED <<shell, shellOut, code, written, pipeVars, late>>

\* SIGKILL takes effect; WIFEXITED is false of the status.
Die ==
  /\ shell = "dying"
  /\ shell' = "zombie" /\ code' = -1
  /\ UNCHANGED <<shellOut, child, written, pipeVars, late>>

TimePasses ==
  /\ mode = "sync" /\ ~late
  /\ late' = TRUE
  /\ UNCHANGED <<osVars, pipeVars>>

System ==
  /\ \/ WriteChunk \/ BrokenPipe \/ Fork \/ Redirect \/ ChildEnds \/ Die \/ TimePasses
     \/ \E c \in {0, 1} : Exit(c)
  /\ UNCHANGED <<mode, readerVars, buffer, pc, handleVars, resultVars>>

-----------------------------------------------------------------------------
(* The reader thread: while ((n = read(fd, ...)) > 0) append; running = false *)

\* Mutant: the loop goes on when read fails.
CallReadRetries ==
  /\ reader = "call"
  /\ reader' = IF fd THEN "blocked" ELSE "call"
  /\ UNCHANGED <<pipe, carried, buffer, running>>

\* read on a descriptor that was closed meanwhile fails at once.
CallRead ==
  /\ reader = "call"
  /\ IF fd THEN reader' = "blocked" /\ UNCHANGED running
           ELSE reader' = "ended" /\ running' = FALSE
  /\ UNCHANGED <<pipe, carried, buffer>>

\* read blocks for data or for the end of all writers; a close of the
\* descriptor by another thread does not wake it.
ReadReturns ==
  /\ reader = "blocked" /\ pipe # << >>
  /\ reader' = "append" /\ carried' = pipe /\ pipe' = << >>
  /\ UNCHANGED <<buffer, running>>

ReadEnds ==
  /\ reader = "blocked" /\ pipe = << >> /\ ~Writers
  /\ reader' = "ended" /\ running' = FALSE
  /\ UNCHANGED <<pipe, carried, buffer>>

AppendRead ==
  /\ reader = "append"
  /\ reader' = "call" /\ buffer' = buffer \o carried /\ carried' = << >>
  /\ UNCHANGED <<pipe, running>>

Reader ==
  /\ CallRead \/ ReadReturns \/ ReadEnds \/ AppendRead
  /\ UNCHANGED <<mode, osVars, fd, late, pc, exitCode, closed, resultVars>>

-----------------------------------------------------------------------------
(* The thread in run_sync                                                  *)

\* waitpid(pid, &status, WNOHANG) finds the shell ended, or does not.
PollReaps ==
  /\ pc = "poll" /\ shell = "zombie"
  /\ shell' = "reaped" /\ pc' = "close"
  /\ UNCHANGED timedOut

PollFindsNone ==
  /\ pc = "poll" /\ shell # "zombie"
  /\ pc' = "check"
  /\ UNCHANGED <<shell, timedOut>>

\* The clock is read after the shell was looked at.
NotYet ==
  /\ pc = "check" /\ ~late
  /\ pc' = "poll"
  /\ UNCHANGED <<shell, timedOut>>

TooLate ==
  /\ pc = "check" /\ late
  /\ pc' = "kill" /\ timedOut' = TRUE
  /\ UNCHANGED shell

\* waitpid(pid, &status, 0) after the kill.
ReapKilled ==
  /\ pc = "reap" /\ shell = "zombie"
  /\ shell' = "reaped" /\ pc' = "close"
  /\ UNCHANGED timedOut

RunSync ==
  /\ PollReaps \/ PollFindsNone \/ NotYet \/ TooLate \/ ReapKilled
  /\ UNCHANGED <<mode, shellOut, child, code, written, pipeVars, late, readerVars,
                 buffer, handleVars, report, taken, reads>>

-----------------------------------------------------------------------------
(* The operations on a background process                                  *)

\* bg_running looks for the end of the shell only while running is set.
Finds == running /\ shell # "zombie"

\* Mutant: the status is taken for the exit code.
BgRunningRaw ==
  IF running /\ shell = "zombie"
  THEN shell' = "reaped" /\ exitCode' = 256 * code /\ running' = FALSE
  ELSE UNCHANGED <<shell, exitCode, running>>

\* Mutant: the status is dropped.
BgRunningSilent ==
  IF running /\ shell = "zombie"
  THEN shell' = "reaped" /\ running' = FALSE /\ UNCHANGED exitCode
  ELSE UNCHANGED <<shell, exitCode, running>>

\* What bg_running changes: it reaps the shell it finds ended.
BgRunning ==
  IF running /\ shell = "zombie"
  THEN shell' = "reaped" /\ exitCode' = code /\ running' = FALSE
  ELSE UNCHANGED <<shell, exitCode, running>>

\* Mutant: the buffer is not cleared.
TakeOutputTwice ==
  /\ pc = "idle" /\ reads < MaxReads
  /\ pc' = "status" /\ reads' = reads + 1
  /\ taken' = taken \o buffer
  /\ UNCHANGED <<shell, running, exitCode, closed, buffer, report>>

\* read_output: bg_read under the process's mutex.
TakeOutput ==
  /\ pc = "idle" /\ reads < MaxReads
  /\ pc' = "status" /\ reads' = reads + 1
  /\ taken' = taken \o buffer /\ buffer' = << >>
  /\ UNCHANGED <<shell, running, exitCode, closed, report>>

\* ... {"running", bg_running(p)} ...
TellRunning ==
  /\ pc = "status"
  /\ pc' = "code"
  /\ BgRunning
  /\ report' = Report(Finds, 0, FALSE)
  /\ UNCHANGED <<closed, buffer, taken, reads>>

\* ... {"exit_code", bg_running(p) ? 0 : bg_exit_code(p)}.
TellCode ==
  /\ pc = "code"
  /\ pc' = "idle"
  /\ BgRunning
  /\ report' = Report(report.running, IF Finds THEN 0 ELSE exitCode', FALSE)
  /\ UNCHANGED <<closed, buffer, taken, reads>>

\* kill_process, and stop_all_background_processes for every handle.
KillProcess ==
  /\ pc = "idle"
  /\ pc' = "tryKill"
  /\ UNCHANGED <<shell, running, exitCode, closed, buffer, report, taken, reads>>

\* Mutant: the signal is sent without a look at the process.
TryKillAnyway ==
  /\ pc = "tryKill"
  /\ pc' = "kill"
  /\ UNCHANGED <<shell, running, exitCode, closed, buffer, report, taken, reads>>

\* bg_kill, from the tool and again from bg_close: no signal to a process that
\* is known to have ended.
TryKill ==
  /\ pc = "tryKill"
  /\ BgRunning
  /\ pc' = IF Finds THEN "kill" ELSE IF closed THEN "close" ELSE "closing"
  /\ UNCHANGED <<closed, buffer, report, taken, reads>>

\* bg_close: closed.exchange, then bg_running.
Closing ==
  /\ pc = "closing"
  /\ closed' = TRUE
  /\ BgRunning
  /\ pc' = IF Finds THEN "tryKill" ELSE "close"
  /\ UNCHANGED <<buffer, report, taken, reads>>

Background ==
  /\ TakeOutput \/ TellRunning \/ TellCode \/ KillProcess \/ TryKill \/ Closing
  /\ UNCHANGED <<mode, shellOut, child, code, written, pipeVars, late, readerVars,
                 timedOut>>

-----------------------------------------------------------------------------
(* Steps of both                                                           *)

\* platform_kill: SIGKILL to the shell, and to nobody else.
Kill ==
  /\ pc = "kill"
  /\ shell' = IF shell = "running" THEN "dying" ELSE shell
  /\ pc' = CASE mode = "sync" -> "reap" [] closed -> "close" [] OTHER -> "closing"
  /\ UNCHANGED <<fd, buffer, report, taken>>

\* close(pipefd[0]), while the reader may be at work.
Close ==
  /\ pc = "close"
  /\ fd' = FALSE /\ pc' = "join"
  /\ UNCHANGED <<shell, buffer, report, taken>>

\* reader.join() returns; the result, or "killed", is reported.
Join ==
  /\ pc = "join" /\ reader = "ended"
  /\ pc' = "done"
  /\ IF mode = "sync"
     THEN /\ report' = Report(FALSE, IF timedOut THEN -1 ELSE code, timedOut)
          /\ taken' = buffer /\ buffer' = << >>
     ELSE UNCHANGED <<report, taken, buffer>>
  /\ UNCHANGED <<shell, fd>>

Finish ==
  /\ Kill \/ Close \/ Join
  /\ UNCHANGED <<mode, shellOut, child, code, written, pipe, late, readerVars,
                 handleVars, timedOut, reads>>

Caller == RunSync \/ Background \/ Finish

\* The call is over.
Rest == pc = "done" /\ UNCHANGED vars

Next == System \/ Reader \/ Caller \/ Rest

Spec == Init /\ [][Next]_vars

\* Threads run, signals arrive and time passes.  Whether a process ever ends by
\* itself is open, and so is what the model asks for.
FairSpec ==
  /\ Spec
  /\ WF_vars(Reader)
  /\ WF_vars(RunSync \/ Finish)
  /\ WF_vars(Background /\ pc # "idle")
  /\ WF_vars(System /\ (Die \/ TimePasses))

-----------------------------------------------------------------------------
(* Properties                                                              *)

Chunks == Seq(1..MaxChunks)

TypeOK ==
  /\ mode \in {"sync", "background"}
  /\ shell \in {"running", "dying", "zombie", "reaped"}
  /\ shellOut \in BOOLEAN /\ child \in {"none", "running", "ended"}
  /\ code \in {0, 1, -1}
  /\ pipe \in Chunks /\ carried \in Chunks /\ buffer \in Chunks /\ taken \in Chunks
  /\ written \in 0..MaxChunks
  /\ fd \in BOOLEAN /\ late \in BOOLEAN
  /\ reader \in {"call", "blocked", "append", "ended"}
  /\ pc \in Pcs
  /\ running \in BOOLEAN /\ exitCode \in {0, 1, -1} /\ closed \in BOOLEAN
  /\ timedOut \in BOOLEAN
  /\ report \in Reports
  /\ reads \in Nat

SignalsOwn == pc = "kill" => shell # "reaped"

KillEnds == mode = "background" /\ pc = "done" /\ shellOut => shell # "running"

\* A signal is sent only to a process that was not waited for yet: its id still
\* belongs to it (the loop of run_sync, bg_kill behind bg_running).  And
\* kill_process ends the shell, unless it gave its output away before.
KillsOwn == SignalsOwn /\ KillEnds

\* Output is handed out once, in order and without gaps, whatever the reader
\* does meanwhile; and nothing is lost before the read end is closed.
OutputOnce ==
  LET all == [i \in 1..written |-> i]
      got == taken \o buffer \o carried
  IN  /\ IsPrefix(got, all)
      /\ fd => got \o pipe = all

\* A call that has only the reader left to join comes back, and so does a
\* run_sync that is over its time, unless processes the shell left behind keep
\* the pipe: the kill reaches the shell, close and read do not miss each other.
CallReturns ==
  pc = "join" \/ (mode = "sync" /\ late) ~> pc = "done" \/ (pc = "join" /\ Writers)

\* When read_output tells that the process is over, it tells the exit code of a
\* shell that was waited for.  Against "Exit code (valid only when not running)."
\* (subprocess.hpp:41) it tells 0, whatever the shell does, if the reader came
\* to the end of the output first and cleared running: nobody waits then.
CodeTold ==
  mode = "background" /\ pc = "idle" /\ ~report.running =>
    \/ shell = "reaped" /\ report.exit = code
    \/ shell # "reaped" /\ report.exit = 0 /\ reader = "ended"
=============================================================================
