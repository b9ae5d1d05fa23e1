------------------------------ MODULE ShellExec ------------------------------
(***************************************************************************)
(* A shell command of the execution environment (exec and                  *)
(* waitForChildProcess in agent/src/harness/env/nodejs.ts): the child, the *)
(* pipe with its output, the bounded capture (module OutputCapture), the   *)
(* spill file with its back pressure, timeout, abort and the wait for      *)
(* output after the child's exit.  Chunks are numbered; the two output     *)
(* streams are one; the capture is truncated when it has seen more than    *)
(* Limit chunks.                                                           *)
(***************************************************************************)
EXTENDS Integers, Sequences, SequencesExt

CONSTANTS
  MaxChunks,   \* bound: chunks the command writes
  PipeSize,    \* chunks the pipe holds
  Limit,       \* chunks the capture shows
  HighWater,   \* chunks the spill stream takes before it asks to wait
  Remainder,   \* whether the output ends within a character
  Faults       \* what may go wrong: a subset of {"abort", "timeout", "callback", "create", "stream", "cleanup"}

VARIABLES
  child,    \* "running" or "exited"
  held,     \* another process has the child's output open
  killed,   \* the child's process group was killed
  written,  \* chunks written so far
  atExit,   \* auxiliary: of them, those written before the child's exit
  pipe,     \* chunks written and not read
  paused,   \* the output streams are paused
  ended,    \* the output streams have ended
  fed,      \* chunks the capture was given
  spill,    \* the spill file: see Init
  file,     \* its contents
  timer,    \* postExitTimer is armed
  errors,   \* what went wrong: "abort", "timeout", "callback", "spill"
  phase,    \* "run", "finish" (finishSpill), "settled"
  result

vars == <<child, held, killed, written, atExit, pipe, paused, ended, fed, spill, file, timer, errors, phase, result>>
process == <<child, held, killed, written, atExit>>
output == <<pipe, paused, ended, fed>>

NoResult == [kind |-> "none", truncated |-> FALSE, path |-> FALSE]

Init ==
  /\ child = "running" /\ held = FALSE /\ killed = FALSE /\ written = 0 /\ atExit = 0
  /\ pipe = <<>> /\ paused = FALSE /\ ended = FALSE /\ fed = <<>>
  /\ spill = [prefix |-> <<>>,     \* spillPrefix: chunks seen before the limit
              queue |-> <<>>,      \* spillQueue: chunks that wait for the file
              start |-> "none",    \* spillStart: "none", "pending" or "done"
              stream |-> "none",   \* "none", "open", "failed" or "finished"
              unwritten |-> <<>>,  \* chunks the stream has taken and not written
              back |-> FALSE]      \* spillBackpressured
  /\ file = <<>> /\ timer = FALSE /\ errors = {} /\ phase = "run" /\ result = NoResult

Live == phase # "settled"

-----------------------------------------------------------------------------
(* The command's processes. *)

write ==
  /\ child = "running" \/ held
  /\ written < MaxChunks /\ Len(pipe) < PipeSize
  /\ written' = written + 1
  /\ pipe' = IF phase = "run" THEN Append(pipe, written + 1) ELSE pipe
  /\ UNCHANGED <<child, held, killed, atExit, paused, ended, fed, spill, file, timer, errors, phase, result>>

Armed == TRUE

\* The child exits by itself or is killed; onExit.
exit ==
  /\ child = "running"
  /\ child' = "exited"
  /\ held' \in BOOLEAN
  /\ atExit' = written
  /\ timer' = IF phase = "run" THEN Armed ELSE timer
  /\ UNCHANGED <<killed, written, output, spill, file, errors, phase, result>>

\* The other process closes the output.
release ==
  /\ child = "exited" /\ held
  /\ held' = FALSE
  /\ UNCHANGED <<child, killed, written, atExit, output, spill, file, timer, errors, phase, result>>

-----------------------------------------------------------------------------
(* What the command's end is made of. *)

\* finalize: the streams are destroyed, nothing more is read.
Finalize ==
  /\ phase' = "finish" /\ timer' = FALSE /\ pipe' = <<>>

\* The end of the output; with the exit it ends the wait, as does "close".
outputEnd ==
  /\ phase = "run" /\ ~ended /\ ~paused
  /\ child = "exited" /\ ~held /\ pipe = <<>>
  /\ ended' = TRUE
  /\ Finalize
  /\ UNCHANGED <<process, paused, fed, spill, file, errors, result>>

\* Mutant: output held back by the file is not waited for.
spillIsDraining_never == FALSE
spillIsDraining == "spill" \notin errors /\ spill.start # "none" /\ (spill.stream = "none" \/ spill.back)

\* The timer: no output for a while after the exit.  Output that can be read is
\* read before the timer runs out.
idle ==
  /\ phase = "run" /\ timer
  /\ pipe = <<>> \/ paused
  /\ ~spillIsDraining
  /\ Finalize
  /\ UNCHANGED <<process, paused, ended, fed, spill, file, errors, result>>

-----------------------------------------------------------------------------
(* Output and the spill file. *)

\* onAbort: the process group is killed.
Fail(what) == errors' = errors \cup {what} /\ killed' = TRUE

\* writeSpill
Written(s, chunk) ==
  [s EXCEPT !.unwritten = Append(@, chunk), !.back = @ \/ Len(s.unwritten) + 1 > HighWater]

WrittenAll(s, chunks) == FoldLeft(Written, s, chunks)

\* startSpill
Spilled(s, chunks) ==
  IF s.stream = "open" THEN WrittenAll(s, chunks)
  ELSE [s EXCEPT !.queue = @ \o chunks, !.start = IF @ = "none" THEN "pending" ELSE @]

truncated(n) == n > Limit

\* feed: nothing, this chunk, or with it all the chunks before.
ToSpill(chunk) ==
  IF truncated(Len(fed)) THEN <<chunk>> ELSE IF truncated(Len(fed) + 1) THEN Append(spill.prefix, chunk) ELSE <<>>

\* A chunk is read.  The consumer of the view may throw, which kills the command.
data ==
  /\ phase = "run" /\ ~paused /\ pipe # <<>>
  /\ LET chunk == Head(pipe)
         chunks == ToSpill(chunk)
         s == IF chunks = <<>> THEN [spill EXCEPT !.prefix = Append(@, chunk)]
              ELSE Spilled([spill EXCEPT !.prefix = <<>>], chunks)
     IN  /\ fed' = Append(fed, chunk)
         /\ pipe' = Tail(pipe)
         /\ spill' = s
         /\ paused' = (s.back \/ s.start = "pending")
  /\ \/ UNCHANGED <<errors, killed>>
     \/ "callback" \in Faults \ errors /\ Fail("callback")
  /\ timer' = (timer \/ child = "exited")
  /\ UNCHANGED <<child, held, written, atExit, ended, file, phase, result>>

\* resumeOutput: unless the command has failed or the file is behind.
Resumed(s) == paused /\ (errors # {} \/ s.back)

\* The file is created and gets what waits for it, or cannot be created.
createTempFile ==
  /\ spill.start = "pending" /\ Live
  /\ \/ LET s == WrittenAll([spill EXCEPT !.start = "done", !.stream = "open", !.queue = <<>>], spill.queue)
        IN  /\ spill' = s
            /\ paused' = Resumed(s)
            /\ UNCHANGED <<errors, killed>>
     \/ /\ "create" \in Faults \/ "abort" \in errors
        /\ spill' = [spill EXCEPT !.start = "done"]
        /\ Fail("spill")
        /\ UNCHANGED paused
  /\ UNCHANGED <<child, held, written, atExit, pipe, ended, fed, file, timer, phase, result>>

\* The stream writes what it has taken; "drain".
drain ==
  /\ spill.stream = "open" /\ spill.unwritten # <<>>
  /\ file' = file \o spill.unwritten
  /\ LET s == [spill EXCEPT !.unwritten = <<>>, !.back = FALSE]
     IN  spill' = s /\ paused' = IF spill.back THEN Resumed(s) ELSE paused
  /\ UNCHANGED <<process, pipe, ended, fed, timer, errors, phase, result>>

\* failSpill
streamError ==
  /\ "stream" \in Faults /\ spill.stream = "open" /\ Live
  /\ spill' = [spill EXCEPT !.stream = "failed", !.back = FALSE]
  /\ Fail("spill")
  /\ UNCHANGED <<child, held, written, atExit, output, file, timer, phase, result>>

-----------------------------------------------------------------------------
(* Timeout, abort, cleanup and the result. *)

interrupt(what) ==
  /\ what \in Faults \cap {"abort", "timeout"} /\ what \notin errors /\ Live
  /\ Fail(what)
  /\ UNCHANGED <<child, held, written, atExit, output, spill, file, timer, phase, result>>

\* cleanup of the environment kills what runs; the command ends as if killed by somebody else.
cleanup ==
  /\ "cleanup" \in Faults /\ Live /\ ~killed
  /\ killed' = TRUE
  /\ UNCHANGED <<child, held, written, atExit, output, spill, file, timer, errors, phase, result>>

\* finishSpill: the file was created, and has everything or has failed.
SpillFinished ==
  /\ spill.start # "pending"
  /\ spill.stream = "none" \/ "spill" \in errors \/ spill.unwritten = <<>>

\* capture.finish() decodes what is left of a character; then the result.
settle ==
  /\ phase = "finish" /\ SpillFinished
  /\ phase' = "settled"
  /\ spill' = [spill EXCEPT !.stream = IF @ = "open" THEN "finished" ELSE @]
  /\ result' = IF "callback" \in errors THEN [NoResult EXCEPT !.kind = "callback_error"]
               ELSE IF "timeout" \in errors THEN [NoResult EXCEPT !.kind = "timeout"]
               ELSE IF "abort" \in errors THEN [NoResult EXCEPT !.kind = "aborted"]
               ELSE IF "spill" \in errors THEN [NoResult EXCEPT !.kind = "spill_error"]
               ELSE [kind |-> "ok", truncated |-> truncated(Len(fed) + (IF Remainder /\ fed # <<>> THEN 1 ELSE 0)),
                     path |-> spill.stream # "none"]
  /\ UNCHANGED <<process, output, file, timer, errors>>

-----------------------------------------------------------------------------
Next ==
  \/ write \/ exit \/ release
  \/ data \/ outputEnd \/ idle
  \/ createTempFile \/ drain \/ streamError
  \/ interrupt("abort") \/ interrupt("timeout") \/ cleanup
  \/ settle

Spec == Init /\ [][Next]_vars

killedExits == killed /\ exit

\* A killed child exits; the program reads, writes, and runs its timers.  The
\* command itself may run, and the other process may hold the output, for ever.
Fairness ==
  /\ WF_vars(killedExits)
  /\ WF_vars(data) /\ WF_vars(outputEnd) /\ WF_vars(idle)
  /\ WF_vars(createTempFile) /\ WF_vars(drain) /\ WF_vars(settle)

FairSpec == Spec /\ Fairness

-----------------------------------------------------------------------------
(* Properties. *)

\* A result that says the output was truncated names a file with all of it, in
\* order (feed, startSpill, finishSpill).
SpillIsComplete == (result.kind = "ok" /\ result.truncated) => (result.path /\ file = fed)

\* The view of a command has all that was written before the command's exit,
\* also if the file could not keep up by then (waitForChildProcess).
OutputIsWhole == result.kind = "ok" => (fed = [i \in 1..Len(fed) |-> i] /\ Len(fed) >= atExit)

Leaving == child = "exited" \/ killed
IsSettled == phase = "settled"

Paused == paused
Flows == ~paused \/ killed \/ phase # "run"

=============================================================================
