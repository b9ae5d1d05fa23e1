----------------------------- MODULE JsonlRepo -----------------------------
(***************************************************************************)
(* JsonlSessionRepo (packages/agent/src/harness/session/jsonl/repo.ts) for *)
(* the calls about one session id: create, open, delete and close by       *)
(* concurrent callers of one process, and the commits of the session that  *)
(* is open.  A caller's step is the code between two awaits on the file    *)
(* system.  The file is its header, its complete lines and a torn tail,    *)
(* and the id has one path (the path also holds the time of creation).     *)
(***************************************************************************)
EXTENDS Naturals, Sequences, SequencesExt

CONSTANTS
  Null,
  Callers,
  Ops,         \* the calls callers make: a subset of {"create", "open", "delete"}
  Initial,     \* the file at the start
  MaxCommits,  \* bound: commits
  Mixed,       \* calls of different kinds overlap, as the code allows; FALSE restricts the
               \* callers: no create, open or delete starts while one of another kind runs
  OpensTogether \* opens overlap, as the code allows; FALSE restricts the callers

VARIABLES
  file,            \* the session file, or Absent
  call,            \* per caller: program counter, the content it holds in memory, and for a
                   \* delete (history) the commits made when it began
  openSessions,    \* the caller whose storage is registered under the key, or Null
  pendingCreates,  \* whether a create of the key is pending
  acked,           \* history: commits made, and those of them that no later delete discarded
  held             \* history: callers that were handed a session and have not closed it

vars == <<file, call, openSessions, pendingCreates, acked, held>>

Absent == [header |-> FALSE, lines |-> <<>>, torn |-> FALSE, exists |-> FALSE]
File(lines, torn) == [header |-> TRUE, lines |-> lines, torn |-> torn, exists |-> TRUE]
Idle == [pc |-> "idle", read |-> <<>>, before |-> 0]

Init ==
  /\ file = Initial
  /\ call = [c \in Callers |-> Idle]
  /\ openSessions = Null
  /\ pendingCreates = FALSE
  /\ acked = [made |-> Len(Initial.lines), kept |-> ToSet(Initial.lines)]
  /\ held = {}

Goto(c, pc) == call' = [call EXCEPT ![c].pc = pc]

Creating == {"createPath", "createFile", "created", "stated", "createUndo", "createEnd"}
Opening == {"load", "read", "repair", "loaded"}
Deleting == {"deleteExists", "deleteRemove"}

\* A call may start besides those of its own kind, or of any.
Starts(c, own) ==
  /\ call[c].pc = "idle"
  /\ Mixed \/ \A d \in Callers : call[d].pc \in own \cup {"idle", "holding"}

-----------------------------------------------------------------------------
\* create

create(c) ==
  /\ "create" \in Ops /\ Starts(c, Creating)
  /\ openSessions = Null /\ ~pendingCreates
  /\ pendingCreates' = TRUE
  /\ Goto(c, "createPath")
  /\ UNCHANGED <<file, openSessions, acked, held>>

\* assertSessionIdAvailable lists the directory
resolveNewSessionPath(c) ==
  /\ call[c].pc = "createPath"
  /\ IF file.exists THEN Goto(c, "idle") /\ pendingCreates' = FALSE
     ELSE Goto(c, "createFile") /\ UNCHANGED pendingCreates
  /\ UNCHANGED <<file, openSessions, acked, held>>

\* JsonlStorage.create publishes the header
createFile(c) ==
  /\ call[c].pc = "createFile"
  /\ file' = File(<<>>, FALSE)
  /\ Goto(c, "created")
  /\ UNCHANGED <<openSessions, pendingCreates, acked, held>>

\* fileInfo: a file that is gone fails the create.
readInfo(c) ==
  /\ call[c].pc = "created"
  /\ Goto(c, IF file.exists THEN "stated" ELSE "createUndo")
  /\ UNCHANGED <<file, openSessions, pendingCreates, acked, held>>

\* publishOpenSession registers the storage, unless another one is registered.
publishOpenSession(c) ==
  /\ openSessions = Null
  /\ openSessions' = c
  /\ held' = held \cup {c}
  /\ Goto(c, "holding")

\* The new session is published, or the key is taken.
finishCreate(c) ==
  /\ call[c].pc = "stated"
  /\ \/ publishOpenSession(c) /\ pendingCreates' = FALSE
     \/ /\ openSessions # Null
        /\ Goto(c, "createUndo")
        /\ UNCHANGED <<openSessions, pendingCreates, held>>
  /\ UNCHANGED <<file, acked>>

\* A create that failed removes the file at its path, whoever has it open by now.
removeCreated(c) ==
  /\ call[c].pc = "createUndo"
  /\ file' = Absent
  /\ Goto(c, "createEnd")
  /\ UNCHANGED <<openSessions, pendingCreates, acked, held>>

endCreate(c) ==
  /\ call[c].pc = "createEnd"
  /\ pendingCreates' = FALSE
  /\ Goto(c, "idle")
  /\ UNCHANGED <<file, openSessions, acked, held>>

-----------------------------------------------------------------------------
\* open

open(c) ==
  /\ "open" \in Ops /\ Starts(c, Opening)
  /\ OpensTogether \/ \A d \in Callers : call[d].pc \notin Opening
  /\ openSessions = Null
  /\ Goto(c, "load")
  /\ UNCHANGED <<file, openSessions, pendingCreates, acked, held>>

\* loadStorage: the file exists and its header is read ...
loadStorage(c) ==
  /\ call[c].pc = "load"
  /\ Goto(c, IF file.exists /\ file.header THEN "read" ELSE "idle")
  /\ UNCHANGED <<file, openSessions, pendingCreates, acked, held>>

\* ... then its content, whole.
readContent(c) ==
  /\ call[c].pc = "read"
  /\ IF ~file.exists THEN Goto(c, "idle")
     ELSE call' = [call EXCEPT ![c].pc = IF file.torn THEN "repair" ELSE "loaded",
                               ![c].read = file.lines]
  /\ UNCHANGED <<file, openSessions, pendingCreates, acked, held>>

\* The torn tail is rewritten away with the lines read before.
repairTorn(c) ==
  /\ call[c].pc = "repair"
  /\ file' = File(call[c].read, FALSE)
  /\ Goto(c, "loaded")
  /\ UNCHANGED <<openSessions, pendingCreates, acked, held>>

finishOpen(c) ==
  /\ call[c].pc = "loaded"
  /\ \/ publishOpenSession(c)
     \/ /\ openSessions # Null
        /\ call' = [call EXCEPT ![c] = Idle]
        /\ UNCHANGED <<openSessions, held>>
  /\ UNCHANGED <<file, pendingCreates, acked>>

-----------------------------------------------------------------------------
\* delete

delete(c) ==
  /\ "delete" \in Ops /\ Starts(c, Deleting)
  /\ openSessions = Null
  /\ call' = [call EXCEPT ![c].pc = "deleteExists", ![c].before = acked.made]
  /\ UNCHANGED <<file, openSessions, pendingCreates, acked, held>>

checkExists(c) ==
  /\ call[c].pc = "deleteExists"
  /\ call' = [call EXCEPT ![c] = IF file.exists THEN [@ EXCEPT !.pc = "deleteRemove"] ELSE Idle]
  /\ UNCHANGED <<file, openSessions, pendingCreates, acked, held>>

removeFile(c) ==
  /\ call[c].pc = "deleteRemove"
  /\ file' = Absent
  /\ acked' = [acked EXCEPT !.kept = {id \in @ : id > call[c].before}]
  /\ call' = [call EXCEPT ![c] = Idle]
  /\ UNCHANGED <<openSessions, pendingCreates, held>>

-----------------------------------------------------------------------------
\* The open session.

\* A commit of the holder: its line is appended; a file that is gone is made anew, headless.
commit(c) ==
  /\ call[c].pc = "holding" /\ acked.made < MaxCommits
  /\ LET id == acked.made + 1
     IN  /\ acked' = [made |-> id, kept |-> acked.kept \cup {id}]
         /\ file' = [file EXCEPT !.exists = TRUE, !.lines = Append(@, id)]
         /\ call' = [call EXCEPT ![c].read = Append(@, id)]
  /\ UNCHANGED <<openSessions, pendingCreates, held>>

onClose(c) == IF openSessions = c THEN Null ELSE openSessions
\* close: the key is released if it is still this storage's.
closeSession(c) ==
  /\ call[c].pc = "holding"
  /\ openSessions' = onClose(c)
  /\ held' = held \ {c}
  /\ call' = [call EXCEPT ![c] = Idle]
  /\ UNCHANGED <<file, pendingCreates, acked>>

Step(c) ==
  \/ create(c) \/ resolveNewSessionPath(c) \/ createFile(c) \/ readInfo(c) \/ finishCreate(c)
  \/ removeCreated(c) \/ endCreate(c)
  \/ open(c) \/ loadStorage(c) \/ readContent(c) \/ repairTorn(c) \/ finishOpen(c)
  \/ delete(c) \/ checkExists(c) \/ removeFile(c)
  \/ commit(c) \/ closeSession(c)

Next == \E c \in Callers : Step(c)

Spec == Init /\ [][Next]_vars
-----------------------------------------------------------------------------
\* At most one caller holds the session, and the key is registered exactly while one does.
OneWriter == held = IF openSessions = Null THEN {} ELSE {openSessions}

\* A commit that resolved stays in the file until a delete that began after it: a create that
\* fails, an open that repairs a torn tail and a delete destroy nothing another call wrote.  This
\* needs calls of different kinds, and opens of a torn file, that do not overlap: nothing in the
\* repository keeps a call from acting on a check made before another one's commit.
CommitsSurvive ==
  /\ acked.kept # {} => file.exists /\ file.header
  /\ acked.kept \subseteq ToSet(file.lines)

\* The caller who has the session open holds in memory what a reader of the file would find.  This
\* needs opens that do not overlap at all: one that has read the content may be published after
\* another one was, committed and closed.
HolderMatchesFile == \A c \in held : file.exists /\ file.header /\ file.lines = call[c].read

=============================================================================
