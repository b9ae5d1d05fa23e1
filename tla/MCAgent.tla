------------------------------- MODULE MCAgent -------------------------------
(***************************************************************************)
(* The parts of the agent, the coding agent and the model layer for TLC.   *)
(* The parts share no state, so a behaviour is that of one part, chosen in *)
(* its first state among those the .cfg file lists; its variables are held *)
(* in the slots v1, v2, ....  A part is a record of the values of its      *)
(* module's constants.                                                     *)
(***************************************************************************)
EXTENDS Integers, Sequences, FiniteSets, TLC

CONSTANTS Null,
          Parts   \* names of the parts of a run

VARIABLES part, v1, v2, v3, v4, v5, v6, v7, v8, v9, v10, v11, v12, v13, v14, v15

all == <<part, v1, v2, v3, v4, v5, v6, v7, v8, v9, v10, v11, v12, v13, v14, v15>>

\* The slots a part of n variables leaves alone, and their value.
Beyond14 == v15
Beyond13 == <<v14, Beyond14>>
Beyond12 == <<v13, Beyond13>>
Beyond11 == <<v12, Beyond12>>
Beyond10 == <<v11, Beyond11>>
Beyond9 == <<v10, Beyond10>>
Beyond8 == <<v9, Beyond9>>
Beyond7 == <<v8, Beyond8>>
Beyond6 == <<v7, Beyond7>>
Beyond5 == <<v6, Beyond6>>
Beyond4 == <<v5, Beyond5>>
Beyond3 == <<v4, Beyond4>>
Beyond2 == <<v3, Beyond3>>
Beyond1 == <<v2, Beyond2>>
Blank14 == v15 = 0
Blank13 == v14 = 0 /\ Blank14
Blank12 == v13 = 0 /\ Blank13
Blank11 == v12 = 0 /\ Blank12
Blank10 == v11 = 0 /\ Blank11
Blank9 == v10 = 0 /\ Blank10
Blank8 == v9 = 0 /\ Blank9
Blank7 == v8 = 0 /\ Blank8
Blank6 == v7 = 0 /\ Blank7
Blank5 == v6 = 0 /\ Blank6
Blank4 == v5 = 0 /\ Blank5
Blank3 == v4 = 0 /\ Blank4
Blank2 == v3 = 0 /\ Blank3
Blank1 == v2 = 0 /\ Blank2

Chosen(S) == {c \in S : c.part \in Parts}

\* Forks of a whole session, and of a branch at or before an entry.
ForkOptions ==
  {[scope |-> "tree", entryId |-> 0, position |-> "at"]} \cup
  [scope : {"branch"}, entryId : {0, 1}, position : {"at", "before"}]

NoFile == [header |-> FALSE, lines |-> <<>>, torn |-> FALSE, exists |-> FALSE]

\* A session file of an earlier process that ended while it appended its second commit.
TornFile == [header |-> TRUE, lines |-> <<1>>, torn |-> TRUE, exists |-> TRUE]

Requests == {"r1", "r2", "r3"}
ProcessOf(r) == IF r = "r3" THEN "p2" ELSE "p1"

\* Texts as sequences of characters: q is a typographic quote, n a line feed,
\* r a carriage return.
Strings(chars, n) == UNION {[1..k -> chars] : k \in 0..n}
Ends(s) == s = <<>> \/ s[Len(s)] # " "
OneFiles == {s \in Strings({"a", "'", "q", " ", "n"}, 4) : Ends(s)}
OneOlds == {s \in Strings({"a", "'", "q", " ", "n"}, 2) : s = <<>> \/ \E i \in DOMAIN s : s[i] # " "}
TwoFiles == {s \in [1..5 -> {"a", "q", " ", "n"}] : Ends(s)}
TwoOlds == {<<"a">>, <<"'">>, <<"a", "n">>, <<"n", "'">>, <<"n", "a">>}
EndFiles == Strings({"a", "q", "n", "r"}, 4)
EndOlds == {<<"a">>, <<"'">>, <<"r", "n">>, <<"a", "n">>}

\* Values under delta tracking: an object with a string and an array, a string,
\* and an array of two equal objects.
Str(s) == [k |-> "string", v |-> s]
Arr(s) == [k |-> "array", v |-> s]
Obj(f) == [k |-> "object", v |-> f]
Mixed == Obj((1 :> Str(<<"x", "y">>)) @@ (2 :> Arr(<<Obj(1 :> Str(<<"x">>)), Str(<<"y">>)>>)))
Text == Obj(1 :> Str(<<"x", "x", "y">>))
Twins == Obj(1 :> Arr(<<Obj(1 :> Str(<<"x">>)), Obj(1 :> Str(<<"x">>))>>))
Rewrites == {Str(s) : s \in UNION {[1..n -> {"x", "y"}] : n \in 0..4}}

-----------------------------------------------------------------------------
(* The classic agent: three queued messages, parallel tools; faults and both
   queue modes. *)
Loops ==
  { [ part |-> "loop_queues", toolExecution |-> "parallel", modes |-> {"one-at-a-time"},
      maxUsers |-> 3, maxReplies |-> 2, maxBatch |-> 1, maxFaults |-> 0 ],
    [ part |-> "loop_faults", toolExecution |-> "sequential", modes |-> {"all"}, maxUsers |-> 2,
      maxReplies |-> 1, maxBatch |-> 2, maxFaults |-> 1 ],
    [ part |-> "loop_batch", toolExecution |-> "parallel", modes |-> {"one-at-a-time"},
      maxUsers |-> 2, maxReplies |-> 2, maxBatch |-> 2, maxFaults |-> 0 ],
    [ part |-> "loop_settles", toolExecution |-> "parallel", modes |-> {"one-at-a-time"},
      maxUsers |-> 1, maxReplies |-> 2, maxBatch |-> 2, maxFaults |-> 1 ] }
Loop(c) ==
  INSTANCE AgentLoop WITH
    state <- v1, queue <- v2, run <- v3, tool <- v4, count <- v5, history <- v6,
    ToolExecution <- c.toolExecution, Modes <- c.modes, MaxUsers <- c.maxUsers,
    MaxReplies <- c.maxReplies, MaxBatch <- c.maxBatch, MaxFaults <- c.maxFaults

-----------------------------------------------------------------------------
(* The session around it: one or two callers, retries, compaction, aborts. *)
Sessions ==
  { [ part |-> "session_run", callers |-> {1}, stops |-> {"stop", "toolUse", "error", "overflow"},
      maxReplies |-> 1, maxExtras |-> 1, maxCompacts |-> 1, maxHost |-> 0 ],
    [ part |-> "session_abort", callers |-> {1, 2},
      stops |-> {"stop", "toolUse", "overflow", "aborted"}, maxReplies |-> 1, maxExtras |-> 0,
      maxCompacts |-> 1, maxHost |-> 1 ],
    [ part |-> "session_recovery", callers |-> {1},
      stops |-> {"stop", "error", "overflow", "length"}, maxReplies |-> 5, maxExtras |-> 0,
      maxCompacts |-> 2, maxHost |-> 0 ],
    [ part |-> "session_aborts", callers |-> {1}, stops |-> {"stop", "aborted"}, maxReplies |-> 1,
      maxExtras |-> 0, maxCompacts |-> 1, maxHost |-> 2 ],
    [ part |-> "session_settles", callers |-> {1, 2}, stops |-> {"stop", "error"}, maxReplies |-> 1,
      maxExtras |-> 0, maxCompacts |-> 1, maxHost |-> 1 ] }
Session(c) ==
  INSTANCE AgentSession WITH
    agent <- v1, path <- v2, s <- v3, ctl <- v4, proc <- v5, manual <- v6, tree <- v7,
    waiting <- v8, count <- v9, failing <- v10, MaxRetries <- 1, Overlap <- FALSE,
    Callers <- c.callers, Stops <- c.stops, MaxReplies <- c.maxReplies, MaxExtras <- c.maxExtras,
    MaxCompacts <- c.maxCompacts, MaxHost <- c.maxHost

-----------------------------------------------------------------------------
(* The session file and its tree. *)
Managers ==
  { [ part |-> "session_file", kinds |-> {"user", "assistant"}, keepRecent |-> 1, maxEntries |-> 4,
      maxLabels |-> 1, maxMoves |-> 1, maxForks |-> 1, maxCrashes |-> 2 ],
    [ part |-> "session_tree", kinds |-> {"user", "call", "result"}, keepRecent |-> 2,
      maxEntries |-> 5, maxLabels |-> 1, maxMoves |-> 1, maxForks |-> 1, maxCrashes |-> 0 ],
    [ part |-> "session_fork", kinds |-> {"user"}, keepRecent |-> 1, maxEntries |-> 6,
      maxLabels |-> 1, maxMoves |-> 0, maxForks |-> 1, maxCrashes |-> 0 ] }
Manager(c) ==
  INSTANCE SessionManager WITH
    up <- v1, entries <- v2, leaf <- v3, flushed <- v4, file <- v5, count <- v6, last <- v7,
    acked <- v8, Kinds <- c.kinds, KeepRecent <- c.keepRecent, MaxEntries <- c.maxEntries,
    MaxLabels <- c.maxLabels, MaxMoves <- c.maxMoves, MaxForks <- c.maxForks,
    MaxCrashes <- c.maxCrashes

-----------------------------------------------------------------------------
(* The harness's JSONL file: crashes and upgrades; forks. *)
Jsonls ==
  { [ part |-> "jsonl", kinds |-> {"message", "name", "noname"}, forkOptions |-> {},
      initialFormat |-> "v3", maxCommits |-> 4, maxQueue |-> 2, maxCrashes |-> 3, maxForks |-> 0 ],
    [ part |-> "jsonl_fork", kinds |-> {"message", "back", "label", "list", "push", "op", "name"},
      forkOptions |-> ForkOptions, initialFormat |-> "v4", maxCommits |-> 3, maxQueue |-> 1,
      maxCrashes |-> 1, maxForks |-> 1 ] }
Jsonl(c) ==
  INSTANCE JsonlStorage WITH
    disk <- v1, store <- v2, fork <- v3, result <- v4, count <- v5, acked <- v6,
    LateErrors <- FALSE, Kinds <- c.kinds, ForkOptions <- c.forkOptions,
    InitialFormat <- c.initialFormat, MaxCommits <- c.maxCommits, MaxQueue <- c.maxQueue,
    MaxCrashes <- c.maxCrashes, MaxForks <- c.maxForks

-----------------------------------------------------------------------------
(* Its repository: callers create, open and delete one session, each kind by itself or
   overlapping, from no file or from one with a torn tail. *)
Repos ==
  { [ part |-> "repo", initial |-> NoFile, mixed |-> TRUE, opensTogether |-> TRUE ],
    [ part |-> "repo_apart", initial |-> NoFile, mixed |-> FALSE, opensTogether |-> TRUE ],
    [ part |-> "repo_torn", initial |-> TornFile, mixed |-> FALSE, opensTogether |-> FALSE ] }
Repo(c) ==
  INSTANCE JsonlRepo WITH
    file <- v1, call <- v2, openSessions <- v3, pendingCreates <- v4, acked <- v5, held <- v6,
    Callers <- {"c1", "c2", "c3"}, Ops <- {"create", "open", "delete"}, MaxCommits <- 2,
    Initial <- c.initial, Mixed <- c.mixed, OpensTogether <- c.opensTogether

-----------------------------------------------------------------------------
(* Where a compaction cuts the branch. *)
Cuts ==
  { [ part |-> "cut" ] }
Cut(c) ==
  INSTANCE CompactionCut WITH
    path <- v1, Kinds <- {"user", "bash", "assistant", "read", "edit", "branch", "custom"},
    Sizes <- {1}, KeepRecent <- 2, MaxEntries <- 6

-----------------------------------------------------------------------------
(* The file mutation queue: a file, a link to it and a new file. *)
Queues ==
  { [ part |-> "file_queue", maxCalls |-> 3 ],
    [ part |-> "file_queue_ends", maxCalls |-> 2 ] }
Mutations(c) ==
  INSTANCE FileMutationQueue WITH
    call <- v1, registration <- v2, queues <- v3, file <- v4, made <- v5, serial <- v6,
    Paths <- {"real", "link", "other"},
    RealPath <- [p \in {"real", "link", "other"} |-> IF p = "link" THEN "real" ELSE p],
    InitialFiles <- {"real"}, MayAbort <- TRUE, MaxCalls <- c.maxCalls

-----------------------------------------------------------------------------
(* Watching the harness: one watcher, its captures and resnapshots. *)
Watches ==
  { [ part |-> "watch", maxVersion |-> 4 ],
    [ part |-> "watch_settles", maxVersion |-> 2 ] }
Watch(c) ==
  INSTANCE EventWatch WITH
    version <- v1, line <- v2, tail <- v3, closed <- v4, watch <- v5, Watchers <- {"w1"},
    MaxResnapshots <- 1, MaxVersion <- c.maxVersion

-----------------------------------------------------------------------------
(* Settings of two processes, and an editor. *)
Setups ==
  { [ part |-> "settings", fields |-> {"theme", "model"}, present |-> TRUE, maxSets |-> 1,
      maxEdits |-> 1 ],
    [ part |-> "settings_again", fields |-> {"theme"}, present |-> TRUE, maxSets |-> 2,
      maxEdits |-> 0 ],
    [ part |-> "settings_flush", fields |-> {"theme"}, present |-> FALSE, maxSets |-> 1,
      maxEdits |-> 1 ] }
Config(c) ==
  INSTANCE Settings WITH
    file <- v1, lock <- v2, man <- v3, count <- v4, latest <- v5, unsaved <- v6,
    Managers <- {"m1", "m2"}, MaxCalls <- 1, Fields <- c.fields, Present <- c.present,
    MaxSets <- c.maxSets, MaxEdits <- c.maxEdits

-----------------------------------------------------------------------------
(* Credentials of two processes: three calls, one in the second process. *)
Auths ==
  { [ part |-> "auth", maxExpiries |-> 2, maxChanges |-> 2, maxAborts |-> 0 ],
    [ part |-> "auth_abort", maxExpiries |-> 1, maxChanges |-> 1, maxAborts |-> 2 ],
    [ part |-> "auth_settles", maxExpiries |-> 1, maxChanges |-> 0, maxAborts |-> 1 ] }
Auth(c) ==
  INSTANCE Credentials WITH
    file <- v1, lock <- v2, cache <- v3, reload <- v4, req <- v5, token <- v6, aborted <- v7,
    count <- v8, seen <- v9, Procs <- {"p1", "p2"}, Reqs <- Requests, ProcOf <- ProcessOf,
    MaxExpiries <- c.maxExpiries, MaxChanges <- c.maxChanges, MaxAborts <- c.maxAborts

-----------------------------------------------------------------------------
(* Which models are available: operations on two providers. *)
Availabilities ==
  { [ part |-> "models", maxTasks |-> 3, kinds |-> {"credential", "provider", "full"},
      mayFail |-> TRUE ],
    [ part |-> "models_shown", maxTasks |-> 3, kinds |-> {"credential", "provider"},
      mayFail |-> FALSE ],
    [ part |-> "models_settle", maxTasks |-> 2, kinds |-> {"credential", "provider", "full"},
      mayFail |-> TRUE ] }
Models(c) ==
  INSTANCE ModelAvailability WITH
    cred <- v1, snapshot <- v2, task <- v3, tail <- v4, seq <- v5, pseq <- v6,
    Providers <- {"p", "q"}, MaxTasks <- c.maxTasks, Kinds <- c.kinds, MayFail <- c.mayFail

-----------------------------------------------------------------------------
(* The catalog of models: refreshes of one process. *)
Catalogs ==
  { [ part |-> "catalog", maxRefreshes |-> 2, statuses |-> {"ok", "unchanged", "gone", "error"} ],
    [ part |-> "catalog_again", maxRefreshes |-> 3, statuses |-> {"ok"} ] }
Catalog(c) ==
  INSTANCE ModelCatalog WITH
    refr <- v1, gen <- v2, chain <- v3, memory <- v4, store <- v5, remote <- v6, Processes <- {"a"},
    MaxRemote <- 2, MaxRefreshes <- c.maxRefreshes, Statuses <- c.statuses

-----------------------------------------------------------------------------
(* The Codex transport: cached sockets, their failures, two accounts. *)
Codexes ==
  { [ part |-> "codex", maxRequests |-> 2, maxSockets |-> 4, accounts |-> {1}, setups |-> {1},
      sessions |-> {TRUE}, maxRetries |-> 1, mayClose |-> FALSE,
      faults |-> {"forget", "limit", "failed"} ],
    [ part |-> "codex_faults", maxRequests |-> 2, maxSockets |-> 4, accounts |-> {1},
      setups |-> {1}, sessions |-> {TRUE}, maxRetries |-> 0, mayClose |-> TRUE,
      faults |-> {"abort", "connect", "close", "idle"} ],
    [ part |-> "codex_accounts", maxRequests |-> 2, maxSockets |-> 4, accounts |-> {1, 2},
      setups |-> {1}, sessions |-> {TRUE, FALSE}, maxRetries |-> 1, mayClose |-> FALSE,
      faults |-> {"failed", "limit"} ],
    [ part |-> "codex_settles", maxRequests |-> 2, maxSockets |-> 4, accounts |-> {1},
      setups |-> {1}, sessions |-> {TRUE}, maxRetries |-> 1, mayClose |-> FALSE,
      faults |-> {"limit", "connect"} ] }
Codex(c) ==
  INSTANCE CodexTransport WITH
    req <- v1, conn <- v2, cache <- v3, fallback <- v4, history <- v5, MaxRequests <- c.maxRequests,
    MaxSockets <- c.maxSockets, Accounts <- c.accounts, Setups <- c.setups, Sessions <- c.sessions,
    MaxRetries <- c.maxRetries, MayClose <- c.mayClose, Faults <- c.faults

-----------------------------------------------------------------------------
(* The edit tool on short files: one edit, two edits, line endings. *)
Edits ==
  { [ part |-> "edit_one", files |-> OneFiles, oldTexts |-> OneOlds,
      newTexts |-> {<<>>, <<"b">>, <<"b", "n", "b">>}, maxEdits |-> 1 ],
    [ part |-> "edit_two", files |-> TwoFiles, oldTexts |-> TwoOlds,
      newTexts |-> {<<"b">>, <<"n">>}, maxEdits |-> 2 ],
    [ part |-> "edit_endings", files |-> EndFiles, oldTexts |-> EndOlds,
      newTexts |-> {<<"b">>, <<"r", "n">>, <<"n", "b">>}, maxEdits |-> 1 ] }
Edit(c) ==
  INSTANCE EditTool WITH
    file <- v1, request <- v2, result <- v3, Files <- c.files, OldTexts <- c.oldTexts,
    NewTexts <- c.newTexts, MaxEdits <- c.maxEdits

-----------------------------------------------------------------------------
(* The bounded view of a command's output. *)
Outputs ==
  { [ part |-> "output_tail", retain |-> "tail", maxOutput |-> 12 ],
    [ part |-> "output_head", retain |-> "head", maxOutput |-> 12 ] }
Output(c) ==
  INSTANCE OutputCapture WITH
    all <- v1, buffer <- v2, counts <- v3, published <- v4, consumer <- v5,
    Chunks <- {<<"n">>, <<"w", "a">>, <<"a", "a", "n">>, <<"a", "w", "a", "a", "w">>},
    MaxBytes <- 3, MaxLines <- 2, Retain <- c.retain, MaxOutput <- c.maxOutput

-----------------------------------------------------------------------------
(* A shell command, its output and what may go wrong. *)
Shells ==
  { [ part |-> "shell", maxChunks |-> 5,
      faults |-> {"abort", "timeout", "callback", "create", "stream", "cleanup"} ],
    [ part |-> "shell_ends", maxChunks |-> 4, faults |-> {"abort", "callback", "create", "stream"} ] }
Shell(c) ==
  INSTANCE ShellExec WITH
    child <- v1, held <- v2, killed <- v3, written <- v4, atExit <- v5, pipe <- v6, paused <- v7,
    ended <- v8, fed <- v9, spill <- v10, file <- v11, timer <- v12, errors <- v13, phase <- v14,
    result <- v15, PipeSize <- 2, Limit <- 1, HighWater <- 1, Remainder <- FALSE,
    MaxChunks <- c.maxChunks, Faults <- c.faults

-----------------------------------------------------------------------------
(* Delta tracking of a mutable value: an object, strings, an array. *)
Trackeds ==
  { [ part |-> "delta", roots |-> {Mixed}, items |-> {Str(<<"y", "x">>), Obj(1 :> Str(<<"y">>))},
      keys |-> {1, 2}, maxLen |-> 3, maxWrites |-> 2, maxFlushes |-> 2 ],
    [ part |-> "delta_arrays", roots |-> {Twins}, items |-> {Obj(1 :> Str(<<"y">>))}, keys |-> {1},
      maxLen |-> 3, maxWrites |-> 3, maxFlushes |-> 2 ],
    [ part |-> "delta_strings", roots |-> {Text}, items |-> Rewrites, keys |-> {1}, maxLen |-> 1,
      maxWrites |-> 3, maxFlushes |-> 3 ] }
Tracked(c) ==
  INSTANCE Delta WITH
    root <- v1, pending <- v2, hasPending <- v3, baseline <- v4, forceBase <- v5, replica <- v6,
    held <- v7, count <- v8, KeepHeld <- FALSE, MaxOverlapScan <- 3, Probe <- 2, MaxCandidates <- 1,
    Roots <- c.roots, Items <- c.items, Keys <- c.keys, MaxLen <- c.maxLen,
    MaxWrites <- c.maxWrites, MaxFlushes <- c.maxFlushes

-----------------------------------------------------------------------------
(* The wire form of its batches. *)
Codecs ==
  { [ part |-> "codec" ] }
Codec(c) ==
  INSTANCE DeltaCodec WITH
    enc <- v1, dec <- v2, reader <- v3, exact <- v4, batches <- v5, Paths <- {"p", "q", "u"},
    Verbs <- {"s", "d"}, MaxBatch <- 3, MaxBatches <- 4

-----------------------------------------------------------------------------
Init ==
  /\ part \in Parts
  /\ \/ \E c \in Loops : part = c.part /\ Loop(c)!Init /\ Blank6
     \/ \E c \in Sessions : part = c.part /\ Session(c)!Init /\ Blank10
     \/ \E c \in Managers : part = c.part /\ Manager(c)!Init /\ Blank8
     \/ \E c \in Jsonls : part = c.part /\ Jsonl(c)!Init /\ Blank6
     \/ \E c \in Repos : part = c.part /\ Repo(c)!Init /\ Blank6
     \/ \E c \in Cuts : part = c.part /\ Cut(c)!Init /\ Blank1
     \/ \E c \in Queues : part = c.part /\ Mutations(c)!Init /\ Blank6
     \/ \E c \in Watches : part = c.part /\ Watch(c)!Init /\ Blank5
     \/ \E c \in Setups : part = c.part /\ Config(c)!Init /\ Blank6
     \/ \E c \in Auths : part = c.part /\ Auth(c)!Init /\ Blank9
     \/ \E c \in Availabilities : part = c.part /\ Models(c)!Init /\ Blank6
     \/ \E c \in Catalogs : part = c.part /\ Catalog(c)!Init /\ Blank6
     \/ \E c \in Codexes : part = c.part /\ Codex(c)!Init /\ Blank5
     \/ \E c \in Edits : part = c.part /\ Edit(c)!Init /\ Blank3
     \/ \E c \in Outputs : part = c.part /\ Output(c)!Init /\ Blank5
     \/ \E c \in Shells : part = c.part /\ Shell(c)!Init
     \/ \E c \in Trackeds : part = c.part /\ Tracked(c)!Init /\ Blank8
     \/ \E c \in Codecs : part = c.part /\ Codec(c)!Init /\ Blank5

\* Parts that come to an end: a call returns, a bound is reached.
MayEnd == {c.part : c \in Loops \cup Sessions \cup Managers \cup Jsonls \cup Cuts \cup Queues \cup Setups \cup
    Auths \cup Edits \cup Outputs \cup Shells \cup Trackeds \cup Codecs} \cup {"models_settle"}

Next ==
  \/ \E c \in Loops : part = c.part /\ Loop(c)!Next /\ UNCHANGED <<part, Beyond6>>
  \/ \E c \in Sessions : part = c.part /\ Session(c)!Next /\ UNCHANGED <<part, Beyond10>>
  \/ \E c \in Managers : part = c.part /\ Manager(c)!Next /\ UNCHANGED <<part, Beyond8>>
  \/ \E c \in Jsonls : part = c.part /\ Jsonl(c)!Next /\ UNCHANGED <<part, Beyond6>>
  \/ \E c \in Repos : part = c.part /\ Repo(c)!Next /\ UNCHANGED <<part, Beyond6>>
  \/ \E c \in Cuts : part = c.part /\ Cut(c)!Next /\ UNCHANGED <<part, Beyond1>>
  \/ \E c \in Queues : part = c.part /\ Mutations(c)!Next /\ UNCHANGED <<part, Beyond6>>
  \/ \E c \in Watches : part = c.part /\ Watch(c)!Next /\ UNCHANGED <<part, Beyond5>>
  \/ \E c \in Setups : part = c.part /\ Config(c)!Next /\ UNCHANGED <<part, Beyond6>>
  \/ \E c \in Auths : part = c.part /\ Auth(c)!Next /\ UNCHANGED <<part, Beyond9>>
  \/ \E c \in Availabilities : part = c.part /\ Models(c)!Next /\ UNCHANGED <<part, Beyond6>>
  \/ \E c \in Catalogs : part = c.part /\ Catalog(c)!Next /\ UNCHANGED <<part, Beyond6>>
  \/ \E c \in Codexes : part = c.part /\ Codex(c)!Next /\ UNCHANGED <<part, Beyond5>>
  \/ \E c \in Edits : part = c.part /\ Edit(c)!Next /\ UNCHANGED <<part, Beyond3>>
  \/ \E c \in Outputs : part = c.part /\ Output(c)!Next /\ UNCHANGED <<part, Beyond5>>
  \/ \E c \in Shells : part = c.part /\ Shell(c)!Next /\ UNCHANGED part
  \/ \E c \in Trackeds : part = c.part /\ Tracked(c)!Next /\ UNCHANGED <<part, Beyond8>>
  \/ \E c \in Codecs : part = c.part /\ Codec(c)!Next /\ UNCHANGED <<part, Beyond5>>
  \/ part \in MayEnd /\ UNCHANGED all

Spec == Init /\ [][Next]_all

\* The fairness of each part (FairSpec of its module).
FairSpec ==
  /\ Spec
  /\ \A c \in Chosen(Loops) : WF_all(part = c.part /\ Loop(c)!Loop /\ UNCHANGED <<part, Beyond6>>)
  /\ \A c \in Chosen(Sessions) : WF_all(part = c.part /\ Session(c)!Program /\ UNCHANGED <<part, Beyond10>>)
  /\ \A c \in Chosen(Queues) : \A k \in 1..c.maxCalls : WF_all(part = c.part /\ Mutations(c)!Step(k) /\ UNCHANGED <<part, Beyond6>>)
  /\ \A c \in Chosen(Watches) :
       /\ WF_all(part = c.part /\ Watch(c)!delivered /\ UNCHANGED <<part, Beyond5>>)
       /\ WF_all(part = c.part /\ Watch(c)!Progress("w1") /\ UNCHANGED <<part, Beyond5>>)
       /\ SF_all(part = c.part /\ Watch(c)!beginCapture("w1") /\ UNCHANGED <<part, Beyond5>>)
  /\ \A c \in Chosen(Setups) : \A m \in {"m1", "m2"} : WF_all(part = c.part /\ Config(c)!Works(m) /\ UNCHANGED <<part, Beyond6>>)
  /\ \A c \in Chosen(Auths) : WF_all(part = c.part /\ Auth(c)!Program /\ UNCHANGED <<part, Beyond9>>)
  /\ \A c \in Chosen(Availabilities) : \A t \in 1..c.maxTasks : WF_all(part = c.part /\ Models(c)!Progress(t) /\ UNCHANGED <<part, Beyond6>>)
  /\ \A c \in Chosen(Codexes) :
       /\ \A r \in 1..c.maxRequests : WF_all(part = c.part /\ Codex(c)!Own(r) /\ UNCHANGED <<part, Beyond5>>)
       /\ \A s \in 1..c.maxSockets : WF_all(part = c.part /\ Codex(c)!Server(s) /\ UNCHANGED <<part, Beyond5>>)
  /\ \A c \in Chosen(Shells) :
       /\ WF_all(part = c.part /\ Shell(c)!killedExits /\ UNCHANGED part)
       /\ WF_all(part = c.part /\ Shell(c)!data /\ UNCHANGED part)
       /\ WF_all(part = c.part /\ Shell(c)!outputEnd /\ UNCHANGED part)
       /\ WF_all(part = c.part /\ Shell(c)!idle /\ UNCHANGED part)
       /\ WF_all(part = c.part /\ Shell(c)!createTempFile /\ UNCHANGED part)
       /\ WF_all(part = c.part /\ Shell(c)!drain /\ UNCHANGED part)
       /\ WF_all(part = c.part /\ Shell(c)!settle /\ UNCHANGED part)

-----------------------------------------------------------------------------
(* Properties of the parts. *)

\* What a user queues is delivered once and in order: a message is at any time in its queue, among
\* those the run has drained, or in the transcript; a turn takes one of them in one-at-a-time mode,
\* the queue the user is shown is the one the agent still has to deliver; and whoever waits for the
\* session to be idle waits only while something is under way.
QueuedInputIsServed ==
  /\ \A c \in Loops : part = c.part => Loop(c)!QueuedOnceInOrder /\ Loop(c)!OneSteeringPerTurn
  /\ \A c \in Sessions : part = c.part => Session(c)!ShownIsQueued /\ Session(c)!WaitersAreWoken

\* What the provider is sent is the transcript, and answers every tool call, whatever aborts and failures left behind, by
\* its own results in the order of the calls; in the session's transcript, and in the context its
\* file resolves to, bash results and custom messages do not come between a call and its result.
CallsAreAnswered ==
  /\ \A c \in Loops : part = c.part => Loop(c)!ContextIsTranscript /\ Loop(c)!ProviderSeesAnswers /\ Loop(c)!OwnResultsInOrder
  /\ \A c \in Sessions : part = c.part => Session(c)!ResultsFollowCalls /\ Session(c)!TranscriptIsContext

\* A fork of a session resolves to the context of the branch it copies, a compaction keeps what it
\* does not summarize, its cut never separates a tool result from its call, and its lists name every
\* file that a message outside the context read or edited.
ContextSurvives ==
  /\ \A c \in Managers : part = c.part => Manager(c)!ForkKeepsContext /\ Manager(c)!CompactionLosesNothing
  /\ \A c \in Cuts : part = c.part => Cut(c)!ContextIsSuffix /\ Cut(c)!ResultsHaveCalls /\ Cut(c)!FilesRemembered

\* What was reported written is in the file after crashes and torn appends, and what memory holds
\* is what a reader of the file would find: for the session file and for the harness's JSONL log. A
\* fork is a snapshot of one state of its source. A stored session has at most one writer, and where
\* calls of different kinds keep apart, nothing committed to it is lost.
WrittenSurvives ==
  /\ \A c \in Jsonls : part = c.part => Jsonl(c)!ResolvedCommitsSurvive /\ Jsonl(c)!MemoryMatchesFile
  /\ \A c \in Managers : part = c.part => Manager(c)!WrittenEntriesSurvive /\ Manager(c)!FileMatchesMemory
  /\ \A c \in Jsonls : part = c.part => Jsonl(c)!ForkIsSnapshot
  /\ \A c \in Repos : part = c.part => Repo(c)!OneWriter /\ (~c.mixed => Repo(c)!CommitsSurvive)
                                  /\ (~c.opensTogether => Repo(c)!HolderMatchesFile)

\* Saving one setting keeps what another process or an editor wrote to the others, and what flush()
\* reported saved is in the file.
OthersSurvive ==
  /\ \A c \in Setups : part = c.part /\ c.present => Config(c)!OthersSurvive
  /\ \A c \in Setups : part = c.part => Config(c)!FlushedIsSaved

\* A refresh token is spent once among all processes, the rotated one is stored before it is used,
\* and what is written for one provider keeps the credentials of the others.
OneRefreshServesAll ==
  /\ \A c \in Auths : part = c.part => Auth(c)!RefreshOnce
  /\ \A c \in Auths : part = c.part /\ c.maxAborts = 0 => Auth(c)!RotatedIsStored
  /\ \A c \in Auths : part = c.part => Auth(c)!OtherKeySurvives /\ Auth(c)!CacheIsHonest

\* The snapshot a listener was last told is what the latest finished operations found, and the
\* operations that change it run one at a time; a catalog is stored before it is shown, and stays so.
SnapshotIsCurrent ==
  /\ \A c \in Availabilities : part = c.part /\ ~c.mayFail => Models(c)!SnapshotIsCurrent
  /\ \A c \in Availabilities : part = c.part => Models(c)!OneAtATime
  /\ \A c \in Catalogs : part = c.part => Catalog(c)!ShownIsStored /\ Catalog(c)!RefreshedIsStored

\* The catalog that is shown is never replaced by one fetched earlier, and no snapshot of the
\* available models by one of an earlier pass.
CatalogNeverGoesBack ==
  [][ /\ \A c \in Catalogs : part = c.part => Catalog(c)!CatalogNeverGoesBackStep
      /\ \A c \in Availabilities : part = c.part => Models(c)!NeverOlderStep]_all

\* A request that continues a connection's previous response stands for the whole context of its
\* session, gets its own output, and leaves no socket open that nobody owns.
RequestsKeepTheirContext == \A c \in Codexes : part = c.part => Codex(c)!ContextIsWhole /\ Codex(c)!OwnOutput /\ Codex(c)!NoLeakedSocket

\* Whoever applies the batches of a tracked value, or follows the events after a snapshot, has the
\* value itself after each of them, with no change missing or repeated.
ReplicaIsExact ==
  /\ \A c \in Trackeds : part = c.part => Tracked(c)!ReplicaIsExact
  /\ \A c \in Codecs : part = c.part => Codec(c)!StreamIsExact /\ Codec(c)!RecoveryIsExact
  /\ \A c \in Watches : part = c.part => Watch(c)!ReplicaHasNoGap

\* Mutations of one file, by whatever path, are serialized, and an edit replaces the one place its
\* text matches. A command's result holds all of its output, in memory or in the spill file, whatever
\* was paused, aborted or failed on the way; the bounded view of it is a part of it, counted right.
ToolsAreExact ==
  /\ \A c \in Queues : part = c.part => Mutations(c)!MutationsSerializable /\ Mutations(c)!QueueKeysExact
  /\ \A c \in Edits : part = c.part => Edit(c)!EditsMatch /\ Edit(c)!PlaceIsClear /\ Edit(c)!OtherLinesKept /\ Edit(c)!OverlayIsExact
  /\ \A c \in Shells : part = c.part => Shell(c)!OutputIsWhole /\ Shell(c)!SpillIsComplete
  /\ \A c \in Outputs : part = c.part => Output(c)!ViewIsExact /\ Output(c)!LineIsCounted /\ Output(c)!ConsumerIsExact

\* The newest summary stands for every message that is no longer in the
\* context (compactWithRequest).
NothingForgotten == \A c \in Cuts : part = c.part => Cut(c)!NothingForgotten

\* Every call ends: a run that was begun, a caller of the session and its waiters, a file mutation,
\* a flush, a credential call, an operation on the models, a request, a command whose output was
\* paused; and a watcher that fell behind gets the state again.
CallsEnd ==
  /\ \A c \in Chosen(Loops) : (part = c.part /\ Loop(c)!activeRun) ~> (part = c.part => ~Loop(c)!activeRun)
  /\ \A c \in Chosen(Sessions) :
       /\ \A k \in c.callers : (part = c.part /\ Session(c)!Called(k)) ~> (part = c.part => Session(c)!Ended(k))
       /\ (part = c.part /\ Session(c)!Waits) ~> (part = c.part => ~Session(c)!Waits)
  /\ \A c \in Chosen(Queues) : \A k \in 1..c.maxCalls : (part = c.part /\ Mutations(c)!Asked(k)) ~> (part = c.part => Mutations(c)!Ended(k))
  /\ \A c \in Chosen(Watches) : <>[](part = c.part => Watch(c)!CaughtUp("w1"))
  /\ \A c \in Chosen(Setups) : \A m \in {"m1", "m2"} : <>[](part = c.part => Config(c)!Flushed(m))
  /\ \A c \in Chosen(Auths) : \A r \in Requests : (part = c.part /\ Auth(c)!Called(r)) ~> (part = c.part => Auth(c)!Returned(r))
  /\ \A c \in Chosen(Availabilities) : \A t \in 1..c.maxTasks : (part = c.part /\ Models(c)!Sent(t)) ~> (part = c.part => Models(c)!Ended(t))
  /\ \A c \in Chosen(Codexes) : \A r \in 1..c.maxRequests : (part = c.part /\ Codex(c)!Active(r)) ~> (part = c.part => Codex(c)!IsOver(r))
  /\ \A c \in Chosen(Shells) :
       /\ (part = c.part /\ Shell(c)!Leaving) ~> (part = c.part => Shell(c)!IsSettled)
       /\ (part = c.part /\ Shell(c)!Paused) ~> (part = c.part => Shell(c)!Flows)
=============================================================================
