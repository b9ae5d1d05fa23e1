------------------------------- MODULE MCHosts -------------------------------
(***************************************************************************)
(* The parts of the session server, its services and the terminal for TLC. *)
(* As in MCAgent: a behaviour is that of one part, chosen in its first     *)
(* state among those the .cfg file lists, with its variables in the slots. *)
(***************************************************************************)
EXTENDS Integers, Sequences, FiniteSets

CONSTANTS Null, s1, s2,
          Parts   \* names of the parts of a run

VARIABLES part, v1, v2, v3, v4, v5, v6, v7, v8, v9, v10, v11, v12, v13, v14, v15

all == <<part, v1, v2, v3, v4, v5, v6, v7, v8, v9, v10, v11, v12, v13, v14, v15>>

\* The slots a part of n variables leaves alone, and their value.
Beyond14 == v15
Beyond13 == <<v14, Beyond14>>
Beyond12 == <<v13, Beyond13>>
Beyond11 == <<v12, Beyond12>>
Beyond10 == <<v11, Beyond11>>
Beyond9 == <<v10, Beyond10>>
Beyond8 == <<v9, Beyond9>>
Beyond7 == <<v8, Beyond8>>
Beyond6 == <<v7, Beyond7>>
Beyond5 == <<v6, Beyond6>>
Beyond4 == <<v5, Beyond5>>
Beyond3 == <<v4, Beyond4>>
Beyond2 == <<v3, Beyond3>>
Beyond1 == <<v2, Beyond2>>
Blank14 == v15 = 0
Blank13 == v14 = 0 /\ Blank14
Blank12 == v13 = 0 /\ Blank13
Blank11 == v12 = 0 /\ Blank12
Blank10 == v11 = 0 /\ Blank11
Blank9 == v10 = 0 /\ Blank10
Blank8 == v9 = 0 /\ Blank9
Blank7 == v8 = 0 /\ Blank8
Blank6 == v7 = 0 /\ Blank7
Blank5 == v6 = 0 /\ Blank6
Blank4 == v5 = 0 /\ Blank5
Blank3 == v4 = 0 /\ Blank4
Blank2 == v3 = 0 /\ Blank3
Blank1 == v2 = 0 /\ Blank2

Chosen(S) == {c \in S : c.part \in Parts}

A == [c |-> "a", id |-> 0, of |-> <<>>]
B == [c |-> "b", id |-> 0, of |-> <<>>]
Slash == [c |-> "/", id |-> 0, of |-> <<>>]

\* What a terminal sends, as sequences of tokens: e is the escape character.
Csi == <<"e", "[", "p", "u">>
Pasted == <<"e", "[", "S", "a", "e", "u", "e", "[", "E">>
WholeKeys == {<<"a">>, Csi, <<"e", "u">>, <<"e", "[", "k">>, <<"e", "]", "p", "b">>, <<"e", "P", "u", "e", "t">>, Pasted}
SplitKeys == {<<"a">>, Csi, <<"e">>, <<"e", "O", "u">>, <<"e", "]", "p", "e", "t">>}

-----------------------------------------------------------------------------
(* The server's routing: two clients, one or two sessions. *)
Routers ==
  { [ part |-> "router", sessions |-> {s1, s2}, maxOps |-> 2, maxRemovals |-> 1, maxCrashes |-> 0,
      maxRefusals |-> 0, mayClose |-> FALSE ],
    [ part |-> "router_close", sessions |-> {s1}, maxOps |-> 2, maxRemovals |-> 0, maxCrashes |-> 1,
      maxRefusals |-> 1, mayClose |-> TRUE ],
    [ part |-> "router_ends", sessions |-> {s1}, maxOps |-> 2, maxRemovals |-> 0, maxCrashes |-> 0,
      maxRefusals |-> 0, mayClose |-> TRUE ] }
Router(c) ==
  INSTANCE SessionRouter WITH
    handle <- v1, hosted <- v2, opening <- v3, att <- v4, byClient <- v5, queue <- v6, gone <- v7,
    marked <- v8, shown <- v9, calls <- v10, remover <- v11, closer <- v12, budget <- v13,
    Clients <- {"c1", "c2"}, MaxCalls <- 1, Deferred <- FALSE, Sessions <- c.sessions,
    MaxOps <- c.maxOps, MaxRemovals <- c.maxRemovals, MaxCrashes <- c.maxCrashes,
    MaxRefusals <- c.maxRefusals, MayClose <- c.mayClose

-----------------------------------------------------------------------------
(* A client and its server: requests, a stream, connections cut. *)
Wires ==
  { [ part |-> "protocol", maxConnections |-> 2, maxRequests |-> 2, maxValue |-> 0,
      subscribes |-> FALSE ],
    [ part |-> "protocol_stream", maxConnections |-> 1, maxRequests |-> 1, maxValue |-> 2,
      subscribes |-> TRUE ],
    [ part |-> "protocol_settles", maxConnections |-> 1, maxRequests |-> 1, maxValue |-> 2,
      subscribes |-> TRUE ] }
Wire(c) ==
  INSTANCE Protocol WITH
    client <- v1, conn <- v2, req <- v3, value <- v4, fault <- v5, faults <- v6, MaxFaults <- 1,
    MaxConnections <- c.maxConnections, MaxRequests <- c.maxRequests, MaxValue <- c.maxValue,
    Subscribes <- c.subscribes

-----------------------------------------------------------------------------
(* A consumer's binding to two providers in turn. *)
Bindings ==
  { [ part |-> "binding_keyed", keyed |-> TRUE, maxChanges |-> 1, maxRebinds |-> 2,
      maxObservers |-> 2, observeAnytime |-> FALSE ],
    [ part |-> "binding_anytime", keyed |-> TRUE, maxChanges |-> 1, maxRebinds |-> 2,
      maxObservers |-> 2, observeAnytime |-> TRUE ],
    [ part |-> "binding_singleton", keyed |-> FALSE, maxChanges |-> 2, maxRebinds |-> 2,
      maxObservers |-> 1, observeAnytime |-> TRUE ] }
Binding(c) ==
  INSTANCE ServiceBinding WITH
    prov <- v1, changes <- v2, sub <- v3, cons <- v4, rebinds <- v5, fault <- v6,
    Targets <- {"t1", "t2"}, Keys <- {"k1"}, Keyed <- c.keyed, MaxChanges <- c.maxChanges,
    MaxRebinds <- c.maxRebinds, MaxObservers <- c.maxObservers, ObserveAnytime <- c.observeAnytime

-----------------------------------------------------------------------------
(* The session workers behind a coordinator: one server, or one after another. *)
Works ==
  { [ part |-> "workers", servers |-> {"s1"}, workers |-> {"w1"}, attachments |-> {"a1"},
      maxEnds |-> 2, stops |-> TRUE ],
    [ part |-> "workers_two", servers |-> {"s1"}, workers |-> {"w1"}, attachments |-> {"a1", "a2"},
      maxEnds |-> 0, stops |-> FALSE ],
    [ part |-> "server_handover", servers |-> {"s1", "s2"}, workers |-> {"w1"},
      attachments |-> {"a1"}, maxEnds |-> 1, stops |-> FALSE ],
    [ part |-> "worker_handover", servers |-> {"s1", "s2"}, workers |-> {"w1", "w2"},
      attachments |-> {}, maxEnds |-> 1, stops |-> FALSE ],
    [ part |-> "workers_settle", servers |-> {"s1"}, workers |-> {"w1"}, attachments |-> {"a1"},
      maxEnds |-> 1, stops |-> FALSE ] }
Work(c) ==
  INSTANCE SessionWorkers WITH
    current <- v1, peers <- v2, toServer <- v3, toPeer <- v4, srv <- v5, att <- v6, op <- v7,
    wk <- v8, lock <- v9, ends <- v10, None <- Null, Servers <- c.servers, Workers <- c.workers,
    Attachments <- c.attachments, MaxEnds <- c.maxEnds, Stops <- c.stops,
    MayStall <- TRUE

-----------------------------------------------------------------------------
(* A host of two or three facets, their reloads and failures. *)
FacetHosts ==
  { [ part |-> "facets", facets |-> <<"a", "b", "c">>, maxReloads |-> 1, maxFailures |-> 0 ],
    [ part |-> "facets_fail", facets |-> <<"a", "b">>, maxReloads |-> 1, maxFailures |-> 2 ],
    [ part |-> "facets_settle", facets |-> <<"a", "b">>, maxReloads |-> 1, maxFailures |-> 2 ] }
Facet(c) ==
  INSTANCE FacetHost WITH
    phase <- v1, requires <- v2, order <- v3, current <- v4, inst <- v5, slot <- v6, staged <- v7,
    connected <- v8, keyed <- v9, step <- v10, todo <- v11, errs <- v12, reloads <- v13,
    failures <- v14, Facets <- c.facets, MaxReloads <- c.maxReloads, MaxFailures <- c.maxFailures

-----------------------------------------------------------------------------
(* An adaptive publisher and its consumer. *)
Publishers ==
  { [ part |-> "publisher" ] }
Publish(c) ==
  INSTANCE AdaptivePublisher WITH
    value <- v1, published <- v2, dirty <- v3, hot <- v4, timer <- v5, disposed <- v6,
    consumer <- v7, torn <- v8, faults <- v9, Values <- {0, 1, 2}, MaxFaults <- 2

-----------------------------------------------------------------------------
(* The relay of remote clients. *)
Relays ==
  { [ part |-> "relay", ids |-> {"i", "j"}, maxSockets |-> 2, maxSends |-> 1, maxPending |-> 4 ],
    [ part |-> "relay_stops", ids |-> {"i"}, maxSockets |-> 2, maxSends |-> 1, maxPending |-> 2 ],
    [ part |-> "relay_full", ids |-> {"i", "j"}, maxSockets |-> 1, maxSends |-> 2, maxPending |-> 1 ] }
Relay(c) ==
  INSTANCE RadiusRelay WITH
    loop <- v1, sockets <- v2, alive <- v3, closed <- v4, conns <- v5, server <- v6, told <- v7,
    queue <- v8, toHost <- v9, toRelay <- v10, relay <- v11, sent <- v12, MayRefuse <- TRUE,
    Ids <- c.ids, MaxSockets <- c.maxSockets, MaxSends <- c.maxSends, MaxPending <- c.maxPending

-----------------------------------------------------------------------------
(* A remote client that reconnects. *)
Reconnects ==
  { [ part |-> "reconnect", mayRemove |-> TRUE ],
    [ part |-> "reconnect_settles", mayRemove |-> FALSE ] }
Reconnect(c) ==
  INSTANCE RadiusReconnect WITH
    state <- v1, loop <- v2, desired <- v3, attachment <- v4, requests <- v5, sessions <- v6,
    disposed <- v7, chosen <- v8, drops <- v9, attaches <- v10, Sessions <- {"s", "t"},
    MaxDrops <- 3, MaxAttaches <- 3, FailsAtOnce <- FALSE, MayRemove <- c.mayRemove

-----------------------------------------------------------------------------
(* The main screen: two texts, images, forced renders. *)
Screens ==
  { [ part |-> "screen", texts |-> {"a", "b"}, withImages |-> FALSE, heights |-> {2},
      maxLines |-> 3, clearOnShrink |-> FALSE, forces |-> FALSE ],
    [ part |-> "screen_images", texts |-> {"a"}, withImages |-> TRUE, heights |-> {2, 3},
      maxLines |-> 3, clearOnShrink |-> FALSE, forces |-> FALSE ],
    [ part |-> "screen_forced", texts |-> {"a"}, withImages |-> TRUE, heights |-> {1, 2},
      maxLines |-> 2, clearOnShrink |-> TRUE, forces |-> TRUE ],
    [ part |-> "screen_drawn", texts |-> {"a"}, withImages |-> FALSE, heights |-> {1, 2},
      maxLines |-> 1, clearOnShrink |-> FALSE, forces |-> TRUE ] }
Screen(c) ==
  INSTANCE MainScreen WITH
    term <- v1, height <- v2, width <- v3, prev <- v4, content <- v5, drawn <- v6, sched <- v7,
    ticks <- v8, stopped <- v9, Blank <- "blank", Image <- "image", Garbled <- "garbled",
    ImageRows <- 2, MaxTicks <- 2, CursorAnywhere <- FALSE, Texts <- c.texts,
    WithImages <- c.withImages, Heights <- c.heights, MaxLines <- c.maxLines,
    ClearOnShrink <- c.clearOnShrink, Forces <- c.forces

-----------------------------------------------------------------------------
(* The editor: kills and yanks, large pastes, the history of prompts. *)
Editors ==
  { [ part |-> "editor_kill", clipboard |-> {<<<<A>>, <<B>>>>}, pasteLines |-> 10, prompts |-> {},
      operations |-> {"insert", "kill", "yank", "move"}, maxEdits |-> 4, maxKills |-> 20, stale |-> FALSE ],
    [ part |-> "editor_yank", clipboard |-> {<<<<>>, <<A>>>>}, pasteLines |-> 10, prompts |-> {},
      operations |-> {"insert", "kill", "yank", "move"}, maxEdits |-> 5, maxKills |-> 20, stale |-> FALSE ],
    [ part |-> "editor_paste", clipboard |-> {<<<<A>>, <<B>>>>, <<<<B>>, <<A>>>>}, pasteLines |-> 1,
      prompts |-> {}, operations |-> {"paste", "backspace", "delete", "undo", "move", "submit"},
      maxEdits |-> 3, maxKills |-> 1, stale |-> FALSE ],
    [ part |-> "editor_history", clipboard |-> {<<<<Slash, A>>>>, <<<<A>>, <<B>>>>},
      pasteLines |-> 1, prompts |-> {<<<<A>>>>, <<<<B>>, <<A>>>>},
      operations |-> {"type", "newline", "paste", "backspace", "undo", "setText", "history", "submit"},
      maxEdits |-> 2, maxKills |-> 1, stale |-> FALSE ],
    [ part |-> "editor_markers", clipboard |-> {<<<<A>>, <<B>>>>, <<<<B>>, <<A>>>>}, pasteLines |-> 1,
      prompts |-> {}, operations |-> {"paste", "backspace", "kill", "yank", "undo", "move", "submit"},
      maxEdits |-> 3, maxKills |-> 1, stale |-> FALSE ],
    [ part |-> "editor_stale", clipboard |-> {<<<<A>>, <<B>>>>}, pasteLines |-> 1, prompts |-> {},
      operations |-> {"paste", "backspace", "kill", "yank", "undo", "submit"}, maxEdits |-> 3,
      maxKills |-> 2, stale |-> TRUE ] }
Typing(c) ==
  INSTANCE Editor WITH
    state <- v1, pastes <- v2, pasteCounter <- v3, undoStack <- v4, lastAction <- v5,
    killRing <- v6, history <- v7, historyIndex <- v8, historyDraft <- v9, base <- v10,
    submitted <- v11, Letters <- {"a"}, HistoryLimit <- 2, MaxTyped <- 2, Clipboard <- c.clipboard,
    PasteLines <- c.pasteLines, Prompts <- c.prompts, Operations <- c.operations,
    MaxEdits <- c.maxEdits, MaxKills <- c.maxKills, StaleYanks <- c.stale

-----------------------------------------------------------------------------
(* Its autocompletion. *)
Completions ==
  { [ part |-> "autocomplete", positions |-> {"p1", "p2", "p3"}, maxTokens |-> 8 ],
    [ part |-> "autocomplete_settles", positions |-> {"p1", "p2"}, maxTokens |-> 6 ] }
Complete(c) ==
  INSTANCE EditorAutocomplete WITH
    pos <- v1, startToken <- v2, timer <- v3, queue <- v4, run <- v5, abortable <- v6, picker <- v7,
    cancelled <- v8, NoFiles <- {}, None <- Null, SilentEdits <- FALSE, Positions <- c.positions,
    MaxTokens <- c.maxTokens

-----------------------------------------------------------------------------
(* The focus among two overlays. *)
Focuses ==
  { [ part |-> "overlays", nonCapturing |-> {"b"}, conditional |-> {} ],
    [ part |-> "overlays_resized", nonCapturing |-> {}, conditional |-> {"b"} ] }
Focus(c) ==
  INSTANCE OverlayFocus WITH
    ui <- v1, wide <- v2, mounted <- v3, received <- v4, owner <- v5, Base <- {"editor", "list"},
    Overlays <- {"a", "b"}, Targets <- {}, LateHandles <- FALSE, Editor <- "editor", None <- Null,
    NonCapturing <- c.nonCapturing, Conditional <- c.conditional

-----------------------------------------------------------------------------
(* The terminal's input, cut anywhere. *)
Stdins ==
  { [ part |-> "stdin", keys |-> WholeKeys, maxKeys |-> 3, mayExpire |-> FALSE ],
    [ part |-> "stdin_expires", keys |-> SplitKeys, maxKeys |-> 2, mayExpire |-> TRUE ] }
Stdin(c) ==
  INSTANCE StdinBuffer WITH
    typed <- v1, unread <- v2, buffer <- v3, pasteMode <- v4, pasteBuffer <- v5, pending <- v6,
    out <- v7, Keys <- c.keys, MaxKeys <- c.maxKeys, MayExpire <- c.mayExpire

-----------------------------------------------------------------------------
(* What the user submits while the agent works. *)
Inputs ==
  { [ part |-> "input", texts |-> {1, 2, 3}, fails |-> FALSE, preCompact |-> FALSE,
      navFails |-> FALSE, maxCompacts |-> 3, maxKeys |-> 1, maxRetries |-> 1 ],
    [ part |-> "input_escape", texts |-> {1, 2}, fails |-> TRUE, preCompact |-> TRUE,
      navFails |-> TRUE, maxCompacts |-> 2, maxKeys |-> 2, maxRetries |-> 1 ],
    [ part |-> "input_settles", texts |-> {1, 2}, fails |-> FALSE, preCompact |-> FALSE,
      navFails |-> FALSE, maxCompacts |-> 2, maxKeys |-> 1, maxRetries |-> 1 ] }
Input(c) ==
  INSTANCE InteractiveMode WITH
    used <- v1, input <- v2, loop <- v3, call <- v4, session <- v5, ctl <- v6, cq <- v7,
    batch <- v8, sent <- v9, editor <- v10, esc <- v11, count <- v12, Overlap <- {},
    Texts <- c.texts, Fails <- c.fails, PreCompact <- c.preCompact, NavFails <- c.navFails,
    MaxCompacts <- c.maxCompacts, MaxKeys <- c.maxKeys, MaxRetries <- c.maxRetries

-----------------------------------------------------------------------------
(* The RPC mode: commands one after another or overlapping. *)
Rpcs ==
  { [ part |-> "rpc", maxCommands |-> 4,
      kinds |-> {"prompt", "command", "abort", "query", "new", "switch", "fork"},
      timeouts |-> FALSE, creationFails |-> FALSE, settledHandlers |-> FALSE, mayQuit |-> FALSE ],
    [ part |-> "rpc_overlap", maxCommands |-> 2, kinds |-> {"prompt", "command", "abort", "new"},
      timeouts |-> TRUE, creationFails |-> FALSE, settledHandlers |-> FALSE, mayQuit |-> FALSE ],
    [ part |-> "rpc_settles", maxCommands |-> 2, kinds |-> {"prompt", "new"}, timeouts |-> TRUE,
      creationFails |-> TRUE, settledHandlers |-> TRUE, mayQuit |-> TRUE ] }
Rpc(c) ==
  INSTANCE RpcMode WITH
    cmd <- v1, answers <- v2, pending <- v3, session <- v4, settling <- v5, current <- v6,
    view <- v7, sub <- v8, dark <- v9, requested <- v10, due <- v11, exit <- v12,
    MaxCommands <- c.maxCommands, Kinds <- c.kinds, Timeouts <- c.timeouts,
    CreationFails <- c.creationFails, SettledHandlers <- c.settledHandlers, MayQuit <- c.mayQuit

-----------------------------------------------------------------------------
Init ==
  /\ part \in Parts
  /\ \/ \E c \in Routers : part = c.part /\ Router(c)!Init /\ Blank13
     \/ \E c \in Wires : part = c.part /\ Wire(c)!Init /\ Blank6
     \/ \E c \in Bindings : part = c.part /\ Binding(c)!Init /\ Blank6
     \/ \E c \in Works : part = c.part /\ Work(c)!Init /\ Blank10
     \/ \E c \in FacetHosts : part = c.part /\ Facet(c)!Init /\ Blank14
     \/ \E c \in Publishers : part = c.part /\ Publish(c)!Init /\ Blank9
     \/ \E c \in Relays : part = c.part /\ Relay(c)!Init /\ Blank12
     \/ \E c \in Reconnects : part = c.part /\ Reconnect(c)!Init /\ Blank10
     \/ \E c \in Screens : part = c.part /\ Screen(c)!Init /\ Blank9
     \/ \E c \in Editors : part = c.part /\ Typing(c)!Init /\ Blank11
     \/ \E c \in Completions : part = c.part /\ Complete(c)!Init /\ Blank8
     \/ \E c \in Focuses : part = c.part /\ Focus(c)!Init /\ Blank5
     \/ \E c \in Stdins : part = c.part /\ Stdin(c)!Init /\ Blank7
     \/ \E c \in Inputs : part = c.part /\ Input(c)!Init /\ Blank12
     \/ \E c \in Rpcs : part = c.part /\ Rpc(c)!Init /\ Blank12

\* Parts that come to an end: a call returns, a bound is reached.
MayEnd == {c.part : c \in Works \cup FacetHosts \cup Editors \cup Completions \cup Inputs} \cup {"router_ends"}

Next ==
  \/ \E c \in Routers : part = c.part /\ Router(c)!Next /\ UNCHANGED <<part, Beyond13>>
  \/ \E c \in Wires : part = c.part /\ Wire(c)!Next /\ UNCHANGED <<part, Beyond6>>
  \/ \E c \in Bindings : part = c.part /\ Binding(c)!Next /\ UNCHANGED <<part, Beyond6>>
  \/ \E c \in Works : part = c.part /\ Work(c)!Next /\ UNCHANGED <<part, Beyond10>>
  \/ \E c \in FacetHosts : part = c.part /\ Facet(c)!Next /\ UNCHANGED <<part, Beyond14>>
  \/ \E c \in Publishers : part = c.part /\ Publish(c)!Next /\ UNCHANGED <<part, Beyond9>>
  \/ \E c \in Relays : part = c.part /\ Relay(c)!Next /\ UNCHANGED <<part, Beyond12>>
  \/ \E c \in Reconnects : part = c.part /\ Reconnect(c)!Next /\ UNCHANGED <<part, Beyond10>>
  \/ \E c \in Screens : part = c.part /\ Screen(c)!Next /\ UNCHANGED <<part, Beyond9>>
  \/ \E c \in Editors : part = c.part /\ Typing(c)!Next /\ UNCHANGED <<part, Beyond11>>
  \/ \E c \in Completions : part = c.part /\ Complete(c)!Next /\ UNCHANGED <<part, Beyond8>>
  \/ \E c \in Focuses : part = c.part /\ Focus(c)!Next /\ UNCHANGED <<part, Beyond5>>
  \/ \E c \in Stdins : part = c.part /\ Stdin(c)!Next /\ UNCHANGED <<part, Beyond7>>
  \/ \E c \in Inputs : part = c.part /\ Input(c)!Next /\ UNCHANGED <<part, Beyond12>>
  \/ \E c \in Rpcs : part = c.part /\ Rpc(c)!Next /\ UNCHANGED <<part, Beyond12>>
  \/ part \in MayEnd /\ UNCHANGED all

Spec == Init /\ [][Next]_all

\* The fairness of each part (FairSpec of its module).
FairSpec ==
  /\ Spec
  /\ \A c \in Chosen(Routers) :
       /\ \A k \in {"c1", "c2"} : WF_all(part = c.part /\ Router(c)!Client(k) /\ UNCHANGED <<part, Beyond13>>)
       /\ \A a \in 1..c.maxOps : WF_all(part = c.part /\ Router(c)!ReleaseOf(a) /\ UNCHANGED <<part, Beyond13>>)
       /\ \A a \in 1..c.maxOps : WF_all(part = c.part /\ Router(c)!LeaseOf(a) /\ UNCHANGED <<part, Beyond13>>)
       /\ \A a \in 1..c.maxOps : WF_all(part = c.part /\ Router(c)!AbortedCallSettles(a) /\ UNCHANGED <<part, Beyond13>>)
       /\ \A h \in 1..c.maxOps : WF_all(part = c.part /\ Router(c)!WorkerOf(h) /\ UNCHANGED <<part, Beyond13>>)
       /\ WF_all(part = c.part /\ Router(c)!Close /\ UNCHANGED <<part, Beyond13>>)
  /\ \A c \in Chosen(Wires) :
       /\ \A i \in 1..c.maxConnections : WF_all(part = c.part /\ Wire(c)!Opens(i) /\ UNCHANGED <<part, Beyond6>>)
       /\ \A i \in 1..c.maxConnections : WF_all(part = c.part /\ Wire(c)!ClientReads(i) /\ UNCHANGED <<part, Beyond6>>)
       /\ \A i \in 1..c.maxConnections : WF_all(part = c.part /\ Wire(c)!ServerReads(i) /\ UNCHANGED <<part, Beyond6>>)
       /\ \A r \in 1..c.maxRequests : WF_all(part = c.part /\ Wire(c)!Responds(r) /\ UNCHANGED <<part, Beyond6>>)
       /\ \A r \in 1..c.maxRequests : WF_all(part = c.part /\ Wire(c)!Drains(r) /\ UNCHANGED <<part, Beyond6>>)
  /\ \A c \in Chosen(Works) :
       /\ \A w \in c.workers : WF_all(part = c.part /\ Work(c)!registerPeer(w) /\ UNCHANGED <<part, Beyond10>>)
       /\ \A w \in c.workers : WF_all(part = c.part /\ Work(c)!startFails(w) /\ UNCHANGED <<part, Beyond10>>)
       /\ \A w \in c.workers : WF_all(part = c.part /\ Work(c)!exit(w) /\ UNCHANGED <<part, Beyond10>>)
       /\ \A w \in c.workers : WF_all(part = c.part /\ Work(c)!updateLock(w) /\ UNCHANGED <<part, Beyond10>>)
       /\ \A w \in c.workers : WF_all(part = c.part /\ Work(c)!readCommand(w) /\ UNCHANGED <<part, Beyond10>>)
       /\ \A w \in c.workers : WF_all(part = c.part /\ Work(c)!answerDemand(w) /\ UNCHANGED <<part, Beyond10>>)
       /\ \A w \in c.workers : WF_all(part = c.part /\ Work(c)!operationStopped(w) /\ UNCHANGED <<part, Beyond10>>)
       /\ \A w \in c.workers : WF_all(part = c.part /\ Work(c)!initialTimer(w) /\ UNCHANGED <<part, Beyond10>>)
       /\ \A w \in c.workers, a \in c.attachments : WF_all(part = c.part /\ Work(c)!handleOperation(w, a) /\ UNCHANGED <<part, Beyond10>>)
       /\ \A w \in c.workers, a \in c.attachments : WF_all(part = c.part /\ Work(c)!orphanTimer(w, a) /\ UNCHANGED <<part, Beyond10>>)
       /\ \A s \in c.servers, w \in c.workers : WF_all(part = c.part /\ Work(c)!childExited(s, w) /\ UNCHANGED <<part, Beyond10>>)
       /\ \A s \in c.servers : WF_all(part = c.part /\ Work(c)!handleCoordinatorEvent(s) /\ UNCHANGED <<part, Beyond10>>)
       /\ \A s \in c.servers : WF_all(part = c.part /\ Work(c)!stopTimeout(s) /\ UNCHANGED <<part, Beyond10>>)
       /\ \A a \in c.attachments : WF_all(part = c.part /\ Work(c)!demandTimeout(a) /\ UNCHANGED <<part, Beyond10>>)
       /\ \A a \in c.attachments : WF_all(part = c.part /\ Work(c)!undoTimeout(a) /\ UNCHANGED <<part, Beyond10>>)
  /\ \A c \in Chosen(FacetHosts) : WF_all(part = c.part /\ Facet(c)!Kernel /\ UNCHANGED <<part, Beyond14>>)
  /\ \A c \in Chosen(Publishers) :
       /\ WF_all(part = c.part /\ Publish(c)!fireTimer /\ UNCHANGED <<part, Beyond9>>)
       /\ WF_all(part = c.part /\ Publish(c)!elapse /\ UNCHANGED <<part, Beyond9>>)
  /\ \A c \in Chosen(Relays) :
       /\ WF_all(part = c.part /\ Relay(c)!Host /\ UNCHANGED <<part, Beyond12>>)
       /\ WF_all(part = c.part /\ Relay(c)!relayReceives /\ UNCHANGED <<part, Beyond12>>)
  /\ \A c \in Chosen(Reconnects) : WF_all(part = c.part /\ Reconnect(c)!Work /\ UNCHANGED <<part, Beyond10>>)
  /\ \A c \in Chosen(Screens) :
       /\ WF_all(part = c.part /\ Screen(c)!tick /\ UNCHANGED <<part, Beyond9>>)
       /\ WF_all(part = c.part /\ Screen(c)!timer /\ UNCHANGED <<part, Beyond9>>)
       /\ WF_all(part = c.part /\ Screen(c)!start /\ UNCHANGED <<part, Beyond9>>)
  /\ \A c \in Chosen(Completions) :
       /\ WF_all(part = c.part /\ Complete(c)!debounceTimer /\ UNCHANGED <<part, Beyond8>>)
       /\ WF_all(part = c.part /\ Complete(c)!startAutocompleteRequest /\ UNCHANGED <<part, Beyond8>>)
       /\ WF_all(part = c.part /\ Complete(c)!runAutocompleteRequest /\ UNCHANGED <<part, Beyond8>>)
  /\ \A c \in Chosen(Inputs) : WF_all(part = c.part /\ Input(c)!Program /\ UNCHANGED <<part, Beyond12>>)
  /\ \A c \in Chosen(Rpcs) :
       /\ \A k \in 1..c.maxCommands : WF_all(part = c.part /\ Rpc(c)!Handle(k) /\ UNCHANGED <<part, Beyond12>>)
       /\ \A s \in Rpc(c)!SessionIds : WF_all(part = c.part /\ Rpc(c)!RunEnds(s) /\ UNCHANGED <<part, Beyond12>>)
       /\ WF_all(part = c.part /\ Rpc(c)!SomeSettled /\ UNCHANGED <<part, Beyond12>>)
       /\ WF_all(part = c.part /\ Rpc(c)!checkShutdownRequested /\ UNCHANGED <<part, Beyond12>>)
       /\ WF_all(part = c.part /\ Rpc(c)!disposed /\ UNCHANGED <<part, Beyond12>>)

-----------------------------------------------------------------------------
(* Properties of the parts. *)

\* A subscriber gets the state and then every update after it, once and in order, over connections
\* that are cut and over an adaptive publisher that throttles.
StreamHasNoGap ==
  /\ \A c \in Wires : part = c.part => Wire(c)!StreamHasNoGap /\ Wire(c)!NoProtocolFault /\ Wire(c)!ServicesReleased
  /\ \A c \in Publishers : part = c.part => Publish(c)!UpdatesChain

\* A binding that changed its target shows nothing of the earlier one, whenever its observers come.
\* Where no observer comes to a keyed binding while a rebind waits, it leaves no subscription behind
\* and what it shows once it is ready is what its provider holds.
NoStaleReplica ==
  /\ \A c \in Bindings : part = c.part => Binding(c)!NoStaleReplica
  /\ \A c \in Bindings : part = c.part /\ ~(c.keyed /\ c.observeAnytime) => Binding(c)!ReplicaIsCurrent /\ Binding(c)!NoMisfit /\ Binding(c)!NoOrphans

\* A client that is attached holds its worker open, and no demand stays behind at a worker after the
\* attachment that made it failed, timed out or ended; a worker answers before it retires,
\* and two never have the session file open. In the
\* server's router a session has one worker, a connection that is gone holds nothing, and the end of
\* the server's close leaves no worker running.
AttachedIsHeld ==
  /\ \A c \in Works : part = c.part => Work(c)!AttachedIsHeld /\ Work(c)!NoLeakedDemand /\ Work(c)!AnswersBeforeLeaving
                                  /\ Work(c)!OneFileWriter
  /\ \A c \in Routers : part = c.part => Router(c)!OneWorker /\ Router(c)!GoneIsReleased /\ Router(c)!CloseStopsWorkers

\* After a start or a reload, failed or not, every facet that is live is one that was activated and
\* is served by what it requires, and there is one instance of a keyed service per key.
SettledIsExact == \A c \in FacetHosts : part = c.part => Facet(c)!SettledIsExact /\ Facet(c)!HandleIsReady /\ Facet(c)!DeadIsEmpty /\ Facet(c)!OneInstancePerKey

\* A relayed client is told the end of its connection once, after all its data; no client outlives
\* its relay; and a remote client that lost its relay is retried and restores the session last used.
RelayedInOrder ==
  /\ \A c \in Relays : part = c.part => Relay(c)!EndsOnce /\ Relay(c)!DataBeforeClose /\ Relay(c)!NoStrayClient
  /\ \A c \in Reconnects : part = c.part => Reconnect(c)!DisconnectedIsRetried /\ Reconnect(c)!RestoresLast

\* A session that was replaced is torn down, its host listens to the session that replaced it, and
\* every command is answered once.
ReplacedIsTornDown ==
  /\ \A c \in Rpcs : part = c.part /\ ~c.timeouts => Rpc(c)!ReplacedIsTornDown /\ Rpc(c)!AcceptedIsSeen
  /\ \A c \in Rpcs : part = c.part => Rpc(c)!HostListens /\ Rpc(c)!AnsweredOnce

\* What is typed or pasted arrives whole however the terminal cuts it, a prompt is submitted with the
\* pastes its markers stand for (while no stale kill is yanked), a kill is yanked whole, and a draft
\* survives the walk through history.
TypedIsKept ==
  /\ \A c \in Stdins : part = c.part /\ ~c.mayExpire => Stdin(c)!KeysAreWhole
  /\ \A c \in Stdins : part = c.part => Stdin(c)!NothingIsLost
  /\ \A c \in Editors : part = c.part => Typing(c)!KillsAreWhole /\ Typing(c)!YankPopReplaces /\ Typing(c)!DraftIsKept /\ Typing(c)!UndoReachesStart
  /\ \A c \in Editors : part = c.part /\ ~c.stale => Typing(c)!SubmitsPastes
  /\ \A c \in Completions : part = c.part => Complete(c)!PickerRefreshes /\ Complete(c)!DismissedStaysClosed

\* The escape key does what fits what the program is doing, and no input the user submitted meanwhile
\* is lost.
EscapeFits ==
  /\ \A c \in Inputs : part = c.part => Input(c)!EscapeFits
  /\ \A c \in Inputs : part = c.part /\ ~c.fails => Input(c)!InputIsKept

\* After a render the terminal shows the content and its images, and an overlay that is to get the
\* focus back is shown.
ScreenShowsContent ==
  /\ \A c \in Screens : part = c.part => Screen(c)!ScreenShowsContent /\ Screen(c)!CursorIsTracked /\ Screen(c)!ImagesMatch
  /\ \A c \in Focuses : part = c.part => Focus(c)!RestoreIsShown

\* Requests, commands and demands are answered or fail, streams catch up, a disconnect and a shutdown
\* run to their end, a failed reload comes to rest, a lost client comes back, and a worker the
\* current server does not know of is recorded or retires.
EndsAreReached ==
  /\ \A c \in Chosen(Routers) :
       /\ \A k \in {"c1", "c2"} : (part = c.part /\ Router(c)!Gone(k)) ~> (part = c.part => Router(c)!NothingQueued(k))
       /\ (part = c.part /\ Router(c)!CloseAsked) ~> (part = c.part => Router(c)!CloseDone)
  /\ \A c \in Chosen(Wires) :
       /\ \A r \in 1..c.maxRequests : (part = c.part /\ Wire(c)!Awaited(r)) ~> (part = c.part => Wire(c)!Answered(r))
       /\ \A r \in 1..c.maxRequests : []<>(part = c.part => Wire(c)!UpToDate(r))
  /\ \A c \in Chosen(Works) :
       /\ \A w \in c.workers : []<>(part = c.part => Work(c)!KnownOrGone(w))
       /\ \A a \in c.attachments : (part = c.part /\ Work(c)!Pending(a)) ~> (part = c.part => ~Work(c)!Pending(a))
  /\ \A c \in Chosen(FacetHosts) : (part = c.part /\ ~Facet(c)!AtRest) ~> (part = c.part => Facet(c)!AtRest)
  /\ \A c \in Chosen(Relays) : (part = c.part /\ Relay(c)!Closed) ~> (part = c.part => Relay(c)!Stopped)
  /\ \A c \in Chosen(Reconnects) : <>[](part = c.part => Reconnect(c)!Back)
  /\ \A c \in Chosen(Rpcs) : \A k \in 1..c.maxCommands : (part = c.part /\ Rpc(c)!Sent(k)) ~> (part = c.part => Rpc(c)!Replied(k))

\* What the user submitted is placed in a session, an open picker follows the text, and the last
\* state is drawn and published.
InputSettles ==
  /\ \A c \in Chosen(Publishers) : (part = c.part /\ Publish(c)!Outdated) ~> (part = c.part => Publish(c)!Published)
  /\ \A c \in Chosen(Screens) : (part = c.part /\ ~Screen(c)!UpToDate) ~> (part = c.part => Screen(c)!UpToDate)
  /\ \A c \in Chosen(Completions) : (part = c.part /\ Complete(c)!Stale) ~> (part = c.part => ~Complete(c)!Stale)
  /\ \A c \in Chosen(Inputs) : \A t \in c.texts : (part = c.part /\ Input(c)!Submitted(t)) ~> (part = c.part => Input(c)!Placed(t))
=============================================================================
