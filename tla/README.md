# A verification project for yupi

TLA+ models of the parts of this repository whose correctness depends on order,
failure and time, the TLC runs that check them on small instances, and theorems
about them that TLAPS proves for every value of the constants. Paths are relative
to `packages/`.

The repository is a TypeScript monorepo around a terminal coding agent: a durable
agent harness (`agent/src/harness`), the classic agent loop (`agent`), the coding
agent and its modes (`coding-agent`), model providers (`ai`), a terminal UI (`tui`),
a service layer (`chord`) and servers and clients that share sessions between
processes (`server`, `client`, `protocol`). All of it is single-threaded JavaScript:
what interleaves is what happens between two awaits, in several processes, and in
what a lost process left on disk.

## 1. The system's parts

How they interact: a host (a CLI mode, a server) calls the agent session or a lane
of the harness; these run the agent loop or a drive pass, which call providers and
tools and append to a session; a session is a file that several processes may
open; settings and credentials are files as well, shared under locks. A server
routes clients to sessions, each in a worker process, over connections that carry
requests, subscriptions with replicated state and deltas. The terminal UI turns
key sequences into submitted text and component lines into terminal writes.

What is hard: commands that queue behind each other while a pass keeps what it
read across an await; cancellations that race admissions, timers and answers;
processes lost between two writes; torn lines; several writers of one file; passes
that overlap and must not publish over newer ones; connections that end while
something is on its way; focus and cursor state over long sequences of legal calls.
`PROJECT.json` lists the 40 hazards at their lines, each with the properties
that would catch it.

| Part | Status | Modules | Note |
|---|---|---|---|
| Lane: commands, inbox, projection and drive claims | partly | `Lane`, `Harness`, `Structural` | Run acceptance, the inbox, append, configuration, idle claims, drive claims, cancellation and settlement are actions; compactions and navigations are accepted in module Structural. Watch snapshots are module EventWatch's; read-only queries are not modelled; one lane per session. |
| Operation lifecycle | modelled | `OperationLifecycle` | Abstract specification of what a lane promises about its operations; the harness is shown to implement it. |
| Drive pass dispatch | modelled | `Lane`, `RunDrive`, `Structural` | begin, before_drive, dispatch, waiting and completion are actions for every run leaf (RunDrive) and every structural leaf (Structural). |
| Effect gate | modelled | `Lane` | beginAbort, signalAbort, admit and the cancellation promise are part of the drive record; close is the loss of the process. |
| Run start and boundaries | partly | `RunDrive`, `Structural` | startRun, runCheckpoint, planBoundaryInbox and finishRunBoundary; the compaction threshold at a checkpoint is in Structural. Content of prompts and hook messages is data. |
| Assistant generation, retry and response settlement | partly | `RunDrive`, `Structural` | Request intent, request, frames, settlement, retry wait and orphan recovery are actions; an overflowing reply and its compaction are in Structural. Streaming content is abstracted to the stop reason and the tool calls. |
| Deferred responses | modelled | `RunDrive` | Suspension, poll permits, polls, replacement of orphaned polls and missing models. |
| Tool batches | modelled | `ToolBatch` | Sequential and parallel execution, intents, replay, checkpoints, memos, outcomes and source-order placement. Tool arguments and result content are abstracted to terminate, added tool names and metering. |
| Cancellation and terminal cleanup | modelled | `RunDrive`, `Structural` | Reconciliation of every run leaf (RunDrive) and structural leaf (Structural), and the terminal transaction they share. |
| Progress channels | modelled | `RunDrive`, `ToolBatch` | Frame and checkpoint writes fenced by the durable intent; seal and drain are the order in which a request or tool ends and is settled. |
| Harness attachment, restore, fault and close | partly | `Lane`, `Harness` | Restore of one lane, faults and loss of the process at any step. Lane creation at a target, several lanes per session and global configuration setters are not modelled. |
| Session mutation line | partly | `Lane` | The line orders the commands of the pass, of drive() and of aborts; a mutation is one atomic step. The capability protocol of SessionMutation (one commit, end) is not modelled. |
| Hooks | partly | `RunDrive`, `ToolBatch`, `Structural` | Gated admission and the results that change durable state (before_drive failure, injected messages, follow-up, block). Registration and aggregation of several handlers are not modelled. |
| Model providers and authentication | not modelled | - | Provider protocols and OAuth flows are network I/O; the models treat a provider as a source of stop reasons, tool calls and failures. Credentials, the model catalog and the Codex transport are components of their own. |
| Terminal UI | not modelled | - | Component layout, wrapping and theming are pure conversions; rendering to the terminal, the editor, overlays and terminal input are components of their own. |
| Telemetry | not modelled | - | Observation only: changes no state of the system. |
| Evaluations and vendored extensions | not modelled | - | Test tooling and vendored third-party code. |
| Events, watch and reducer | partly | `EventWatch` | Delivery tail, watchers, start, resnapshot, barriers and close are modelled; the reducer is abstracted to a fold that notices a missing or repeated event, its per-event detail and handler_error events are left out. |
| Adaptive publisher | modelled | `AdaptivePublisher` | Every operation, with time reduced to whether the bought interval is over. |
| Structural operations: compaction and navigation | modelled | `Structural` | Manual, threshold and overflow compaction and both navigations, from acceptance to the terminal result, with hooks, nested summary requests, retries, recovery and cancellation. A preparation is the set of entries it covers; cut points and summary texts are data. |
| Classic agent loop | modelled | `AgentLoop` | The Agent's calls, its queues and lifecycle, the loop with both tool execution modes, the failure path; a text update of a streaming message and a tool's progress update change nothing the model keeps. The transcript repair every provider applies (transformMessages) is composed with it. |
| Session storage backends | partly | `JsonlStorage`, `JsonlRepo` | The JSONL file with its commit queue, crash recovery, torn-tail repair, format upgrade and close; the repository's create, open, delete and close in every interleaving; what overlapping calls lose is in section 5; the in-memory state both backends share. Queries (pure reads over the maps), the normalisation of format 3 records and the memory repository's facade are not modelled. |
| Session fork | modelled | `JsonlStorage` | Both implementations: from memory (createFork) and in two passes over a file that goes on growing; forks of a format 3 source take the same passes over normalised writes. |
| Coding agent: agent session | partly | `AgentSession` | Prompts, preflight, runs and what follows them, retry, automatic and manual compaction, navigation, held-back messages, queues, abort and idle. Model and thinking selection, extension loading and reload, statistics and export are not modelled. |
| Coding agent: session tree and file | partly | `SessionManager` | The tree, its context, the file with its late creation and torn writes, labels, branched sessions, and where a compaction cuts. Migration of versions 1 and 2, session discovery and listing are not modelled. |
| Coding agent: settings | modelled | `Settings` | Memory, modified fields, the write queue, merging into the file under its lock, reload and trust. Defaults and validation of single settings, and the migration of old keys, are not modelled: they change no state but the value read. |
| Credential storage and OAuth refresh | partly | `Credentials` | The file under its lock, the shared cache and reload, modify, delete, and the refresh of a token near its expiry. A lock taken over as stale, API-key resolution and the read-only and in-memory stores are not modelled. |
| Coding agent: extensions, packages and resources | not modelled | - | Loading of code and files from disk, npm and git; the events extensions see are modelled where the agent session awaits them. |
| Server: session router | modelled | `SessionRouter` | Attach, switch, detach, service calls, disconnect, removal, termination of a worker and shutdown at the granularity of their awaits. Failing closes of a handle are not modelled. |
| Protocol: client and server connections | partly | `Protocol` | Connect, handshake and its timeout, requests, cancellation, subscriptions with their held-back updates, disconnect and reconnect. Frame encoding and length limits, wrong versions and the attachment messages (see Server: session router) are not modelled, nor are the byte transports. |
| Chord: remote services and bindings | partly | `ServiceBinding` | Providers with keyed and singleton instances, subscription, updates, observers, rebinding and closing of one consumer binding. A keyed binding that an observer meets during a rebind starts twice: only the absence of stale state is checked there (section 5). Method calls, member shapes and access guards, and the delta encoding of a state value are not modelled. |
| Coding agent: session workers | partly | `SessionWorkers` | Launch, discovery, attachment demand, operations, retirement, stop, shutdown, replacement and loss of servers and workers of one session file, with the coordinator's routing. The lock file is external, modelled from its options: another worker takes it from one that has stalled for 2 s (section 5). Plugin selections, the streams of service updates (see Protocol), the public connections the coordinator forwards and its own shutdown when empty are not modelled. |
| Terminal UI: main screen rendering | partly | `MainScreen` | Render requests, throttled and immediate renders, stop and start, resizes, the mode switch and the differential renderer with kitty images and the hardware cursor. Overlays, focus and input dispatch, lines wider than the terminal and the Termux exception for height changes are not modelled. |
| Terminal UI: editor | partly | `Editor`, `EditorAutocomplete` | Editing, large pastes and their markers, kill ring, undo, history, submission and the autocomplete requests and picker. Killed markers that outlive their pastes are modelled as whole tokens, and what is submitted with them is not checked (section 5). Wrapping and sticky columns of vertical motion (any position may be reached), jump mode, a marker-like text that is typed, the bracketed paste parser, rendering and the choice of the best suggestion are not modelled. |
| Chord: facet host | partly | `FacetHost` | Setup, ordering, activation, reload with cutover and rollback, disposal, singleton slots and keyed instances, with failing callbacks. Remote sources and the mode checks of services are a failing step; the bindings themselves are ServiceBinding's subject; a facet set up with other requirements than before counts as a failed setup. |
| Chord: deltas and bundles | not modelled | - | The loading and hashing of facet bundles from disk is file system work with little control state; delta tracking is a component of its own. |
| Coding agent: session runtime and RPC mode | partly | `RpcMode` | Reading commands without waiting, the answers, replacing the session (new, switch, fork and clone), rebinding and resubscribing, shutdown, and the client's requests with their timeout. Extension dialogs, importing a file (interactive mode only) and the commands that only read or set a value (one kind, "query") are abstracted. |
| Coding agent: model runtime | partly | `ModelAvailability` | Credential operations and their queue, the passes over the providers' availability and the snapshot. Composition of providers from configuration and extensions, and error texts, are not modelled; the three reads of a pass are one per provider. |
| AI: model catalog refresh | partly | `ModelCatalog` | Refreshes that supersede each other, their two phases, the publication chain, the store and the remote catalog overlay of one provider, in one process: what two processes do to the store they share is in section 5. Sharing of file reads between stores, merging of catalogs with the built-in models and deletions of stored entries are not modelled. |
| AI: Codex transport | partly | `CodexTransport` | WebSocket cache, continuations, retries, SSE fallback and aborts of one session. Building of bodies and headers, compression, retry delays and the decoding of events into content are not modelled; the server is external. |
| Coding agent: Radius relay | partly | `RadiusRelay`, `RadiusReconnect` | The host's loop, its multiplexed connections and ordered writer with its limit, and the client's reconnection. What a full writer rejects is in section 5. The client's byte transport is a socket of module Protocol's kind; frame encoding and malformed frames are not modelled; the relay is external. |
| Terminal UI: input buffer | modelled | `StdinBuffer` | Chunks, sequences, pastes, the Kitty duplicate and the timer. The two mouse formats are CSI sequences like any other; the conversion of a single high byte is left out. |
| Compaction: cut point and summary | partly | `CompactionCut` | What a compaction retains, what its summary is told of and its file lists, over repeated compactions. Prompts, serialisation and token estimates of the context are not modelled; failures and retries are module Structural's. |
| Coding agent: interactive mode | partly | `InteractiveMode` | Where submitted text goes, the compaction queue and its flush, the main loop, Escape and the queue's retrieval, over an abstract session. Bash and slash commands other than /compact and the tree, selectors, dialogs, extension UI, rendering of events and startup are not modelled. |
| Chord delta tracking and path codec | modelled | `Delta`, `DeltaCodec` | Dirty marks of every mutator, the difference of two values, the baseline's synchronisation, the applier, and the codec. Reserved segments and the checks of an operation's shape are left out. |
| Terminal UI: overlays and focus | modelled | `OverlayFocus` | Focus, its restoration after a component of the screen took it, and every operation of an overlay's handle. Placement and composition of overlays, mouse events, and components shown in two overlays are left out. |
| Shell execution and output capture | partly | `ShellExec`, `OutputCapture` | The child's life, its pipe, the spill file with back pressure, timeout, abort and the wait after the exit; the bounded view, truncation and view updates. Finding the shell, environment variables, Windows, decoding and the file system operations of the environment are left out. |
| Built-in tools and file mutation queue | partly | `FileMutationQueue`, `EditTool` | The per-file queue with the edit and write tools, and how edits are found in a text and laid over it, are modelled; the diff shown of an edit and the read and search tools are not. The shell tool is the component of shell execution. |

## 2. The modules

A step is the code between two awaits (in the harness: a command on the mutation
line, or what a procedure does between two of them); it is named after the
function. Its guard is the code's condition, a failing call is a disjunct. Data is
reduced to what the properties tell apart: messages, entries and keys are model
values or numbers in the order of their creation. Variables named as history in a
module (`sent`, `executed`, `acked`, ...) do not exist in the code and guard nothing
but the bounds. Operators marked *Mutant* are plausible mistakes: each property has
one, listed in `PROJECT.json`, under which the run finds the property violated, so
that no property holds whatever the code does (40 of them).

**The durable harness (agent/src/harness)**

| Module | Code | What it models | Properties (run) |
|---|---|---|---|
| `OperationLifecycle` | (abstract) | Abstract: one operation open at a time, one immutable result, a recorded cancellation ends as aborted. | - |
| `Lane` | `agent/src/harness/runtime/lane.ts`, `agent/src/harness/session/mutation-line.ts`, `agent/src/harness/session/values.ts`, `agent/src/harness/runtime/harness.ts` | Store, projection, mutation line, gate, host commands, abort, loss and restore. | - |
| `RunDrive` | `agent/src/harness/runtime/drive/response.ts`, `agent/src/harness/runtime/drive/boundary.ts`, `agent/src/harness/runtime/drive/generation.ts`, `agent/src/harness/runtime/drive/checkpoint.ts` | The procedures of a pass over a run: boundaries, requests, responses, retries, recovery, deferred polls, reconciliation. | - |
| `ToolBatch` | `agent/src/harness/runtime/drive/tools.ts`, `agent/src/harness/runtime/drive/tool-placement.ts`, `agent/src/harness/session/values.ts`, `agent/src/harness/runtime/progress.ts` | One batch: intents, execution, replay, outcomes, placement in source order. | - |
| `Harness` | `agent/src/harness/runtime/harness.ts`, `agent/src/harness/runtime/lane.ts`, `agent/src/harness/runtime/drive/tools.ts`, `agent/src/harness/runtime/drive.ts` | Composition with hosts, process loss and restart; the properties of runs. | `OwnedValuesExact`, `ResponsesAreWhole`, `NoOvertaking`, `CompletedRunsAnswerEverything` (scenarios); `Coherent`, `PassOwnsOperation`, `NoInvariantFault`, `UnsafeToolsRunOnce`, `ReleasedMeansCancelled`, `EffectsOnlyWhileRunning` (cancellation); `ImplementsLifecycle` (structural); `OperationsSettle` (harness_settles); `CancellationWakesRetryTimer` (late_abort) |
| `Structural` | `agent/src/harness/runtime/drive/structural.ts`, `agent/src/harness/runtime/lane.ts`, `agent/src/harness/compaction/compaction.ts`, `agent/src/harness/runtime/drive/response.ts` | Compaction and navigation: preparation, summaries, the terminal transaction; the log is a tree. | `CompactionCoversBranch` (scenarios); `StructuralWorkIsExact` (structural) |
| `EventWatch` | `agent/src/harness/events.ts`, `agent/src/harness/runtime/lane.ts`, `agent/src/harness/runtime/reducer.ts` | Delivery tail, buffered watchers, resnapshots, barriers, close. | `ReplicaIsExact`: `ReplicaHasNoGap` (agent); `CallsEnd` (agent_settles) |
| `CompactionCut` | `agent/src/harness/compaction/compaction.ts`, `agent/src/harness/compaction/utils.ts`, `agent/src/harness/session/context.ts` | Where a compaction cuts and what its summary stands for, over repeated compactions. | `NothingForgotten` (cut_forgets); `ContextSurvives`: `ContextIsSuffix`, `ResultsHaveCalls`, `FilesRemembered` (agent) |

**Session storage**

| Module | Code | What it models | Properties (run) |
|---|---|---|---|
| `JsonlStorage` | `agent/src/harness/session/jsonl/storage.ts`, `agent/src/harness/session/jsonl/fork.ts`, `agent/src/harness/session/in-memory-storage-state.ts`, `agent/src/harness/session/jsonl/io.ts` | The session file and its materialised state: commits, crashes, torn tails, upgrade, forks from memory and in two passes over the file. | `WrittenSurvives`: `ResolvedCommitsSurvive`, `MemoryMatchesFile`, `ForkIsSnapshot` (agent) |
| `JsonlRepo` | `agent/src/harness/session/jsonl/repo.ts`, `agent/src/harness/session/jsonl/storage.ts`, `agent/src/harness/session/jsonl/io.ts`, `agent/src/harness/session/session.ts` | Create, open, delete and close of one session id by concurrent callers, await by await, from no file or a torn one, and the commits of the holder. | `WrittenSurvives`: `OneWriter` (agent) |

**The agent and the coding agent**

| Module | Code | What it models | Properties (run) |
|---|---|---|---|
| `AgentLoop` | `agent/src/agent-loop.ts`, `agent/src/agent.ts`, `ai/src/api/transform-messages.ts` | Prompts, queues, both tool execution modes, failures of hooks and listeners. | `QueuedInputIsServed`: `QueuedOnceInOrder`, `OneSteeringPerTurn` (agent); `CallsAreAnswered`: `ContextIsTranscript`, `ProviderSeesAnswers`, `OwnResultsInOrder` (agent); `CallsEnd` (agent_settles) |
| `AgentSession` | `coding-agent/src/core/agent-session.ts`, `agent/src/agent.ts`, `coding-agent/src/core/session-manager.ts`, `coding-agent/src/core/compaction/compaction.ts` | Preflight, run, retry, compaction, navigation, held-back messages, abort, idle. | `QueuedInputIsServed`: `ShownIsQueued`, `WaitersAreWoken` (agent); `CallsAreAnswered`: `ResultsFollowCalls`, `TranscriptIsContext` (agent); `CallsEnd` (agent_settles) |
| `SessionManager` | `coding-agent/src/core/session-manager.ts`, `coding-agent/src/core/compaction/compaction.ts` | The entry tree, its context, the late-created file, torn writes, branched sessions. | `ContextSurvives`: `ForkKeepsContext`, `CompactionLosesNothing` (agent); `WrittenSurvives`: `WrittenEntriesSurvive`, `FileMatchesMemory` (agent) |
| `InteractiveMode` | `coding-agent/src/modes/interactive/interactive-mode.ts`, `coding-agent/src/core/agent-session.ts`, `agent/src/agent.ts` | Where submitted text goes; the compaction queue, Escape, the main loop. | `EscapeFits`: `InputIsKept` (hosts); `InputSettles` (hosts_settle) |
| `Settings` | `coding-agent/src/core/settings-manager.ts` | Memory, modified fields, the write queue, merging into the locked file, reload and trust. | `OthersSurvive`: `FlushedIsSaved` (agent); `CallsEnd` (agent_settles) |
| `Credentials` | `coding-agent/src/core/auth-storage.ts`, `ai/src/auth/resolve.ts`, `ai/src/utils/abort.ts` | auth.json under its lock, the shared cache, refresh of a token near its expiry. | `OneRefreshServesAll`: `RefreshOnce`, `RotatedIsStored`, `OtherKeySurvives`, `CacheIsHonest` (agent); `CallsEnd` (agent_settles) |
| `ModelAvailability` | `coding-agent/src/core/model-runtime.ts`, `ai/src/models.ts` | Queued credential operations, overlapping passes, the snapshot. | `SnapshotIsCurrent`: `OneAtATime` (agent); `CatalogNeverGoesBack`: `NeverOlder` (agent); `CallsEnd` (agent_settles) |

**Tools and output**

| Module | Code | What it models | Properties (run) |
|---|---|---|---|
| `FileMutationQueue` | `agent/src/harness/tools/file-mutation-queue.ts`, `agent/src/harness/tools/edit.ts`, `coding-agent/src/core/tools/write.ts`, `agent/src/harness/env/nodejs.ts` | The per-file queue with the edit and write tools. | `ToolsAreExact`: `MutationsSerializable`, `QueueKeysExact` (agent); `CallsEnd` (agent_settles) |
| `EditTool` | `agent/src/harness/tools/edit-diff.ts`, `agent/src/harness/tools/edit.ts` | Matching and overlaying of edits, exact and normalised. | `ToolsAreExact`: `EditsMatch`, `PlaceIsClear`, `OtherLinesKept`, `OverlayIsExact` (agent) |
| `OutputCapture` | `agent/src/harness/utils/output-capture.ts`, `agent/src/harness/utils/truncate.ts` | The bounded view of an output and its updates. | `ToolsAreExact`: `ViewIsExact`, `LineIsCounted`, `ConsumerIsExact` (agent) |
| `ShellExec` | `agent/src/harness/env/nodejs.ts`, `agent/src/harness/utils/output-capture.ts` | Child, pipe, spill file, timeout, abort, wait after the exit. | `ToolsAreExact`: `OutputIsWhole`, `SpillIsComplete` (agent); `CallsEnd` (agent_settles) |
| `AdaptivePublisher` | `agent/src/harness/utils/adaptive-publisher.ts` | The throttle in front of progress updates. | `StreamHasNoGap`: `UpdatesChain` (hosts); `InputSettles` (hosts_settle) |

**Model access**

| Module | Code | What it models | Properties (run) |
|---|---|---|---|
| `ModelCatalog` | `ai/src/models.ts`, `coding-agent/src/core/remote-catalog-provider.ts`, `coding-agent/src/core/models-store.ts` | Refreshes that supersede each other, the publication chain, the store. | `SnapshotIsCurrent`: `ShownIsStored`, `RefreshedIsStored` (agent); `CatalogNeverGoesBack` (agent) |
| `CodexTransport` | `ai/src/api/openai-codex-responses.ts` | Cached WebSockets, continuations, retries, SSE fallback, aborts. | `RequestsKeepTheirContext`: `ContextIsWhole`, `OwnOutput`, `NoLeakedSocket` (agent); `CallsEnd` (agent_settles) |

**Servers, clients and services**

| Module | Code | What it models | Properties (run) |
|---|---|---|---|
| `Protocol` | `server/src/server.ts`, `client/src/connection.ts`, `client/src/client.ts`, `chord/src/services/provider.ts` | Connect, handshake, requests, subscriptions, disconnect and reconnect. | `StreamHasNoGap`: `NoProtocolFault`, `ServicesReleased` (hosts); `EndsAreReached` (hosts_settle) |
| `SessionRouter` | `server/src/session-router.ts`, `server/src/server.ts`, `coding-agent/src/experimental/session-worker-manager.ts` | Attach, switch, detach, calls, disconnect, removal, termination, shutdown. | `RoutesAreLive`, `CallsKeepLease` (router); `AttachedIsHeld`: `OneWorker`, `GoneIsReleased`, `CloseStopsWorkers` (hosts); `EndsAreReached` (hosts_settle) |
| `ServiceBinding` | `chord/src/services/consumer.ts`, `chord/src/services/provider.ts`, `chord/src/services/instances.ts`, `chord/src/services/state.ts` | Keyed and singleton providers, subscriptions, rebinding of one consumer. | `NoStaleReplica`: `ReplicaIsCurrent`, `NoMisfit`, `NoOrphans` (hosts) |
| `FacetHost` | `chord/src/facets/host.ts` | Setup, ordering, activation, reload with rollback, disposal, with failing callbacks. | `SettledIsExact`: `HandleIsReady`, `DeadIsEmpty`, `OneInstancePerKey` (hosts); `EndsAreReached` (hosts_settle) |
| `SessionWorkers` | `coding-agent/src/experimental/session-worker-manager.ts`, `coding-agent/src/experimental/session-worker.ts`, `coding-agent/src/experimental/coordinator.ts` | Servers, worker processes and their coordinator over one session file, whose lock may be taken from a worker that stalls. | `OneFileWriter` (workers); `AttachedIsHeld`: `NoLeakedDemand`, `AnswersBeforeLeaving` (hosts); `EndsAreReached` (hosts_settle) |
| `RadiusRelay` | `coding-agent/src/experimental/radius-relay.ts` | A host serving many clients through one relay socket and a writer of limited size. | `RelayedInOrder`: `EndsOnce`, `DataBeforeClose`, `NoStrayClient` (hosts); `EndsAreReached` (hosts_settle) |
| `RadiusReconnect` | `coding-agent/src/experimental/radius-relay.ts`, `coding-agent/src/experimental/client-runtime.ts`, `client/src/connection.ts`, `client/src/client.ts` | A client that reconnects and restores its session. | `RelayedInOrder`: `DisconnectedIsRetried`, `RestoresLast` (hosts); `EndsAreReached` (hosts_settle) |
| `RpcMode` | `coding-agent/src/modes/rpc/rpc-mode.ts`, `coding-agent/src/core/agent-session-runtime.ts`, `coding-agent/src/core/agent-session.ts`, `coding-agent/src/modes/rpc/rpc-client.ts` | Commands read without waiting, session replacement, the answers. | `ReplacedIsTornDown`: `AcceptedIsSeen`, `HostListens`, `AnsweredOnce` (hosts); `EndsAreReached` (hosts_settle) |
| `Delta` | `chord/src/delta/index.ts` | Dirty paths, the difference of two values, the applier. | `ReplicaIsExact` (agent) |
| `DeltaCodec` | `chord/src/delta/index.ts` | Interned and omitted paths of a stream. | `ReplicaIsExact`: `StreamIsExact`, `RecoveryIsExact` (agent) |

**The terminal**

| Module | Code | What it models | Properties (run) |
|---|---|---|---|
| `MainScreen` | `tui/src/tui-main-screen.ts`, `tui/src/tui.ts` | Render scheduling and differential rendering with relative cursor moves. | `ScreenShowsContent`: `CursorIsTracked`, `ImagesMatch` (hosts); `InputSettles` (hosts_settle) |
| `Editor` | `tui/src/components/editor.ts`, `tui/src/word-navigation.ts`, `tui/src/kill-ring.ts`, `tui/src/undo-stack.ts` | Editing, paste markers, kill ring, undo, history. | `TypedIsKept`: `SubmitsPastes`, `KillsAreWhole`, `YankPopReplaces`, `DraftIsKept`, `UndoReachesStart` (hosts) |
| `EditorAutocomplete` | `tui/src/components/editor.ts` | Debounced, queued and aborted requests; the open picker. | `TypedIsKept`: `PickerRefreshes`, `DismissedStaysClosed` (hosts); `InputSettles` (hosts_settle) |
| `OverlayFocus` | `tui/src/tui.ts` | Who gets the next key while overlays come and go. | `ScreenShowsContent`: `RestoreIsShown` (hosts) |
| `StdinBuffer` | `tui/src/stdin-buffer.ts` | Chunks cut anywhere become whole keys and pastes. | `TypedIsKept`: `KeysAreWhole`, `NothingIsLost` (hosts) |

### How the harness modules fit together

    OperationLifecycle          abstract
          ^  refined by Harness and by Structural
    Structural = Harness + summary and navigation leaves
    Harness    = ToolBatch + hosts, process loss, restart
    ToolBatch  = RunDrive + tasks of one tool batch
    RunDrive   = Lane + procedures of a pass over a run
    Lane       = store, projection, mutation line, gate, host commands

`store` is the durable content of a lane (branch, tip, configuration, inbox,
operation records, results, usage rows, auxiliary values); `mem` is `Lane.state`,
`Null` without a process. Commands write the two separately, as the code does, and
that they agree is a property. `drive` is `Lane.activeDrive`, its `pc` the await the
pass is at; `line` holds the queued commands whose order matters (those of the
pass, drive() claims, aborts); `jobs` are the tasks of a batch. Host commands,
progress writes and commands of tasks read only the state they find when they run,
so they are one step each, enabled whenever the lane is ready: that covers every
place they could have had in the line. `StopStep` takes everything but the store at
any step, also between an intent and its effect.

`ShellExec` has `OutputCapture`'s limit; the other modules are composed where one calls the other by an abstraction of the
callee that its header states (`AgentSession` of the loop, `InteractiveMode` of the
session, `EditorAutocomplete` of the editor, `Protocol` and `ServiceBinding` of each
other's stream).

## 3. The runs

| Run | Module | Expected | What it shows |
|---|---|---|---|
| `scenarios` | `MCScenarios` | pass | Hosts steer, follow up, append, cancel and configure, tools run in batches of two, answers fail, are retried or deferred, and automatic compactions follow, under aborts and crashes: nothing queued is overtaken, a completed run has answered everything, responses are whole and metered once, every owned value has a live owner, and compactions cover the branch they hide. |
| `cancellation` | `MCHarness` | pass | Two operations with two-call batches of a safe and an unsafe tool, retries, several drive callers, aborts at every step and a crash: a restart restores what memory held, a pass owns its operation, no invariant fault is reached, an unsafe tool runs once, a released gate means a durable cancellation, and no effect starts after one. |
| `structural` | `MCHarness` | pass | Hosts compact and navigate with and without a summary while entries are appended between the reads and the command and operations are aborted: summaries cover the abandoned branch, and every operation follows the abstract lifecycle. |
| `harness_settles` | `MCScenarios` | pass | Under fairness an accepted operation settles and a cancelled one ends as aborted, with crashes, recoveries, retries, disappearing models and structural operations. |
| `agent` | `MCAgent` | pass | The classic agent loop, the agent session, its file, the harness's storage, settings, credentials, models, transport, tools and delta tracking, each in every interleaving of its callers, processes, crashes and aborts: nothing queued is lost, nor anything written by calls that keep apart, every call is answered, what is shown was stored, and replicas and tool results are exact. |
| `hosts` | `MCHosts` | pass | Protocol, bindings, session workers, facets, relay, reconnection, RPC mode, editor, interactive mode and renderer, with clients, workers and servers that leave, crash and are replaced: streams have no gap, bindings no state of an earlier target, attached clients a worker, failed reloads one working set, typed text arrives whole unless outdated markers are yanked and the screen shows the content. |
| `agent_settles` | `MCAgent` | pass | Under the fairness of each part of the agent: runs, sessions, file calls, flushes, credential calls, model operations, transport requests and commands end, paused output flows again, and a watcher's replica catches up. |
| `hosts_settle` | `MCHosts` | pass | Under the fairness of each part of the hosts: shutdowns and disconnects end, requests and commands are answered, demands settle, unknown workers leave, replaced facets settle, changes are drawn and published, and submitted input is placed. |
| `router` | `SessionRouter` | pass | Two clients attach, switch, detach, call and disconnect while their session is removed, its worker dies or refuses and the server closes: a route leads to a live worker, and no lease is given back under a call admitted through it. |
| `workers` | `SessionWorkers` | pass | Two servers in succession, two worker processes and a client over one session file, with a crash, a stall past the lock's stale limit or a stop, launches given up, timeouts and kills: as long as no worker stalls past that limit, never two have the file open. |
| `late_abort` | `MCScenarios` | violation | An abort that sampled the lane before the pass was installed does not wake the pass's retry timer: the pass waits its timer out although the cancellation is durable. |
| `cut_forgets` | `MCAgent` | violation | A compaction that splits the first turn after a previous compaction drops what the previous summary stood for. |

**How a run is built.** `MCHarness` instantiates the harness modules. `MCScenarios`
gives the constants of the harness as records: a *scenario* is one choice of inputs
(which host commands, which replies, which failures, how many crashes), a behaviour
belongs to one scenario chosen in its first state, and a `.cfg` lists the scenarios
of its run. `MCAgent` and `MCHosts` do the same for the other modules, which share no
state: a *part* is an instance of one module with values of its constants, its
variables are held in the slots `v1`, `v2`, .... So one run covers many instances,
and an action that never fired in any of them would be dead. Properties of modules
that answer one question are conjuncts of one property of the run (`CallsAreAnswered`
is about the loop, the session and its file); the tables of section 2 name the
conjuncts by module. `router` and `workers` check the two modules whose properties
are proved (section 4) on instances of their own.

**Bounds.** Counters of inputs (messages, edits, commands, crashes, connections,
versions) are bounded by constants whose names begin with `Max`; the bound is in the
guard of the input, never of the system's reaction, so every behaviour reaches the
end of what it started. Sizes are the smallest at which the hazard exists: two
callers for a race, two calls for placement order, three messages for two of a
kind and one of another, two operations for a handover, two crashes where a
recovery may crash, three versions where an answer may be overtaken twice, screens
of three rows where content must scroll. `MaxIds` of the harness stops replies and
hooks that make a session grow; the run then ends with plain answers.

`workers` has two servers (interchangeable, so TLC takes them
as symmetric), two workers, one client and one death or stall of a process by itself; a third
worker would meet the same lock. `structural` has one loss of the process. The part `relay`
has a writer that its bounded traffic cannot fill; `relay_full` has one that holds a single
message, so that every rejection happens. `repo` starts from no file and lets calls of all
kinds overlap, `repo_apart` keeps calls of different kinds apart, and `repo_torn` starts from
a file with a torn tail. `router` has two client operations, so a detach or a switch under an
admitted call is left to its theorem (section 4).

**Deadlock** is checked in every run but `workers`, where all processes may end: parts whose calls come to an end have an
explicit final stuttering step (`Rest` in the harness; the rest of a part in
`MCAgent` and `MCHosts`), everything else must have a next step.

**Fairness** is weak fairness of the steps promises, timers, child processes and
queues take on their own. In the harness: the pass, the tasks, the line, the
release of an idle callback; and that hosts reopen a lost session and go on driving
an open operation, which is what the harness returns `open` for. Nothing is assumed
of inputs: hosts need not abort, poll, type or connect. Strong
fairness is used once, for the turn of a watcher's snapshot among the jobs of the
mutation line (`EventWatch`). The runs `harness_settles`, `agent_settles` and `hosts_settle` check the liveness
properties, each under the fairness its module states (`FairSpec` or `Fairness`).

**Violations.** Two runs show a disagreement between code and documentation:

- `late_abort`: `requestOperationAbort` samples the active pass before its command is
  queued. A pass claimed in between is never signalled and waits its retry timer
  out, where `agent/docs/harness.md` says the abort wakes it. The cancellation is
  still honoured when the timer fires (`EffectsOnlyWhileRunning`).
- `cut_forgets`: when a compaction cuts in the first turn after an earlier
  compaction, the new summary says "No prior history." and drops what the earlier
  one stood for.

## 4. What is proved

Theorems hold for every value of the constants: any number of messages, operations,
clients, sessions, workers and losses of the process, and no bound of a run.

| Theorem | Module | States |
|---|---|---|
| `ProjectionCoherent` | `HarnessProofs` | For every set of messages, operations, tools and replies, the in-memory projection of a lane equals what a restart would restore from storage. |
| `OperationOwned` | `HarnessProofs` | For every value of the constants, a drive pass owns the lane's current operation from its first look at the state to its outcome, and tasks of tool calls live only while the pass waits for them. |
| `Refinement` | `HarnessProofs` | For every value of the constants, the harness implements the operation lifecycle: one open operation at a time, one immutable ending, and cancellation that is never withdrawn. |
| `Invariance` | `HarnessProofs` | The inductive invariant behind the other three: shapes of the durable records, coherence, the current operation is open, and the pass owns it. |
| `CancellationAdmitsNothing` | `HarnessProofs` | For every value of the constants and any number of passes, hosts and losses of the process: once the cancellation of an operation is on disk, no hook, request, poll or tool call of it is started. |
| `ReleaseFollowsCancellation` | `HarnessProofs` | For every value of the constants, a pass that an abort released from its wait finds the cancellation recorded. |
| `GateInvariant` | `HarnessProofs` | The inductive invariant behind the two: an abort that will not signal the pass is ahead of its first command, and from then on an open gate means that the operation runs. |
| `UnsafeRunsOnce` | `HarnessFaultProofs` | For every value of the constants, and whatever is lost, retried or cancelled: a tool call not declared safe to replay is started at most once, across passes and restarts of the process. |
| `NothingFaults` | `HarnessFaultProofs` | For every value of the constants where no before_drive hook fails and hosts that resume a pass wait for its retries: no order of commands, hooks, effects, aborts and restarts reaches an invariant error that closes the harness. |
| `WorkInvariant` | `HarnessFaultProofs` | The inductive invariant behind the two: what the store holds for each leaf of an operation, where the pass may be for that leaf and what it carries, and how far each tool call of a batch has come. |
| `OneWriter` | `SessionWorkers` | For any number of servers, worker processes, attachments, deaths and stalls: until a worker has stalled past the stale limit of its lock, no two workers have the session file open at once. |
| `RoutedAlive` | `SessionRouterProofs` | For any number of clients and sessions, what a client is routed to is an attachment of its own that is still live, through attaches, removals, deaths of workers and the shutdown. |
| `LeaseOutlivesCalls` | `SessionRouterProofs` | For any number of clients and sessions, the lease of an attachment is held while a call admitted through it runs, unless its worker ended. |
| `WorkersAreSingle` | `SessionRouterProofs` | For any number of clients and sessions, a session has at most one worker that is being opened, runs or is being stopped. |
| `RouterConsistent` | `SessionRouterProofs` | The inductive invariant behind these three: the tables of handles, the queues of the clients, the releases under way and the routes agree with one another. |
| `NeverOlder` | `ModelAvailability` | For any number of providers and passes, no pass publishes what it read before another pass of that provider that has already published: what is shown never becomes older. |
| `ShownIsCurrent` | `ModelAvailability` | For any number of providers and passes that refresh one provider and do not fail, what is shown once no pass is under way is what was last read of the last credential. |
| `OthersKept` | `Settings` | For any number of processes, fields, edits and calls on files that exist, a write never brings back an old value of a field that another process or an editor changed. |
| `FlushedSaved` | `Settings` | For any number of processes, whether the files exist or not, an empty queue without errors means that every field set has been written with its newest value. |
| `RefreshedOnce` | `Credentials` | For any number of processes, calls, expiries, changes and aborts: the provider is asked once for a token near its expiry, a change of one credential keeps that of another provider, and a cache whose revision is the file's answers with the file's credentials. |
| `RotatedStored` | `Credentials` | For any number of processes and calls, until a call is aborted: the file nobody has locked never rests on a token the provider has consumed, and no refresh is refused because another one consumed its token. |
| `EditsAreSerial` | `FileMutationQueue` | For any number of parallel edit and write calls on any files, whatever is aborted or fails, where no link leads to a file that does not exist yet: every file holds what its mutations would have left one after the other in the order of requests, and the map of queues holds a key exactly while a call of it has not finished. |
| `QueueInvariant` | `FileMutationQueue` | The inductive invariant behind it: who is registered in which order, behind which call a waiting one stands, and what an edit about to write has read. |

`HarnessProofs` and `HarnessFaultProofs` hold the proofs of `Harness`,
`SessionRouterProofs` those of `SessionRouter`; those of `SessionWorkers`, `ModelAvailability`,
`Settings`, `Credentials` and `FileMutationQueue` stand in the modules themselves.
The assumptions on constants are: `NullAssumption` of `Lane` (the null value is no
message, note, operation or number), `IdAssumption` and the other named assumptions
of `Lane`, `RunDrive`, `ToolBatch` and `Harness` (host ids are not numbers, replies have
the shape the providers' types give them), `NoneAssumption` of `SessionWorkers` (no worker
is called none), and nothing for `SessionRouter`. What the theorems of the
other modules assume stands in their statements.

**The harness.** `IndInv` joins the shapes of the durable
records, `Coherent`, `CurrentIsOpen` (the current operation has a state and no
result), the shape of a pass and `PassOwnsOperation`. No part is inductive alone: a
settlement writes to the operation the *projection* names, so a lifecycle step of
the *store* needs `Coherent`; that there is an operation to settle needs
`PassOwnsOperation`; and `Coherent` needs to know that the records exist. The proof
has one lemma per action; actions that leave the operation records alone are
handled together as quiet moves, actions that settle through two lemmas about
`SettleCommit` and `SettleFinish`.

**The effect gate.** `GateInv` builds on `IndInv`. The gate alone does not show that
a cancellation admits nothing: `requestOperationAbort` samples the active pass
before its command is queued, and an abort that found no pass never closes the gate
of the one installed since (the run `late_abort` is about its timer). What helps is
the order of the mutation line. Such an abort stands in front of the first command
of the pass (`LineAgrees`), so it is on disk before the pass reads its state for the
first time; from then on an open gate with a hook, request, poll or task behind it
means that the operation runs (`OpenIsRunning`). `PassHasOperation` and
`ReleasedIsCancelling` relate the pass to the operation on disk;
`PlacementReturns` and `TasksAreJobs` say where a placement goes on and what tasks
are, so that a pass cannot leave its batch for an admission. Each step is shown to
be one of a few moves of the pass and the line, and each move keeps the invariant.

**Work and faults.** A planner that reads a state it cannot continue from throws a
`SessionInvariantError`, which closes the harness; `NoInvariantFault` says that
none is reached. `WorkInv`, on top of `IndInv` and `GateInv`,
writes down what the planners take for granted, in three parts. `StoreWork`: for each
kind of leaf, what storage holds. A pending request has an id no entry has yet, a
deferred leaf names the one response that carries its handle, a batch belongs to one
response that has all its calls, each call has an id of its own, and its arguments or
its payload are there as long as its status needs them; every queued item has its
payload. `PassWork`: at which await of which procedure the pass may be for that leaf,
and what it carries. A pass that comes back to the loop has changed the state
(`SeenFor`), only a recorded cancellation signals it (`SignalWork`), and a placement
takes exactly the outcomes that are ready right after the completed calls (`Prefix`).
`TaskWork`: a task that has not run its tool stands before a call that is `planned` or
`effect_pending`, at most one task places at a time, and a task that is to start a
tool not safe to replay stands before a call that has never run. That last part is
what `UnsafeRunsOnce` needs, and it needs the rest: a call is known by the id of its
result, and ids stay distinct only because entries have host ids or minted ones and
no request settles twice. `NothingFaults` assumes `~HostFaults`, a condition on the
constants: no `before_drive` hook fails, and not both a host that resumes a pass and
one that does not wait for retries. With either the code does fault (section 5).
The proof has a lemma for every action of `Lane`, `RunDrive` and `ToolBatch`. What
`ItemsAt`, the filter all of them select queued items and calls with, returns is proved
once (`ItemsExist`, `ItemsAtDef` and `ItemsAtHolds`), by way of the smallest
position where it would fail: induction without an operator parameter.

**The session router.** `RouterInv` has four parts beside the shapes. `HandlesAgree`: a
handle is in the table its state says. `QueuesAgree`: the first operation of a
client names a handle and attachments that exist, and the others have not started.
`ReleasesAgree`: a release under way is its client's or comes with the end of the
worker, and waits for every call admitted before it. `RoutesAreLive` itself. A route
is live after an attach only because the queue says what the attach found before its
awaits; and what it found can only have gone if a removal, a death or the
shutdown ended the handle, which `HandlesAgree` then shows. `CallsKeepLease` follows
from `ReleasesAgree`, as the lease is given back only after the wait.

**Session workers.** The lock is a file with a stale limit of 2 s that its owner refreshes
every second; a worker that stalls longer may lose it while its session is still open, and
does not learn of it before its next refresh, which ends the process. `OneFileWriter` therefore
speaks of the time until some worker has stalled (`Refreshed`). Until then `LockHeld`: a worker
is in a phase with the file open only while the lock file is its own. Every worker step but the
ones that take the lock, give it back or lose it with the process opens nothing (`Quiet`),
which leaves those to look at. A close after a stall removes the lock of whoever has taken it
since (`Released`), so one stall is enough for two writers at any later time.

**Models and settings.** A pass of `ModelAvailability` publishes only if nothing has
superseded it, so a provider has at most one reading pass that may still be
published, and what that one has read is not older than what is shown: `NeverOlder`
needs nothing else. `ShownIsCurrent` holds where every refresh names its provider and
nothing fails (the part `models_shown` of run `agent`); a full pass that is superseded
by the refresh of one provider takes the other providers' news with it, and a pass
that fails shows nothing. In `Settings` the invariant `Kept` says that a write under
way holds the lock of its file and has read what is still there; it needs the file to
exist, because the code locks a file that does not exist only after the read. `Saved` says that
whatever was set and not written is in a queued write with its newest value, unless
a write of the process has failed; the two do not depend on each other.

**Credentials.** `CredInv` says what a call knows: one that has the lock has the data
of the file, one about to refresh has a token near its expiry, the readers of a
reload wait in its process, and a copy with a revision is no newer than the file and
equal to it at the same revision. From it follow `RefreshOnce`, `OtherKeySurvives` and
`CacheIsHonest`. `Tokens` adds that the tokens under way are fresh and distinct, and
that the file rests on a consumed token only while a refresh stands between the
provider's answer and its write. `RotatedStored` has the hypothesis that no call is
aborted because the code has it too: an abort between the two makes the refresh give
the lock back without the write, and the rotated token is lost; the run `agent` checks
`RotatedIsStored` where nothing is aborted. `Separate` is all that is assumed: the
null value, processes and calls are different things, and a call has its process.

**File mutations.** A queue key identifies a file as long as no link leads to a file
that does not exist yet (`KeysAreFiles`, the hypothesis; section 5 has the other case).
`ChainsAgree` says what a call knows of the unfinished calls of its key that were made
before it: a waiting one stands behind the last of them, whatever has finished since,
and one past its wait has none left. So at most one call of a key is past its wait, and
what an edit read is still there when it writes (`ContentsAgree`). `RegistrationsAgree`,
that keys are entered in the order of requests although each waits for the file
system, gives the order of the mutations. The run `agent` checks both parts of
`EditsAreSerial` among the parts of `ToolsAreExact`.

**Only model-checked.** Liveness under fairness and everything about `ENABLED`, which the
prover does not handle. The order of queues and logs and what folds over a branch
compute (`NoOvertaking`, `CompletedRunsAnswerEverything`, `ResponsesAreWhole`,
`CompactionCoversBranch`) and who owns a value (`OwnedValuesExact`): they are about whole
sequences, where `WorkInv` speaks of the entries and items one by one. Structural
operations: `HarnessProofs` and `HarnessFaultProofs` are about run operations
(`Harness`), and the runs `structural` and `scenarios` check `Structural`. The files,
deltas, editors and screens of `agent` and `hosts` that the table does not list; `Delta`
and the modules that use recursive operators are out of the prover's reach, the
others have not been proved yet.

## 5. What the constants leave out

Many modules have a constant that turns a behaviour of the code on or off. The
passing runs set it so that the property holds, or, where the table says so, have a part
with the other value in which only the properties that hold there are checked; with that value
TLC shows what the code does. They are kept as constants, and not as runs, so that the
property can be stated for the rest of the behaviour. For the calls of `JsonlRepo` that
rest is what its caller does: a session worker opens the repository under the lock of the
session's file.

| Module, constant | With it | What TLC then shows |
|---|---|---|
| `RunDrive` `BeforeDrive = {"ok", "fail"}` | a `before_drive` hook may fail | the pass's rejection faults the harness, which `agent/docs/harness.md` 4.5 excludes |
| `Harness` `DriveModes` with `resumed` callers | `resume()` joins a pass that does not wait for retries | the pass's ordinary outcome faults the harness |
| `JsonlStorage` `LateErrors` | an append fails after its bytes are on disk | `ResolvedCommitsSurvive`: the next commit reuses the sequence number and the file does not open |
| `JsonlRepo` `Mixed` | calls of different kinds overlap, as they do in part `repo` | `CommitsSurvive`: a delete, or a create that fails, removes the file that another caller opened and committed to after the check |
| `JsonlRepo` `OpensTogether` | two opens of one file overlap, as they do in parts `repo` and `repo_apart` | with a torn file `CommitsSurvive`: the second repair writes back what it read before the first caller's commit; and `HolderMatchesFile`: an open published after another one was, committed and closed, has read too little |
| `SessionWorkers` `MayStall` | a worker stalls past the stale limit of its lock, as it does in every run | without the premise `Refreshed`, `OneFileWriter`: another worker takes the lock and opens the file beside it |
| `AgentSession` `Overlap` | a second prompt or a compaction starts during a prompt's preflight | the flags of the first run are cleared by the second |
| `FileMutationQueue` `RealPath`, `InitialFiles` | a link to a file that does not exist yet | `MutationsSerializable`: calls through the link and to the file have two queues: a later call overtakes an earlier one, and an edit is lost |
| `Settings` `Present = FALSE` | the settings file does not exist yet | `OthersSurvive`: a first write does not read again under the lock |
| `SessionRouter` `Deferred` | an attach arrives behind the server's mutation tail after its client left | `GoneIsReleased`: an attachment of a connection that is gone |
| `RadiusRelay` `MaxPending` | the writer's limit is reached, as it is in part `relay_full` | the close of a connection is rejected: `NoStrayClient` without its exception, the client stays open at the relay until it sends something; the rejected answer to such a message is a promise nobody awaits and ends the process |
| `ServiceBinding` `ObserveAnytime`, keyed | an observer comes while a rebind waits for the old subscription to close, as it does in part `binding_anytime` | `NoOrphans`, `NoMisfit` and `ReplicaIsCurrent`: the observer and the rebind start one subscription each, both of the current revision; `NoStaleReplica` holds |
| `ModelCatalog` two `Processes` | two processes refresh the catalog in one store | `ShownIsStored`, `RefreshedIsStored` and `CatalogNeverGoesBack`: a process that fetched earlier writes its older catalog over the newer one, which the other then restores |
| `RadiusReconnect` `FailsAtOnce`, `MayRemove` | a connection that fails with its hello; a removed session | `DisconnectedIsRetried`; the client never comes back |
| `RpcMode` `Timeouts`, `CreationFails`, `SettledHandlers` | overlapping replacements, failing creation, handlers that wait | sessions torn down unannounced, accepted prompts without listeners |
| `MainScreen` `CursorAnywhere` | the cursor marker above the screen after a shrink | the tracked cursor row is off |
| `EditorAutocomplete` `SilentEdits` | motions that do not re-query | the open picker is for another position |
| `Editor` `StaleYanks` | a killed marker is yanked after its paste was submitted, renumbered or undone, or a second time, as it is in part `editor_stale` | `SubmitsPastes`: the prompt goes out with the literal marker or with another paste; part `editor_markers` kills and yanks markers that still stand for their pastes |
| `OverlayFocus` `LateHandles`, `Targets` | handles of removed overlays; releases to a target | keys go to a component that is not shown |
| `Delta` `KeepHeld` | a proxy held across a move of its element | the replica stays behind |
| `ShellExec` `Remainder` | the decoder's last character passes the limit | a truncated result without its file |
| `StdinBuffer` `MayExpire` | the timer fires within a sequence | the sequence leaves as two keys |
| `InteractiveMode` `Overlap`, `Fails` | a prompt during a flush's preflight; a navigation that fails | text refused and lost, or queued until a later compaction |

## 6. What is not modelled

Providers' HTTP protocols and OAuth flows, loading of extensions, packages and
bundles, telemetry, evaluations, HTML export, migrations of old session formats,
component layout and text wrapping: pure I/O, pure conversions, or content no
property is about. Each row of the table in section 1 names what its models leave out.
Within the models: text and images, timestamps, wording, events that change no
state. Retry delays are "over or not".
