-------------------------------- MODULE Lane --------------------------------
(***************************************************************************)
(* One configured AgentLane of the durable harness                         *)
(* (packages/agent/src/harness/runtime/lane.ts): its durable store, its     *)
(* in-memory projection, the commands that change both, the drive pass     *)
(* that owns the current operation and the cancellation of an operation.   *)
(*                                                                         *)
(* `store' is what survives a process exit, `mem' is `Lane.state'.  Every  *)
(* command writes the two separately, as the code does: `writes' goes to   *)
(* storage and `next' becomes the projection.  That they agree is a        *)
(* property (Harness!Coherent), not an assumption.                         *)
(***************************************************************************)
EXTENDS Naturals, Sequences, FiniteSets, SequencesExt

CONSTANTS
  Null,          \* JavaScript null / undefined
  Msgs,          \* messages a host may submit, each at most once: the id of its entry
  Notes,         \* custom entries without a projector that a host may append
  Models,        \* model identities of a lane configuration
  ToolNames,     \* names a configuration may activate
  InitialConfig, \* configuration the lane was created with
  HostConfigs,   \* configurations hosts switch the lane to
  RunSettings,   \* settings a run may be accepted with
  OpIds,         \* operation ids, each accepted at most once
  MaxIds         \* bound: ids minted before inputs stop growing the session

ASSUME NullAssumption ==
  Null \notin Msgs \cup Notes \cup OpIds \cup Nat

ASSUME IdAssumption ==
  /\ Msgs \cap Notes = {}
  /\ (Msgs \cup Notes) \cap Nat = {}

ASSUME SettingsAssumption ==
  RunSettings \subseteq [steering  : {"all", "one"},
                         followUp  : {"all", "one"},
                         execution : {"parallel", "sequential"}]

ASSUME ConfigAssumption ==
  /\ InitialConfig \in [model : Models, tools : SUBSET ToolNames]
  /\ HostConfigs \subseteq [model : Models, tools : SUBSET ToolNames]

VARIABLES
  store,   \* durable session content of this lane
  mem,     \* Lane.state, or Null while no process has the session open
  drive,   \* Lane.activeDrive, or NoDrive
  line,    \* the session's mutation line: queued commands of the drive, of drive() and of aborts
  idle,    \* TRUE while a runWhenIdle callback owns the lane
  ids,     \* number of ids minted so far
  sent,    \* messages and notes hosts have submitted so far
  fault    \* TRUE once a SessionInvariantError has faulted the harness

laneVars == <<store, mem, drive, line, idle, ids, sent, fault>>

-----------------------------------------------------------------------------
(* Entries and durable values.                                             *)

InboxKinds == {"write", "nextRun", "steer", "followUp"}

\* Mutant: all entries of a commit become siblings on the old tip.
ChainEntries_siblings(tip, items) ==
  [i \in DOMAIN items |-> [id |-> items[i][1], parent |-> tip, body |-> items[i][2]]]
\* Entries appended to a branch: `items' are <<id, body>> pairs, each entry's
\* parent is the one before it, the first one's is the tip.
ChainEntries(tip, items) ==
  [i \in DOMAIN items |->
     [id     |-> items[i][1],
      parent |-> IF i = 1 THEN tip ELSE items[i - 1][1],
      body   |-> items[i][2]]]

TipAfter(tip, items) == IF items = <<>> THEN tip ELSE Last(items)[1]

\* Store after inserting entries chained on its tip and moving the tip there.
InsertEntries(s, items) ==
  [s EXCEPT !.log = @ \o ChainEntries(s.tip, items), !.tip = TipAfter(@, items)]

Entry(s, id) == CHOOSE e \in ToSet(s.log) : e.id = id
HasEntry(s, id) == \E e \in ToSet(s.log) : e.id = id

\* Host content: a queued payload is a message or a custom entry.
UserBody(id) == [type |-> IF id \in Notes THEN "custom" ELSE "user"]

PendingEntry(id) == <<"pending", id>>
PendingFrames(op, id) == <<"frames", op, id>>

\* Mutant: one-at-a-time mode serves the newest item.
firstOrAll_newest(mode, items) == IF mode = "all" \/ items = <<>> THEN items ELSE <<Last(items)>>
\* Mutant: payloads of placed and cancelled items are never deleted.
PendingOf_leaks(items) == {}

\* The items of a sequence at the given positions, in their order.
ItemsAt(s, positions) ==
  LET upTo[i \in 0..Len(s)] ==
        IF i = 0 THEN <<>> ELSE IF i \in positions THEN Append(upTo[i - 1], s[i]) ELSE upTo[i - 1]
  IN  upTo[Len(s)]

inboxIds(items) == {items[i].id : i \in DOMAIN items}
itemsOf(inbox, taken) == ItemsAt(inbox, {i \in DOMAIN inbox : inbox[i].id \in taken})
withoutInboxItems(inbox, removed) == ItemsAt(inbox, {i \in DOMAIN inbox : inbox[i].id \notin removed})
inboxItems(inbox, kinds) == ItemsAt(inbox, {i \in DOMAIN inbox : inbox[i].kind \in kinds})
firstOrAll(mode, items) == IF mode = "all" \/ items = <<>> THEN items ELSE <<Head(items)>>

\* Materialized entries of queued items, and the payload addresses they delete.
pendingEntryWrite(items) == [i \in DOMAIN items |-> <<items[i].id, UserBody(items[i].id)>>]
PendingOf(items) == {PendingEntry(id) : id \in inboxIds(items)}

\* Every queued item selected by a planner must still have its payload.
PayloadsPresent(items) == PendingOf(items) \subseteq store.vals

\* Every write and nextRun item, and per mode all or the first steer and follow-up.
selectAcceptedInbox(inbox, settings) ==
  LET taken == inboxIds(inboxItems(inbox, {"write", "nextRun"}))
                 \cup inboxIds(firstOrAll(settings.steering, inboxItems(inbox, {"steer"})))
                 \cup inboxIds(firstOrAll(settings.followUp, inboxItems(inbox, {"followUp"})))
  IN  itemsOf(inbox, taken)

\* Mutant: the last operation is not persisted.
durableLaneState_noLast(cur, inbox, last) == [cur |-> cur, last |-> Null, inbox |-> inbox]
durableLaneState(cur, inbox, last) == [cur |-> cur, last |-> last, inbox |-> inbox]

\* No pi.result, pi.op.meta and pi.op.state value.
NoResult == [status |-> "none"]
NoMeta == [kind |-> "none"]
NoState == [ctl |-> "none"]

-----------------------------------------------------------------------------
(* Restoring the projection from storage (runtime/restore.ts).             *)

\* LaneState.operation of an idle lane.
NoOperation == [id |-> Null, meta |-> Null, st |-> Null]

restoreLaneState(s) ==
  [tip   |-> s.tip,
   cfg   |-> s.cfg,
   inbox |-> s.lane.inbox,
   last  |-> s.lane.last,
   op    |-> IF s.lane.cur = Null THEN NoOperation
             ELSE [id   |-> s.lane.cur,
                   meta |-> s.opMeta[s.lane.cur],
                   st   |-> s.opState[s.lane.cur]]]

RestoreFails(s) ==
  s.lane.cur # Null /\ (s.opMeta[s.lane.cur] = NoMeta \/ s.opState[s.lane.cur] = NoState)

-----------------------------------------------------------------------------
(* Commands.                                                               *)

Open == mem # Null /\ ~fault
Busy == mem.op.id # Null

\* Commands queue on the session line and wait while an idle callback owns the lane.
Ready == Open /\ ~idle

Cancelled == mem.op.st.ctl = "cancel_requested"

\* A planner threw: Lane.onFault closes the harness for good.
Faulted == fault' = TRUE /\ UNCHANGED <<store, mem, drive, line, idle, ids, sent>>

\* settleOperation, commit branch.  `s' is the store after the planner's own
\* writes, `m' the projection with the planner's lane patch, `patchesInbox'
\* whether that patch names the inbox.
SettleCommit(s, m, st, patchesInbox) ==
  /\ store' = [s EXCEPT
       !.opState[mem.op.id] = st,
       !.lane = IF patchesInbox THEN durableLaneState(mem.op.id, m.inbox, mem.last) ELSE @]
  /\ mem' = [m EXCEPT !.op.st = st]

\* settleOperation, finish branch: immutable result, lane released.
SettleFinish(s, m, record) ==
  /\ store' = [s EXCEPT
       !.results[mem.op.id] = record,
       !.lane = durableLaneState(Null, m.inbox, mem.op.id)]
  /\ mem' = [m EXCEPT !.last = mem.op.id, !.op = NoOperation]

operationResultRecord(status, tip) ==
  [kind |-> mem.op.meta.kind, status |-> status, from |-> mem.op.meta.source, tip |-> tip]

-----------------------------------------------------------------------------
(* Host commands.  Their planners read only the state they run on, so each  *)
(* is one step; it may overtake commands queued after it was issued.       *)

acceptRun(op, prompt, settings) ==
  LET taken == selectAcceptedInbox(mem.inbox, settings)
      inbox == withoutInboxItems(mem.inbox, inboxIds(taken))
      items == pendingEntryWrite(taken) \o [i \in DOMAIN prompt |-> <<prompt[i], UserBody(prompt[i])>>]
      meta  == [kind |-> "run", source |-> mem.tip, prompt |-> prompt]
      st    == [ctl |-> "running", settings |-> settings, latest |-> Null, leaf |-> [at |-> "starting"]]
      s     == InsertEntries(store, items)
  IN /\ Ready /\ ~Busy
     /\ store.opMeta[op] = NoMeta /\ store.results[op] = NoResult
     /\ ToSet(prompt) \cap sent = {}
     /\ IF ~PayloadsPresent(mem.inbox) THEN Faulted ELSE
        /\ prompt # <<>> \/ \E i \in DOMAIN taken : taken[i].kind # "write"
        /\ store' = [s EXCEPT !.vals = @ \ PendingOf(taken),
                              !.opMeta[op] = meta,
                              !.opState[op] = st,
                              !.lane = durableLaneState(op, inbox, mem.last)]
        /\ mem' = [mem EXCEPT !.tip = TipAfter(mem.tip, items), !.inbox = inbox,
                              !.op = [id |-> op, meta |-> meta, st |-> st]]
        /\ sent' = sent \cup ToSet(prompt)
        /\ UNCHANGED <<drive, line, idle, ids, fault>>

CurrentId == mem.op.id

enqueue(kind, m) ==
  LET inbox == Append(mem.inbox, [id |-> m, kind |-> kind])
  IN /\ Ready /\ m \notin sent
     /\ IF ~PayloadsPresent(mem.inbox) THEN Faulted ELSE
        /\ store' = [store EXCEPT !.vals = @ \cup {PendingEntry(m)},
                                  !.lane = durableLaneState(CurrentId, inbox, mem.last)]
        /\ mem' = [mem EXCEPT !.inbox = inbox]
        /\ sent' = sent \cup {m}
        /\ UNCHANGED <<drive, line, idle, ids, fault>>

cancelQueued(m) ==
  LET inbox == withoutInboxItems(mem.inbox, {m})
  IN /\ Ready /\ m \in inboxIds(mem.inbox)
     /\ IF ~PayloadsPresent(mem.inbox) THEN Faulted ELSE
        /\ store' = [store EXCEPT !.vals = @ \ {PendingEntry(m)},
                                  !.lane = durableLaneState(CurrentId, inbox, mem.last)]
        /\ mem' = [mem EXCEPT !.inbox = inbox]
        /\ UNCHANGED <<drive, line, idle, ids, sent, fault>>

\* appendMessage and appendCustomEntry: placed at once on an idle lane, after
\* the writes still queued there; queued while an operation owns the branch.
append(m) ==
  LET queued == inboxItems(mem.inbox, {"write"})
      after  == withoutInboxItems(mem.inbox, inboxIds(queued))
      items  == Append(pendingEntryWrite(queued), <<m, UserBody(m)>>)
      s      == InsertEntries(store, items)
      inbox  == Append(mem.inbox, [id |-> m, kind |-> "write"])
  IN /\ Ready /\ m \notin sent
     /\ IF (Busy \/ queued # <<>>) /\ ~PayloadsPresent(mem.inbox) THEN Faulted ELSE
        /\ IF ~Busy
           THEN /\ store' = [s EXCEPT !.tip = m, !.vals = @ \ PendingOf(queued),
                                      !.lane = durableLaneState(Null, after, mem.last)]
                /\ mem' = [mem EXCEPT !.tip = m, !.inbox = after]
           ELSE /\ store' = [store EXCEPT !.vals = @ \cup {PendingEntry(m)},
                                          !.lane = durableLaneState(mem.op.id, inbox, mem.last)]
                /\ mem' = [mem EXCEPT !.inbox = inbox]
        /\ sent' = sent \cup {m}
        /\ UNCHANGED <<drive, line, idle, ids, fault>>

\* setModel, setThinkingLevel, setActiveTools.
setConfiguration(c) ==
  /\ Ready
  /\ store' = [store EXCEPT !.cfg = c]
  /\ mem' = [mem EXCEPT !.cfg = c]
  /\ UNCHANGED <<drive, line, idle, ids, sent, fault>>

\* runWhenIdle: claim on the line, release when the callback ends.
claimIdle ==
  /\ Ready /\ ~Busy /\ drive.id = Null
  /\ idle' = TRUE
  /\ UNCHANGED <<store, mem, drive, line, ids, sent, fault>>

releaseIdle ==
  /\ Open /\ idle
  /\ idle' = FALSE
  /\ UNCHANGED <<store, mem, drive, line, ids, sent, fault>>

-----------------------------------------------------------------------------
(* The drive pass (runtime/types.ts Drive, execution/effect-gate.ts) and its *)
(* place on the mutation line.                                             *)

\* `gate': "aborting" once an abort request or reconciliation called beginAbort,
\* "signalled" once signalAbort fired.  `released': the abort mutation that the
\* gate's cancellation promise stands for has settled.  `seen': the operation
\* state the running procedure was dispatched on.  `resumed': a resume() or
\* prompt() call observes the pass.  `arg': values the procedure carries from one
\* step to the next, at the end the kind of outcome.
newDrive(op, mode) ==
  [id |-> op, resumed |-> mode.resumed, waitForRetry |-> mode.wait, permits |-> IF mode.poll THEN 1 ELSE 0,
   gate |-> "open", released |-> FALSE, seen |-> NoState, pc |-> "begin", arg |-> Null]

\* Lane.activeDrive is null.
NoDrive ==
  [id |-> Null, resumed |-> FALSE, waitForRetry |-> FALSE, permits |-> 0,
   gate |-> "open", released |-> FALSE, seen |-> NoState, pc |-> "none", arg |-> Null]

MainToken == [who |-> "main"]
AbortToken(op, sampled) == [who |-> "abort", op |-> op, sampled |-> sampled]
DriveToken(op, mode) == [who |-> "drive", op |-> op, mode |-> mode]

Queued(who) == {i \in DOMAIN line : line[i].who = who}
HeadIs(who) == line # <<>> /\ Head(line).who = who

Driving == Open /\ drive.id # Null
At(pc) == Driving /\ drive.pc = pc

\* The drive's queued command has reached the head of the line.
MainTurn(pc) == At(pc) /\ ~idle /\ HeadIs("main")

\* Mutant: the gate admits effects after an abort.
GateOpen_always == TRUE
\* Gate.admit starts an effect only while no abort was requested.
GateOpen == drive.gate = "open"

Goto(pc, arg) == drive' = [drive EXCEPT !.pc = pc, !.arg = arg]

\* The drive awaits its next command: it joins the end of the line.
Queue(pc, arg) == Goto(pc, arg) /\ line' = Append(line, MainToken)

\* drive(), also called by prompt() and resume(): its claim joins the line.
requestDrive(op, mode) ==
  /\ Open
  /\ line' = Append(line, DriveToken(op, mode))
  /\ UNCHANGED <<store, mem, drive, idle, ids, sent, fault>>

\* The claim: a lane without a pass installs one, a caller that finds the pass of
\* its operation observes it.  The settled and mismatch answers change nothing;
\* a caller that finds the pass of an earlier operation calls again after it.
installDrive ==
  LET t == Head(line)
  IN /\ Ready /\ HeadIs("drive")
     /\ line' = Tail(line)
     /\ drive' = IF ~(Busy /\ mem.op.id = t.op) THEN drive
                 ELSE IF drive.id = Null THEN newDrive(t.op, t.mode)
                 ELSE IF drive.id = t.op THEN [drive EXCEPT !.resumed = @ \/ t.mode.resumed]
                 ELSE drive
     /\ UNCHANGED <<store, mem, idle, ids, sent, fault>>

\* Completion of driveOperation: activeDrive is cleared; an abort that sampled
\* this pass has nothing left to signal.  resume() and prompt() asked for a pass
\* that waits for retries: an outcome that reports a retry wait faults the harness.
completeDrive ==
  /\ At("done")
  /\ drive' = NoDrive
  /\ line' = [i \in DOMAIN line |->
                IF line[i].who = "abort" THEN AbortToken(line[i].op, FALSE) ELSE line[i]]
  /\ fault' = (drive.resumed /\ drive.arg = "retry")
  /\ UNCHANGED <<store, mem, idle, ids, sent>>

\* Mutant: waiters are released before the cancellation is durable.
requestOperationAbort_releasesEarly(op) ==
  LET sampled == drive.id = op
  IN /\ Open
     /\ line' = Append(line, AbortToken(op, sampled))
     /\ drive' = IF sampled THEN [drive EXCEPT !.gate = "aborting", !.released = TRUE] ELSE drive
     /\ UNCHANGED <<store, mem, idle, ids, sent, fault>>

\* requestOperationAbort, synchronous part: sample activeDrive, close its gate to
\* new effects and queue the durable cancellation.
requestOperationAbort(op) ==
  LET sampled == drive.id = op
  IN /\ Open
     /\ line' = Append(line, AbortToken(op, sampled))
     /\ drive' = IF sampled /\ drive.gate = "open"
                 THEN [drive EXCEPT !.gate = "aborting"] ELSE drive
     /\ UNCHANGED <<store, mem, idle, ids, sent, fault>>

\* The abort command at the head of the line.  A mismatch releases the sampled
\* gate's waiters without signalling; a repeated request signals again.
commitAbort ==
  LET t       == Head(line)
      removed == inboxItems(mem.inbox, {"steer", "followUp"})
      inbox   == withoutInboxItems(mem.inbox, inboxIds(removed))
      st      == [mem.op.st EXCEPT !.ctl = "cancel_requested"]
      matches == Busy /\ mem.op.id = t.op
  IN /\ Ready /\ HeadIs("abort")
     /\ IF matches /\ ~Cancelled /\ ~PayloadsPresent(mem.inbox) THEN Faulted ELSE
        /\ line' = Tail(line)
        /\ IF matches /\ ~Cancelled
           THEN /\ store' = [store EXCEPT !.vals = @ \ PendingOf(removed),
                                          !.opState[t.op] = st,
                                          !.lane = durableLaneState(t.op, inbox, mem.last)]
                /\ mem' = [mem EXCEPT !.inbox = inbox, !.op.st = st]
           ELSE UNCHANGED <<store, mem>>
        /\ drive' = IF ~t.sampled THEN drive
                    ELSE [drive EXCEPT !.released = TRUE,
                                       !.gate = IF matches THEN "signalled" ELSE @]
        /\ UNCHANGED <<idle, ids, sent, fault>>

-----------------------------------------------------------------------------
(* Starting, losing and restoring the process.                             *)

LaneInit ==
  /\ store = [log     |-> <<>>,
              tip     |-> Null,
              cfg     |-> InitialConfig,
              lane    |-> durableLaneState(Null, <<>>, Null),
              opMeta  |-> [op \in OpIds |-> NoMeta],
              opState |-> [op \in OpIds |-> NoState],
              results |-> [op \in OpIds |-> NoResult],
              usage   |-> <<>>,
              vals    |-> {}]
  /\ mem = restoreLaneState(store)
  /\ drive = NoDrive
  /\ line = <<>>
  /\ idle = FALSE
  /\ ids = 0
  /\ sent = {}
  /\ fault = FALSE

\* Process exit, close, or a failed commit: everything but the store is lost.
stopProcess ==
  /\ Open
  /\ mem' = Null /\ drive' = NoDrive /\ line' = <<>> /\ idle' = FALSE
  /\ UNCHANGED <<store, ids, sent, fault>>

restoreSession ==
  /\ mem = Null /\ ~fault
  /\ IF RestoreFails(store) THEN Faulted
     ELSE /\ mem' = restoreLaneState(store)
          /\ UNCHANGED <<store, drive, line, idle, ids, sent, fault>>
=============================================================================
