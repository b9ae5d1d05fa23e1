------------------------- MODULE HarnessFaultProofs -------------------------
(***************************************************************************)
(* Proofs, for every value of the constants, that no interleaving reaches   *)
(* one of the SessionInvariantErrors that close the harness                *)
(* (NoInvariantFault) and that a tool not declared safe to replay is        *)
(* started at most once per call (UnsafeToolsRunOnce).                      *)
(*                                                                         *)
(* What the planners take for granted when they read a state is written    *)
(* down here: what the store must hold for the leaf of the current          *)
(* operation (StoreWork), where the pass may be for that leaf and what it   *)
(* carries (PassWork), and how far each task of a batch has come            *)
(* (TaskWork).                                                              *)
(***************************************************************************)
EXTENDS HarnessProofs, WellFoundedInduction

-----------------------------------------------------------------------------
(* Sequences.                                                              *)

\* Every nonempty set of naturals has a least element.
LEMMA LeastNat ==
  ASSUME NEW T \in SUBSET Nat, T # {}
  PROVE  \E x \in T : \A y \in T : x <= y
<1> DEFINE R == OpToRel(<, Nat)
<1>1. \A x, y \in Nat : x < y => <<x, y>> \in R
  BY Zenon DEF OpToRel
<1>2. IsWellFoundedOn(R, Nat)
  BY NatLessThanWellFounded
<1> HIDE DEF R
<1>3. \E x \in T : \A y \in T : ~ (<<y, x>> \in R)
  BY <1>2, WFMin
<1>4. PICK x \in T : \A y \in T : ~ (<<y, x>> \in R)
  BY <1>3
<1>5. \A y \in T : y \in Nat /\ x \in Nat /\ ~(y < x)
  BY <1>1, <1>4
<1>6. QED
  BY <1>4, <1>5

\* The recursion of ItemsAt, as a function on the first n positions.
Items(s, positions, n, f) ==
  f = [i \in 0..n |->
         IF i = 0 THEN <<>> ELSE IF i \in positions THEN Append(f[i - 1], s[i]) ELSE f[i - 1]]

\* There is such a function.
LEMMA ItemsExist ==
  ASSUME NEW s, Len(s) \in Nat, NEW P
  PROVE  \E f : Items(s, P, Len(s), f)
<1> DEFINE T == {n \in Nat : ~\E f : Items(s, P, n, f)}
<1> SUFFICES ASSUME T # {} PROVE FALSE
  OBVIOUS
<1>1. PICK n \in T : \A m \in T : n <= m
  BY LeastNat
<1>2. n # 0
  <2> DEFINE f == [i \in 0..0 |-> <<>>]
  <2>1. Items(s, P, 0, f)
    BY DEF Items
  <2>2. QED
    BY <2>1
<1>3. n - 1 \in Nat /\ n - 1 \notin T
  BY <1>1, <1>2
<1>4. PICK f : Items(s, P, n - 1, f)
  BY <1>3
<1> DEFINE g == [i \in 0..n |-> IF i < n THEN f[i] ELSE IF i \in P THEN Append(f[i - 1], s[i]) ELSE f[i - 1]]
<1>5. \A i \in 0..n : g[i] = IF i = 0 THEN <<>> ELSE IF i \in P THEN Append(g[i - 1], s[i]) ELSE g[i - 1]
  <2> SUFFICES ASSUME NEW i \in 0..n
               PROVE g[i] = IF i = 0 THEN <<>> ELSE IF i \in P THEN Append(g[i - 1], s[i]) ELSE g[i - 1]
    OBVIOUS
  <2>1. CASE i = n
    BY <1>1, <1>2, <2>1
  <2>2. CASE i < n
    <3>1. i \in 0..(n - 1) /\ (i # 0 => i - 1 \in 0..n /\ i - 1 < n)
      BY <1>1, <2>2
    <3>2. f[i] = IF i = 0 THEN <<>> ELSE IF i \in P THEN Append(f[i - 1], s[i]) ELSE f[i - 1]
      BY <1>4, <3>1 DEF Items
    <3>3. QED
      BY <2>2, <3>1, <3>2
  <2>3. QED
    BY <1>1, <2>1, <2>2
<1>6. Items(s, P, n, g)
  <2>1. g = [i \in 0..n |-> g[i]]
    OBVIOUS
  <2> HIDE DEF g
  <2>2. QED
    BY <1>5, <2>1 DEF Items
<1>7. QED
  BY <1>1, <1>6

\* ItemsAt is computed by it.
LEMMA ItemsAtDef ==
  ASSUME NEW s, Len(s) \in Nat, NEW P
  PROVE  \E f : Items(s, P, Len(s), f) /\ ItemsAt(s, P) = f[Len(s)]
BY ItemsExist DEF ItemsAt, Items

\* `t' holds the items of the first n positions of `s' that are in P, in their order.
HoldsItems(s, P, n, t) ==
  /\ \A k \in DOMAIN t : \E j \in 1..n : j \in P /\ t[k] = s[j]
  /\ \A j \in 1..n : j \in P => \E k \in DOMAIN t : t[k] = s[j]
  /\ \A k, l \in DOMAIN t : k < l => \E i, j \in 1..n : i < j /\ i \in P /\ j \in P /\ t[k] = s[i] /\ t[l] = s[j]

\* One more position.
LEMMA OneMoreItem ==
  ASSUME NEW S, NEW s \in Seq(S), NEW P, NEW n \in 1..Len(s), NEW t \in Seq(S), HoldsItems(s, P, n - 1, t),
         NEW u, u = IF n \in P THEN Append(t, s[n]) ELSE t
  PROVE  u \in Seq(S) /\ HoldsItems(s, P, n, u)
<1>1. n \in Nat /\ n - 1 \in Nat /\ s[n] \in S /\ Len(t) \in Nat /\ DOMAIN t = 1..Len(t)
  BY ElementOfSeq, LenProperties
<1>2. CASE n \notin P
  <2>1. u = t /\ \A j \in 1..n : j \in P => j \in 1..(n - 1)
    BY <1>1, <1>2
  <2>2. \A j \in 1..(n - 1) : j \in 1..n
    BY <1>1
  <2>3. ASSUME NEW k \in DOMAIN t PROVE \E j \in 1..n : j \in P /\ t[k] = s[j]
    <3>1. PICK j \in 1..(n - 1) : j \in P /\ t[k] = s[j]
      BY DEF HoldsItems
    <3>2. QED
      BY <2>2, <3>1
  <2>4. ASSUME NEW j \in 1..n, j \in P PROVE \E k \in DOMAIN t : t[k] = s[j]
    <3>1. j \in 1..(n - 1)
      BY <2>1, <2>4
    <3>2. QED
      BY <2>4, <3>1 DEF HoldsItems
  <2>5. ASSUME NEW k \in DOMAIN t, NEW l \in DOMAIN t, k < l
        PROVE  \E i, j \in 1..n : i < j /\ i \in P /\ j \in P /\ t[k] = s[i] /\ t[l] = s[j]
    <3>1. PICK i, j \in 1..(n - 1) : i < j /\ i \in P /\ j \in P /\ t[k] = s[i] /\ t[l] = s[j]
      BY <2>5 DEF HoldsItems
    <3>2. QED
      BY <2>2, <3>1
  <2>6. HoldsItems(s, P, n, t)
    BY <2>3, <2>4, <2>5 DEF HoldsItems
  <2>7. QED
    BY <2>1, <2>6
<1>3. CASE n \in P
  <2>1. /\ u \in Seq(S) /\ Len(u) = Len(t) + 1 /\ u[Len(t) + 1] = s[n] /\ DOMAIN u = 1..(Len(t) + 1)
        /\ \A k \in 1..Len(t) : u[k] = t[k]
    BY <1>1, <1>3, AppendProperties
  <2>2. \A j \in 1..(n - 1) : j \in 1..n /\ j < n
    BY <1>1
  <2>3. \A k \in DOMAIN u : k # Len(t) + 1 => k \in DOMAIN t /\ u[k] = t[k]
    BY <1>1, <2>1
  <2>4. \A k \in DOMAIN t : k \in DOMAIN u /\ u[k] = t[k]
    BY <1>1, <2>1
  <2>5. ASSUME NEW k \in DOMAIN u PROVE \E j \in 1..n : j \in P /\ u[k] = s[j]
    BY <1>1, <1>3, <2>1, <2>2, <2>3, SMTT(40) DEF HoldsItems
  <2>6. ASSUME NEW j \in 1..n, j \in P PROVE \E k \in DOMAIN u : u[k] = s[j]
    <3>1. CASE j = n
      BY <1>1, <2>1, <3>1
    <3>2. CASE j # n
      <4>1. j \in 1..(n - 1)
        BY <1>1, <3>2
      <4>2. PICK k \in DOMAIN t : t[k] = s[j]
        BY <2>6, <4>1 DEF HoldsItems
      <4>3. QED
        BY <2>4, <4>2
    <3>3. QED
      BY <3>1, <3>2
  <2>7. ASSUME NEW k \in DOMAIN u, NEW l \in DOMAIN u, k < l
        PROVE  \E i, j \in 1..n : i < j /\ i \in P /\ j \in P /\ u[k] = s[i] /\ u[l] = s[j]
    <3>1. k # Len(t) + 1
      BY <1>1, <2>1, <2>7
    <3>2. k \in DOMAIN t /\ u[k] = t[k]
      BY <2>3, <3>1
    <3>3. CASE l = Len(t) + 1
      <4>1. PICK i \in 1..(n - 1) : i \in P /\ t[k] = s[i]
        BY <3>2 DEF HoldsItems
      <4>2. i < n /\ i \in 1..n /\ n \in 1..n /\ u[l] = s[n]
        BY <1>1, <2>1, <2>2, <3>3
      <4>3. QED
        BY <1>3, <3>2, <4>1, <4>2
    <3>4. CASE l # Len(t) + 1
      <4>1. l \in DOMAIN t /\ u[l] = t[l]
        BY <2>3, <3>4
      <4>2. PICK i, j \in 1..(n - 1) : i < j /\ i \in P /\ j \in P /\ t[k] = s[i] /\ t[l] = s[j]
        BY <2>7, <3>2, <4>1 DEF HoldsItems
      <4>3. QED
        BY <2>2, <3>2, <4>1, <4>2
    <3>5. QED
      BY <3>3, <3>4
  <2>8. QED
    BY <2>1, <2>5, <2>6, <2>7 DEF HoldsItems
<1>4. QED
  BY <1>2, <1>3

\* ItemsAt holds exactly the items at the given positions, in their order.
LEMMA ItemsAtHolds ==
  ASSUME NEW S, NEW s \in Seq(S), NEW P
  PROVE  ItemsAt(s, P) \in Seq(S) /\ HoldsItems(s, P, Len(s), ItemsAt(s, P))
<1>1. Len(s) \in Nat
  BY LenProperties
<1>2. PICK f : Items(s, P, Len(s), f) /\ ItemsAt(s, P) = f[Len(s)]
  BY <1>1, ItemsAtDef
<1>3. \A i \in 0..Len(s) : f[i] = IF i = 0 THEN <<>> ELSE IF i \in P THEN Append(f[i - 1], s[i]) ELSE f[i - 1]
  BY <1>2 DEF Items
<1> DEFINE T == {n \in Nat : n <= Len(s) /\ ~(f[n] \in Seq(S) /\ HoldsItems(s, P, n, f[n]))}
<1>4. T = {}
  <2> SUFFICES ASSUME T # {} PROVE FALSE
    OBVIOUS
  <2>1. PICK n \in T : \A m \in T : n <= m
    BY LeastNat
  <2>2. n \in 0..Len(s) /\ n \in Nat
    BY <1>1, <2>1
  <2>3. CASE n = 0
    <3>1. f[0] = <<>>
      BY <1>3, <2>2, <2>3
    <3>2. f[0] \in Seq(S) /\ DOMAIN f[0] = {}
      BY <3>1, EmptySeq
    <3>3. HoldsItems(s, P, 0, f[0])
      BY <3>2 DEF HoldsItems
    <3>4. QED
      BY <2>1, <2>3, <3>2, <3>3
  <2>4. CASE n # 0
    <3>1. n \in 1..Len(s) /\ n - 1 \in Nat /\ n - 1 <= Len(s) /\ ~(n <= n - 1)
      BY <1>1, <2>2, <2>4
    <3>2. n - 1 \notin T
      BY <2>1, <3>1
    <3>3. f[n - 1] \in Seq(S) /\ HoldsItems(s, P, n - 1, f[n - 1])
      BY <3>1, <3>2
    <3>4. f[n] = IF n \in P THEN Append(f[n - 1], s[n]) ELSE f[n - 1]
      BY <1>3, <2>2, <2>4
    <3>5. f[n] \in Seq(S) /\ HoldsItems(s, P, n, f[n])
      BY <3>1, <3>3, <3>4, OneMoreItem
    <3>6. QED
      BY <2>1, <3>5
  <2>5. QED
    BY <2>3, <2>4
<1>5. Len(s) \notin T /\ Len(s) <= Len(s)
  BY <1>1, <1>4
<1>6. QED
  BY <1>1, <1>2, <1>5

-----------------------------------------------------------------------------
(* The invariant.                                                          *)

HostIds == Msgs \cup Notes
Minted == 1..ids
LogIds == {e.id : e \in ToSet(store.log)}
State == store.opState[Current]

\* Kinds of leaves.
Pending == {"assistant.effect_pending", "deferred.effect_pending"}
Deferred == {"deferred.suspended", "deferred.effect_pending"}
Leaves == {"starting", "checkpoint", "assistant.ready", "assistant.retry_wait", "tools"} \cup Pending \cup Deferred

\* Entries have the ids of host input and minted ids.
LogWork ==
  /\ ids \in Nat
  /\ store.log \in Seq(ToSet(store.log))
  /\ LogIds \subseteq HostIds \cup Minted

\* Queued items are host input, and each has its payload.
InboxWork ==
  /\ store.lane.inbox \in Seq(InboxItem)
  /\ \A i \in DOMAIN store.lane.inbox : PendingEntry(store.lane.inbox[i].id) \in store.vals

\* Calls that ran have minted ids; those that ran again are safe to replay.
RunsWork ==
  /\ \A e \in executed : e.call \in Minted
  /\ UnsafeToolsRunOnce

\* `e' is the only entry with its id.
OnlyEntry(id, e) == e \in ToSet(store.log) /\ e.id = id /\ \A f \in ToSet(store.log) : f.id = id => f = e

\* A deferred leaf names the response that carries the handle.
DeferredWork(source) ==
  /\ source \in Minted
  /\ \E e \in ToSet(store.log) : OnlyEntry(source, e) /\ e.body.type = "assistant" /\ e.body.stop = "deferred"

\* A batch belongs to one response, which has its calls.
SourceWork(assistant, calls) ==
  /\ assistant \in Minted
  /\ \E e \in ToSet(store.log) :
       OnlyEntry(assistant, e) /\ e.body.type = "assistant" /\ DOMAIN calls \subseteq DOMAIN e.body.calls

Unsettled == {"planned", "effect_pending"}
Staged == {"outcome_ready", "completed"}

IsCall(c) ==
  /\ c = [status |-> c.status, result |-> c.result, replay |-> c.replay, terminate |-> c.terminate, outcome |-> c.outcome]
  /\ c.status \in Unsettled \cup Staged

\* The calls of a batch: each has its own result id, and something is left to do.
CallsWork(assistant, calls) ==
  /\ Len(calls) \in Nat /\ calls = [i \in 1..Len(calls) |-> calls[i]]
  /\ \A i \in DOMAIN calls : IsCall(calls[i]) /\ calls[i].result \in Minted /\ calls[i].result # assistant
  /\ \A i, j \in DOMAIN calls : calls[i].result = calls[j].result => i = j
  /\ \E i \in DOMAIN calls : calls[i].status # "completed"

\* What each call has on record.
CallValues(assistant, calls) ==
  \A i \in DOMAIN calls :
    /\ calls[i].status = "outcome_ready" => PendingEntry(calls[i].result) \in store.vals
    /\ calls[i].status = "effect_pending" => <<"args", Current, assistant, i>> \in store.vals
    /\ calls[i].status = "planned" => \A e \in executed : e.call # calls[i].result

BatchWork(leaf) ==
  /\ leaf = [at |-> "tools", assistant |-> leaf.assistant, cfg |-> leaf.cfg, calls |-> leaf.calls]
  /\ SourceWork(leaf.assistant, leaf.calls)
  /\ CallsWork(leaf.assistant, leaf.calls)
  /\ CallValues(leaf.assistant, leaf.calls)

\* What the procedures of a leaf rely on.
LeafIs(st) ==
  /\ st.leaf.at \in Leaves
  /\ st.leaf.at = "starting" => ToSet(store.opMeta[Current].prompt) \subseteq LogIds
  /\ st.leaf.at = "checkpoint" /\ st.leaf.continuation.flag => st.latest # Null
  /\ st.leaf.at \in Pending => st.leaf.response \in Minted \ LogIds
  /\ st.leaf.at \in Deferred => DeferredWork(st.leaf.source)
  /\ st.leaf.at = "tools" => BatchWork(st.leaf)

LeafWork ==
  Current # Null => store.opMeta[Current].kind = "run" /\ store.tip # Null /\ LeafIs(State)

StoreWork == LogWork /\ InboxWork /\ RunsWork /\ LeafWork

\* The awaits of the procedures, by the leaf they work on.
StartPcs == {"start.read", "start.hook", "start.commit"}
CheckPcs == {"checkpoint.commit", "finish.read", "finish.hook", "finish.commit"}
ReadyPcs == {"request.read", "request.hook", "request.intent"}
RetryPcs == {"timer", "retry.commit"}
DeferPcs == {"poll.read", "poll.hook", "poll.intent", "cancel.handle", "cancel.remote"}
CancelPcs == {"cancel.handle", "cancel.remote", "cancel.finish"}
RequestPcs == {"request.admit", "request.transform", "request.effect", "request.after", "request.drop",
               "publish", "poll.admit", "recover.read", "settle.read"}
ReplyPcs == {"request.after", "request.drop", "publish"}
PlacePcs == {"place.read", "place.commit"}

\* The leaf a pass at `pc' works on.
AtLeaf(pc) ==
  /\ pc \in StartPcs => CurrentLeaf.at = "starting"
  /\ pc \in CheckPcs => CurrentLeaf.at = "checkpoint"
  /\ pc \in ReadyPcs => CurrentLeaf.at = "assistant.ready"
  /\ pc \in RetryPcs => CurrentLeaf.at = "assistant.retry_wait"
  /\ pc \in DeferPcs => CurrentLeaf.at \in Deferred
  /\ pc \in RequestPcs => CurrentLeaf.at \in Pending
  /\ pc = "tools.source" => CurrentLeaf.at = "tools"

\* Awaits at which the leaf is still the one the procedure was dispatched on.
SeenPcs == StartPcs \cup CheckPcs \cup ReadyPcs \cup RetryPcs \cup DeferPcs \cup {"tools.source"}

\* A running operation is dispatched again only after its state has changed.
SeenFor(pc, seen) ==
  pc \notin {"none", "done"} /\ Phase = "running" =>
    /\ pc \in {"begin", "before_drive"} => seen = NoState
    /\ pc \in SeenPcs => seen.leaf = CurrentLeaf
    /\ pc \in RequestPcs =>
         /\ seen.leaf.at \in {"assistant.ready"} \cup Pending \cup Deferred
         /\ seen.leaf.at = "deferred.suspended" => seen.leaf.source # CurrentLeaf.response
    /\ pc \in BatchPcs => seen.leaf.at = "tools"
    /\ pc = "loop" => seen # State

\* What the pass carries.
ArgFor(pc, arg) ==
  /\ pc = "start.commit" => arg \in {0, 1}
  /\ pc \in ReplyPcs => /\ arg.reply.calls \in Seq(ToolNames)
                        /\ arg.reply.stop = "aborted" => Phase = "cancelling"
  /\ pc \in CancelPcs => Phase = "cancelling"

\* Only a recorded cancellation signals; only a pass that does not wait reports a wait.
OutcomeFor(pc, arg) == pc = "done" /\ arg = "retry" => ~drive.waitForRetry
SignalWork == drive.gate = "signalled" /\ drive.pc \notin {"none", "done"} => Phase = "cancelling"

\* The pass is driven by hosts this instance has.
ModeWork ==
  drive.id # Null => /\ \E mode \in DriveModes : mode.wait = drive.waitForRetry
                     /\ drive.resumed => \E mode \in DriveModes : mode.resumed

BatchOpen == CurrentLeaf.at = "tools"

\* The calls a placement takes: the outcomes ready right after the completed calls.
Prefix(calls) ==
  {i \in DOMAIN calls : /\ calls[i].status = "outcome_ready"
                        /\ \A j \in 1..i : calls[j].status \in {"completed", "outcome_ready"}}

\* How far the batch has come when the pass takes its next step.
TurnFor(pc, arg) ==
  pc \in BatchPcs =>
    /\ arg.turns \in Nat
    /\ arg.mode = "settle" => Phase = "cancelling"
    /\ pc \in {"sequential", "sequential.join"} => arg.after = "sequential"
    /\ pc = "place.commit" => BatchOpen /\ arg.items = Prefix(CurrentLeaf.calls)
    /\ pc = "tools.begin" \/ (pc \in PlacePcs /\ arg.after = "tools.begin") => arg.turns = 0
    /\ BatchOpen =>
         /\ pc \in PlacePcs /\ arg.after = "loop" =>
              \A i \in DOMAIN CurrentLeaf.calls : CurrentLeaf.calls[i].status \in Staged
         /\ pc \in PlacePcs /\ arg.after = "sequential" =>
              \A i \in DOMAIN CurrentLeaf.calls : i <= arg.turns => CurrentLeaf.calls[i].status \in Staged
         /\ pc = "sequential" =>
              /\ \A i \in DOMAIN CurrentLeaf.calls : i <= arg.turns => CurrentLeaf.calls[i].status = "completed"
              /\ Prefix(CurrentLeaf.calls) = {}

PassWork ==
  /\ AtLeaf(drive.pc) /\ SeenFor(drive.pc, drive.seen) /\ ArgFor(drive.pc, drive.arg)
  /\ OutcomeFor(drive.pc, drive.arg) /\ SignalWork /\ ModeWork /\ TurnFor(drive.pc, drive.arg)

\* Stages of a task, by the status of its call.
PlannedTasks == {"before", "intent"}
StartedTasks == {"clear", "admit", "checkpoint", "execute", "after"}
OpenTasks == PlannedTasks \cup StartedTasks \cup {"refused", "outcome"}

Tool(i) == Entry(store, CurrentLeaf.assistant).body.calls[i]
Status(i) == CurrentLeaf.calls[i].status

TaskFits(i) ==
  /\ jobs[i].pc \in OpenTasks => BatchOpen /\ Status(i) \in Unsettled
  /\ jobs[i].pc \in PlannedTasks => Status(i) = "planned"
  /\ jobs[i].pc \in StartedTasks => Status(i) = "effect_pending"
  /\ jobs[i].pc \in {"place", "done"} /\ BatchOpen => Status(i) \in Staged
  /\ jobs[i].pc = "placing" => /\ BatchOpen /\ Status(i) \in Staged
                               /\ jobs[i].out \subseteq {j \in DOMAIN CurrentLeaf.calls : Status(j) = "outcome_ready"}
  /\ jobs[i].pc = "clear" => Tool(i) \in SafeTools
  /\ jobs[i].pc = "admit" => Tool(i) \in SafeTools \/ \A e \in executed : e.call # CurrentLeaf.calls[i].result
  /\ jobs[i].pc \in OpenTasks \cup {"none", "place", "placing", "done"}

\* The one task of a sequential batch that is under way.
OneAtATime ==
  drive.pc = "sequential.join" =>
    \E n \in DOMAIN jobs :
      /\ jobs[n].pc # "none"
      /\ \A i \in DOMAIN jobs : i # n => jobs[i].pc = "none"
      /\ BatchOpen => n >= drive.arg.turns /\ \A i \in DOMAIN CurrentLeaf.calls : i < n => Status(i) = "completed"

TaskWork ==
  /\ drive.pc \notin JoinPcs => \A i \in DOMAIN jobs : jobs[i].pc = "none"
  /\ drive.pc \in BatchPcs /\ BatchOpen => DOMAIN jobs = DOMAIN CurrentLeaf.calls
  /\ \A i \in DOMAIN jobs : TaskFits(i)
  /\ \A i, j \in DOMAIN jobs : jobs[i].pc = "placing" /\ jobs[j].pc = "placing" => i = j
  /\ OneAtATime

WorkInv == StoreWork /\ PassWork /\ TaskWork

\* A step faults the harness only where hosts let it: a before_drive hook fails, or a
\* resumed pass reports a retry wait it was asked to wait for.
HostFaults ==
  \/ "fail" \in BeforeDrive
  \/ (\E mode \in DriveModes : mode.resumed) /\ (\E mode \in DriveModes : ~mode.wait)
Sound == fault' => fault \/ HostFaults

Works == WorkInv' /\ Sound

-----------------------------------------------------------------------------
(* Sequences of entries.                                                   *)

\* A function on 1..n is a sequence of its values.
LEMMA FunctionIsSeq ==
  ASSUME NEW n \in Nat, NEW f, f = [i \in 1..n |-> f[i]], NEW S, \A i \in 1..n : f[i] \in S
  PROVE  f \in Seq(S) /\ Len(f) = n /\ DOMAIN f = 1..n
<1>1. f \in [1..n -> S]
  OBVIOUS
<1>2. f \in Seq(S)
  BY <1>1
<1>3. QED
  BY <1>1, <1>2, LenProperties

\* The elements of a concatenation.
LEMMA ConcatElements ==
  ASSUME NEW S, NEW T, NEW s \in Seq(S), NEW t \in Seq(T)
  PROVE  /\ s \o t \in Seq(ToSet(s \o t))
         /\ ToSet(s \o t) = ToSet(s) \cup ToSet(t)
<1> DEFINE U == S \cup T
           r == s \o t
<1>1. s \in Seq(U) /\ t \in Seq(U)
  BY SeqMonotonic
<1>2. /\ r \in Seq(U) /\ Len(r) = Len(s) + Len(t)
      /\ \A i \in 1..(Len(s) + Len(t)) : r[i] = IF i <= Len(s) THEN s[i] ELSE t[i - Len(s)]
  BY <1>1, ConcatProperties
<1> HIDE DEF r
<1>3. /\ Len(s) \in Nat /\ DOMAIN s = 1..Len(s) /\ Len(t) \in Nat /\ DOMAIN t = 1..Len(t)
      /\ DOMAIN r = 1..Len(r) /\ Len(r) \in Nat /\ r \in [1..Len(r) -> U]
  BY <1>2, LenProperties
<1>4. ToSet(r) = {r[i] : i \in DOMAIN r} /\ ToSet(s) = {s[i] : i \in DOMAIN s} /\ ToSet(t) = {t[i] : i \in DOMAIN t}
  BY DEF ToSet
<1>5. r \in Seq(ToSet(r))
  BY <1>3, <1>4
<1>6. ToSet(r) \subseteq ToSet(s) \cup ToSet(t)
  <2> SUFFICES ASSUME NEW i \in DOMAIN r PROVE r[i] \in ToSet(s) \cup ToSet(t)
    BY <1>4
  <2>1. CASE i <= Len(s)
    BY <1>2, <1>3, <1>4, <2>1
  <2>2. CASE ~(i <= Len(s))
    <3>1. i - Len(s) \in 1..Len(t) /\ r[i] = t[i - Len(s)]
      BY <1>2, <1>3, <2>2
    <3>2. QED
      BY <1>3, <1>4, <3>1
  <2>3. QED
    BY <2>1, <2>2
<1>7. ToSet(s) \subseteq ToSet(r)
  BY <1>2, <1>3, <1>4
<1>8. ToSet(t) \subseteq ToSet(r)
  <2> SUFFICES ASSUME NEW i \in DOMAIN t PROVE t[i] \in ToSet(r)
    BY <1>4
  <2>1. Len(s) + i \in 1..(Len(s) + Len(t)) /\ ~(Len(s) + i <= Len(s)) /\ Len(s) + i - Len(s) = i
    BY <1>3
  <2>2. r[Len(s) + i] = t[i]
    BY <1>2, <2>1
  <2>3. QED
    BY <1>2, <1>3, <1>4, <2>1, <2>2
<1>9. QED
  BY <1>5, <1>6, <1>7, <1>8 DEF r

\* The log after entries were inserted: all are still there, the others are the new ones.
LEMMA GrowLog ==
  ASSUME LogWork, ids' \in Nat, ids <= ids', NEW n \in Nat, NEW items, DOMAIN items = 1..n,
         store'.log = store.log \o ChainEntries(store.tip, items),
         \A k \in DOMAIN items : items[k][1] \in HostIds \cup 1..ids'
  PROVE  /\ LogWork'
         /\ LogIds' = LogIds \cup {items[k][1] : k \in DOMAIN items}
         /\ ToSet(store.log) \subseteq ToSet(store'.log)
         /\ \A e \in ToSet(store'.log) :
              \/ e \in ToSet(store.log)
              \/ \E k \in DOMAIN items : e = ChainEntries(store.tip, items)[k] /\ e.id = items[k][1] /\ e.body = items[k][2]
         /\ \A k \in DOMAIN items : \E e \in ToSet(store'.log) : e.id = items[k][1] /\ e.body = items[k][2]
<1> DEFINE new == ChainEntries(store.tip, items)
<1>1. new = [k \in 1..n |-> new[k]] /\ \A k \in 1..n : new[k].id = items[k][1] /\ new[k].body = items[k][2]
  BY DEF ChainEntries
<1> HIDE DEF new
<1>2. new \in Seq({new[k] : k \in 1..n}) /\ DOMAIN new = 1..n
  BY <1>1, FunctionIsSeq
<1>3. ToSet(new) = {new[k] : k \in 1..n}
  BY <1>2 DEF ToSet
<1>4. store'.log \in Seq(ToSet(store'.log)) /\ ToSet(store'.log) = ToSet(store.log) \cup ToSet(new)
  BY <1>2, ConcatElements DEF LogWork, new
<1>5. LogIds' = LogIds \cup {items[k][1] : k \in DOMAIN items}
  <2>1. LogIds = {e.id : e \in ToSet(store.log)} /\ LogIds' = {e.id : e \in ToSet(store'.log)}
    BY DEF LogIds
  <2>2. {e.id : e \in ToSet(new)} = {items[k][1] : k \in DOMAIN items}
    <3>1. \A e \in ToSet(new) : e.id \in {items[k][1] : k \in DOMAIN items}
      BY <1>1, <1>3
    <3>2. \A k \in DOMAIN items : \E e \in ToSet(new) : e.id = items[k][1]
      BY <1>1, <1>3
    <3>3. QED
      BY <3>1, <3>2
  <2>3. QED
    BY <1>4, <2>1, <2>2
<1>6. LogWork'
  BY <1>4, <1>5 DEF LogWork, Minted
<1>7. ASSUME NEW e \in ToSet(store'.log)
      PROVE  \/ e \in ToSet(store.log)
             \/ \E k \in DOMAIN items : e = new[k] /\ e.id = items[k][1] /\ e.body = items[k][2]
  BY <1>1, <1>3, <1>4
<1>8. ASSUME NEW k \in DOMAIN items
      PROVE  \E e \in ToSet(store'.log) : e.id = items[k][1] /\ e.body = items[k][2]
  BY <1>1, <1>3, <1>4
<1>9. QED
  BY <1>4, <1>5, <1>6, <1>7, <1>8 DEF new

\* An entry that is the only one with its id is the one a planner reads.
LEMMA EntryIs ==
  ASSUME NEW id, NEW e, OnlyEntry(id, e)
  PROVE  Entry(store, id) = e /\ HasEntry(store, id)
BY DEF OnlyEntry, Entry, HasEntry

-----------------------------------------------------------------------------
(* Stores that commands build, and what they leave when they settle.       *)

\* Inserting entries changes the log and the tip.
LEMMA InsertFacts ==
  ASSUME NEW s, IsStore(s), NEW items
  PROVE  LET t == InsertEntries(s, items)
         IN  /\ t.log = s.log \o ChainEntries(s.tip, items) /\ t.tip = TipAfter(s.tip, items) /\ t.vals = s.vals
             /\ SameRecords(s, t)
<1> DEFINE t == InsertEntries(s, items)
<1>1. t = [s EXCEPT !.log = s.log \o ChainEntries(s.tip, items), !.tip = TipAfter(s.tip, items)]
  BY DEF InsertEntries, IsStore
<1> HIDE DEF t
<1>2. t.log = s.log \o ChainEntries(s.tip, items) /\ t.tip = TipAfter(s.tip, items) /\ t.vals = s.vals
  BY <1>1 DEF IsStore
<1>3. QED
  BY <1>2, InsertStore DEF t

\* The projection of the open operation.
LEMMA MemFacts ==
  ASSUME StoreInv, mem # Null, Current # Null
  PROVE  /\ Busy /\ mem.op.id = Current /\ mem.op.st = State /\ mem.op.meta = store.opMeta[Current]
         /\ Leaf = CurrentLeaf /\ mem.tip = store.tip /\ mem.inbox = store.lane.inbox /\ mem.cfg = store.cfg
         /\ Current \in OpIds /\ IsState(State) /\ (Cancelled <=> State.ctl = "cancel_requested")
<1>1. mem = [tip |-> store.tip, cfg |-> store.cfg, inbox |-> store.lane.inbox, last |-> store.lane.last,
             op |-> [id |-> Current, meta |-> store.opMeta[Current], st |-> State]]
  BY DEF StoreInv, Coherent, restoreLaneState, Current, State
<1>2. Current \in OpIds /\ IsState(State)
  BY DEF StoreInv, IsStore, CurrentIsOpen, Current, State
<1>3. QED
  BY <1>1, <1>2 DEF Busy, Leaf, CurrentLeaf, State, Cancelled

\* What a commit leaves.
LEMMA CommitFacts ==
  ASSUME StoreInv, mem # Null, Current # Null, NEW s, SameRecords(store, s), NEW m, NEW st,
         NEW patches \in BOOLEAN, SettleCommit(s, m, st, patches)
  PROVE  /\ store'.log = s.log /\ store'.tip = s.tip /\ store'.vals = s.vals /\ store'.opMeta = store.opMeta
         /\ Current' = Current /\ State' = st /\ CurrentLeaf' = st.leaf
         /\ store'.lane.inbox = IF patches THEN m.inbox ELSE store.lane.inbox
<1>1. mem.op.id = Current /\ Current \in OpIds
  BY MemFacts
<1>2. store' = [s EXCEPT !.opState = [s.opState EXCEPT ![Current] = st],
                         !.lane = IF patches THEN durableLaneState(Current, m.inbox, mem.last) ELSE s.lane]
  BY <1>1 DEF SettleCommit, SameRecords, IsStore
<1>3. /\ store'.log = s.log /\ store'.tip = s.tip /\ store'.vals = s.vals /\ store'.opMeta = store.opMeta
      /\ store'.opState = [store.opState EXCEPT ![Current] = st]
      /\ store'.lane = IF patches THEN durableLaneState(Current, m.inbox, mem.last) ELSE store.lane
  BY <1>2 DEF SameRecords, IsStore
<1>4. store'.lane.cur = Current /\ store'.lane.inbox = IF patches THEN m.inbox ELSE store.lane.inbox
  BY <1>3 DEF durableLaneState, Current
<1>5. store'.opState[Current] = st
  BY <1>1, <1>3 DEF SameRecords, IsStore
<1>6. QED
  BY <1>3, <1>4, <1>5 DEF Current, State, CurrentLeaf

\* What the end of an operation leaves.
LEMMA FinishFacts ==
  ASSUME StoreInv, mem # Null, Current # Null, NEW s, IsStore(s), NEW m, NEW record, SettleFinish(s, m, record)
  PROVE  /\ store'.log = s.log /\ store'.tip = s.tip /\ store'.vals = s.vals
         /\ Current' = Null /\ store'.lane.inbox = m.inbox
<1>1. store' = [s EXCEPT !.results = [s.results EXCEPT ![mem.op.id] = record],
                         !.lane = durableLaneState(Null, m.inbox, mem.op.id)]
  BY DEF SettleFinish, IsStore
<1>2. QED
  BY <1>1 DEF IsStore, durableLaneState, Current

-----------------------------------------------------------------------------
(* Steps that keep parts of the invariant.                                 *)

\* Nothing is written.
Unwritten == store' = store /\ ids' = ids /\ executed' = executed /\ reexecuted' = reexecuted

\* What the store must hold, it still holds when nothing is written.
LEMMA KeepStoreWork ==
  ASSUME StoreWork, Unwritten
  PROVE  StoreWork'
<1>1. LogWork' /\ InboxWork' /\ RunsWork'
  BY DEF Unwritten, StoreWork, LogWork, InboxWork, RunsWork, LogIds, Minted, UnsafeToolsRunOnce
<1>2. LeafWork'
  BY ZenonT(60) DEF Unwritten, StoreWork, LeafWork, LeafIs, Current, State, LogIds, Minted, DeferredWork, OnlyEntry,
         BatchWork, SourceWork, CallsWork, CallValues
<1>3. QED
  BY <1>1, <1>2 DEF StoreWork

\* Tasks rest while the pass is not at a join, whatever the store becomes.
LEMMA RestingTasks ==
  ASSUME TaskWork, jobs' = jobs, drive.pc \notin JoinPcs, drive'.pc \notin BatchPcs
  PROVE  TaskWork'
<1>1. \A i \in DOMAIN jobs : jobs[i].pc = "none"
  BY DEF TaskWork
<1>2. drive'.pc \notin JoinPcs /\ drive'.pc # "sequential.join"
  BY DEF JoinPcs, BatchPcs
<1>3. \A i \in DOMAIN jobs' : TaskFits(i)'
  BY <1>1 DEF TaskFits, OpenTasks, PlannedTasks, StartedTasks
<1>4. QED
  BY <1>1, <1>2, <1>3 DEF TaskWork, OneAtATime

\* The same pass: it neither changes hands nor is its gate signalled.
SamePass ==
  /\ drive'.id = drive.id /\ drive'.gate = drive.gate
  /\ drive'.waitForRetry = drive.waitForRetry /\ drive'.resumed = drive.resumed

\* Awaits of a pass at work.
Inner(pc) == pc \notin {"none", "done"}

\* A pass that moves on without a write.
LEMMA MovedWork ==
  ASSUME PassWork, Unwritten, SamePass, Inner(drive.pc),
         AtLeaf(drive'.pc), SeenFor(drive'.pc, drive'.seen), ArgFor(drive'.pc, drive'.arg),
         OutcomeFor(drive'.pc, drive'.arg), TurnFor(drive'.pc, drive'.arg)
  PROVE  PassWork'
<1>1. CurrentLeaf' = CurrentLeaf /\ State' = State /\ Phase' = Phase /\ BatchOpen' = BatchOpen
  BY DEF Unwritten, SamePass, CurrentLeaf, State, Current, Phase, PhaseOf, BatchOpen
<1>2. AtLeaf(drive.pc)'
  BY <1>1 DEF AtLeaf
<1>3. SeenFor(drive.pc, drive.seen)'
  BY <1>1 DEF SeenFor
<1>4. ArgFor(drive.pc, drive.arg)' /\ OutcomeFor(drive.pc, drive.arg)'
  BY <1>1 DEF ArgFor, OutcomeFor, SamePass
<1>5. SignalWork' /\ ModeWork'
  BY <1>1 DEF SignalWork, ModeWork, SamePass, Inner, PassWork
<1>6. TurnFor(drive.pc, drive.arg)'
  BY <1>1 DEF TurnFor
<1>7. QED
  BY <1>2, <1>3, <1>4, <1>5, <1>6 DEF PassWork

\* Whether an await and what the pass carries there agree with the store.
Fits(pc, arg) == AtLeaf(pc) /\ SeenFor(pc, drive.seen) /\ ArgFor(pc, arg) /\ pc \notin BatchPcs \cup {"none", "done"}

\* A pass that goes on to an await that fits, without a write.
LEMMA GotoWorks ==
  ASSUME IndInv, WorkInv, Unwritten, jobs' = jobs, fault' = fault, NEW from, At(from),
         from \notin JoinPcs \cup {"none", "done"}, IsDrive(drive),
         NEW pc, NEW arg, Goto(pc, arg), Fits(pc, arg)
  PROVE  Works
<1>1. SamePass /\ drive'.pc = pc /\ drive'.arg = arg /\ drive'.seen = drive.seen /\ drive.pc = from
  BY DEF Goto, IsDrive, SamePass, At
<1>2. OutcomeFor(pc, arg) /\ TurnFor(pc, arg)
  BY DEF Fits, OutcomeFor, TurnFor
<1>3. PassWork'
  BY <1>1, <1>2, MovedWork DEF WorkInv, Fits, Inner
<1>4. TaskWork'
  BY <1>1, RestingTasks DEF WorkInv, Fits
<1>5. StoreWork'
  BY KeepStoreWork DEF WorkInv
<1>6. QED
  BY <1>3, <1>4, <1>5 DEF Works, WorkInv, Sound

\* A step that faults the harness keeps everything else.
LEMMA FaultKeeps ==
  ASSUME WorkInv, Faulted, jobs' = jobs, executed' = executed, reexecuted' = reexecuted
  PROVE  WorkInv'
<1>1. Unwritten /\ drive' = drive /\ jobs' = jobs
  BY DEF Faulted, Unwritten
<1>2. StoreWork'
  BY <1>1, KeepStoreWork DEF WorkInv
<1>3. CurrentLeaf' = CurrentLeaf /\ State' = State /\ Phase' = Phase /\ BatchOpen' = BatchOpen
  BY <1>1 DEF Unwritten, CurrentLeaf, State, Current, Phase, PhaseOf, BatchOpen
<1>4. PassWork'
  BY <1>1, <1>3 DEF WorkInv, PassWork, AtLeaf, SeenFor, ArgFor, OutcomeFor, SignalWork, ModeWork, TurnFor
<1>5. TaskWork'
  BY <1>1, <1>3 DEF Unwritten, WorkInv, TaskWork, TaskFits, OneAtATime, Status, Tool, Entry
<1>6. QED
  BY <1>2, <1>4, <1>5 DEF WorkInv

\* The pass returns to its loop: its operation is cancelled, or its state has changed.
LEMMA LoopFits ==
  ASSUME NEW arg, Phase # "running" \/ drive.seen # State
  PROVE  Fits("loop", arg)
BY DEF Fits, AtLeaf, SeenFor, ArgFor, StartPcs, CheckPcs, ReadyPcs, RetryPcs, DeferPcs, RequestPcs, SeenPcs, ReplyPcs,
       CancelPcs, BatchPcs

\* A pass that waits for a cancellation carries nothing.
LEMMA WaitFits ==
  ASSUME NEW arg
  PROVE  Fits("wait", arg)
BY DEF Fits, AtLeaf, SeenFor, ArgFor, StartPcs, CheckPcs, ReadyPcs, RetryPcs, DeferPcs, RequestPcs, SeenPcs, ReplyPcs,
       CancelPcs, BatchPcs

\* What holds of a pass at one of its awaits.
LEMMA AtWork ==
  ASSUME IndInv, WorkInv, NEW from, from \notin {"none", "begin", "done"}, At(from)
  PROVE  /\ mem # Null /\ drive.id \in OpIds /\ drive.id # Null /\ IsDrive(drive) /\ drive.pc = from
         /\ Current = drive.id /\ Current # Null /\ StoreInv
         /\ Phase = (IF Cancelled THEN "cancelling" ELSE "running")
         /\ AtLeaf(from) /\ SeenFor(from, drive.seen) /\ ArgFor(from, drive.arg)
         /\ store.tip # Null /\ LeafIs(State) /\ store.opMeta[Current].kind = "run"
         /\ Busy /\ mem.op.id = Current /\ mem.op.st = State /\ mem.op.meta = store.opMeta[Current]
         /\ Leaf = CurrentLeaf /\ CurrentLeaf = State.leaf /\ mem.tip = store.tip /\ mem.inbox = store.lane.inbox
<1>1. drive.pc = from
  BY DEF At
<1>2. /\ mem # Null /\ drive.id # Null /\ drive.id \in OpIds /\ IsDrive(drive)
      /\ store.lane.cur = drive.id /\ store.lane.cur # Null
  BY <1>1, PassFacts DEF At
<1>3. Phase = IF Cancelled THEN "cancelling" ELSE "running"
  BY AtAwait
<1>4. StoreInv /\ Current = drive.id /\ Current # Null
  BY <1>2 DEF IndInv, Current
<1>5. AtLeaf(from) /\ SeenFor(from, drive.seen) /\ ArgFor(from, drive.arg)
  BY <1>1 DEF WorkInv, PassWork
<1>6. store.tip # Null /\ LeafIs(State) /\ store.opMeta[Current].kind = "run"
  BY <1>4 DEF WorkInv, StoreWork, LeafWork
<1>7. CurrentLeaf = State.leaf
  BY DEF CurrentLeaf, State, Current
<1>8. QED
  BY <1>1, <1>2, <1>3, <1>4, <1>5, <1>6, <1>7, MemFacts

-----------------------------------------------------------------------------
(* Steps of the pass that write nothing.                                   *)

TasksKept == jobs' = jobs /\ executed' = executed /\ reexecuted' = reexecuted
NothingRuns == executed' = executed /\ reexecuted' = reexecuted

\* A pass goes on from one await to the next.
LEMMA GoesOn ==
  ASSUME IndInv, WorkInv, TasksKept, NEW from, from \notin JoinPcs \cup {"none", "begin", "done"}, At(from),
         store' = store, ids' = ids, fault' = fault, NEW pc, NEW arg, Goto(pc, arg), Fits(pc, arg)
  PROVE  Works
<1>1. Unwritten /\ IsDrive(drive)
  BY AtWork DEF TasksKept, Unwritten
<1>2. QED
  BY <1>1, GotoWorks DEF TasksKept

\* continueOperation's answer for a cancelled operation.
LEMMA CancelledWorks ==
  ASSUME IndInv, WorkInv, TasksKept, NEW from, from \notin JoinPcs \cup {"none", "begin", "done"}, CancelledTurn(from)
  PROVE  Works
<1>1. At(from) /\ Cancelled /\ store' = store /\ ids' = ids /\ fault' = fault /\ Goto("loop", Null)
  BY DEF CancelledTurn, MainTurn
<1>2. Phase # "running"
  BY <1>1, AtWork
<1>3. QED
  BY <1>1, <1>2, LoopFits, GoesOn

\* A read whose data is there, and the hook after it.
LEMMA ReadWorks ==
  ASSUME IndInv, WorkInv, TasksKept, NEW from, from \notin JoinPcs \cup {"none", "begin", "done"},
         NEW broken, ~broken, NEW hook, Fits(hook, drive.arg), ReadThenHook(from, broken, hook)
  PROVE  Works
<1>1. At(from) /\ store' = store /\ ids' = ids /\ fault' = fault
      /\ ((Cancelled /\ Goto("loop", Null)) \/ Goto("wait", Null) \/ Goto(hook, drive.arg))
  BY DEF ReadThenHook, MainTurn
<1>2. Cancelled => Phase # "running"
  BY <1>1, AtWork
<1>3. QED
  BY <1>1, <1>2, LoopFits, WaitFits, GoesOn

\* A hook that returned.
LEMMA HookWorks ==
  ASSUME IndInv, WorkInv, TasksKept, NEW from, from \notin JoinPcs \cup {"none", "begin", "done"},
         NEW next, NEW results, \A r \in results : Fits(next, r), HookReturns(from, next, results)
  PROVE  Works
<1>1. At(from) /\ store' = store /\ ids' = ids /\ fault' = fault
  BY DEF HookReturns
<1>2. PICK r \in results : Goto(next, r)
  BY DEF HookReturns, Queue
<1>3. QED
  BY <1>1, <1>2, GoesOn

\* The states a running operation can be in are none of the states a pass starts with.
LEMMA StateIsSome ==
  ASSUME NEW st, IsState(st)
  PROVE  st # NoState
<1>1. "leaf" \in DOMAIN st /\ "leaf" \notin DOMAIN NoState
  BY DEF IsState, NoState
<1>2. QED
  BY <1>1

\* The claim of a pass finds its operation (drive.ts).
LEMMA BeginWorks ==
  ASSUME IndInv, GateInv, WorkInv, TasksKept, beginDrive
  PROVE  Works
<1>1. At("begin") /\ drive.pc = "begin" /\ drive.id # Null /\ mem # Null
  BY DEF beginDrive, At, Driving, Open
<1>2. IsDrive(drive) /\ drive.id \in OpIds /\ StoreInv
  BY <1>1 DEF IndInv, DriveShape, PassOwnsOperation
<1>3. store.lane.cur = drive.id
  BY <1>1, <1>2 DEF GateInv, PassHasOperation, Phase, PhaseOf, StoreInv, IsStore, NoResult
<1>4. Current = drive.id /\ Current # Null /\ Busy /\ mem.op.id = drive.id
  BY <1>1, <1>2, <1>3, MemFacts DEF Current
<1>5. Phase = IF Cancelled THEN "cancelling" ELSE "running"
  BY <1>1, <1>2, <1>3, ControlIsPhase
<1>6. /\ Unwritten /\ fault' = fault
      /\ \/ Cancelled /\ Goto("loop", Null)
         \/ Goto("wait", Null)
         \/ Goto("before_drive", Null)
  BY <1>4 DEF beginDrive, Unwritten, TasksKept
<1>7. SeenFor("begin", drive.seen)
  BY <1>1 DEF WorkInv, PassWork
<1>8. Fits("before_drive", Null)
  BY <1>7 DEF Fits, AtLeaf, SeenFor, ArgFor, StartPcs, CheckPcs, ReadyPcs, RetryPcs, DeferPcs, RequestPcs, SeenPcs, ReplyPcs,
       CancelPcs, BatchPcs
<1>9. "begin" \notin JoinPcs \cup {"none", "done"} /\ jobs' = jobs
  BY DEF JoinPcs, TasksKept
<1>10. Cancelled => Fits("loop", Null)
  BY <1>5, LoopFits
<1>11. QED
  BY <1>1, <1>2, <1>6, <1>8, <1>9, <1>10, WaitFits, GotoWorks

\* before_drive hooks that do not fail let the pass begin.
LEMMA BeforeDriveWorks ==
  ASSUME IndInv, WorkInv, TasksKept, beforeDriveReturns
  PROVE  Works
<1>1. At("before_drive") /\ \E r \in BeforeDrive :
        IF r = "fail" THEN Faulted ELSE Goto("loop", Null) /\ store' = store /\ ids' = ids /\ fault' = fault
  BY DEF beforeDriveReturns
<1>2. "before_drive" \notin JoinPcs \cup {"none", "begin", "done"}
  BY DEF JoinPcs
<1>3. CASE "fail" \in BeforeDrive /\ Faulted
  BY <1>3, FaultKeeps DEF Works, Sound, HostFaults, TasksKept
<1>4. CASE Goto("loop", Null) /\ store' = store /\ ids' = ids /\ fault' = fault
  <2>1. SeenFor("before_drive", drive.seen) /\ IsState(State)
    BY <1>1, <1>2, AtWork, MemFacts
  <2>2. Phase # "running" \/ drive.seen # State
    BY <2>1, StateIsSome DEF SeenFor
  <2>3. QED
    BY <1>1, <1>2, <1>4, <2>2, LoopFits, GoesOn
<1>5. QED
  BY <1>1, <1>3, <1>4

\* The pass is sent to the procedure of the leaf it finds (drive.ts, reconcile.ts).
LEMMA DispatchWorks ==
  ASSUME IndInv, WorkInv, TasksKept, Dispatch
  PROVE  Works
<1>1. At("loop") /\ "loop" \notin JoinPcs \cup {"none", "begin", "done"}
  BY DEF Dispatch, JoinPcs
<1>2. /\ IsDrive(drive) /\ drive.pc = "loop" /\ SeenFor("loop", drive.seen)
      /\ Phase = (IF Cancelled THEN "cancelling" ELSE "running")
      /\ Busy /\ mem.op.id = drive.id /\ mem.op.st = State /\ Leaf = CurrentLeaf /\ CurrentLeaf = State.leaf
      /\ LeafIs(State)
  BY <1>1, AtWork
<1>3. ~DriveBroken
  BY <1>2 DEF DriveBroken, SeenFor
<1>4. Unwritten /\ fault' = fault /\ jobs' = jobs
  BY <1>3 DEF Dispatch, Unwritten, TasksKept
<1>5. /\ drive'.id = drive.id /\ drive'.waitForRetry = drive.waitForRetry /\ drive'.resumed = drive.resumed
      /\ drive'.arg = drive.arg /\ drive'.seen = State
      /\ \/ /\ Cancelled /\ drive'.pc = Reconciliation(Leaf.at) /\ drive'.gate = "signalled"
         \/ /\ ~Cancelled /\ drive'.pc = Procedure(Leaf.at) /\ drive'.gate = drive.gate
            /\ Leaf.at # "assistant.retry_wait"
  BY <1>2, <1>3 DEF Dispatch, IsDrive
<1>6. CurrentLeaf' = CurrentLeaf /\ State' = State /\ Phase' = Phase
  BY <1>4, <1>5 DEF Unwritten, CurrentLeaf, State, Current, Phase, PhaseOf
<1>7. State.leaf.at \in Leaves
  BY <1>2 DEF LeafIs
<1>8. drive'.pc \notin BatchPcs \cup {"none", "done", "begin", "before_drive", "loop", "start.commit"} \cup ReplyPcs
  BY <1>5 DEF Reconciliation, Procedure, BatchPcs, ReplyPcs
<1>9. AtLeaf(drive'.pc)
  BY <1>2, <1>5, <1>7 DEF AtLeaf, Reconciliation, Procedure, Leaves, Pending, Deferred, StartPcs, CheckPcs, ReadyPcs, RetryPcs,
     DeferPcs, RequestPcs
<1>10. SeenFor(drive'.pc, State)
  <2>1. drive'.pc \in RequestPcs => CurrentLeaf.at \in Pending /\ CurrentLeaf.at # "deferred.suspended"
    BY <1>9 DEF AtLeaf, Pending
  <2>2. QED
    BY <1>2, <1>8, <2>1 DEF SeenFor
<1>11. ArgFor(drive'.pc, drive.arg)
  BY <1>2, <1>5, <1>8 DEF ArgFor, CancelPcs, Procedure
<1>12. PassWork'
  <2>1. AtLeaf(drive.pc)'
    BY <1>6, <1>9 DEF AtLeaf
  <2>2. SeenFor(drive.pc, drive.seen)'
    BY <1>5, <1>6, <1>10 DEF SeenFor
  <2>3. ArgFor(drive.pc, drive.arg)'
    BY <1>5, <1>6, <1>11 DEF ArgFor
  <2>4. OutcomeFor(drive.pc, drive.arg)' /\ TurnFor(drive.pc, drive.arg)'
    BY <1>8 DEF OutcomeFor, TurnFor
  <2>5. SignalWork' /\ ModeWork'
    BY <1>2, <1>5, <1>6 DEF SignalWork, ModeWork, WorkInv, PassWork
  <2>6. QED
    BY <2>1, <2>2, <2>3, <2>4, <2>5 DEF PassWork
<1>13. StoreWork' /\ TaskWork'
  BY <1>1, <1>2, <1>4, <1>8, KeepStoreWork, RestingTasks DEF WorkInv
<1>14. QED
  BY <1>4, <1>12, <1>13 DEF Works, WorkInv, Sound

\* The wait before a retry (retry.ts runRetryWait).
LEMMA RetryWaitWorks ==
  ASSUME IndInv, WorkInv, TasksKept, runRetryWait
  PROVE  Works
<1>1. At("loop") /\ "loop" \notin JoinPcs \cup {"none", "begin", "done"} /\ ~Cancelled
  BY DEF runRetryWait, JoinPcs
<1>2. /\ IsDrive(drive) /\ drive.pc = "loop"
      /\ mem.op.st = State /\ Leaf = CurrentLeaf /\ CurrentLeaf = State.leaf
  BY <1>1, AtWork
<1>3. Unwritten /\ fault' = fault /\ jobs' = jobs /\ CurrentLeaf.at = "assistant.retry_wait"
  BY <1>2 DEF runRetryWait, Unwritten, TasksKept
<1>4. /\ SamePass
      /\ \/ drive'.pc \in {"retry.commit", "timer", "wait"} /\ drive'.seen = State
         \/ drive'.pc = "done" /\ ~drive.waitForRetry
  BY <1>2 DEF runRetryWait, IsDrive, SamePass, Goto
<1>5. AtLeaf(drive'.pc) /\ SeenFor(drive'.pc, drive'.seen) /\ ArgFor(drive'.pc, drive'.arg)
  BY <1>2, <1>3, <1>4 DEF AtLeaf, SeenFor, ArgFor, StartPcs, CheckPcs, ReadyPcs, RetryPcs, DeferPcs, RequestPcs, SeenPcs,
     ReplyPcs, CancelPcs, BatchPcs
<1>6. OutcomeFor(drive'.pc, drive'.arg) /\ TurnFor(drive'.pc, drive'.arg) /\ drive'.pc \notin BatchPcs
  BY <1>4 DEF OutcomeFor, TurnFor, BatchPcs
<1>7. PassWork'
  BY <1>1, <1>2, <1>3, <1>4, <1>5, <1>6, MovedWork DEF WorkInv, Inner
<1>8. StoreWork' /\ TaskWork'
  BY <1>1, <1>2, <1>3, <1>6, KeepStoreWork, RestingTasks DEF WorkInv
<1>9. QED
  BY <1>3, <1>7, <1>8 DEF Works, WorkInv, Sound


\* Where a pass goes while its leaf stays what it is.
LEMMA LeafStays ==
  ASSUME NEW from, NEW pc, AtLeaf(from), SeenFor(from, drive.seen),
         \/ from \in StartPcs /\ pc \in StartPcs
         \/ from \in CheckPcs /\ pc \in CheckPcs
         \/ from \in ReadyPcs /\ pc \in ReadyPcs
         \/ from \in RetryPcs /\ pc \in RetryPcs
         \/ from \in DeferPcs /\ pc \in DeferPcs
         \/ from \in RequestPcs /\ pc \in RequestPcs,
         NEW arg, ArgFor(pc, arg)
  PROVE  Fits(pc, arg)
<1>1. pc \notin BatchPcs \cup {"none", "done", "begin", "before_drive", "loop", "tools.source"}
  BY DEF StartPcs, CheckPcs, ReadyPcs, RetryPcs, DeferPcs, RequestPcs, BatchPcs
<1>2. AtLeaf(pc)
  BY DEF AtLeaf, StartPcs, CheckPcs, ReadyPcs, RetryPcs, DeferPcs, RequestPcs
<1>3. SeenFor(pc, drive.seen)
  <2>1. CASE from \in RequestPcs /\ pc \in RequestPcs
    <3>1. pc \notin SeenPcs /\ from \notin {"none", "done"}
      BY <2>1 DEF StartPcs, CheckPcs, ReadyPcs, RetryPcs, DeferPcs, RequestPcs, SeenPcs
    <3>2. QED
      BY <1>1, <2>1, <3>1 DEF SeenFor
  <2>2. CASE ~(from \in RequestPcs /\ pc \in RequestPcs)
    <3>1. pc \notin RequestPcs /\ from \in SeenPcs /\ from \notin {"none", "done"}
      BY <2>2 DEF StartPcs, CheckPcs, ReadyPcs, RetryPcs, DeferPcs, RequestPcs, SeenPcs
    <3>2. QED
      BY <1>1, <3>1 DEF SeenFor
  <2>3. QED
    BY <2>1, <2>2
<1>4. QED
  BY <1>1, <1>2, <1>3 DEF Fits

\* Awaits that need no argument of a kind.
LEMMA PlainArg ==
  ASSUME NEW pc, pc \notin {"start.commit"} \cup ReplyPcs \cup CancelPcs, NEW arg
  PROVE  ArgFor(pc, arg)
BY DEF ArgFor

\* A released pass finds its operation cancelled.
LEMMA AwaitCancellationWorks ==
  ASSUME IndInv, GateInv, WorkInv, TasksKept, awaitCancellation
  PROVE  Works
<1>1. At("wait") /\ Goto("loop", Null) /\ store' = store /\ ids' = ids /\ fault' = fault /\ drive.released
  BY DEF awaitCancellation
<1>2. "wait" \notin JoinPcs \cup {"none", "begin", "done"} /\ drive.pc = "wait"
  BY <1>1 DEF JoinPcs, At
<1>3. Phase # "running"
  BY <1>1, <1>2 DEF GateInv, ReleasedIsCancelling
<1>4. QED
  BY <1>1, <1>2, <1>3, LoopFits, GoesOn

\* The timer of a retry fires or is cancelled.
LEMMA RetryTimerWorks ==
  ASSUME IndInv, WorkInv, TasksKept, retryTimer
  PROVE  Works
<1>1. At("timer") /\ (Goto("retry.commit", Null) \/ Goto("wait", Null)) /\ store' = store /\ ids' = ids /\ fault' = fault
  BY DEF retryTimer, Queue
<1>2. "timer" \notin JoinPcs \cup {"none", "begin", "done"}
  BY DEF JoinPcs
<1>3. Fits("retry.commit", Null)
  <2>1. AtLeaf("timer") /\ SeenFor("timer", drive.seen)
    BY <1>1, <1>2, AtWork
  <2>2. "timer" \in RetryPcs /\ "retry.commit" \in RetryPcs /\ "retry.commit" \notin {"start.commit"} \cup ReplyPcs \cup CancelPcs
    BY DEF RetryPcs, ReplyPcs, CancelPcs
  <2>3. QED
    BY <2>1, <2>2, LeafStays, PlainArg
<1>4. QED
  BY <1>1, <1>2, <1>3, WaitFits, GoesOn

\* The prompt of a run is on record when it starts (checkpoint.ts startRun).
LEMMA StartReadWorks ==
  ASSUME IndInv, WorkInv, TasksKept, startRead
  PROVE  Works
<1>1. At("start.read") /\ "start.read" \notin JoinPcs \cup {"none", "begin", "done"}
  BY DEF startRead, ReadThenHook, MainTurn, JoinPcs
<1>2. /\ AtLeaf("start.read") /\ SeenFor("start.read", drive.seen) /\ LeafIs(State) /\ CurrentLeaf = State.leaf
      /\ mem.op.meta = store.opMeta[Current]
  BY <1>1, AtWork
<1>3. ToSet(mem.op.meta.prompt) \subseteq LogIds
  BY <1>2 DEF AtLeaf, StartPcs, LeafIs
<1>4. ~\E id \in ToSet(mem.op.meta.prompt) : ~HasEntry(store, id)
  BY <1>3 DEF LogIds, HasEntry
<1>5. Fits("start.hook", drive.arg)
  <2>1. "start.read" \in StartPcs /\ "start.hook" \in StartPcs /\ "start.hook" \notin {"start.commit"} \cup ReplyPcs \cup CancelPcs
    BY DEF StartPcs, ReplyPcs, CancelPcs
  <2>2. QED
    BY <1>2, <2>1, LeafStays, PlainArg
<1>6. QED
  BY <1>1, <1>4, <1>5, ReadWorks DEF startRead

\* before_run returns.
LEMMA BeforeRunWorks ==
  ASSUME IndInv, WorkInv, TasksKept, beforeRunReturns
  PROVE  Works
<1>1. At("start.hook") /\ "start.hook" \notin JoinPcs \cup {"none", "begin", "done"}
  BY DEF beforeRunReturns, HookReturns, JoinPcs
<1>2. AtLeaf("start.hook") /\ SeenFor("start.hook", drive.seen)
  BY <1>1, AtWork
<1>3. ASSUME NEW r \in {0, 1} PROVE Fits("start.commit", r)
  <2>1. "start.hook" \in StartPcs /\ "start.commit" \in StartPcs /\ ArgFor("start.commit", r)
    BY DEF StartPcs, ArgFor, ReplyPcs, CancelPcs
  <2>2. QED
    BY <1>2, <2>1, LeafStays
<1>4. PICK r \in {0, 1} : Goto("start.commit", r)
  BY DEF beforeRunReturns, HookReturns, Queue
<1>5. store' = store /\ ids' = ids /\ fault' = fault
  BY DEF beforeRunReturns, HookReturns
<1>6. QED
  BY <1>1, <1>3, <1>4, <1>5, GoesOn

\* The read before a run ends, and before a request.
LEMMA TipReadWorks ==
  ASSUME IndInv, WorkInv, TasksKept, finishRead \/ requestRead
  PROVE  Works
<1>1. CASE finishRead
  <2>1. At("finish.read") /\ "finish.read" \notin JoinPcs \cup {"none", "begin", "done"}
    BY <1>1 DEF finishRead, ReadThenHook, MainTurn, JoinPcs
  <2>2. /\ AtLeaf("finish.read") /\ SeenFor("finish.read", drive.seen) /\ ~(mem.tip = Null)
    BY <2>1, AtWork
  <2>3. "finish.read" \in CheckPcs /\ "finish.hook" \in CheckPcs /\ "finish.hook" \notin {"start.commit"} \cup ReplyPcs \cup CancelPcs
    BY DEF CheckPcs, ReplyPcs, CancelPcs
  <2>4. Fits("finish.hook", drive.arg)
    BY <2>2, <2>3, LeafStays, PlainArg
  <2>5. QED
    BY <1>1, <2>1, <2>2, <2>4, ReadWorks DEF finishRead
<1>2. CASE requestRead
  <2>1. At("request.read") /\ "request.read" \notin JoinPcs \cup {"none", "begin", "done"}
    BY <1>2 DEF requestRead, ReadThenHook, MainTurn, JoinPcs
  <2>2. /\ AtLeaf("request.read") /\ SeenFor("request.read", drive.seen) /\ ~(mem.tip = Null)
    BY <2>1, AtWork
  <2>3. "request.read" \in ReadyPcs /\ "request.hook" \in ReadyPcs /\ "request.hook" \notin {"start.commit"} \cup ReplyPcs \cup CancelPcs
    BY DEF ReadyPcs, ReplyPcs, CancelPcs
  <2>4. Fits("request.hook", drive.arg)
    BY <2>2, <2>3, LeafStays, PlainArg
  <2>5. QED
    BY <1>2, <2>1, <2>2, <2>4, ReadWorks DEF requestRead
<1>3. QED
  BY <1>1, <1>2

\* before_run_end, before_request and before_poll return.
LEMMA PlainHookWorks ==
  ASSUME IndInv, WorkInv, TasksKept, beforeRunEndReturns \/ beforeRequestReturns \/ beforePollReturns
  PROVE  Works
<1>1. CASE beforeRunEndReturns
  <2>1. At("finish.hook") /\ "finish.hook" \notin JoinPcs \cup {"none", "begin", "done"}
    BY <1>1 DEF beforeRunEndReturns, HookReturns, JoinPcs
  <2>2. AtLeaf("finish.hook") /\ SeenFor("finish.hook", drive.seen)
    BY <2>1, AtWork
  <2>3. "finish.hook" \in CheckPcs /\ "finish.commit" \in CheckPcs /\ "finish.commit" \notin {"start.commit"} \cup ReplyPcs \cup CancelPcs
    BY DEF CheckPcs, ReplyPcs, CancelPcs
  <2>4. \A r : Fits("finish.commit", r)
    BY <2>2, <2>3, LeafStays, PlainArg
  <2>5. QED
    BY <1>1, <2>1, <2>4, HookWorks DEF beforeRunEndReturns
<1>2. CASE beforeRequestReturns
  <2>1. At("request.hook") /\ "request.hook" \notin JoinPcs \cup {"none", "begin", "done"}
    BY <1>2 DEF beforeRequestReturns, HookReturns, JoinPcs
  <2>2. AtLeaf("request.hook") /\ SeenFor("request.hook", drive.seen)
    BY <2>1, AtWork
  <2>3. "request.hook" \in ReadyPcs /\ "request.intent" \in ReadyPcs /\ "request.intent" \notin {"start.commit"} \cup ReplyPcs \cup CancelPcs
    BY DEF ReadyPcs, ReplyPcs, CancelPcs
  <2>4. \A r : Fits("request.intent", r)
    BY <2>2, <2>3, LeafStays, PlainArg
  <2>5. QED
    BY <1>2, <2>1, <2>4, HookWorks DEF beforeRequestReturns
<1>3. CASE beforePollReturns
  <2>1. At("poll.hook") /\ "poll.hook" \notin JoinPcs \cup {"none", "begin", "done"}
    BY <1>3 DEF beforePollReturns, HookReturns, JoinPcs
  <2>2. AtLeaf("poll.hook") /\ SeenFor("poll.hook", drive.seen)
    BY <2>1, AtWork
  <2>3. "poll.hook" \in DeferPcs /\ "poll.intent" \in DeferPcs /\ "poll.intent" \notin {"start.commit"} \cup ReplyPcs \cup CancelPcs
    BY DEF DeferPcs, ReplyPcs, CancelPcs
  <2>4. \A r : Fits("poll.intent", r)
    BY <2>2, <2>3, LeafStays, PlainArg
  <2>5. QED
    BY <1>3, <2>1, <2>4, HookWorks DEF beforePollReturns
<1>4. QED
  BY <1>1, <1>2, <1>3

\* The admissions of a request.
LEMMA AdmitWorks ==
  ASSUME IndInv, WorkInv, TasksKept, admitTransform \/ admitRequest \/ admitPoll
  PROVE  Works
<1>1. PICK from \in {"request.admit", "request.transform", "poll.admit"}, to \in {"request.transform", "request.effect"} :
        At(from) /\ (Goto(to, Null) \/ Goto("wait", Null)) /\ store' = store /\ ids' = ids /\ fault' = fault
  BY DEF admitTransform, admitRequest, admitPoll
<1>2. from \notin JoinPcs \cup {"none", "begin", "done"}
  BY DEF JoinPcs
<1>3. AtLeaf(from) /\ SeenFor(from, drive.seen)
  BY <1>1, <1>2, AtWork
<1>4. from \in RequestPcs /\ to \in RequestPcs /\ to \notin {"start.commit"} \cup ReplyPcs \cup CancelPcs
  BY DEF RequestPcs, ReplyPcs, CancelPcs
<1>5. Fits(to, Null)
  BY <1>3, <1>4, LeafStays, PlainArg
<1>6. QED
  BY <1>1, <1>2, <1>5, WaitFits, GoesOn

\* What a reply carries to its publication.
LEMMA ReplyFits ==
  ASSUME NEW from, from \in RequestPcs, AtLeaf(from), SeenFor(from, drive.seen),
         NEW pc \in ReplyPcs, NEW arg, arg.reply.calls \in Seq(ToolNames), arg.reply.stop = "aborted" => Phase = "cancelling"
  PROVE  Fits(pc, arg)
<1>1. pc \in RequestPcs /\ pc \notin {"start.commit"} \cup CancelPcs
  BY DEF RequestPcs, ReplyPcs, CancelPcs
<1>2. ArgFor(pc, arg)
  BY <1>1 DEF ArgFor
<1>3. QED
  BY <1>1, <1>2, LeafStays

\* The stream of a request ends; it ends as aborted only when it was signalled.
LEMMA ProviderWorks ==
  ASSUME IndInv, WorkInv, TasksKept, providerReplies
  PROVE  Works
<1>1. At("request.effect") /\ store' = store /\ ids' = ids /\ fault' = fault
  BY DEF providerReplies
<1>2. "request.effect" \notin JoinPcs \cup {"none", "begin", "done"} /\ drive.pc = "request.effect" /\ "request.effect" \in RequestPcs
  BY <1>1 DEF JoinPcs, At, RequestPcs
<1>3. AtLeaf("request.effect") /\ SeenFor("request.effect", drive.seen)
  BY <1>1, <1>2, AtWork
<1>4. PICK r \in (IF CanGrow THEN Replies ELSE LastReplies) \cup (IF drive.gate = "signalled" THEN {AbortedReply} ELSE {}) :
        Goto(IF GateOpen THEN "request.after" ELSE "request.drop", [reply |-> r, recovery |-> FALSE])
  BY DEF providerReplies
<1>5. r.calls \in Seq(ToolNames) /\ (r.stop = "aborted" => Phase = "cancelling")
  <2>1. CASE r \in Replies \cup LastReplies
    BY <2>1, RepliesAssumption
  <2>2. CASE r \notin Replies \cup LastReplies
    <3>1. r = AbortedReply /\ drive.gate = "signalled"
      BY <1>4, <2>2
    <3>2. r.calls = <<>>
      BY <3>1 DEF AbortedReply
    <3>3. Phase = "cancelling"
      BY <1>2, <3>1 DEF WorkInv, PassWork, SignalWork
    <3>4. QED
      BY <3>2, <3>3
  <2>3. QED
    BY <2>1, <2>2
<1>6. PICK arg : arg = [reply |-> r, recovery |-> FALSE]
  OBVIOUS
<1>7. \A pc \in ReplyPcs : Fits(pc, arg)
  BY <1>2, <1>3, <1>5, <1>6, ReplyFits
<1>8. \E pc \in ReplyPcs : Goto(pc, arg)
  BY <1>4, <1>6 DEF ReplyPcs
<1>9. QED
  BY <1>1, <1>2, <1>7, <1>8, GoesOn

\* after_response returns, or the answer of a cancelled request has waited long enough.
LEMMA AnswerWorks ==
  ASSUME IndInv, WorkInv, TasksKept, afterResponseReturns \/ droppedResponse
  PROVE  Works
<1>1. PICK from \in {"request.after", "request.drop"} :
        At(from) /\ Goto("publish", drive.arg) /\ store' = store /\ ids' = ids /\ fault' = fault
  BY DEF afterResponseReturns, droppedResponse, HookReturns, Queue
<1>2. from \notin JoinPcs \cup {"none", "begin", "done"} /\ from \in RequestPcs /\ from \in ReplyPcs /\ "publish" \in ReplyPcs
  BY DEF JoinPcs, RequestPcs, ReplyPcs
<1>3. AtLeaf(from) /\ SeenFor(from, drive.seen) /\ ArgFor(from, drive.arg)
  BY <1>1, <1>2, AtWork
<1>4. Fits("publish", drive.arg)
  BY <1>2, <1>3, ReplyFits DEF ArgFor
<1>5. QED
  BY <1>1, <1>2, <1>4, GoesOn

\* An orphaned request is settled as interrupted (recovery.ts).
LEMMA RecoverWorks ==
  ASSUME IndInv, WorkInv, TasksKept, recoverAssistantGeneration \/ recoverCancelledAssistantEffect
  PROVE  Works
<1>1. CASE CancelledTurn("recover.read")
  <2>1. "recover.read" \notin JoinPcs \cup {"none", "begin", "done"}
    BY DEF JoinPcs
  <2>2. QED
    BY <1>1, <2>1, CancelledWorks
<1>2. CASE ~CancelledTurn("recover.read")
  <2>1. PICK arg : arg = [reply |-> InterruptedReply, recovery |-> TRUE]
    OBVIOUS
  <2>2. PICK from \in {"recover.read", "settle.read"} :
          At(from) /\ drive' = [drive EXCEPT !.pc = "publish", !.arg = arg]
          /\ store' = store /\ ids' = ids /\ fault' = fault
    BY <1>2, <2>1 DEF recoverAssistantGeneration, recoverCancelledAssistantEffect, MainTurn
  <2>3. from \notin JoinPcs \cup {"none", "begin", "done"} /\ from \in RequestPcs /\ "publish" \in ReplyPcs
    BY DEF JoinPcs, RequestPcs, ReplyPcs
  <2>4. AtLeaf(from) /\ SeenFor(from, drive.seen)
    BY <2>2, <2>3, AtWork
  <2>5. arg.reply.calls \in Seq(ToolNames) /\ arg.reply.stop # "aborted"
    <3>1. InterruptedReply.calls = <<>> /\ InterruptedReply.stop = "error"
      BY DEF InterruptedReply
    <3>2. <<>> \in Seq(ToolNames)
      BY EmptySeq
    <3>3. QED
      BY <2>1, <3>1, <3>2
  <2>6. Fits("publish", arg)
    BY <2>3, <2>4, <2>5, ReplyFits
  <2>7. QED
    BY <2>2, <2>3, <2>6, GoesOn DEF Goto
<1>3. QED
  BY <1>1, <1>2

\* The response a deferred leaf names still carries the handle.
LEMMA HandlePresent ==
  ASSUME LeafIs(State), Leaf = State.leaf, State.leaf.at \in Deferred
  PROVE  ~DeferredHandleMissing
<1>1. PICK e : OnlyEntry(State.leaf.source, e) /\ e.body.type = "assistant" /\ e.body.stop = "deferred"
  BY DEF LeafIs, DeferredWork
<1>2. Entry(store, State.leaf.source) = e /\ HasEntry(store, State.leaf.source)
  BY <1>1, EntryIs
<1>3. QED
  BY <1>1, <1>2 DEF DeferredHandleMissing

\* A pass that ends without a result reports a deferred response.
LEMMA ReportWorks ==
  ASSUME IndInv, WorkInv, TasksKept, NEW from, from \notin JoinPcs \cup {"none", "begin", "done"}, At(from),
         store' = store, ids' = ids, fault' = fault, NEW arg, arg # "retry", Goto("done", arg)
  PROVE  Works
<1>1. IsDrive(drive) /\ drive.pc = from
  BY AtWork
<1>2. Unwritten /\ SamePass /\ drive'.pc = "done" /\ drive'.arg = arg
  BY <1>1 DEF TasksKept, Unwritten, Goto, IsDrive, SamePass
<1>3. AtLeaf(drive'.pc) /\ SeenFor(drive'.pc, drive'.seen) /\ ArgFor(drive'.pc, drive'.arg)
  BY <1>2 DEF AtLeaf, SeenFor, ArgFor, StartPcs, CheckPcs, ReadyPcs, RetryPcs, DeferPcs, RequestPcs, SeenPcs, ReplyPcs, CancelPcs
<1>4. OutcomeFor(drive'.pc, drive'.arg) /\ TurnFor(drive'.pc, drive'.arg) /\ drive'.pc \notin BatchPcs
  BY <1>2 DEF OutcomeFor, TurnFor, BatchPcs
<1>5. PassWork'
  BY <1>1, <1>2, <1>3, <1>4, MovedWork DEF WorkInv, Inner
<1>6. StoreWork' /\ TaskWork'
  BY <1>1, <1>2, <1>4, KeepStoreWork, RestingTasks DEF WorkInv, TasksKept
<1>7. QED
  BY <1>5, <1>6 DEF Works, WorkInv, Sound

\* A suspended response is about to be polled, or the pass has no permit to (deferred.ts).
LEMMA PollReadWorks ==
  ASSUME IndInv, WorkInv, TasksKept, prepareDeferredPoll
  PROVE  Works
<1>1. At("poll.read") /\ "poll.read" \notin JoinPcs \cup {"none", "begin", "done"}
  BY DEF prepareDeferredPoll, CancelledTurn, MainTurn, JoinPcs
<1>2. /\ AtLeaf("poll.read") /\ SeenFor("poll.read", drive.seen) /\ LeafIs(State) /\ Leaf = CurrentLeaf
      /\ CurrentLeaf = State.leaf
  BY <1>1, AtWork
<1>3. CASE CancelledTurn("poll.read")
  BY <1>1, <1>3, CancelledWorks
<1>4. CASE ~CancelledTurn("poll.read")
  <2>1. ~DeferredHandleMissing
    BY <1>2, HandlePresent DEF AtLeaf, DeferPcs
  <2>2. /\ store' = store /\ ids' = ids /\ fault' = fault
        /\ (Goto("done", "deferred") \/ Goto("fail.commit", Null) \/ Goto("poll.hook", Null) \/ Goto("wait", Null))
    BY <1>4, <2>1 DEF prepareDeferredPoll
  <2>3. Fits("poll.hook", Null)
    <3>1. "poll.read" \in DeferPcs /\ "poll.hook" \in DeferPcs /\ "poll.hook" \notin {"start.commit"} \cup ReplyPcs \cup CancelPcs
      BY DEF DeferPcs, ReplyPcs, CancelPcs
    <3>2. QED
      BY <1>2, <3>1, LeafStays, PlainArg
  <2>4. Fits("fail.commit", Null)
    BY DEF Fits, AtLeaf, SeenFor, ArgFor, StartPcs, CheckPcs, ReadyPcs, RetryPcs, DeferPcs, RequestPcs, SeenPcs, ReplyPcs,
           CancelPcs, BatchPcs
  <2>5. CASE Goto("done", "deferred")
    BY <1>1, <2>2, <2>5, ReportWorks
  <2>6. CASE Goto("fail.commit", Null) \/ Goto("poll.hook", Null) \/ Goto("wait", Null)
    BY <1>1, <2>2, <2>3, <2>4, <2>6, WaitFits, GoesOn
  <2>7. QED
    BY <2>2, <2>5, <2>6
<1>5. QED
  BY <1>3, <1>4

\* A cancelled deferred response is cancelled with the provider, too (reconcile.ts).
LEMMA CancelHandleWorks ==
  ASSUME IndInv, WorkInv, TasksKept, readDeferredHandle
  PROVE  Works
<1>1. At("cancel.handle") /\ "cancel.handle" \notin JoinPcs \cup {"none", "begin", "done"}
  BY DEF readDeferredHandle, MainTurn, JoinPcs
<1>2. /\ AtLeaf("cancel.handle") /\ SeenFor("cancel.handle", drive.seen) /\ ArgFor("cancel.handle", drive.arg)
      /\ LeafIs(State) /\ Leaf = CurrentLeaf /\ CurrentLeaf = State.leaf
  BY <1>1, AtWork
<1>3. ~DeferredHandleMissing
  BY <1>2, HandlePresent DEF AtLeaf, DeferPcs
<1>4. Goto("cancel.remote", Null) /\ store' = store /\ ids' = ids /\ fault' = fault
  BY <1>3 DEF readDeferredHandle
<1>5. Fits("cancel.remote", Null)
  <2>1. "cancel.handle" \in DeferPcs /\ "cancel.remote" \in DeferPcs
        /\ "cancel.remote" \notin {"start.commit"} \cup ReplyPcs /\ "cancel.handle" \in CancelPcs
    BY DEF DeferPcs, ReplyPcs, CancelPcs
  <2>2. ArgFor("cancel.remote", Null)
    BY <1>2, <2>1 DEF ArgFor
  <2>3. QED
    BY <1>2, <2>1, <2>2, LeafStays
<1>6. QED
  BY <1>1, <1>4, <1>5, GoesOn

\* The provider has been asked; a poll in flight is settled, a suspended response ended.
LEMMA CancelRemoteWorks ==
  ASSUME IndInv, WorkInv, TasksKept, cancelDeferredBestEffort
  PROVE  Works
<1>1. At("cancel.remote") /\ "cancel.remote" \notin JoinPcs \cup {"none", "begin", "done"}
  BY DEF cancelDeferredBestEffort, JoinPcs
<1>2. /\ AtLeaf("cancel.remote") /\ SeenFor("cancel.remote", drive.seen) /\ ArgFor("cancel.remote", drive.arg)
      /\ Leaf = CurrentLeaf
  BY <1>1, AtWork
<1>3. Phase = "cancelling" /\ CurrentLeaf.at \in Deferred
  BY <1>2 DEF ArgFor, AtLeaf, CancelPcs, DeferPcs
<1>4. /\ store' = store /\ ids' = ids /\ fault' = fault
      /\ \/ Goto("cancel.finish", Null)
         \/ CurrentLeaf.at # "deferred.suspended" /\ Goto("settle.read", Null)
  BY <1>2 DEF cancelDeferredBestEffort, Queue
<1>5. Fits("cancel.finish", Null)
  BY <1>3 DEF Fits, AtLeaf, SeenFor, ArgFor, StartPcs, CheckPcs, ReadyPcs, RetryPcs, DeferPcs, RequestPcs, SeenPcs, ReplyPcs,
           CancelPcs, BatchPcs
<1>6. CurrentLeaf.at # "deferred.suspended" => Fits("settle.read", Null)
  BY <1>3 DEF Fits, AtLeaf, SeenFor, ArgFor, StartPcs, CheckPcs, ReadyPcs, RetryPcs, DeferPcs, RequestPcs, SeenPcs, ReplyPcs,
           CancelPcs, BatchPcs, Pending, Deferred
<1>7. QED
  BY <1>1, <1>4, <1>5, <1>6, GoesOn

\* A pass that waits for retries never reports one (drive.ts, lane.ts drive).
LEMMA CompleteWorks ==
  ASSUME IndInv, WorkInv, TasksKept, completeDrive
  PROVE  Works
<1>1. drive.pc = "done" /\ drive.id # Null /\ drive' = NoDrive /\ Unwritten /\ jobs' = jobs
      /\ fault' = (drive.resumed /\ drive.arg = "retry")
  BY DEF completeDrive, At, Driving, TasksKept, Unwritten
<1>2. fault' => HostFaults
  <2> SUFFICES ASSUME drive.resumed, drive.arg = "retry" PROVE HostFaults
    BY <1>1
  <2>1. ~drive.waitForRetry
    BY <1>1 DEF WorkInv, PassWork, OutcomeFor
  <2>2. /\ \E mode \in DriveModes : mode.wait = drive.waitForRetry
        /\ \E mode \in DriveModes : mode.resumed
    BY <1>1 DEF WorkInv, PassWork, ModeWork
  <2>3. QED
    BY <2>1, <2>2 DEF HostFaults
<1>3. drive'.pc = "none" /\ drive'.id = Null /\ drive'.gate = "open"
  BY <1>1 DEF NoDrive
<1>4. PassWork'
  <2>1. AtLeaf(drive.pc)'
    BY <1>3 DEF AtLeaf, StartPcs, CheckPcs, ReadyPcs, RetryPcs, DeferPcs, RequestPcs
  <2>2. SeenFor(drive.pc, drive.seen)'
    BY <1>3 DEF SeenFor
  <2>3. ArgFor(drive.pc, drive.arg)'
    BY <1>3 DEF ArgFor, ReplyPcs, CancelPcs
  <2>4. OutcomeFor(drive.pc, drive.arg)' /\ SignalWork' /\ ModeWork' /\ TurnFor(drive.pc, drive.arg)'
    BY <1>3 DEF OutcomeFor, SignalWork, ModeWork, TurnFor, BatchPcs
  <2>5. QED
    BY <2>1, <2>2, <2>3, <2>4 DEF PassWork
<1>5. StoreWork' /\ TaskWork'
  <2>1. drive.pc \notin JoinPcs /\ drive'.pc \notin BatchPcs
    BY <1>1, <1>3 DEF JoinPcs, BatchPcs
  <2>2. QED
    BY <1>1, <2>1, KeepStoreWork, RestingTasks DEF WorkInv
<1>6. QED
  BY <1>2, <1>4, <1>5 DEF Works, WorkInv, Sound

-----------------------------------------------------------------------------
(* What commits leave behind.                                              *)

\* Ids of host input are neither minted nor null.
LEMMA HostIdFacts ==
  ASSUME NEW id \in HostIds
  PROVE  id \notin Nat /\ id # Null
BY IdAssumption, NullAssumption DEF HostIds

\* Nothing ran, and ids were only minted.
LEMMA KeepRuns ==
  ASSUME RunsWork, ids \in Nat, ids' \in Nat, ids <= ids', executed' = executed, reexecuted' = reexecuted
  PROVE  RunsWork'
<1>1. \A n \in 1..ids : n \in 1..ids'
  OBVIOUS
<1>2. QED
  BY <1>1 DEF RunsWork, Minted, UnsafeToolsRunOnce

\* The log stayed while ids were minted.
LEMMA KeepLog ==
  ASSUME LogWork, ids' \in Nat, ids <= ids', store'.log = store.log
  PROVE  LogWork' /\ LogIds' = LogIds
<1>1. \A n \in 1..ids : n \in 1..ids'
  BY DEF LogWork
<1>2. LogIds' = LogIds
  BY DEF LogIds
<1>3. QED
  BY <1>1, <1>2 DEF LogWork, Minted

\* A log whose entries have host ids or ids up to n.
LogFits(log, n) == log \in Seq(ToSet(log)) /\ \A e \in ToSet(log) : e.id \in HostIds \cup 1..n

\* That is what LogWork says of the store's log.
LEMMA LogWorkFits ==
  /\ LogWork => LogFits(store.log, ids)
  /\ ids' \in Nat /\ LogFits(store'.log, ids') => LogWork'
<1>1. LogWork => LogFits(store.log, ids)
  BY DEF LogWork, LogFits, LogIds, Minted
<1>2. ids' \in Nat /\ LogFits(store'.log, ids') => LogWork'
  BY DEF LogWork, LogFits, LogIds, Minted
<1>3. QED
  BY <1>1, <1>2

\* It stays one when entries with such ids are inserted.
LEMMA GrowLogFits ==
  ASSUME NEW log, NEW n \in Nat, NEW m \in Nat, n <= m, LogFits(log, n), NEW tip,
         NEW len \in Nat, NEW items, DOMAIN items = 1..len,
         \A k \in DOMAIN items : items[k][1] \in HostIds \cup 1..m
  PROVE  LogFits(log \o ChainEntries(tip, items), m)
<1> DEFINE new == ChainEntries(tip, items)
<1>1. new = [k \in 1..len |-> new[k]] /\ \A k \in 1..len : new[k].id = items[k][1]
  BY DEF ChainEntries
<1> HIDE DEF new
<1>2. new \in Seq({new[k] : k \in 1..len}) /\ DOMAIN new = 1..len
  BY <1>1, FunctionIsSeq
<1>3. ToSet(new) = {new[k] : k \in 1..len}
  BY <1>2 DEF ToSet
<1>4. log \o new \in Seq(ToSet(log \o new)) /\ ToSet(log \o new) = ToSet(log) \cup ToSet(new)
  BY <1>2, ConcatElements DEF LogFits
<1>5. \A e \in ToSet(new) : e.id \in HostIds \cup 1..m
  BY <1>1, <1>3
<1>6. \A e \in ToSet(log) : e.id \in HostIds \cup 1..m
  BY DEF LogFits
<1>7. QED
  BY <1>4, <1>5, <1>6 DEF LogFits, new

\* The tip after entries were inserted.
LEMMA TipIsSome ==
  ASSUME NEW tip, tip # Null, NEW n \in Nat, NEW items, items = [k \in 1..n |-> items[k]],
         \A k \in DOMAIN items : items[k][1] # Null
  PROVE  TipAfter(tip, items) # Null
<1>1. items \in Seq({items[k] : k \in 1..n}) /\ Len(items) = n /\ DOMAIN items = 1..n
  BY FunctionIsSeq
<1>2. CASE items = <<>>
  BY <1>2 DEF TipAfter
<1>3. CASE items # <<>>
  <2>1. n # 0
    BY <1>1, <1>3, EmptySeq
  <2>2. n \in DOMAIN items /\ Last(items) = items[n]
    BY <1>1, <2>1 DEF Last
  <2>3. QED
    BY <1>3, <2>2 DEF TipAfter
<1>4. QED
  BY <1>2, <1>3

\* An entry that was the only one with its id still is.
LEMMA StillOnly ==
  ASSUME NEW id, NEW e, OnlyEntry(id, e), e \in ToSet(store'.log),
         \A f \in ToSet(store'.log) : f.id = id => f \in ToSet(store.log)
  PROVE  OnlyEntry(id, e)'
BY DEF OnlyEntry

\* Values of operations, requests and batches are no payloads of queued items.
LEMMA NotQueued ==
  ASSUME LeafIs(State), Leaf = State.leaf, NEW id \in HostIds, NEW op
  PROVE  PendingEntry(id) \notin OwnedByPrefix(op) \cup FramesOf(op, Leaf) \cup StagedOutcomes(Leaf)
<1>1. PendingEntry(id) \notin OwnedByPrefix(op)
  BY DEF PendingEntry, OwnedByPrefix
<1>2. PendingEntry(id) \notin FramesOf(op, Leaf)
  BY DEF PendingEntry, PendingFrames, FramesOf
<1>3. PendingEntry(id) \notin StagedOutcomes(Leaf)
  <2> SUFFICES ASSUME Leaf.at = "tools", NEW i \in DOMAIN Leaf.calls PROVE PendingEntry(id) # PendingEntry(Leaf.calls[i].result)
    BY DEF StagedOutcomes
  <2>1. Leaf.calls[i].result \in Minted
    BY DEF LeafIs, BatchWork, CallsWork
  <2>2. id # Leaf.calls[i].result
    BY <2>1, HostIdFacts DEF Minted
  <2>3. QED
    BY <2>2 DEF PendingEntry
<1>4. QED
  BY <1>1, <1>2, <1>3

\* Queued items are host input.
LEMMA QueuedIds ==
  ASSUME InboxWork, NEW i \in DOMAIN store.lane.inbox
  PROVE  store.lane.inbox[i].id \in HostIds /\ store.lane.inbox[i] \in InboxItem
<1>1. store.lane.inbox[i] \in InboxItem
  BY ElementOfSeq, LenProperties DEF InboxWork
<1>2. QED
  BY <1>1 DEF InboxItem, HostIds

\* The inbox stays and so do its payloads.
LEMMA KeepInbox ==
  ASSUME InboxWork, store'.lane.inbox = store.lane.inbox,
         \A id \in HostIds : PendingEntry(id) \in store.vals => PendingEntry(id) \in store'.vals
  PROVE  InboxWork'
<1>1. \A i \in DOMAIN store.lane.inbox : PendingEntry(store.lane.inbox[i].id) \in store'.vals
  BY QueuedIds DEF InboxWork
<1>2. QED
  BY <1>1 DEF InboxWork

\* What the terminal transaction deletes.
LEMMA CleanupFacts ==
  ASSUME NEW s, IsStore(s)
  PROVE  LET t == operationCleanupWrites(s)
         IN  /\ IsStore(t) /\ t.log = s.log
             /\ t.vals = s.vals \ (OwnedByPrefix(mem.op.id) \cup FramesOf(mem.op.id, Leaf) \cup StagedOutcomes(Leaf))
<1> DEFINE t == operationCleanupWrites(s)
           op == mem.op.id
           vals == s.vals \ (OwnedByPrefix(op) \cup FramesOf(op, Leaf) \cup StagedOutcomes(Leaf))
<1>1. t = [s EXCEPT !.opMeta = [s.opMeta EXCEPT ![op] = NoMeta], !.opState = [s.opState EXCEPT ![op] = NoState], !.vals = vals]
  BY DEF operationCleanupWrites, IsStore
<1> HIDE DEF t, vals, op
<1>2. t.log = s.log /\ t.vals = vals
  BY <1>1 DEF IsStore
<1>3. IsStore(t)
  BY CleanupStore DEF t
<1>4. QED
  BY <1>2, <1>3 DEF t, vals, op

\* A new leaf, and what it leaves of the state.
LEMMA LeafFacts ==
  ASSUME StoreInv, mem # Null, Current # Null, NEW leaf
  PROVE  /\ WithLeaf(leaf).leaf = leaf /\ WithLeaf(leaf).latest = State.latest /\ WithLeaf(leaf).ctl = State.ctl
         /\ WithLeaf(leaf) # NoState
<1>1. mem.op.st = State /\ IsState(State)
  BY MemFacts
<1>2. WithLeaf(leaf) = [State EXCEPT !.leaf = leaf]
  BY <1>1 DEF WithLeaf
<1>3. IsState(WithLeaf(leaf))
  BY LeafState DEF Current
<1>4. QED
  BY <1>1, <1>2, <1>3, StateIsSome DEF IsState

-----------------------------------------------------------------------------
(* Commits of the pass.                                                    *)

\* The phase of the pass's operation after a commit that keeps every phase.
LEMMA PhaseStays ==
  ASSUME PhaseMap' = PhaseMap, drive.id \in OpIds, drive'.id = drive.id
  PROVE  Phase' = Phase
BY DEF PhaseMap, Phase

\* A commit after which the pass goes on.
LEMMA CommitWorks ==
  ASSUME IndInv, WorkInv, TasksKept, NEW from, from \notin JoinPcs \cup {"none", "begin", "done"}, At(from),
         PhaseMap' = PhaseMap, fault' = fault, SamePass, drive'.pc \notin BatchPcs \cup {"none", "done"}, StoreWork',
         AtLeaf(drive.pc)', SeenFor(drive.pc, drive.seen)', ArgFor(drive.pc, drive.arg)'
  PROVE  Works
<1>1. drive.pc = from /\ drive.id \in OpIds
  BY AtWork
<1>2. Phase' = Phase
  BY <1>1, PhaseStays DEF SamePass
<1>3. SignalWork' /\ ModeWork'
  BY <1>1, <1>2 DEF WorkInv, PassWork, SignalWork, ModeWork, SamePass
<1>4. OutcomeFor(drive.pc, drive.arg)' /\ TurnFor(drive.pc, drive.arg)'
  BY DEF OutcomeFor, TurnFor
<1>5. TaskWork'
  BY <1>1, RestingTasks DEF WorkInv, TasksKept
<1>6. QED
  BY <1>3, <1>4, <1>5 DEF Works, WorkInv, PassWork, Sound

\* A commit after which the pass looks at the state again.
LEMMA LoopWorks ==
  ASSUME IndInv, WorkInv, TasksKept, NEW from, from \notin JoinPcs \cup {"none", "begin", "done"}, At(from),
         PhaseMap' = PhaseMap, fault' = fault, NEW arg, Goto("loop", arg), StoreWork',
         Phase # "running" \/ drive.seen # State'
  PROVE  Works
<1>1. IsDrive(drive) /\ drive.id \in OpIds
  BY AtWork
<1>2. SamePass /\ drive'.pc = "loop" /\ drive'.seen = drive.seen
  BY <1>1 DEF Goto, IsDrive, SamePass
<1>3. Phase' = Phase
  BY <1>1, <1>2, PhaseStays DEF SamePass
<1>4. AtLeaf(drive.pc)' /\ ArgFor(drive.pc, drive.arg)'
  BY <1>2 DEF AtLeaf, ArgFor, StartPcs, CheckPcs, ReadyPcs, RetryPcs, DeferPcs, RequestPcs, ReplyPcs, CancelPcs
<1>5. SeenFor(drive.pc, drive.seen)'
  BY <1>2, <1>3 DEF SeenFor, StartPcs, CheckPcs, ReadyPcs, RetryPcs, DeferPcs, RequestPcs, SeenPcs, BatchPcs
<1>6. drive'.pc \notin BatchPcs \cup {"none", "done"}
  BY <1>2 DEF BatchPcs
<1>7. QED
  BY <1>2, <1>4, <1>5, <1>6, CommitWorks

\* The end of an operation ends its pass.
LEMMA DoneWorks ==
  ASSUME IndInv, WorkInv, TasksKept, NEW from, from \notin JoinPcs \cup {"none", "begin", "done"}, At(from),
         fault' = fault, NEW arg, arg # "retry", Goto("done", arg), LogWork', InboxWork', RunsWork', Current' = Null
  PROVE  Works
<1>1. IsDrive(drive) /\ drive.pc = from
  BY AtWork
<1>2. SamePass /\ drive'.pc = "done" /\ drive'.arg = arg
  BY <1>1 DEF Goto, IsDrive, SamePass
<1>3. AtLeaf(drive.pc)' /\ ArgFor(drive.pc, drive.arg)' /\ SeenFor(drive.pc, drive.seen)'
  BY <1>2 DEF AtLeaf, ArgFor, SeenFor, StartPcs, CheckPcs, ReadyPcs, RetryPcs, DeferPcs, RequestPcs, ReplyPcs, CancelPcs
<1>4. OutcomeFor(drive.pc, drive.arg)' /\ TurnFor(drive.pc, drive.arg)' /\ SignalWork' /\ drive'.pc \notin BatchPcs
  BY <1>2 DEF OutcomeFor, TurnFor, SignalWork, BatchPcs
<1>5. ModeWork'
  BY <1>2 DEF WorkInv, PassWork, ModeWork, SamePass
<1>6. TaskWork'
  BY <1>1, <1>4, RestingTasks DEF WorkInv, TasksKept
<1>7. StoreWork'
  BY DEF StoreWork, LeafWork
<1>8. QED
  BY <1>3, <1>4, <1>5, <1>6, <1>7 DEF Works, WorkInv, PassWork, Sound

\* A commit of a new leaf that inserts no entry.
LEMMA LeafCommitKeeps ==
  ASSUME IndInv, WorkInv, NothingRuns, mem # Null, Current # Null, NEW s, SameRecords(store, s),
         s.log = store.log, s.tip = store.tip,
         \A id \in HostIds : PendingEntry(id) \in store.vals => PendingEntry(id) \in s.vals,
         NEW leaf, SettleCommit(s, mem, WithLeaf(leaf), FALSE), ids' \in Nat, ids <= ids'
  PROVE  /\ Current' = Current /\ State' = WithLeaf(leaf) /\ CurrentLeaf' = leaf /\ LogIds' = LogIds
         /\ store'.log = store.log /\ store'.vals = s.vals
         /\ State'.leaf = leaf /\ State'.latest = State.latest
         /\ LeafIs(State)' => StoreWork'
<1>1. StoreInv
  BY DEF IndInv
<1>2. /\ store'.log = store.log /\ store'.tip = store.tip /\ store'.vals = s.vals /\ store'.opMeta = store.opMeta
      /\ Current' = Current /\ State' = WithLeaf(leaf) /\ CurrentLeaf' = WithLeaf(leaf).leaf
      /\ store'.lane.inbox = store.lane.inbox
  BY <1>1, CommitFacts
<1>3. WithLeaf(leaf).leaf = leaf /\ WithLeaf(leaf).latest = State.latest
  BY <1>1, LeafFacts
<1>4. LogWork' /\ LogIds' = LogIds
  BY <1>2, KeepLog DEF WorkInv, StoreWork
<1>5. InboxWork'
  BY <1>2, KeepInbox DEF WorkInv, StoreWork
<1>6. RunsWork'
  BY KeepRuns DEF WorkInv, StoreWork, LogWork, NothingRuns
<1>7. store.tip # Null /\ store.opMeta[Current].kind = "run"
  BY DEF WorkInv, StoreWork, LeafWork
<1>8. LeafIs(State)' => StoreWork'
  BY <1>2, <1>4, <1>5, <1>6, <1>7 DEF StoreWork, LeafWork
<1>9. QED
  BY <1>2, <1>3, <1>4, <1>8

\* A leaf of a kind the later procedures take nothing for granted about.
LEMMA PlainLeaf ==
  ASSUME NEW st, \/ st.leaf.at \in {"assistant.ready", "assistant.retry_wait"}
                 \/ st.leaf.at = "checkpoint" /\ ~st.leaf.continuation.flag
  PROVE  LeafIs(st)'
BY DEF LeafIs, Leaves, Pending, Deferred

\* The wait before a retry is over (retry.ts).
LEMMA RetryCommitWorks ==
  ASSUME IndInv, WorkInv, TasksKept, retryCommit
  PROVE  Works
<1>1. At("retry.commit") /\ "retry.commit" \notin JoinPcs \cup {"none", "begin", "done"}
  BY DEF retryCommit, CancelledTurn, MainTurn, JoinPcs
<1>2. CASE CancelledTurn("retry.commit")
  BY <1>1, <1>2, CancelledWorks
<1>3. CASE ~CancelledTurn("retry.commit")
  <2>1. PICK leaf : leaf.at = "assistant.ready" /\ SettleCommit(store, mem, WithLeaf(leaf), FALSE)
    BY <1>3 DEF retryCommit
  <2>2. Goto("loop", Null) /\ ids' = ids + 0 /\ fault' = fault
    BY <1>3 DEF retryCommit, Committed
  <2>3. /\ mem # Null /\ Current # Null /\ SeenFor("retry.commit", drive.seen) /\ AtLeaf("retry.commit") /\ StoreInv
    BY <1>1, AtWork
  <2>4. SameRecords(store, store) /\ ids' \in Nat /\ ids <= ids'
    BY <2>2, <2>3 DEF SameRecords, StoreInv, WorkInv, StoreWork, LogWork
  <2>5. State'.leaf = leaf /\ (LeafIs(State)' => StoreWork')
    BY <2>1, <2>3, <2>4, LeafCommitKeeps DEF TasksKept, NothingRuns
  <2>6. StoreWork'
    BY <2>1, <2>5, PlainLeaf
  <2>7. Phase # "running" \/ drive.seen # State'
    BY <2>1, <2>3, <2>5 DEF SeenFor, AtLeaf, RetryPcs, SeenPcs
  <2>8. PhaseMap' = PhaseMap
    BY retryCommitStep DEF TasksKept
  <2>9. QED
    BY <1>1, <2>2, <2>6, <2>7, <2>8, LoopWorks
<1>4. QED
  BY <1>2, <1>3

\* The id an intent reserves is new.
LEMMA NewId ==
  ASSUME WorkInv, ids' = ids + 1, LogIds' = LogIds
  PROVE  ids' \in Nat /\ ids <= ids' /\ Fresh(1) \in (Minted \ LogIds)' /\ Fresh(1) \notin Minted
<1>1. ids \in Nat /\ LogIds \subseteq HostIds \cup Minted
  BY DEF WorkInv, StoreWork, LogWork
<1>2. Fresh(1) = ids + 1 /\ ids + 1 \in 1..(ids + 1) /\ ids + 1 \notin 1..ids
  BY <1>1 DEF Fresh
<1>3. ids + 1 \notin HostIds
  BY <1>1, HostIdFacts
<1>4. QED
  BY <1>1, <1>2, <1>3 DEF Minted

\* The intent of a request (generation.ts).
LEMMA RequestIntentWorks ==
  ASSUME IndInv, WorkInv, TasksKept, publishGenerationIntent
  PROVE  Works
<1>1. At("request.intent") /\ "request.intent" \notin JoinPcs \cup {"none", "begin", "done"}
  BY DEF publishGenerationIntent, CancelledTurn, MainTurn, JoinPcs
<1>2. CASE CancelledTurn("request.intent")
  BY <1>1, <1>2, CancelledWorks
<1>3. CASE ~CancelledTurn("request.intent")
  <2>1. PICK leaf : /\ leaf.at = "assistant.effect_pending" /\ leaf.response = Fresh(1)
                    /\ SettleCommit(store, mem, WithLeaf(leaf), FALSE)
    BY <1>3 DEF publishGenerationIntent
  <2>2. Goto("request.admit", Null) /\ ids' = ids + 1 /\ fault' = fault
    BY <1>3 DEF publishGenerationIntent, Committed
  <2>3. /\ mem # Null /\ Current # Null /\ SeenFor("request.intent", drive.seen) /\ AtLeaf("request.intent") /\ StoreInv
        /\ IsDrive(drive) /\ drive.id \in OpIds
    BY <1>1, AtWork
  <2>4. SameRecords(store, store) /\ ids' \in Nat /\ ids <= ids'
    BY <2>2, <2>3 DEF SameRecords, StoreInv, WorkInv, StoreWork, LogWork
  <2>5. State'.leaf = leaf /\ CurrentLeaf' = leaf /\ (LeafIs(State)' => StoreWork') /\ LogIds' = LogIds
    BY <2>1, <2>3, <2>4, LeafCommitKeeps DEF TasksKept, NothingRuns
  <2>6. Fresh(1) \in (Minted \ LogIds)'
    BY <2>2, <2>5, NewId
  <2>7. StoreWork'
    BY <2>1, <2>5, <2>6 DEF LeafIs, Leaves, Pending, Deferred
  <2>8. PhaseMap' = PhaseMap
    BY publishGenerationIntentStep DEF TasksKept
  <2>9. SamePass /\ drive'.pc = "request.admit" /\ drive'.seen = drive.seen /\ drive'.arg = Null
    BY <2>2, <2>3 DEF Goto, IsDrive, SamePass
  <2>10. Phase' = Phase
    BY <2>3, <2>8, <2>9, PhaseStays DEF SamePass
  <2>11. AtLeaf(drive.pc)' /\ ArgFor(drive.pc, drive.arg)'
    BY <2>1, <2>5, <2>9 DEF AtLeaf, ArgFor, StartPcs, CheckPcs, ReadyPcs, RetryPcs, DeferPcs, RequestPcs, ReplyPcs, CancelPcs,
       Pending
  <2>12. SeenFor(drive.pc, drive.seen)'
    <3>1. Phase = "running" => drive.seen.leaf.at = "assistant.ready"
      BY <2>3 DEF SeenFor, AtLeaf, ReadyPcs, SeenPcs
    <3>2. QED
      BY <2>9, <2>10, <3>1 DEF SeenFor, StartPcs, CheckPcs, ReadyPcs, RetryPcs, DeferPcs, RequestPcs, SeenPcs, BatchPcs
  <2>13. drive'.pc \notin BatchPcs \cup {"none", "done"}
    BY <2>9 DEF BatchPcs
  <2>14. QED
    BY <1>1, <2>2, <2>7, <2>8, <2>9, <2>11, <2>12, <2>13, CommitWorks
<1>4. QED
  BY <1>2, <1>3

\* A deferred leaf's response is still the only entry with its id.
LEMMA DeferredStays ==
  ASSUME NEW source, DeferredWork(source), ids \in Nat, ids' \in Nat, ids <= ids', store'.log = store.log
  PROVE  DeferredWork(source)'
<1>1. \A n \in 1..ids : n \in 1..ids'
  OBVIOUS
<1>2. QED
  BY <1>1 DEF DeferredWork, OnlyEntry, Minted

\* Frames that are dropped are no payloads.
LEMMA FramesNotQueued ==
  ASSUME NEW id, NEW op, NEW leaf
  PROVE  PendingEntry(id) \notin FramesOf(op, leaf)
BY DEF PendingEntry, PendingFrames, FramesOf

\* The intent of a poll (deferred.ts).
LEMMA PollIntentWorks ==
  ASSUME IndInv, WorkInv, TasksKept, publishPollIntent
  PROVE  Works
<1>1. At("poll.intent") /\ "poll.intent" \notin JoinPcs \cup {"none", "begin", "done"}
  BY DEF publishPollIntent, CancelledTurn, MainTurn, JoinPcs
<1>2. CASE CancelledTurn("poll.intent")
  BY <1>1, <1>2, CancelledWorks
<1>3. CASE ~CancelledTurn("poll.intent")
  <2>1. PICK leaf, vals :
          /\ leaf.at = "deferred.effect_pending" /\ leaf.response = Fresh(1) /\ leaf.source = Leaf.source
          /\ vals = store.vals \ FramesOf(mem.op.id, Leaf)
          /\ SettleCommit([store EXCEPT !.vals = vals], mem, WithLeaf(leaf), FALSE)
    <3>1. IsStore(store)
      BY DEF IndInv, StoreInv
    <3>2. [store EXCEPT !.vals = store.vals \ FramesOf(mem.op.id, Leaf)] = [store EXCEPT !.vals = @ \ FramesOf(mem.op.id, Leaf)]
      BY <3>1 DEF IsStore
    <3>3. QED
      BY <1>3, <3>2 DEF publishPollIntent
  <2>2. drive' = [drive EXCEPT !.pc = "poll.admit", !.permits = drive.permits - 1] /\ ids' = ids + 1 /\ fault' = fault
    BY <1>3 DEF publishPollIntent
  <2>3. /\ mem # Null /\ Current # Null /\ SeenFor("poll.intent", drive.seen) /\ AtLeaf("poll.intent") /\ StoreInv
        /\ IsDrive(drive) /\ drive.id \in OpIds /\ Leaf = CurrentLeaf /\ LeafIs(State) /\ CurrentLeaf = State.leaf
    BY <1>1, AtWork
  <2>4. PICK s : s = [store EXCEPT !.vals = vals]
    OBVIOUS
  <2>5. SameRecords(store, s) /\ s.tip = store.tip /\ s.log = store.log /\ s.vals = vals
    BY <2>3, <2>4, ValsStore DEF StoreInv, IsStore
  <2>6. ids' \in Nat /\ ids <= ids' /\ ids \in Nat
    BY <2>2 DEF WorkInv, StoreWork, LogWork
  <2>7. \A id \in HostIds : PendingEntry(id) \in store.vals => PendingEntry(id) \in s.vals
    BY <2>1, <2>5, FramesNotQueued
  <2>8. SettleCommit(s, mem, WithLeaf(leaf), FALSE)
    BY <2>1, <2>4
  <2>9. State'.leaf = leaf /\ CurrentLeaf' = leaf /\ (LeafIs(State)' => StoreWork') /\ LogIds' = LogIds /\ store'.log = store.log
    BY <2>3, <2>5, <2>6, <2>7, <2>8, LeafCommitKeeps DEF TasksKept, NothingRuns
  <2>10. Fresh(1) \in (Minted \ LogIds)' /\ Fresh(1) \notin Minted
    BY <2>2, <2>9, NewId
  <2>11. CurrentLeaf.at \in Deferred /\ DeferredWork(CurrentLeaf.source)
    BY <2>3 DEF AtLeaf, DeferPcs, LeafIs
  <2>12. DeferredWork(leaf.source)'
    BY <2>1, <2>3, <2>6, <2>9, <2>11, DeferredStays
  <2>13. StoreWork'
    BY <2>1, <2>9, <2>10, <2>12 DEF LeafIs, Leaves, Pending, Deferred
  <2>14. PhaseMap' = PhaseMap
    BY publishPollIntentStep DEF TasksKept
  <2>15. SamePass /\ drive'.pc = "poll.admit" /\ drive'.seen = drive.seen
    BY <2>2, <2>3 DEF IsDrive, SamePass
  <2>16. Phase' = Phase
    BY <2>3, <2>14, <2>15, PhaseStays DEF SamePass
  <2>17. AtLeaf(drive.pc)' /\ ArgFor(drive.pc, drive.arg)'
    BY <2>1, <2>9, <2>15 DEF AtLeaf, ArgFor, StartPcs, CheckPcs, ReadyPcs, RetryPcs, DeferPcs, RequestPcs, ReplyPcs, CancelPcs,
       Pending
  <2>18. SeenFor(drive.pc, drive.seen)'
    <3>1. Phase = "running" => drive.seen.leaf = CurrentLeaf
      BY <2>3 DEF SeenFor, DeferPcs, SeenPcs
    <3>2. CurrentLeaf.source # leaf.response
      BY <2>1, <2>10, <2>11 DEF DeferredWork
    <3>3. QED
      BY <2>9, <2>11, <2>15, <2>16, <3>1, <3>2 DEF SeenFor, StartPcs, CheckPcs, ReadyPcs, RetryPcs, DeferPcs, RequestPcs, SeenPcs,
         BatchPcs
  <2>19. drive'.pc \notin BatchPcs \cup {"none", "done"}
    BY <2>15 DEF BatchPcs
  <2>20. QED
    BY <1>1, <2>2, <2>13, <2>14, <2>15, <2>17, <2>18, <2>19, CommitWorks
<1>4. QED
  BY <1>2, <1>3

\* The end of an operation keeps the log, the inbox and the runs.
LEMMA FinishKeeps ==
  ASSUME IndInv, WorkInv, TasksKept, NEW from, from \notin JoinPcs \cup {"none", "begin", "done"}, At(from),
         NEW s, IsStore(s), ids' \in Nat, ids <= ids', LogFits(s.log, ids'),
         NEW m, m.inbox \in Seq(InboxItem), \A i \in DOMAIN m.inbox : PendingEntry(m.inbox[i].id) \in s.vals,
         NEW record, SettleFinish(operationCleanupWrites(s), m, record)
  PROVE  LogWork' /\ InboxWork' /\ RunsWork' /\ Current' = Null
<1>1. StoreInv /\ mem # Null /\ Current # Null /\ LeafIs(State) /\ Leaf = State.leaf
  BY AtWork
<1> DEFINE t == operationCleanupWrites(s)
<1>2. IsStore(t) /\ t.log = s.log
      /\ t.vals = s.vals \ (OwnedByPrefix(mem.op.id) \cup FramesOf(mem.op.id, Leaf) \cup StagedOutcomes(Leaf))
  BY CleanupFacts
<1> HIDE DEF t
<1>3. store'.log = s.log /\ store'.vals = t.vals /\ Current' = Null /\ store'.lane.inbox = m.inbox
  BY <1>1, <1>2, FinishFacts DEF t
<1>4. LogWork'
  BY <1>3, LogWorkFits
<1>5. RunsWork'
  BY KeepRuns DEF WorkInv, StoreWork, LogWork, TasksKept
<1>6. InboxWork'
  <2>1. ASSUME NEW i \in DOMAIN m.inbox PROVE PendingEntry(m.inbox[i].id) \in t.vals
    <3>1. m.inbox[i] \in InboxItem
      BY ElementOfSeq, LenProperties
    <3>2. m.inbox[i].id \in HostIds
      BY <3>1 DEF InboxItem, HostIds
    <3>3. PendingEntry(m.inbox[i].id) \in s.vals
      OBVIOUS
    <3>4. QED
      BY <1>1, <1>2, <3>2, <3>3, NotQueued
  <2>2. QED
    BY <1>3, <2>1 DEF InboxWork
<1>7. QED
  BY <1>3, <1>4, <1>5, <1>6

\* Operations that end as failed or aborted (generation.ts, reconcile.ts).
LEMMA TerminalWorks ==
  ASSUME IndInv, WorkInv, TasksKept, publishConfigurationFailure \/ publishAbortedTerminal
  PROVE  Works
<1>1. CASE CancelledTurn("fail.commit")
  <2>1. "fail.commit" \notin JoinPcs \cup {"none", "begin", "done"}
    BY DEF JoinPcs
  <2>2. QED
    BY <1>1, <2>1, CancelledWorks
<1>2. CASE ~CancelledTurn("fail.commit")
  <2>1. PICK from \in {"fail.commit", "cancel.finish"} : At(from) /\ (from = "fail.commit" => publishConfigurationFailure)
          /\ (from = "cancel.finish" => publishAbortedTerminal)
    BY <1>2 DEF publishConfigurationFailure, publishAbortedTerminal, MainTurn
  <2>2. from \notin JoinPcs \cup {"none", "begin", "done"}
    BY DEF JoinPcs
  <2>3. /\ mem # Null /\ StoreInv /\ Current # Null /\ mem.tip # Null /\ mem.inbox = store.lane.inbox
        /\ ArgFor(from, drive.arg) /\ Phase = (IF Cancelled THEN "cancelling" ELSE "running")
    BY <2>1, <2>2, AtWork
  <2>4. from = "cancel.finish" => Cancelled
    BY <2>3 DEF ArgFor, CancelPcs
  <2>5. /\ Goto("done", "settled") /\ ids' = ids + 0 /\ fault' = fault
        /\ \E record : SettleFinish(operationCleanupWrites(store), mem, record)
    BY <1>2, <2>1, <2>3, <2>4 DEF publishConfigurationFailure, publishAbortedTerminal, Committed
  <2>6. ids' = ids /\ ids \in Nat /\ ids' \in Nat /\ ids <= ids'
    BY <2>5 DEF WorkInv, StoreWork, LogWork
  <2>7. IsStore(store) /\ LogFits(store.log, ids') /\ mem.inbox \in Seq(InboxItem)
        /\ \A i \in DOMAIN mem.inbox : PendingEntry(mem.inbox[i].id) \in store.vals
    BY <2>3, <2>6, LogWorkFits DEF StoreInv, WorkInv, StoreWork, InboxWork
  <2>8. LogWork' /\ InboxWork' /\ RunsWork' /\ Current' = Null
    BY <2>1, <2>2, <2>5, <2>6, <2>7, FinishKeeps
  <2>9. QED
    BY <2>1, <2>2, <2>5, <2>8, DoneWorks
<1>3. QED
  BY <1>1, <1>2

-----------------------------------------------------------------------------
(* Commits of the pass that insert entries.                                *)

\* A commit that leaves the log, the tip and the inbox in order, and a plain leaf.
LEMMA GrownKeeps ==
  ASSUME IndInv, WorkInv, NothingRuns, mem # Null, Current # Null, NEW s, SameRecords(store, s),
         ids' \in Nat, ids <= ids', LogFits(s.log, ids'), s.tip # Null,
         NEW m, NEW patches \in BOOLEAN, NEW inbox, inbox = IF patches THEN m.inbox ELSE store.lane.inbox,
         inbox \in Seq(InboxItem), \A i \in DOMAIN inbox : PendingEntry(inbox[i].id) \in s.vals,
         NEW st, SettleCommit(s, m, st, patches), LeafIs(st)'
  PROVE  StoreWork' /\ State' = st
<1>1. StoreInv
  BY DEF IndInv
<1>2. /\ store'.log = s.log /\ store'.tip = s.tip /\ store'.vals = s.vals /\ store'.opMeta = store.opMeta
      /\ Current' = Current /\ State' = st /\ store'.lane.inbox = inbox
  BY <1>1, CommitFacts
<1>3. LogWork'
  BY <1>2, LogWorkFits
<1>4. InboxWork'
  BY <1>2 DEF InboxWork
<1>5. RunsWork'
  BY KeepRuns DEF WorkInv, StoreWork, LogWork, NothingRuns
<1>6. LeafWork'
  BY <1>2 DEF LeafWork, WorkInv, StoreWork
<1>7. QED
  BY <1>2, <1>3, <1>4, <1>5, <1>6 DEF StoreWork

\* A run starts (checkpoint.ts startRun).
LEMMA StartCommitWorks ==
  ASSUME IndInv, WorkInv, TasksKept, startCommit
  PROVE  Works
<1>1. At("start.commit") /\ "start.commit" \notin JoinPcs \cup {"none", "begin", "done"}
  BY DEF startCommit, CancelledTurn, MainTurn, JoinPcs
<1>2. CASE CancelledTurn("start.commit")
  BY <1>1, <1>2, CancelledWorks
<1>3. CASE ~CancelledTurn("start.commit")
  <2>1. /\ mem # Null /\ Current # Null /\ SeenFor("start.commit", drive.seen) /\ AtLeaf("start.commit") /\ StoreInv
        /\ ArgFor("start.commit", drive.arg) /\ mem.tip = store.tip /\ store.tip # Null
    BY <1>1, AtWork
  <2>2. drive.arg \in {0, 1} /\ ids \in Nat /\ IsStore(store)
    BY <2>1 DEF ArgFor, WorkInv, StoreWork, LogWork, StoreInv
  <2> DEFINE items   == [i \in 1..drive.arg |-> <<Fresh(i), [type |-> "user"]>>]
             trigger == TipAfter(mem.tip, items)
             leaf    == Checkpoint(NeedAssistant(FALSE), trigger)
             s       == InsertEntries(store, items)
             m       == [mem EXCEPT !.tip = trigger]
  <2>3. \A k \in DOMAIN items : items[k][1] = ids + k /\ k \in 1..drive.arg
    BY DEF Fresh
  <2>4. items = [k \in 1..drive.arg |-> items[k]] /\ DOMAIN items = 1..drive.arg
    OBVIOUS
  <2>5. s.log = store.log \o ChainEntries(store.tip, items) /\ s.tip = TipAfter(store.tip, items) /\ s.vals = store.vals
        /\ SameRecords(store, s)
    BY <2>2, InsertFacts
  <2>6. leaf.at = "checkpoint" /\ leaf.continuation.flag = FALSE
    BY DEF Checkpoint, NeedAssistant
  <2>7. \/ trigger = Null
        \/ SettleCommit(s, m, WithLeaf(leaf), FALSE) /\ Committed("loop", Null, drive.arg)
    BY <1>3 DEF startCommit
  <2> HIDE DEF items, leaf, s, m
  <2>8. drive.arg \in Nat
    BY <2>2
  <2>9. \A k \in DOMAIN items : items[k][1] \in 1..(ids + drive.arg) /\ items[k][1] # Null
    BY <2>2, <2>3, NullAssumption
  <2>10. trigger # Null
    BY <2>1, <2>4, <2>8, <2>9, TipIsSome
  <2>11. Goto("loop", Null) /\ ids' = ids + drive.arg /\ fault' = fault /\ SettleCommit(s, m, WithLeaf(leaf), FALSE)
    BY <2>7, <2>10 DEF Committed
  <2> HIDE DEF trigger
  <2>12. ids' \in Nat /\ ids <= ids' /\ s.tip # Null
    BY <2>1, <2>2, <2>5, <2>10, <2>11 DEF trigger
  <2>13. LogFits(s.log, ids')
    <3>1. LogFits(store.log, ids)
      BY LogWorkFits DEF WorkInv, StoreWork
    <3>2. \A k \in DOMAIN items : items[k][1] \in HostIds \cup 1..ids'
      BY <2>2, <2>9, <2>11
    <3>3. DOMAIN items = 1..drive.arg
      BY <2>4
    <3>4. QED
      BY <2>2, <2>5, <2>8, <2>12, <3>1, <3>2, <3>3, GrowLogFits
  <2>14. PICK st : st = WithLeaf(leaf) /\ st.leaf = leaf
    BY <2>1, LeafFacts
  <2>15. LeafIs(st)'
    BY <2>6, <2>14, PlainLeaf
  <2>16. StoreWork' /\ State' = st
    <3>1. store.lane.inbox \in Seq(InboxItem)
          /\ \A i \in DOMAIN store.lane.inbox : PendingEntry(store.lane.inbox[i].id) \in s.vals
      BY <2>5 DEF WorkInv, StoreWork, InboxWork
    <3>2. QED
      BY <2>1, <2>5, <2>11, <2>12, <2>13, <2>14, <2>15, <3>1, GrownKeeps DEF TasksKept, NothingRuns
  <2>17. Phase # "running" \/ drive.seen # State'
    BY <2>1, <2>6, <2>14, <2>16 DEF SeenFor, AtLeaf, StartPcs, SeenPcs
  <2>18. PhaseMap' = PhaseMap
    BY startCommitStep DEF TasksKept
  <2>19. QED
    BY <1>1, <2>11, <2>16, <2>17, <2>18, LoopWorks
<1>4. QED
  BY <1>2, <1>3

\* Items taken from the inbox: host input, whose payloads only go with them.
LEMMA TakenFacts ==
  ASSUME InboxWork, NEW taken, NEW items, NEW left, items = itemsOf(store.lane.inbox, taken),
         left = withoutInboxItems(store.lane.inbox, taken)
  PROVE  /\ items \in Seq(InboxItem) /\ left \in Seq(InboxItem)
         /\ \A k \in DOMAIN items : items[k].id \in HostIds
         /\ PendingOf(items) \subseteq store.vals
         /\ \A k \in DOMAIN left : PendingEntry(left[k].id) \in store.vals \ PendingOf(items)
<1> DEFINE q == store.lane.inbox
           P == {i \in DOMAIN q : q[i].id \in taken}
           R == {i \in DOMAIN q : q[i].id \notin taken}
<1>1. q \in Seq(InboxItem) /\ items = ItemsAt(q, P) /\ left = ItemsAt(q, R)
  BY DEF InboxWork, itemsOf, withoutInboxItems
<1>2. items \in Seq(InboxItem) /\ left \in Seq(InboxItem)
  BY <1>1, ItemsAtHolds
<1>3. HoldsItems(q, P, Len(q), items) /\ HoldsItems(q, R, Len(q), left)
  BY <1>1, ItemsAtHolds
<1>4. \A k \in DOMAIN items : \E j \in DOMAIN q : q[j].id \in taken /\ items[k] = q[j]
  BY <1>3 DEF HoldsItems
<1>5. \A k \in DOMAIN left : \E j \in DOMAIN q : q[j].id \notin taken /\ left[k] = q[j]
  BY <1>3 DEF HoldsItems
<1>6. \A k \in DOMAIN items : items[k].id \in HostIds /\ items[k].id \in taken /\ PendingEntry(items[k].id) \in store.vals
  BY <1>4, QueuedIds DEF InboxWork
<1>7. PendingOf(items) \subseteq store.vals
  BY <1>6 DEF PendingOf, inboxIds
<1>8. ASSUME NEW k \in DOMAIN left PROVE PendingEntry(left[k].id) \in store.vals \ PendingOf(items)
  <2>1. PICK j \in DOMAIN q : q[j].id \notin taken /\ left[k] = q[j]
    BY <1>5
  <2>2. PendingEntry(left[k].id) \in store.vals
    BY <2>1 DEF InboxWork
  <2>3. \A l \in DOMAIN items : items[l].id # left[k].id
    BY <1>6, <2>1
  <2>4. PendingEntry(left[k].id) \notin PendingOf(items)
    BY <2>3 DEF PendingOf, inboxIds, PendingEntry
  <2>5. QED
    BY <2>2, <2>4
<1>9. QED
  BY <1>2, <1>6, <1>7, <1>8

\* The payloads of the inbox are there.
LEMMA PayloadsThere ==
  ASSUME InboxWork
  PROVE  PayloadsPresent(store.lane.inbox)
BY DEF PayloadsPresent, PendingOf, inboxIds, InboxWork

\* Entries of queued items.
LEMMA PendingItems ==
  ASSUME NEW items \in Seq(InboxItem)
  PROVE  /\ Len(items) \in Nat /\ DOMAIN pendingEntryWrite(items) = 1..Len(items)
         /\ pendingEntryWrite(items) = [k \in 1..Len(items) |-> pendingEntryWrite(items)[k]]
         /\ \A k \in DOMAIN pendingEntryWrite(items) : pendingEntryWrite(items)[k][1] = items[k].id /\ k \in DOMAIN items
<1>1. Len(items) \in Nat /\ DOMAIN items = 1..Len(items)
  BY LenProperties
<1>2. QED
  BY <1>1 DEF pendingEntryWrite

\* What a boundary plans to place.
IsPlan(plan) ==
  \E taken : plan.items = itemsOf(mem.inbox, taken) /\ plan.inbox = withoutInboxItems(mem.inbox, taken)

\* Every boundary plan is one.
LEMMA PlanIs ==
  ASSUME NEW allowed
  PROVE  IsPlan(planBoundaryInbox(allowed))
BY DEF planBoundaryInbox, IsPlan

\* The store after a boundary's placement.
LEMMA PlacedFacts ==
  ASSUME IndInv, WorkInv, mem # Null, Current # Null, NEW plan, IsPlan(plan)
  PROVE  /\ SameRecords(store, PlacedStore(plan)) /\ LogFits(PlacedStore(plan).log, ids) /\ PlacedStore(plan).tip # Null
         /\ PlacedMem(plan).tip = PlacedStore(plan).tip /\ PlacedMem(plan).inbox = plan.inbox
         /\ plan.inbox \in Seq(InboxItem) /\ \A i \in DOMAIN plan.inbox : PendingEntry(plan.inbox[i].id) \in PlacedStore(plan).vals
         /\ PayloadsPresent(mem.inbox)
<1>1. StoreInv /\ IsStore(store) /\ InboxWork /\ LogWork /\ store.tip # Null
  BY DEF IndInv, StoreInv, WorkInv, StoreWork, LeafWork
<1>2. mem.inbox = store.lane.inbox /\ mem.tip = store.tip
  BY <1>1, MemFacts
<1>3. /\ plan.items \in Seq(InboxItem) /\ plan.inbox \in Seq(InboxItem)
      /\ \A k \in DOMAIN plan.items : plan.items[k].id \in HostIds
      /\ \A k \in DOMAIN plan.inbox : PendingEntry(plan.inbox[k].id) \in store.vals \ PendingOf(plan.items)
  BY <1>1, <1>2, TakenFacts DEF IsPlan
<1> DEFINE items == pendingEntryWrite(plan.items)
           u     == InsertEntries(store, items)
           s     == PlacedStore(plan)
<1>4. /\ Len(plan.items) \in Nat /\ DOMAIN items = 1..Len(plan.items) /\ items = [k \in 1..Len(plan.items) |-> items[k]]
      /\ \A k \in DOMAIN items : items[k][1] \in HostIds
  BY <1>3, PendingItems
<1>5. u.log = store.log \o ChainEntries(store.tip, items) /\ u.tip = TipAfter(store.tip, items) /\ u.vals = store.vals
      /\ SameRecords(store, u)
  BY <1>1, InsertFacts
<1>6. s = [u EXCEPT !.vals = u.vals \ PendingOf(plan.items)]
  BY <1>5 DEF PlacedStore, SameRecords, IsStore
<1>7. PlacedMem(plan).tip = TipAfter(mem.tip, items) /\ PlacedMem(plan).inbox = plan.inbox
  <2>1. mem = [tip |-> mem.tip, cfg |-> mem.cfg, inbox |-> mem.inbox, last |-> mem.last, op |-> mem.op]
    BY <1>1 DEF StoreInv, Coherent, restoreLaneState
  <2>2. QED
    BY <2>1 DEF PlacedMem
<1> HIDE DEF items, u, s
<1>8. s.log = u.log /\ s.tip = u.tip /\ s.vals = store.vals \ PendingOf(plan.items)
  BY <1>5, <1>6 DEF SameRecords, IsStore
<1>9. \A k \in DOMAIN items : items[k][1] # Null
  BY <1>4, HostIdFacts
<1>10. s.tip # Null
  BY <1>1, <1>4, <1>5, <1>8, <1>9, TipIsSome
<1>11. LogFits(s.log, ids)
  <2>1. ids \in Nat /\ LogFits(store.log, ids) /\ \A k \in DOMAIN items : items[k][1] \in HostIds \cup 1..ids
    BY <1>1, <1>4, LogWorkFits DEF LogWork
  <2>2. ids <= ids
    BY <2>1
  <2>3. DOMAIN items = 1..Len(plan.items) /\ Len(plan.items) \in Nat
    BY <1>4
  <2>4. LogFits(store.log \o ChainEntries(store.tip, items), ids)
    BY <2>1, <2>2, <2>3, GrowLogFits
  <2>5. QED
    BY <1>5, <1>8, <2>4
<1>12. SameRecords(store, s)
  BY <1>1, Placed DEF s
<1>13. PayloadsPresent(mem.inbox)
  BY <1>1, <1>2, PayloadsThere
<1>14. QED
  BY <1>2, <1>3, <1>5, <1>7, <1>8, <1>10, <1>11, <1>12, <1>13 DEF s

\* The boundary of a run, with work left (checkpoint.ts runCheckpoint).
LEMMA CheckpointWorks ==
  ASSUME IndInv, WorkInv, TasksKept, runCheckpoint
  PROVE  Works
<1>1. At("checkpoint.commit") /\ "checkpoint.commit" \notin JoinPcs \cup {"none", "begin", "done"}
  BY DEF runCheckpoint, CancelledTurn, MainTurn, JoinPcs
<1>2. CASE CancelledTurn("checkpoint.commit")
  BY <1>1, <1>2, CancelledWorks
<1>3. CASE ~CancelledTurn("checkpoint.commit")
  <2>1. /\ mem # Null /\ Current # Null /\ SeenFor("checkpoint.commit", drive.seen) /\ AtLeaf("checkpoint.commit") /\ StoreInv
    BY <1>1, AtWork
  <2>2. PICK plan, leaf :
          /\ IsPlan(plan) /\ leaf.at = "assistant.ready"
          /\ \/ plan.items # <<>> /\ ~PayloadsPresent(mem.inbox)
             \/ SettleCommit(PlacedStore(plan), PlacedMem(plan), WithLeaf(leaf), TRUE) /\ Committed("loop", Null, 0)
             \/ /\ store' = store /\ ids' = ids /\ fault' = fault
                /\ \E arg : drive' = [drive EXCEPT !.pc = "finish.read", !.arg = arg]
    <3> DEFINE mayFinish == Leaf.continuation.kind = "may_finish"
               plan      == planBoundaryInbox(mayFinish)
               ready     == IF plan.trigger # Null
                            THEN assistantReadyAtBoundary(plan.trigger, FALSE)
                            ELSE assistantReadyAtBoundary(Leaf.trigger, Leaf.continuation.flag)
    <3>1. IsPlan(plan)
      BY PlanIs
    <3>2. ready.at = "assistant.ready"
      BY DEF assistantReadyAtBoundary
    <3> HIDE DEF ready
    <3>3. \/ plan.items # <<>> /\ ~PayloadsPresent(mem.inbox)
          \/ SettleCommit(PlacedStore(plan), PlacedMem(plan), WithLeaf(ready), TRUE) /\ Committed("loop", Null, 0)
          \/ /\ store' = store /\ ids' = ids /\ fault' = fault
             /\ \E arg : drive' = [drive EXCEPT !.pc = "finish.read", !.arg = arg]
      BY <1>3 DEF runCheckpoint, ready
    <3> HIDE DEF plan
    <3>4. QED
      BY <3>1, <3>2, <3>3
  <2>3. /\ SameRecords(store, PlacedStore(plan)) /\ LogFits(PlacedStore(plan).log, ids) /\ PlacedStore(plan).tip # Null
        /\ PlacedMem(plan).inbox = plan.inbox
        /\ plan.inbox \in Seq(InboxItem) /\ \A i \in DOMAIN plan.inbox : PendingEntry(plan.inbox[i].id) \in PlacedStore(plan).vals
        /\ PayloadsPresent(mem.inbox)
    BY <2>1, <2>2, PlacedFacts
  <2>4. CASE SettleCommit(PlacedStore(plan), PlacedMem(plan), WithLeaf(leaf), TRUE) /\ Committed("loop", Null, 0)
    <3>1. Goto("loop", Null) /\ ids' = ids /\ ids \in Nat /\ ids <= ids' /\ fault' = fault
      BY <2>4 DEF Committed, WorkInv, StoreWork, LogWork
    <3>2. PICK st : st = WithLeaf(leaf) /\ st.leaf = leaf
      BY <2>1, LeafFacts
    <3>3. LeafIs(st)'
      BY <2>2, <3>2, PlainLeaf
    <3>4. StoreWork' /\ State' = st
      BY <2>1, <2>3, <2>4, <3>1, <3>2, <3>3, GrownKeeps DEF TasksKept, NothingRuns
    <3>5. Phase # "running" \/ drive.seen # State'
      BY <2>1, <2>2, <3>2, <3>4 DEF SeenFor, AtLeaf, CheckPcs, SeenPcs
    <3>6. PhaseMap' = PhaseMap
      BY runCheckpointStep DEF TasksKept
    <3>7. QED
      BY <1>1, <3>1, <3>4, <3>5, <3>6, LoopWorks
  <2>5. CASE /\ store' = store /\ ids' = ids /\ fault' = fault
             /\ \E arg : drive' = [drive EXCEPT !.pc = "finish.read", !.arg = arg]
    <3>1. PICK arg : Goto("finish.read", arg)
      BY <2>5 DEF Goto
    <3>2. "checkpoint.commit" \in CheckPcs /\ "finish.read" \in CheckPcs /\ "finish.read" \notin {"start.commit"} \cup ReplyPcs \cup CancelPcs
      BY DEF CheckPcs, ReplyPcs, CancelPcs
    <3>3. Fits("finish.read", arg)
      BY <2>1, <3>2, LeafStays, PlainArg
    <3>4. QED
      BY <1>1, <2>5, <3>1, <3>3, GoesOn
  <2>6. QED
    BY <2>2, <2>3, <2>4, <2>5
<1>4. QED
  BY <1>2, <1>3

\* No operation changes phase when a commit keeps the control of its own.
LEMMA GrownPhase ==
  ASSUME StoreInv, mem # Null, Current # Null, NEW s, SameRecords(store, s), NEW m, NEW st, st.ctl = State.ctl,
         NEW patches \in BOOLEAN, SettleCommit(s, m, st, patches)
  PROVE  PhaseMap' = PhaseMap
<1>1. mem.op.id = Current /\ Current \in OpIds
  BY MemFacts
<1>2. store' = [s EXCEPT !.opState = [s.opState EXCEPT ![Current] = st],
                         !.lane = IF patches THEN durableLaneState(Current, m.inbox, mem.last) ELSE s.lane]
  BY <1>1 DEF SettleCommit, SameRecords, IsStore
<1>3. /\ store'.results = store.results /\ store'.opState = [store.opState EXCEPT ![Current] = st]
      /\ store'.lane = IF patches THEN durableLaneState(Current, m.inbox, mem.last) ELSE store.lane
  BY <1>2 DEF SameRecords, IsStore
<1>4. store'.lane.cur = store.lane.cur
  BY <1>3 DEF durableLaneState, Current
<1>5. \A op \in OpIds : PhaseOf(store', op) = PhaseOf(store, op)
  BY <1>1, <1>3, <1>4 DEF PhaseOf, Current, State, SameRecords, IsStore
<1>6. QED
  BY <1>5 DEF PhaseMap

\* The boundary at which a run may finish (boundary.ts finishRunBoundary).
LEMMA FinishBoundaryWorks ==
  ASSUME IndInv, WorkInv, TasksKept, finishRunBoundary
  PROVE  Works
<1>1. At("finish.commit") /\ "finish.commit" \notin JoinPcs \cup {"none", "begin", "done"}
  BY DEF finishRunBoundary, CancelledTurn, MainTurn, JoinPcs
<1>2. CASE CancelledTurn("finish.commit")
  BY <1>1, <1>2, CancelledWorks
<1>3. CASE ~CancelledTurn("finish.commit")
  <2>1. /\ mem # Null /\ Current # Null /\ SeenFor("finish.commit", drive.seen) /\ AtLeaf("finish.commit") /\ StoreInv
        /\ LeafIs(State) /\ CurrentLeaf = State.leaf /\ Leaf = CurrentLeaf /\ mem.op.st = State
    BY <1>1, AtWork
  <2> DEFINE plan  == planBoundaryInbox(TRUE)
             s     == PlacedStore(plan)
             m     == PlacedMem(plan)
             item  == <<Fresh(1), [type |-> "user"]>>
             ready == assistantReadyAtBoundary(plan.trigger, FALSE)
             again == assistantReadyAtBoundary(Fresh(1), FALSE)
  <2>2. IsPlan(plan)
    BY PlanIs
  <2>3. ready.at = "assistant.ready" /\ again.at = "assistant.ready"
    BY DEF assistantReadyAtBoundary
  <2>4. \/ plan.items # <<>> /\ ~PayloadsPresent(mem.inbox)
        \/ SettleCommit(s, m, WithLeaf(ready), TRUE) /\ Committed("loop", Null, 0)
        \/ SettleCommit(InsertEntries(s, <<item>>), [m EXCEPT !.tip = Fresh(1)], WithLeaf(again), TRUE) /\ Committed("loop", Null, 1)
        \/ m.tip = Null \/ (Leaf.continuation.flag /\ mem.op.st.latest = Null)
        \/ /\ \E record : SettleFinish(operationCleanupWrites(s), m, record)
           /\ Committed("done", "settled", 0)
    <3> HIDE DEF ready, again
    <3>1. QED
      BY <1>3 DEF finishRunBoundary, ready, again
  <2> HIDE DEF plan, ready, again
  <2>5. /\ SameRecords(store, s) /\ LogFits(s.log, ids) /\ s.tip # Null /\ m.tip = s.tip /\ m.inbox = plan.inbox
        /\ plan.inbox \in Seq(InboxItem) /\ \A i \in DOMAIN plan.inbox : PendingEntry(plan.inbox[i].id) \in s.vals
        /\ PayloadsPresent(mem.inbox)
    BY <2>1, <2>2, PlacedFacts
  <2>6. m.tip # Null /\ ~(Leaf.continuation.flag /\ mem.op.st.latest = Null)
    BY <2>1, <2>5 DEF AtLeaf, CheckPcs, LeafIs
  <2>7. ids \in Nat /\ IsStore(s)
    BY <2>5 DEF WorkInv, StoreWork, LogWork, SameRecords
  <2>8. PICK st : st = WithLeaf(ready) /\ st.leaf = ready /\ st.ctl = State.ctl
    BY <2>1, LeafFacts
  <2>9. PICK ts : ts = WithLeaf(again) /\ ts.leaf = again /\ ts.ctl = State.ctl
    BY <2>1, LeafFacts
  <2>10. LeafIs(st)' /\ LeafIs(ts)'
    BY <2>3, <2>8, <2>9, PlainLeaf
  <2>11. \A u : u.leaf.at = "assistant.ready" => Phase # "running" \/ drive.seen # u
    BY <2>1 DEF SeenFor, AtLeaf, CheckPcs, SeenPcs
  <2> DEFINE t == InsertEntries(s, <<item>>)
             n == [m EXCEPT !.tip = Fresh(1)]
  <2>12. n.inbox = plan.inbox
    <3>1. mem = [tip |-> mem.tip, cfg |-> mem.cfg, inbox |-> mem.inbox, last |-> mem.last, op |-> mem.op]
      BY <2>1 DEF StoreInv, Coherent, restoreLaneState
    <3>2. m = [tip |-> m.tip, cfg |-> m.cfg, inbox |-> m.inbox, last |-> m.last, op |-> m.op]
      <4> DEFINE tip == TipAfter(mem.tip, pendingEntryWrite(plan.items))
                 inbox == plan.inbox
      <4>1. m = [mem EXCEPT !.tip = tip, !.inbox = inbox]
        BY <3>1 DEF PlacedMem
      <4> HIDE DEF tip, inbox, m
      <4>2. QED
        BY <3>1, <4>1
    <3> HIDE DEF m
    <3>3. QED
      BY <2>5, <3>2
  <2>13. t.log = s.log \o ChainEntries(s.tip, <<item>>) /\ t.tip = TipAfter(s.tip, <<item>>) /\ t.vals = s.vals /\ SameRecords(s, t)
    BY <2>7, InsertFacts
  <2>14. SameRecords(store, t)
    BY <2>5, <2>13 DEF SameRecords
  <2>15. t.tip = ids + 1 /\ t.tip # Null
    BY <2>7, <2>13, NullAssumption DEF TipAfter, Last, Fresh
  <2>16. LogFits(t.log, ids + 1)
    <3>1. <<item>>[1][1] = ids + 1 /\ DOMAIN <<item>> = 1..1
      BY DEF Fresh
    <3> DEFINE one == <<item>>
    <3>2. one[1][1] = ids + 1 /\ DOMAIN one = 1..1
      BY <3>1
    <3>3. t.log = s.log \o ChainEntries(s.tip, one)
      BY <2>13
    <3> HIDE DEF one
    <3>4. \A k \in DOMAIN one : one[k][1] \in HostIds \cup 1..(ids + 1)
      BY <2>7, <3>2
    <3>5. ids + 1 \in Nat /\ ids <= ids + 1 /\ 1 \in Nat /\ ids \in Nat
      BY <2>7
    <3>6. LogFits(s.log, ids) /\ DOMAIN one = 1..1
      BY <2>5, <3>2
    <3>7. LogFits(s.log \o ChainEntries(s.tip, one), ids + 1)
      BY <3>4, <3>5, <3>6, GrowLogFits
    <3>8. QED
      BY <3>3, <3>7
  <2> HIDE DEF s, m, t, n, item
  <2>17. CASE SettleCommit(s, m, WithLeaf(ready), TRUE) /\ Committed("loop", Null, 0)
    <3>1. Goto("loop", Null) /\ ids' = ids /\ ids' \in Nat /\ ids <= ids' /\ fault' = fault
      BY <2>7, <2>17 DEF Committed
    <3>2. SettleCommit(s, m, st, TRUE)
      BY <2>8, <2>17
    <3>3. StoreWork' /\ State' = st
      BY <2>1, <2>5, <2>10, <3>1, <3>2, GrownKeeps DEF TasksKept, NothingRuns
    <3>4. PhaseMap' = PhaseMap
      BY <2>1, <2>5, <2>8, <3>2, GrownPhase
    <3>5. QED
      BY <1>1, <2>3, <2>8, <2>11, <3>1, <3>4, <3>3, LoopWorks
  <2>18. CASE SettleCommit(t, n, WithLeaf(again), TRUE) /\ Committed("loop", Null, 1)
    <3>1. Goto("loop", Null) /\ ids' = ids + 1 /\ ids' \in Nat /\ ids <= ids' /\ fault' = fault
      BY <2>7, <2>18 DEF Committed
    <3>2. LogFits(t.log, ids') /\ n.inbox = plan.inbox /\ \A i \in DOMAIN plan.inbox : PendingEntry(plan.inbox[i].id) \in t.vals
      BY <2>5, <2>12, <2>13, <2>16, <3>1
    <3>3. SettleCommit(t, n, ts, TRUE)
      BY <2>9, <2>18
    <3>4. StoreWork' /\ State' = ts
      BY <2>1, <2>5, <2>14, <2>15, <2>10, <3>1, <3>2, <3>3, GrownKeeps DEF TasksKept, NothingRuns
    <3>5. PhaseMap' = PhaseMap
      BY <2>1, <2>9, <2>14, <3>3, GrownPhase
    <3>6. QED
      BY <1>1, <2>3, <2>9, <2>11, <3>1, <3>5, <3>4, LoopWorks
  <2>19. CASE /\ \E record : SettleFinish(operationCleanupWrites(s), m, record)
              /\ Committed("done", "settled", 0)
    <3>1. Goto("done", "settled") /\ ids' = ids /\ ids' \in Nat /\ ids <= ids' /\ fault' = fault
      BY <2>7, <2>19 DEF Committed
    <3>2. m.inbox \in Seq(InboxItem) /\ \A i \in DOMAIN m.inbox : PendingEntry(m.inbox[i].id) \in s.vals
      BY <2>5
    <3>3. LogWork' /\ InboxWork' /\ RunsWork' /\ Current' = Null
      BY <1>1, <2>5, <2>7, <2>19, <3>1, <3>2, FinishKeeps
    <3>4. QED
      BY <1>1, <3>1, <3>3, DoneWorks
  <2>20. QED
    BY <2>4, <2>5, <2>6, <2>17, <2>18, <2>19 DEF t, n
<1>4. QED
  BY <1>2, <1>3

-----------------------------------------------------------------------------
(* The answer of a request becomes an entry (response.ts).                 *)

\* What a planned batch starts with.
LEMMA PlannedBatch ==
  ASSUME LogWork, RunsWork, NEW rid \in Minted, NEW names \in Seq(ToolNames), names # <<>>,
         ids' = ids + Len(names), executed' = executed, NEW calls, calls = PlannedCalls(names)
  PROVE  CallsWork(rid, calls)' /\ CallValues(rid, calls)' /\ DOMAIN calls = DOMAIN names
<1> DEFINE n == Len(names)
<1>1. n \in Nat /\ n # 0 /\ DOMAIN names = 1..n /\ ids \in Nat /\ ids' \in Nat
  BY LenProperties, EmptySeq DEF LogWork
<1>2. calls = [i \in 1..n |-> [status |-> "planned", result |-> ids + i, replay |-> "never",
                                terminate |-> FALSE, outcome |-> Null]]
  BY <1>1 DEF PlannedCalls, Fresh
<1>3. calls = [i \in 1..n |-> calls[i]]
  BY <1>2
<1>4. calls \in Seq({calls[i] : i \in 1..n}) /\ Len(calls) = n /\ DOMAIN calls = 1..n
  BY <1>1, <1>3, FunctionIsSeq
<1>5. \A i \in 1..n : calls[i].status = "planned" /\ calls[i].result = ids + i /\ IsCall(calls[i])
  BY <1>2 DEF IsCall, Unsettled
<1>6. \A i \in 1..n : ids + i \in 1..ids' /\ ids + i \notin Minted
  BY <1>1 DEF Minted
<1>7. CallsWork(rid, calls)'
  <2>1. \A i \in DOMAIN calls : IsCall(calls[i]) /\ calls[i].result \in Minted' /\ calls[i].result # rid
    BY <1>4, <1>5, <1>6 DEF Minted
  <2>2. \A i, j \in DOMAIN calls : calls[i].result = calls[j].result => i = j
    BY <1>1, <1>4, <1>5
  <2>3. 1 \in DOMAIN calls /\ calls[1].status # "completed"
    BY <1>1, <1>4, <1>5
  <2>4. Len(calls) \in Nat /\ calls = [i \in 1..Len(calls) |-> calls[i]]
    BY <1>1, <1>3, <1>4
  <2>5. QED
    BY <2>1, <2>2, <2>3, <2>4 DEF CallsWork
<1>8. CallValues(rid, calls)'
  <2>1. \A i \in DOMAIN calls : \A e \in executed' : e.call # calls[i].result
    BY <1>4, <1>5, <1>6 DEF RunsWork
  <2>2. QED
    BY <1>4, <1>5, <2>1 DEF CallValues
<1>9. QED
  BY <1>1, <1>4, <1>7, <1>8

\* The leaves an answer leads to.
LEMMA DispositionIs ==
  ASSUME NEW r, NEW recovery
  PROVE  LET d == Disposition(r, recovery)
         IN  \/ d.leaf = FailedRun
             \/ d.leaf = Checkpoint(MayFinish(TRUE), Leaf.response)
             \/ d.stop = "deferred" /\ \E poll, cfg : d.leaf = Suspended(Leaf.response, poll, cfg)
             \/ d.leaf.at = "assistant.retry_wait"
             \/ /\ r.calls # <<>>
                /\ \E cfg : d.leaf = [at |-> "tools", assistant |-> Leaf.response, cfg |-> cfg, calls |-> PlannedCalls(r.calls)]
<1>1. CASE Cancelled
  BY <1>1 DEF Disposition
<1>2. CASE ~Cancelled /\ r.stop \in {"deferred", "error"}
  BY <1>2 DEF Disposition
<1>3. CASE ~Cancelled /\ r.stop \notin {"deferred", "error"}
  BY <1>3 DEF Disposition
<1>4. QED
  BY <1>1, <1>2, <1>3

\* The entry with this id and body is there.
IsPlaced(id, body) == \E e \in ToSet(store.log) : OnlyEntry(id, e) /\ e.body = body

\* The response is the only entry with the id its request reserved.
LEMMA ResponseIsNew ==
  ASSUME LogWork, NEW rid \in Minted \ LogIds, NEW body, NEW n \in Nat,
         NEW items, DOMAIN items = 1..n, DOMAIN items = {1}, items[1][1] = rid, items[1][2] = body,
         ids' \in Nat, ids <= ids', store'.log = store.log \o ChainEntries(store.tip, items)
  PROVE  LogWork' /\ rid \in Minted' /\ IsPlaced(rid, body)'
<1>1. 1 \in DOMAIN items /\ \A k \in DOMAIN items : k = 1
  OBVIOUS
<1>2. rid \in 1..ids' /\ rid \in Minted'
  BY DEF LogWork, Minted
<1>3. \A k \in DOMAIN items : items[k][1] \in HostIds \cup 1..ids'
  BY <1>1, <1>2
<1> DEFINE new == ChainEntries(store.tip, items)[1]
<1>4. /\ LogWork'
      /\ \A e \in ToSet(store'.log) :
           \/ e \in ToSet(store.log)
           \/ \E k \in DOMAIN items : e = ChainEntries(store.tip, items)[k] /\ e.id = items[k][1] /\ e.body = items[k][2]
      /\ \A k \in DOMAIN items : \E e \in ToSet(store'.log) : e.id = items[k][1] /\ e.body = items[k][2]
  BY <1>3, GrowLog
<1>5. /\ \A e \in ToSet(store'.log) : e \in ToSet(store.log) \/ (e = new /\ e.id = rid /\ e.body = body)
      /\ \E e \in ToSet(store'.log) : e.id = rid /\ e.body = body
  BY <1>1, <1>4
<1> HIDE DEF new
<1>6. PICK e \in ToSet(store'.log) : e.id = rid /\ e.body = body
  BY <1>5
<1>7. \A f \in ToSet(store'.log) : f.id = rid => f = new
  BY <1>5 DEF LogIds
<1>8. OnlyEntry(rid, e)'
  BY <1>6, <1>7 DEF OnlyEntry
<1>9. QED
  BY <1>2, <1>4, <1>6, <1>8 DEF IsPlaced

\* The store with the answer and its usage row, and that store without some values.
IsAnswered(rid, items, gone, s, kept) ==
  /\ TipAfter(store.tip, items) = rid
  /\ s = WithUsage(InsertEntries(store, items), rid)
  /\ kept = [s EXCEPT !.vals = s.vals \ gone]

\* A store with the records of another one.
StoreIs(s, base, log, tip, vals) == SameRecords(base, s) /\ s.log = log /\ s.tip = tip /\ s.vals = vals

\* What they hold.
LEMMA AnsweredStore ==
  ASSUME IsStore(store), NEW rid, NEW items, NEW s, NEW gone, NEW kept, IsAnswered(rid, items, gone, s, kept)
  PROVE  /\ StoreIs(s, store, store.log \o ChainEntries(store.tip, items), rid, store.vals)
         /\ StoreIs(kept, store, s.log, rid, store.vals \ gone)
<1> DEFINE u == InsertEntries(store, items)
<1>1. u.log = store.log \o ChainEntries(store.tip, items) /\ u.tip = rid /\ u.vals = store.vals /\ SameRecords(store, u)
  BY InsertFacts DEF IsAnswered
<1>2. s = WithUsage(u, rid)
  BY DEF IsAnswered
<1> HIDE DEF u
<1>3. s = [u EXCEPT !.usage = Append(u.usage, rid)] /\ IsStore(u)
  BY <1>1, <1>2 DEF WithUsage, SameRecords, IsStore
<1>4. s.log = u.log /\ s.tip = u.tip /\ s.vals = u.vals
  BY <1>3 DEF IsStore
<1>5. SameRecords(store, s)
  <2>1. SameRecords(u, s)
    BY <1>2, <1>3, UsageStore
  <2>2. QED
    BY <1>1, <2>1 DEF SameRecords
<1>6. IsStore(s) /\ kept = [s EXCEPT !.vals = s.vals \ gone]
  BY <1>5 DEF SameRecords, IsAnswered
<1>7. kept.log = s.log /\ kept.tip = s.tip /\ kept.vals = s.vals \ gone
  BY <1>6 DEF IsStore
<1>8. SameRecords(s, kept)
  BY <1>6, ValsStore
<1>9. QED
  BY <1>1, <1>4, <1>5, <1>7, <1>8 DEF SameRecords, StoreIs

\* The leaf an answer leads to holds what its procedures rely on.
LEMMA AnsweredLeaf ==
  ASSUME LogWork, RunsWork, NEW r, r.calls \in Seq(ToolNames), NEW recovery, NEW d, d = Disposition(r, recovery),
         NEW rid \in Minted \ LogIds, rid = Leaf.response, d.leaf # FailedRun, NEW st, st.leaf = d.leaf, st.latest = rid,
         ids' = ids + (IF d.leaf.at = "tools" THEN Len(r.calls) ELSE 0), ids' \in Nat, ids <= ids', executed' = executed,
         IsPlaced(rid, [type |-> "assistant", stop |-> d.stop, calls |-> r.calls])',
         rid \in Minted'
  PROVE  /\ LeafIs(st)' /\ st.leaf.at \in {"checkpoint", "deferred.suspended", "assistant.retry_wait", "tools"}
         /\ st.leaf.at = "deferred.suspended" => st.leaf.source = rid
<1>1. PICK e \in ToSet(store'.log) : OnlyEntry(rid, e)' /\ e.body.type = "assistant" /\ e.body.stop = d.stop /\ e.body.calls = r.calls
  BY DEF IsPlaced
<1>2. rid # Null
  BY NullAssumption DEF Minted, LogWork
<1>3. CASE d.leaf = Checkpoint(MayFinish(TRUE), rid)
  <2>1. st.leaf.at = "checkpoint"
    BY <1>3 DEF Checkpoint
  <2>2. QED
    BY <1>2, <2>1 DEF LeafIs, Leaves, Pending, Deferred
<1>4. CASE d.stop = "deferred" /\ \E poll, cfg : d.leaf = Suspended(rid, poll, cfg)
  <2>1. st.leaf.at = "deferred.suspended" /\ st.leaf.source = rid
    BY <1>4 DEF Suspended
  <2>2. DeferredWork(rid)'
    BY <1>1, <1>4 DEF DeferredWork
  <2>3. DeferredWork(st.leaf.source)'
    BY <2>1, <2>2
  <2>4. QED
    BY <2>1, <2>3 DEF LeafIs, Leaves, Pending, Deferred
<1>5. CASE d.leaf.at = "assistant.retry_wait"
  BY <1>5, PlainLeaf
<1>6. CASE /\ r.calls # <<>>
           /\ \E cfg : d.leaf = [at |-> "tools", assistant |-> rid, cfg |-> cfg, calls |-> PlannedCalls(r.calls)]
  <2>1. PICK calls : calls = PlannedCalls(r.calls)
    OBVIOUS
  <2>2. /\ st.leaf.at = "tools" /\ st.leaf.assistant = rid /\ st.leaf.calls = calls
        /\ st.leaf = [at |-> "tools", assistant |-> st.leaf.assistant, cfg |-> st.leaf.cfg, calls |-> st.leaf.calls]
    BY <1>6, <2>1
  <2>3. ids' = ids + Len(r.calls)
    BY <2>2
  <2>4. CallsWork(rid, calls)' /\ CallValues(rid, calls)' /\ DOMAIN calls = DOMAIN r.calls
    <3>1. rid \in Minted
      OBVIOUS
    <3>2. PICK names \in Seq(ToolNames) : names = r.calls
      OBVIOUS
    <3>3. names # <<>> /\ ids' = ids + Len(names) /\ calls = PlannedCalls(names)
      BY <1>6, <2>1, <2>3, <3>2
    <3>4. QED
      BY <3>1, <3>2, <3>3, PlannedBatch
  <2>5. SourceWork(rid, calls)'
    BY <1>1, <2>4 DEF SourceWork
  <2>6. BatchWork(st.leaf)'
    BY <2>2, <2>4, <2>5 DEF BatchWork
  <2>7. QED
    BY <2>2, <2>6 DEF LeafIs, Leaves, Pending, Deferred
<1>7. QED
  BY <1>3, <1>4, <1>5, <1>6, DispositionIs

\* The answer of a request is published (response.ts).
LEMMA PublishWorks ==
  ASSUME IndInv, WorkInv, TasksKept, publishResponse
  PROVE  Works
<1>1. At("publish") /\ "publish" \notin JoinPcs \cup {"none", "begin", "done"}
  BY DEF publishResponse, MainTurn, JoinPcs
<1>2. /\ mem # Null /\ Current # Null /\ SeenFor("publish", drive.seen) /\ AtLeaf("publish") /\ StoreInv
      /\ ArgFor("publish", drive.arg) /\ Phase = (IF Cancelled THEN "cancelling" ELSE "running")
      /\ LeafIs(State) /\ Leaf = CurrentLeaf /\ CurrentLeaf = State.leaf /\ mem.op.st = State /\ IsState(State)
      /\ mem.inbox = store.lane.inbox
  BY <1>1, AtWork, MemFacts
<1>3. LogWork /\ RunsWork /\ InboxWork /\ IsStore(store) /\ ids \in Nat
  BY <1>2 DEF WorkInv, StoreWork, LogWork, StoreInv
<1>4. Leaf.at \in Pending /\ Leaf.response \in Minted \ LogIds
  BY <1>2 DEF AtLeaf, RequestPcs, LeafIs
<1> DEFINE R == drive.arg.reply
           D == Disposition(R, drive.arg.recovery)
           B == [type |-> "assistant", stop |-> D.stop, calls |-> R.calls]
           I == << <<Leaf.response, B>> >>
           S == WithUsage(InsertEntries(store, I), Leaf.response)
           K == [S EXCEPT !.vals = S.vals \ FramesOf(mem.op.id, Leaf)]
           M == [mem EXCEPT !.tip = Leaf.response]
           T == [mem.op.st EXCEPT !.latest = Leaf.response, !.leaf = D.leaf]
<1>5. ~(~Cancelled /\ R.stop = "aborted") /\ R.calls \in Seq(ToolNames)
  BY <1>2 DEF ArgFor, ReplyPcs
<1>6. \/ /\ D.leaf = FailedRun
         /\ \E record : SettleFinish(operationCleanupWrites(S), M, record)
         /\ Committed("done", "settled", 0)
      \/ /\ D.leaf # FailedRun
         /\ SettleCommit([S EXCEPT !.vals = @ \ FramesOf(mem.op.id, Leaf)], M, T, FALSE)
         /\ Committed("loop", Null, IF D.leaf.at = "tools" THEN Len(R.calls) ELSE 0)
  <2> HIDE DEF D
  <2>1. QED
    BY <1>5 DEF publishResponse, D
<1>7. SameRecords(store, S)
  <2> DEFINE U == InsertEntries(store, I)
  <2>1. SameRecords(store, U)
    BY <1>3, InsertStore
  <2> HIDE DEF U
  <2>2. SameRecords(U, WithUsage(U, Leaf.response))
    BY <2>1, UsageStore DEF SameRecords
  <2>3. SameRecords(store, WithUsage(U, Leaf.response))
    BY <2>1, <2>2 DEF SameRecords
  <2>4. QED
    BY <2>3 DEF U
<1>8. K = [S EXCEPT !.vals = @ \ FramesOf(mem.op.id, Leaf)]
  <2> HIDE DEF S
  <2>1. QED
    BY <1>7 DEF SameRecords, IsStore
<1>9. PICK rid \in Minted \ LogIds : rid = Leaf.response
  BY <1>4
<1>10. PICK r, recovery, d : r = R /\ recovery = drive.arg.recovery /\ d = Disposition(r, recovery)
  OBVIOUS
<1>11. PICK body, items : body = B /\ items = I
  OBVIOUS
<1>12. PICK s, gone, kept : s = S /\ gone = FramesOf(mem.op.id, Leaf) /\ kept = K
  OBVIOUS
<1>13. PICK st : st = T
  OBVIOUS
<1>14. PICK m : m = M
  OBVIOUS
<1>15. /\ SameRecords(store, s) /\ s.log = store.log \o ChainEntries(store.tip, items) /\ s.tip = rid /\ s.vals = store.vals
       /\ SameRecords(store, kept) /\ kept.log = s.log /\ kept.tip = rid /\ kept.vals = store.vals \ gone
  <2>1. TipAfter(store.tip, items) = rid
    BY <1>9, <1>11 DEF TipAfter, Last
  <2>2. s = WithUsage(InsertEntries(store, items), rid)
    BY <1>9, <1>11, <1>12
  <2>3. kept = [s EXCEPT !.vals = s.vals \ gone]
    BY <1>12
  <2>4. IsAnswered(rid, items, gone, s, kept)
    BY <2>1, <2>3, <2>2 DEF IsAnswered
  <2>5. /\ StoreIs(s, store, store.log \o ChainEntries(store.tip, items), rid, store.vals)
        /\ StoreIs(kept, store, s.log, rid, store.vals \ gone)
    BY <1>3, <2>4, AnsweredStore
  <2>6. QED
    BY <2>5 DEF StoreIs
<1>16. DOMAIN items = {1} /\ items[1][1] = rid /\ items[1][2] = body
  BY <1>9, <1>11
<1>17. PICK n \in Nat : DOMAIN items = 1..n
  <2>1. DOMAIN items = 1..1
    BY <1>11
  <2>2. QED
    BY <2>1
<1>18. body = [type |-> "assistant", stop |-> d.stop, calls |-> r.calls] /\ r.calls \in Seq(ToolNames)
  BY <1>5, <1>10, <1>11
<1>19. st = [State EXCEPT !.latest = rid, !.leaf = d.leaf]
  BY <1>2, <1>9, <1>10, <1>13
<1>20. st.leaf = d.leaf /\ st.latest = rid /\ st.ctl = State.ctl
  BY <1>2, <1>19 DEF IsState
<1>21. m.inbox = store.lane.inbox
  <2>1. mem = [tip |-> mem.tip, cfg |-> mem.cfg, inbox |-> mem.inbox, last |-> mem.last, op |-> mem.op]
    BY <1>2 DEF StoreInv, Coherent, restoreLaneState
  <2>2. m = [mem EXCEPT !.tip = rid]
    BY <1>9, <1>14
  <2>3. QED
    BY <1>2, <2>1, <2>2
<1>22. \/ /\ d.leaf = FailedRun
          /\ \E record : SettleFinish(operationCleanupWrites(s), m, record)
          /\ Committed("done", "settled", 0)
       \/ /\ d.leaf # FailedRun
          /\ SettleCommit(kept, m, st, FALSE)
          /\ Committed("loop", Null, IF d.leaf.at = "tools" THEN Len(r.calls) ELSE 0)
  BY <1>6, <1>8, <1>10, <1>12, <1>13, <1>14
<1> HIDE DEF R, D, B, I, S, K, M, T
<1>23. CASE /\ d.leaf = FailedRun
            /\ \E record : SettleFinish(operationCleanupWrites(s), m, record)
            /\ Committed("done", "settled", 0)
  <2>1. Goto("done", "settled") /\ ids' = ids /\ ids' \in Nat /\ ids <= ids' /\ fault' = fault
    BY <1>3, <1>23 DEF Committed
  <2>2. IsStore(s) /\ m.inbox \in Seq(InboxItem) /\ \A i \in DOMAIN m.inbox : PendingEntry(m.inbox[i].id) \in s.vals
    BY <1>3, <1>15, <1>21 DEF SameRecords, InboxWork
  <2>3. LogFits(s.log, ids')
    <3>1. LogFits(store.log, ids)
      BY <1>3, LogWorkFits
    <3>2. \A k \in DOMAIN items : items[k][1] \in HostIds \cup 1..ids'
      BY <1>16, <2>1 DEF Minted
    <3>3. LogFits(store.log \o ChainEntries(store.tip, items), ids')
      BY <1>3, <1>17, <2>1, <3>1, <3>2, GrowLogFits
    <3>4. QED
      BY <1>15, <3>3
  <2>4. LogWork' /\ InboxWork' /\ RunsWork' /\ Current' = Null
    BY <1>1, <1>23, <2>1, <2>2, <2>3, FinishKeeps
  <2>5. QED
    BY <1>1, <2>1, <2>4, DoneWorks
<1>24. CASE /\ d.leaf # FailedRun
            /\ SettleCommit(kept, m, st, FALSE)
            /\ Committed("loop", Null, IF d.leaf.at = "tools" THEN Len(r.calls) ELSE 0)
  <2>1. Goto("loop", Null) /\ ids' = ids + (IF d.leaf.at = "tools" THEN Len(r.calls) ELSE 0) /\ fault' = fault
    BY <1>24 DEF Committed
  <2>2. Len(r.calls) \in Nat
    BY <1>18, LenProperties
  <2>3. ids' \in Nat /\ ids <= ids'
    BY <1>3, <2>1, <2>2
  <2>4. store'.log = store.log \o ChainEntries(store.tip, items)
    BY <1>2, <1>15, <1>24, CommitFacts
  <2>5. LogWork' /\ rid \in Minted' /\ IsPlaced(rid, body)'
    BY <1>3, <1>9, <1>16, <1>17, <2>3, <2>4, ResponseIsNew
  <2>6. /\ LeafIs(st)' /\ st.leaf.at \in {"checkpoint", "deferred.suspended", "assistant.retry_wait", "tools"}
        /\ st.leaf.at = "deferred.suspended" => st.leaf.source = rid
    BY <1>3, <1>9, <1>10, <1>18, <1>20, <1>24, <2>1, <2>3, <2>5, AnsweredLeaf DEF TasksKept
  <2>7. LogFits(kept.log, ids') /\ kept.tip # Null
    <3>1. LogFits(store'.log, ids')
      BY <2>5 DEF LogWork, LogFits, LogIds, Minted
    <3>2. rid # Null
      BY <1>3, NullAssumption DEF Minted
    <3>3. QED
      BY <1>15, <2>4, <3>1, <3>2
  <2>8. store.lane.inbox \in Seq(InboxItem) /\ \A i \in DOMAIN store.lane.inbox : PendingEntry(store.lane.inbox[i].id) \in kept.vals
    <3>1. \A id \in HostIds : PendingEntry(id) \in store.vals => PendingEntry(id) \in kept.vals
      BY <1>12, <1>15, FramesNotQueued
    <3>2. QED
      BY <1>3, <3>1, QueuedIds DEF InboxWork
  <2>9. StoreWork' /\ State' = st
    BY <1>2, <1>15, <1>24, <2>3, <2>6, <2>7, <2>8, GrownKeeps DEF TasksKept, NothingRuns
  <2>10. PhaseMap' = PhaseMap
    BY <1>2, <1>15, <1>20, <1>24, GrownPhase
  <2>11. Phase # "running" \/ drive.seen # State'
    BY <1>2, <1>9, <2>6, <2>9 DEF SeenFor, RequestPcs, Pending, Deferred
  <2>12. QED
    BY <1>1, <2>1, <2>9, <2>10, <2>11, LoopWorks
<1>25. QED
  BY <1>22, <1>23, <1>24

\* The drive's steps over a run operation keep the invariant.
LEMMA RunWorks ==
  ASSUME IndInv, GateInv, WorkInv, TasksKept, RunStep
  PROVE  Works
BY CompleteWorks, AwaitCancellationWorks, BeginWorks, BeforeDriveWorks, DispatchWorks, RetryWaitWorks, RetryTimerWorks,
   RetryCommitWorks, StartReadWorks, BeforeRunWorks, StartCommitWorks, CheckpointWorks, TipReadWorks, PlainHookWorks,
   FinishBoundaryWorks, TerminalWorks, RequestIntentWorks, AdmitWorks, ProviderWorks, AnswerWorks, PublishWorks,
   RecoverWorks, PollReadWorks, PollIntentWorks, CancelHandleWorks, CancelRemoteWorks
   DEF RunStep

-----------------------------------------------------------------------------
(* The pass's steps over a batch.                                          *)

\* A pass at work on a batch.
LEMMA AtBatch ==
  ASSUME IndInv, WorkInv, NEW from \in BatchPcs \cup {"tools.source"}, At(from)
  PROVE  /\ mem # Null /\ Current # Null /\ StoreInv /\ IsDrive(drive) /\ drive.pc = from /\ drive.id \in OpIds
         /\ Phase = (IF Cancelled THEN "cancelling" ELSE "running")
         /\ Phase = "running" => drive.seen.leaf.at = "tools"
         /\ InBatch <=> BatchOpen
         /\ Leaf = CurrentLeaf /\ CurrentLeaf = State.leaf /\ Calls = DOMAIN CurrentLeaf.calls
         /\ BatchOpen => BatchWork(CurrentLeaf)
         /\ ReadyPrefix = Prefix(CurrentLeaf.calls)
<1>1. from \notin {"none", "begin", "done"}
  BY DEF BatchPcs
<1>2. /\ mem # Null /\ drive.id \in OpIds /\ IsDrive(drive) /\ drive.pc = from /\ Current # Null /\ StoreInv
      /\ Phase = (IF Cancelled THEN "cancelling" ELSE "running")
      /\ AtLeaf(from) /\ SeenFor(from, drive.seen) /\ LeafIs(State) /\ Busy
      /\ Leaf = CurrentLeaf /\ CurrentLeaf = State.leaf
  BY <1>1, AtWork
<1>3. Phase = "running" => drive.seen.leaf.at = "tools"
  BY <1>1, <1>2 DEF SeenFor, AtLeaf, SeenPcs
<1>4. BatchOpen => BatchWork(CurrentLeaf)
  BY <1>2 DEF LeafIs, BatchOpen
<1>5. ReadyPrefix = Prefix(CurrentLeaf.calls)
  BY <1>2 DEF ReadyPrefix, Prefix, Calls, Call
<1>6. QED
  BY <1>2, <1>3, <1>4, <1>5 DEF InBatch, BatchOpen, Calls

\* The pass takes another step over its batch.
LEMMA BatchGoesOn ==
  ASSUME IndInv, WorkInv, NEW from \in BatchPcs \cup {"tools.source"}, At(from), Unwritten, fault' = fault, SamePass,
         NEW pc \in BatchPcs, drive'.pc = pc, drive'.seen = drive.seen, TurnFor(pc, drive'.arg), TaskWork'
  PROVE  Works
<1>1. drive.pc = from /\ (Phase = "running" => drive.seen.leaf.at = "tools")
  BY AtBatch
<1>2. AtLeaf(pc) /\ ArgFor(pc, drive'.arg) /\ OutcomeFor(pc, drive'.arg)
  BY DEF BatchPcs, AtLeaf, ArgFor, OutcomeFor, StartPcs, CheckPcs, ReadyPcs, RetryPcs, DeferPcs, RequestPcs, ReplyPcs, CancelPcs
<1>3. SeenFor(pc, drive'.seen)
  BY <1>1 DEF BatchPcs, SeenFor, StartPcs, CheckPcs, ReadyPcs, RetryPcs, DeferPcs, RequestPcs, SeenPcs
<1>4. Inner(drive.pc)
  BY <1>1 DEF Inner, BatchPcs
<1>5. PassWork'
  BY <1>2, <1>3, <1>4, MovedWork DEF WorkInv
<1>6. StoreWork'
  BY KeepStoreWork DEF WorkInv
<1>7. QED
  BY <1>5, <1>6 DEF Works, WorkInv, Sound

\* Tasks that rest.
LEMMA RestedTasks ==
  ASSUME \A i \in DOMAIN jobs' : jobs'[i].pc = "none", drive'.pc # "sequential.join",
         drive'.pc \in BatchPcs /\ BatchOpen' => DOMAIN jobs' = DOMAIN CurrentLeaf'.calls
  PROVE  TaskWork'
<1>1. \A i \in DOMAIN jobs' : TaskFits(i)'
  BY DEF TaskFits, OpenTasks, PlannedTasks, StartedTasks
<1>2. QED
  BY <1>1 DEF TaskWork, OneAtATime

\* The pass leaves its batch for its loop.
LEMMA BatchLeft ==
  ASSUME IndInv, WorkInv, TasksKept, NEW from \in BatchPcs \ JoinPcs, At(from), store' = store, ids' = ids, fault' = fault,
         ~BatchOpen, NEW arg, Goto("loop", arg)
  PROVE  Works
<1>1. from \notin JoinPcs \cup {"none", "begin", "done"}
  BY DEF BatchPcs
<1>2. Phase # "running" \/ drive.seen # State
  BY AtBatch DEF BatchOpen
<1>3. QED
  BY <1>1, <1>2, LoopFits, GoesOn

\* The first call of a batch that is not completed.
LEMMA FirstOpen ==
  ASSUME NEW assistant, NEW calls, CallsWork(assistant, calls)
  PROVE  \E i \in DOMAIN calls : /\ calls[i].status # "completed"
                                 /\ \A j \in 1..(i - 1) : j \in DOMAIN calls /\ calls[j].status = "completed"
<1>1. Len(calls) \in Nat /\ DOMAIN calls = 1..Len(calls)
  BY DEF CallsWork
<1> DEFINE T == {i \in DOMAIN calls : calls[i].status # "completed"}
<1>2. T \in SUBSET Nat /\ T # {}
  BY <1>1 DEF CallsWork
<1>3. PICK i \in T : \A j \in T : i <= j
  BY <1>2, LeastNat
<1>4. \A j \in 1..(i - 1) : j \in DOMAIN calls /\ ~(i <= j)
  BY <1>1, <1>3
<1>5. QED
  BY <1>3, <1>4

\* The batch finds the response it answers (tools.ts).
LEMMA SourceReadWorks ==
  ASSUME IndInv, WorkInv, readToolBatchSource
  PROVE  Works
<1>1. At("tools.source") /\ "tools.source" \notin {"none", "begin", "done"}
  BY DEF readToolBatchSource, MainTurn
<1>2. BatchOpen /\ BatchWork(CurrentLeaf) /\ Leaf = CurrentLeaf /\ Calls = DOMAIN CurrentLeaf.calls /\ IsDrive(drive)
  BY <1>1, AtBatch, AtWork DEF AtLeaf, BatchOpen
<1>3. PICK e : /\ OnlyEntry(Leaf.assistant, e) /\ e.body.type = "assistant"
               /\ DOMAIN Leaf.calls \subseteq DOMAIN e.body.calls
  BY <1>2 DEF BatchWork, SourceWork
<1>4. Entry(store, Leaf.assistant) = e /\ HasEntry(store, Leaf.assistant)
  BY <1>3, EntryIs
<1>5. /\ drive' = [drive EXCEPT !.pc = "place.read", !.arg = BatchArg("tools.begin")]
      /\ jobs' = [i \in Calls |-> NoJob]
      /\ UNCHANGED <<store, mem, idle, ids, sent, fault, executed, reexecuted>>
  BY <1>3, <1>4 DEF readToolBatchSource, Calls
<1>6. SamePass /\ drive'.pc = "place.read" /\ drive'.arg = BatchArg("tools.begin") /\ drive'.seen = drive.seen
  BY <1>2, <1>5 DEF IsDrive, SamePass
<1>7. TurnFor("place.read", drive'.arg)
  BY <1>6 DEF TurnFor, BatchArg
<1>8. Unwritten /\ fault' = fault /\ CurrentLeaf' = CurrentLeaf
  BY <1>5 DEF Unwritten, CurrentLeaf, Current
<1>9. TaskWork'
  BY <1>2, <1>5, <1>6, <1>8, RestedTasks DEF NoJob, Job
<1>10. QED
  BY <1>1, <1>6, <1>7, <1>8, <1>9, BatchGoesOn DEF BatchPcs

\* Tasks rest while the pass is neither at a join nor leaving one.
LEMMA TasksRest ==
  ASSUME WorkInv, drive.pc \in BatchPcs \ JoinPcs, jobs' = jobs, drive'.pc # "sequential.join",
         drive'.pc \in BatchPcs /\ BatchOpen' => BatchOpen /\ DOMAIN CurrentLeaf'.calls = DOMAIN CurrentLeaf.calls
  PROVE  TaskWork'
<1>1. \A i \in DOMAIN jobs' : jobs'[i].pc = "none"
  BY DEF WorkInv, TaskWork
<1>2. drive'.pc \in BatchPcs /\ BatchOpen' => DOMAIN jobs' = DOMAIN CurrentLeaf'.calls
  BY DEF WorkInv, TaskWork
<1>3. QED
  BY <1>1, <1>2, RestedTasks

\* The payload of every outcome about to be placed is there.
LEMMA StagedThere ==
  ASSUME BatchOpen => BatchWork(CurrentLeaf), InBatch <=> BatchOpen, Leaf = CurrentLeaf
  PROVE  ~PlacementFaults
<1> SUFFICES ASSUME NEW i \in PlacementReads PROVE PendingEntry(Call(i).result) \in store.vals
  BY DEF PlacementFaults
<1>1. InBatch /\ i \in DOMAIN CurrentLeaf.calls /\ CurrentLeaf.calls[i].status = "outcome_ready"
  BY DEF PlacementReads, ReadyPrefix, Calls, Call
<1>2. QED
  BY <1>1 DEF BatchWork, CallValues, Call

\* A placement looks for staged outcomes (tool-placement.ts readPlacement).
LEMMA PlacementReadWorks ==
  ASSUME IndInv, GateInv, WorkInv, readPlacement
  PROVE  Works
<1>1. At("place.read") /\ TasksKept
  BY DEF readPlacement, MainTurn, toolVars, TasksKept
<1>2. /\ BatchOpen => BatchWork(CurrentLeaf)
      /\ InBatch <=> BatchOpen
      /\ Leaf = CurrentLeaf /\ IsDrive(drive) /\ drive.pc = "place.read" /\ ReadyPrefix = Prefix(CurrentLeaf.calls)
  BY <1>1, AtBatch DEF BatchPcs
<1>3. IsBatchArg(drive.arg) /\ TurnFor("place.read", drive.arg)
  BY <1>2 DEF GateInv, PlacementReturns, WorkInv, PassWork, BatchPcs
<1>4. ~PlacementFaults
  BY <1>2, StagedThere
<1>5. store' = store /\ ids' = ids /\ fault' = fault /\ Unwritten /\ CurrentLeaf' = CurrentLeaf /\ (BatchOpen' <=> BatchOpen)
  BY <1>1, <1>4 DEF readPlacement, Unwritten, TasksKept, CurrentLeaf, Current, BatchOpen
<1>6. CASE PlacementReads # {}
  <2>1. BatchOpen /\ PlacementReads = Prefix(CurrentLeaf.calls)
    BY <1>2, <1>6 DEF PlacementReads
  <2>2. drive' = [drive EXCEPT !.pc = "place.commit", !.arg = [drive.arg EXCEPT !.items = PlacementReads]]
    BY <1>2, <1>4, <1>6 DEF readPlacement, IsDrive
  <2>3. SamePass /\ drive'.pc = "place.commit" /\ drive'.arg = [drive.arg EXCEPT !.items = PlacementReads] /\ drive'.seen = drive.seen
    BY <1>2, <2>2 DEF IsDrive, SamePass
  <2>4. /\ drive'.arg.turns = drive.arg.turns /\ drive'.arg.mode = drive.arg.mode /\ drive'.arg.after = drive.arg.after
        /\ drive'.arg.items = Prefix(CurrentLeaf.calls)
    BY <1>3, <2>1, <2>3 DEF IsBatchArg
  <2>5. TurnFor("place.commit", drive'.arg)
    BY <1>3, <2>1, <2>4 DEF TurnFor, BatchPcs, PlacePcs
  <2>6. TaskWork'
    BY <1>1, <1>2, <1>5, <2>3, TasksRest DEF TasksKept, BatchPcs, JoinPcs
  <2>7. QED
    BY <1>1, <1>5, <2>3, <2>5, <2>6, BatchGoesOn DEF BatchPcs
<1>7. CASE PlacementReads = {}
  <2>1. drive' = [drive EXCEPT !.pc = drive.arg.after]
    BY <1>4, <1>7 DEF readPlacement
  <2>2. SamePass /\ drive'.pc = drive.arg.after /\ drive'.arg = drive.arg /\ drive'.seen = drive.seen
        /\ Goto(drive.arg.after, drive.arg)
    BY <1>2, <2>1 DEF IsDrive, SamePass, Goto
  <2>3. BatchOpen => Prefix(CurrentLeaf.calls) = {}
    BY <1>2, <1>7 DEF PlacementReads
  <2>4. CASE drive.arg.after = "loop"
    <3>1. ~BatchOpen
      <4> SUFFICES ASSUME BatchOpen PROVE FALSE
        OBVIOUS
      <4>1. CallsWork(CurrentLeaf.assistant, CurrentLeaf.calls)
        BY <1>2 DEF BatchWork
      <4>2. PICK i \in DOMAIN CurrentLeaf.calls :
              /\ CurrentLeaf.calls[i].status # "completed"
              /\ \A j \in 1..(i - 1) : j \in DOMAIN CurrentLeaf.calls /\ CurrentLeaf.calls[j].status = "completed"
        BY <4>1, FirstOpen
      <4>3. CurrentLeaf.calls[i].status = "outcome_ready"
        BY <1>3, <2>4, <4>2 DEF TurnFor, BatchPcs, PlacePcs, Staged
      <4>4. i \in Nat
        BY <4>1 DEF CallsWork
      <4>5. \A j \in 1..i : j = i \/ j \in 1..(i - 1)
        BY <4>4
      <4>6. i \in Prefix(CurrentLeaf.calls)
        BY <4>2, <4>3, <4>5 DEF Prefix
      <4>7. QED
        BY <2>3, <4>6
    <3>2. QED
      BY <1>1, <1>5, <2>2, <2>4, <3>1, BatchLeft DEF BatchPcs, JoinPcs
  <2>5. CASE drive.arg.after = "sequential"
    <3>1. ASSUME BatchOpen, NEW i \in DOMAIN CurrentLeaf.calls, i <= drive.arg.turns
          PROVE CurrentLeaf.calls[i].status = "completed"
      <4>1. CallsWork(CurrentLeaf.assistant, CurrentLeaf.calls)
        BY <1>2, <3>1 DEF BatchWork
      <4>2. \A j \in 1..i : j \in DOMAIN CurrentLeaf.calls /\ j <= drive.arg.turns
        BY <1>3, <3>1, <4>1 DEF CallsWork, TurnFor, BatchPcs
      <4>3. \A j \in 1..i : CurrentLeaf.calls[j].status \in {"completed", "outcome_ready"}
        BY <1>3, <2>5, <3>1, <4>2 DEF TurnFor, BatchPcs, PlacePcs, Staged
      <4>4. CurrentLeaf.calls[i].status \in {"completed", "outcome_ready"}
        BY <1>3, <2>5, <3>1 DEF TurnFor, BatchPcs, PlacePcs, Staged
      <4>5. i \notin Prefix(CurrentLeaf.calls)
        BY <2>3, <3>1
      <4>6. QED
        BY <4>3, <4>4, <4>5 DEF Prefix
    <3>2. TurnFor("sequential", drive'.arg)
      BY <1>3, <2>2, <2>3, <2>5, <3>1 DEF TurnFor, BatchPcs, PlacePcs
    <3>3. TaskWork'
      BY <1>1, <1>2, <1>5, <2>2, <2>5, TasksRest DEF TasksKept, BatchPcs, JoinPcs
    <3>4. QED
      BY <1>1, <1>5, <2>2, <2>5, <3>2, <3>3, BatchGoesOn DEF BatchPcs
  <2>6. CASE drive.arg.after = "tools.begin"
    <3>1. TurnFor("tools.begin", drive'.arg)
      BY <1>3, <2>2, <2>6 DEF TurnFor, BatchPcs, PlacePcs
    <3>2. TaskWork'
      BY <1>1, <1>2, <1>5, <2>2, <2>6, TasksRest DEF TasksKept, BatchPcs, JoinPcs
    <3>3. QED
      BY <1>1, <1>5, <2>2, <2>6, <3>1, <3>2, BatchGoesOn DEF BatchPcs
  <2>7. QED
    BY <1>3, <2>4, <2>5, <2>6 DEF IsBatchArg, Returns
<1>8. QED
  BY <1>6, <1>7

\* The batch chooses how its calls run (tools.ts runTools).
LEMMA RunToolsWorks ==
  ASSUME IndInv, WorkInv, GateInv, runTools
  PROVE  Works
<1>1. At("tools.begin") /\ TasksKept
  BY DEF runTools, toolVars, TasksKept
<1>2. /\ BatchOpen => BatchWork(CurrentLeaf)
      /\ InBatch <=> BatchOpen
      /\ Leaf = CurrentLeaf /\ IsDrive(drive) /\ drive.pc = "tools.begin"
      /\ Phase = (IF Cancelled THEN "cancelling" ELSE "running")
  BY <1>1, AtBatch DEF BatchPcs
<1>3. IsBatchArg(drive.arg) /\ TurnFor("tools.begin", drive.arg)
  BY <1>2 DEF GateInv, PlacementReturns, WorkInv, PassWork, BatchPcs
<1>4. store' = store /\ ids' = ids /\ fault' = fault /\ Unwritten /\ CurrentLeaf' = CurrentLeaf /\ (BatchOpen' <=> BatchOpen)
  BY <1>1 DEF runTools, Unwritten, TasksKept, CurrentLeaf, Current, BatchOpen
<1>5. CASE ~InBatch
  BY <1>1, <1>2, <1>4, <1>5, BatchLeft DEF runTools, BatchPcs, JoinPcs
<1>6. CASE InBatch /\ (Cancelled \/ mem.op.st.settings.execution = "sequential")
  <2> DEFINE mode == IF Cancelled THEN "settle" ELSE "sequential"
  <2>1. drive' = [drive EXCEPT !.pc = "place.read", !.arg = [drive.arg EXCEPT !.after = "sequential", !.mode = mode]]
    BY <1>2, <1>3, <1>6 DEF runTools, IsDrive, IsBatchArg
  <2> HIDE DEF mode
  <2>2. SamePass /\ drive'.pc = "place.read" /\ drive'.seen = drive.seen
        /\ drive'.arg = [drive.arg EXCEPT !.after = "sequential", !.mode = mode]
    BY <1>2, <2>1 DEF IsDrive, SamePass
  <2>3. drive'.arg.turns = drive.arg.turns /\ drive'.arg.mode = mode /\ drive'.arg.after = "sequential"
    BY <1>3, <2>2 DEF IsBatchArg
  <2>4. drive.arg.turns = 0
    BY <1>3 DEF TurnFor, BatchPcs
  <2>5. \A i \in DOMAIN CurrentLeaf.calls : ~(i <= 0)
    BY <1>2, <1>6 DEF BatchWork, CallsWork
  <2>6. TurnFor("place.read", drive'.arg)
    BY <1>2, <2>3, <2>4, <2>5 DEF TurnFor, PlacePcs, mode
  <2>7. TaskWork'
    BY <1>1, <1>2, <1>4, <2>2, TasksRest DEF TasksKept, BatchPcs, JoinPcs
  <2>8. QED
    BY <1>1, <1>4, <2>2, <2>6, <2>7, BatchGoesOn DEF BatchPcs
<1>7. CASE InBatch /\ ~(Cancelled \/ mem.op.st.settings.execution = "sequential")
  <2>1. drive' = [drive EXCEPT !.pc = "parallel", !.arg = [drive.arg EXCEPT !.mode = "parallel"]]
    BY <1>2, <1>3, <1>7 DEF runTools, IsDrive, IsBatchArg
  <2>2. SamePass /\ drive'.pc = "parallel" /\ drive'.seen = drive.seen
        /\ drive'.arg = [drive.arg EXCEPT !.mode = "parallel"]
    BY <1>2, <2>1 DEF IsDrive, SamePass
  <2>3. drive'.arg.turns = drive.arg.turns /\ drive'.arg.mode = "parallel"
    BY <1>3, <2>2 DEF IsBatchArg
  <2>4. TurnFor("parallel", drive'.arg)
    BY <1>3, <2>3 DEF TurnFor, BatchPcs, PlacePcs
  <2>5. TaskWork'
    BY <1>1, <1>2, <1>4, <2>2, TasksRest DEF TasksKept, BatchPcs, JoinPcs
  <2>6. QED
    BY <1>1, <1>4, <2>2, <2>4, <2>5, BatchGoesOn DEF BatchPcs
<1>8. QED
  BY <1>5, <1>6, <1>7

\* The pass waits for its tasks.
LEMMA JoinStays ==
  ASSUME PassWork, drive.pc \in JoinPcs, drive' = drive, Phase' = Phase
  PROVE  PassWork'
<1>1. drive'.pc \in JoinPcs /\ drive'.pc \in BatchPcs
  BY DEF JoinPcs, BatchPcs
<1>2. AtLeaf(drive.pc)' /\ ArgFor(drive.pc, drive.arg)' /\ OutcomeFor(drive.pc, drive.arg)'
  BY <1>1 DEF JoinPcs, AtLeaf, ArgFor, OutcomeFor, StartPcs, CheckPcs, ReadyPcs, RetryPcs, DeferPcs, RequestPcs, ReplyPcs, CancelPcs
<1>3. SeenFor(drive.pc, drive.seen)'
  BY <1>1 DEF PassWork, JoinPcs, BatchPcs, SeenFor, StartPcs, CheckPcs, ReadyPcs, RetryPcs, DeferPcs, RequestPcs, SeenPcs
<1>4. SignalWork' /\ ModeWork'
  BY DEF PassWork, SignalWork, ModeWork
<1>5. TurnFor(drive.pc, drive.arg)'
  BY <1>1 DEF PassWork, TurnFor, JoinPcs, PlacePcs
<1>6. QED
  BY <1>2, <1>3, <1>4, <1>5 DEF PassWork

\* What the first step of a task takes for granted.
LEMMA FirstFits ==
  ASSUME BatchOpen, Leaf = CurrentLeaf, NEW i, Status(i) \in Unsettled, NEW cancelled, NEW job, job = FirstStep(i, cancelled)
  PROVE  /\ job.pc \in {"outcome", "before", "refused", "clear", "checkpoint"}
         /\ job.pc = "before" => Status(i) = "planned"
         /\ job.pc \in {"clear", "checkpoint"} => Status(i) = "effect_pending"
         /\ job.pc = "clear" => Tool(i) \in SafeTools
<1>1. Call(i).status = Status(i) /\ ToolOf(i) = Tool(i)
  BY DEF Call, Status, ToolOf, Tool
<1>2. CASE Status(i) = "planned"
  BY <1>1, <1>2 DEF FirstStep, Job
<1>3. CASE Status(i) = "effect_pending"
  BY <1>1, <1>3 DEF FirstStep, Job, Replays
<1>4. QED
  BY <1>2, <1>3 DEF Unsettled

\* A task that starts fits its call.
LEMMA StartedFits ==
  ASSUME BatchOpen, Leaf = CurrentLeaf, NEW i, Status(i) \in Unsettled, NEW cancelled,
         jobs'[i] = FirstStep(i, cancelled), store' = store, executed' = executed
  PROVE  TaskFits(i)' /\ jobs'[i].pc \notin {"none", "placing"}
<1>1. PICK job : job = FirstStep(i, cancelled) /\ jobs'[i] = job
  OBVIOUS
<1>2. /\ job.pc \in {"outcome", "before", "refused", "clear", "checkpoint"}
      /\ job.pc = "before" => Status(i) = "planned"
      /\ job.pc \in {"clear", "checkpoint"} => Status(i) = "effect_pending"
      /\ job.pc = "clear" => Tool(i) \in SafeTools
  BY <1>1, FirstFits
<1>3. BatchOpen' = BatchOpen /\ Status(i)' = Status(i) /\ Tool(i)' = Tool(i)
  BY DEF BatchOpen, Status, Tool, CurrentLeaf, Current, Entry
<1>4. QED
  BY <1>1, <1>2, <1>3 DEF TaskFits, OpenTasks, PlannedTasks, StartedTasks

\* The task of a call stays while another one moves.
LEMMA SameFits ==
  ASSUME NEW i, TaskFits(i), jobs'[i] = jobs[i], store' = store, executed' = executed
  PROVE  TaskFits(i)'
BY DEF TaskFits, BatchOpen, Status, Tool, CurrentLeaf, Current, Entry

\* The next call of a sequential batch (tools.ts runSequential).
LEMMA SequentialWorks ==
  ASSUME IndInv, GateInv, WorkInv, runSequential
  PROVE  Works
<1>1. At("sequential") /\ executed' = executed /\ reexecuted' = reexecuted
  BY DEF runSequential
<1>2. /\ BatchOpen => BatchWork(CurrentLeaf)
      /\ InBatch <=> BatchOpen
      /\ Leaf = CurrentLeaf /\ Calls = DOMAIN CurrentLeaf.calls /\ IsDrive(drive) /\ drive.pc = "sequential"
      /\ Phase = (IF Cancelled THEN "cancelling" ELSE "running")
  BY <1>1, AtBatch DEF BatchPcs
<1>3. IsBatchArg(drive.arg) /\ TurnFor("sequential", drive.arg)
  BY <1>2 DEF GateInv, PlacementReturns, WorkInv, PassWork, BatchPcs
<1>4. CASE ~InBatch
  <2>1. Goto("loop", Null) /\ store' = store /\ ids' = ids /\ fault' = fault /\ TasksKept
    BY <1>1, <1>4 DEF runSequential, TasksKept
  <2>2. QED
    BY <1>1, <1>2, <1>4, <2>1, BatchLeft DEF BatchPcs, JoinPcs
<1>5. CASE InBatch
  <2>1. /\ CallsWork(CurrentLeaf.assistant, CurrentLeaf.calls)
        /\ Len(CurrentLeaf.calls) \in Nat /\ DOMAIN CurrentLeaf.calls = 1..Len(CurrentLeaf.calls)
        /\ \A i \in DOMAIN CurrentLeaf.calls : Call(i) = CurrentLeaf.calls[i] /\ Status(i) = Call(i).status
    BY <1>2, <1>5 DEF BatchWork, CallsWork, Call, Status
  <2>2. \E i \in Calls : /\ Call(i).status # "completed"
                         /\ \A j \in 1..(i - 1) : Call(j).status = "completed"
    BY <1>2, <2>1, FirstOpen
  <2>3. PICK n \in Calls : /\ n = NextOpen /\ Call(n).status # "completed"
                           /\ \A j \in 1..(n - 1) : Call(j).status = "completed"
    BY <2>2 DEF NextOpen
  <2>4. n \in Nat /\ n <= Len(CurrentLeaf.calls) /\ drive.arg.turns \in Nat
    BY <1>2, <1>3, <2>1 DEF TurnFor, BatchPcs
  <2>5. ~(n <= drive.arg.turns)
    BY <1>2, <1>3, <1>5, <2>1, <2>3 DEF TurnFor, BatchPcs
  <2>6. Call(n).status # "outcome_ready"
    <3> SUFFICES ASSUME Call(n).status = "outcome_ready" PROVE FALSE
      OBVIOUS
    <3>1. \A j \in 1..n : j = n \/ j \in 1..(n - 1)
      BY <2>4
    <3>2. \A j \in 1..n : j \in DOMAIN CurrentLeaf.calls
      BY <1>2, <2>1, <2>4
    <3>3. n \in Prefix(CurrentLeaf.calls)
      BY <1>2, <2>1, <2>3, <3>1, <3>2 DEF Prefix
    <3>4. QED
      BY <1>2, <1>3, <1>5, <3>3 DEF TurnFor, BatchPcs
  <2>7. Status(n) \in Unsettled
    <3>1. IsCall(CurrentLeaf.calls[n])
      BY <1>2, <2>1, <2>3 DEF CallsWork
    <3>2. CurrentLeaf.calls[n].status \in Unsettled \cup Staged
      BY <3>1 DEF IsCall
    <3>3. QED
      BY <1>2, <2>1, <2>3, <2>6, <3>2 DEF Staged
  <2>8. ~(drive.arg.turns > 2 * Len(Leaf.calls) + 1) /\ ~(drive.arg.mode = "settle" /\ ~Cancelled)
    BY <1>2, <1>3, <2>4, <2>5 DEF TurnFor, BatchPcs
  <2>9. /\ jobs' = [jobs EXCEPT ![n] = FirstStep(n, Cancelled)]
        /\ drive' = [drive EXCEPT !.pc = "sequential.join", !.arg = [drive.arg EXCEPT !.turns = drive.arg.turns + 1]]
        /\ UNCHANGED <<store, mem, line, idle, ids, sent, fault>>
    <3>1. ~(\A i \in Calls : Call(i).status = "completed") /\ Call(NextOpen).status # "outcome_ready"
      BY <2>3, <2>6
    <3>2. /\ jobs' = [jobs EXCEPT ![NextOpen] = FirstStep(NextOpen, Cancelled)]
          /\ drive' = [drive EXCEPT !.pc = "sequential.join", !.arg.turns = @ + 1]
          /\ UNCHANGED <<store, mem, line, idle, ids, sent, fault>>
      BY <1>5, <2>8, <3>1 DEF runSequential
    <3>3. QED
      BY <1>2, <1>3, <2>3, <3>2 DEF IsDrive, IsBatchArg
  <2>10. SamePass /\ drive'.pc = "sequential.join" /\ drive'.seen = drive.seen
         /\ drive'.arg = [drive.arg EXCEPT !.turns = drive.arg.turns + 1]
    BY <1>2, <2>9 DEF IsDrive, SamePass
  <2>11. /\ drive'.arg.turns = drive.arg.turns + 1 /\ drive'.arg.mode = drive.arg.mode /\ drive'.arg.after = drive.arg.after
    BY <1>3, <2>10 DEF IsBatchArg
  <2>12. TurnFor("sequential.join", drive'.arg)
    BY <1>3, <2>4, <2>11 DEF TurnFor, BatchPcs, PlacePcs
  <2>13. Unwritten /\ fault' = fault /\ CurrentLeaf' = CurrentLeaf /\ BatchOpen' = BatchOpen
    BY <1>1, <2>9 DEF Unwritten, CurrentLeaf, Current, BatchOpen
  <2>14. DOMAIN jobs = Calls /\ \A i \in DOMAIN jobs : jobs[i].pc = "none" /\ TaskFits(i)
    BY <1>2, <1>5 DEF WorkInv, TaskWork, JoinPcs, BatchPcs
  <2>15. DOMAIN jobs' = DOMAIN jobs /\ jobs'[n] = FirstStep(n, Cancelled) /\ \A i \in DOMAIN jobs : i # n => jobs'[i] = jobs[i]
    BY <2>9, <2>14
  <2>16. TaskFits(n)' /\ jobs'[n].pc \notin {"none", "placing"}
    BY <1>2, <1>5, <2>7, <2>13, <2>15, StartedFits DEF Unwritten
  <2>17. \A i \in DOMAIN jobs' : TaskFits(i)'
    BY <2>13, <2>14, <2>15, <2>16, SameFits DEF Unwritten
  <2>18. OneAtATime'
    <3>1. n >= drive'.arg.turns
      BY <2>4, <2>5, <2>11
    <3>2. \A i \in DOMAIN CurrentLeaf.calls : i < n => Status(i) = "completed"
      BY <2>1, <2>3, <2>4
    <3>3. \A i \in DOMAIN CurrentLeaf'.calls : i < n => Status(i)' = "completed"
      BY <2>13, <3>2 DEF Status
    <3>4. n \in DOMAIN jobs' /\ \A i \in DOMAIN jobs' : i # n => jobs'[i].pc = "none"
      BY <2>14, <2>15
    <3>5. QED
      BY <2>16, <3>1, <3>3, <3>4 DEF OneAtATime
  <2>19. TaskWork'
    <3>1. \A i, j \in DOMAIN jobs' : jobs'[i].pc = "placing" /\ jobs'[j].pc = "placing" => i = j
      BY <2>14, <2>15, <2>16
    <3>2. DOMAIN jobs' = DOMAIN CurrentLeaf'.calls
      BY <1>2, <2>13, <2>14, <2>15
    <3>3. QED
      BY <2>10, <2>17, <2>18, <3>1, <3>2 DEF TaskWork, JoinPcs
  <2>20. QED
    BY <1>1, <2>10, <2>12, <2>13, <2>19, BatchGoesOn DEF BatchPcs
<1>6. QED
  BY <1>4, <1>5

\* The task of the call has ended (tools.ts runSequential).
LEMMA SequentialJoinWorks ==
  ASSUME IndInv, GateInv, WorkInv, joinSequential
  PROVE  Works
<1>1. At("sequential.join") /\ \A i \in DOMAIN jobs : jobs[i].pc \in {"none", "done"}
  BY DEF joinSequential
<1>2. /\ BatchOpen => BatchWork(CurrentLeaf)
      /\ IsDrive(drive) /\ drive.pc = "sequential.join"
  BY <1>1, AtBatch DEF BatchPcs
<1>3. IsBatchArg(drive.arg) /\ TurnFor("sequential.join", drive.arg)
  BY <1>2 DEF GateInv, PlacementReturns, WorkInv, PassWork, BatchPcs
<1>4. /\ Goto("place.read", drive.arg) /\ jobs' = [i \in DOMAIN jobs |-> NoJob]
      /\ Unwritten /\ fault' = fault /\ CurrentLeaf' = CurrentLeaf /\ BatchOpen' = BatchOpen
  BY DEF joinSequential, Queue, Unwritten, CurrentLeaf, Current, BatchOpen
<1>5. SamePass /\ drive'.pc = "place.read" /\ drive'.seen = drive.seen /\ drive'.arg = drive.arg
  BY <1>2, <1>4 DEF Goto, IsDrive, SamePass
<1>6. ASSUME BatchOpen, NEW i \in DOMAIN CurrentLeaf.calls, i <= drive.arg.turns
      PROVE CurrentLeaf.calls[i].status \in Staged
  <2>1. PICK n \in DOMAIN jobs : /\ jobs[n].pc # "none"
                                 /\ n >= drive.arg.turns /\ \A k \in DOMAIN CurrentLeaf.calls : k < n => Status(k) = "completed"
    BY <1>2, <1>6 DEF WorkInv, TaskWork, OneAtATime
  <2>2. DOMAIN jobs = DOMAIN CurrentLeaf.calls /\ TaskFits(n) /\ jobs[n].pc = "done"
    BY <1>1, <1>2, <1>6, <2>1 DEF WorkInv, TaskWork, BatchPcs
  <2>3. Status(n) \in Staged
    BY <1>6, <2>2 DEF TaskFits
  <2>4. i \in Nat /\ n \in Nat /\ drive.arg.turns \in Nat
    BY <1>2, <1>3, <1>6, <2>2 DEF BatchWork, CallsWork, TurnFor, BatchPcs
  <2>5. i = n \/ i < n
    BY <1>6, <2>1, <2>4
  <2>6. QED
    BY <2>1, <2>3, <2>5 DEF Status, Staged
<1>7. TurnFor("place.read", drive'.arg)
  BY <1>3, <1>5, <1>6 DEF TurnFor, BatchPcs, PlacePcs
<1>8. TaskWork'
  <2>1. BatchOpen => DOMAIN jobs = DOMAIN CurrentLeaf.calls
    BY <1>2 DEF WorkInv, TaskWork, BatchPcs
  <2>2. QED
    BY <1>4, <1>5, <2>1, RestedTasks DEF NoJob, Job
<1>9. QED
  BY <1>1, <1>4, <1>5, <1>7, <1>8, BatchGoesOn DEF BatchPcs

\* The next call of a parallel batch starts (tools.ts runParallel).
LEMMA ParallelStartWorks ==
  ASSUME IndInv, WorkInv, startParallel
  PROVE  Works
<1>1. At("parallel") /\ InBatch /\ Unstarted # {}
  BY DEF startParallel
<1>2. /\ BatchOpen /\ BatchWork(CurrentLeaf)
      /\ Leaf = CurrentLeaf /\ Calls = DOMAIN CurrentLeaf.calls /\ drive.pc = "parallel"
  BY <1>1, AtBatch DEF BatchPcs
<1>3. DOMAIN jobs = Calls /\ Calls \in SUBSET Nat /\ Unstarted \in SUBSET Nat
  BY <1>2 DEF WorkInv, TaskWork, BatchPcs, BatchWork, CallsWork, Unstarted
<1>4. \E k \in Unstarted : \A j \in Unstarted : k <= j
  BY <1>1, <1>3, LeastNat
<1>5. \E i \in Unstarted : \E cancelled : jobs' = [jobs EXCEPT ![i] = FirstStep(i, cancelled)]
  BY <1>4 DEF startParallel
<1>6. PICK i \in Unstarted : \E cancelled : jobs' = [jobs EXCEPT ![i] = FirstStep(i, cancelled)]
  BY <1>5
<1>7. PICK cancelled : jobs' = [jobs EXCEPT ![i] = FirstStep(i, cancelled)]
  BY <1>6
<1>8. /\ drive' = drive /\ Unwritten /\ fault' = fault
      /\ CurrentLeaf' = CurrentLeaf /\ BatchOpen' = BatchOpen /\ Phase' = Phase
  BY DEF startParallel, Unwritten, CurrentLeaf, Current, BatchOpen, Phase, PhaseOf
<1>9. i \in DOMAIN jobs /\ Status(i) \in Unsettled /\ \A k \in DOMAIN jobs : TaskFits(k)
  BY <1>2, <1>3 DEF Unstarted, Unsettled, Status, Call, WorkInv, TaskWork
<1>10. DOMAIN jobs' = DOMAIN jobs /\ jobs'[i] = FirstStep(i, cancelled) /\ \A j \in DOMAIN jobs : j # i => jobs'[j] = jobs[j]
  BY <1>9, <1>7
<1>11. TaskFits(i)' /\ jobs'[i].pc \notin {"none", "placing"}
  BY <1>2, <1>8, <1>9, <1>10, StartedFits DEF Unwritten
<1>12. \A j \in DOMAIN jobs' : TaskFits(j)'
  BY <1>8, <1>9, <1>10, <1>11, SameFits DEF Unwritten
<1>13. TaskWork'
  <2>1. \A k, j \in DOMAIN jobs' : jobs'[k].pc = "placing" /\ jobs'[j].pc = "placing" => k = j
    BY <1>10, <1>11 DEF WorkInv, TaskWork
  <2>2. DOMAIN jobs' = DOMAIN CurrentLeaf'.calls
    BY <1>2, <1>3, <1>8, <1>10
  <2>3. QED
    BY <1>2, <1>8, <1>12, <2>1, <2>2 DEF TaskWork, JoinPcs, OneAtATime
<1>14. PassWork'
  BY <1>2, <1>8, JoinStays DEF WorkInv, JoinPcs
<1>15. StoreWork'
  BY <1>8, KeepStoreWork DEF WorkInv
<1>16. QED
  BY <1>8, <1>13, <1>14, <1>15 DEF Works, WorkInv, Sound

\* The last task of a parallel batch has ended (tools.ts runParallel).
LEMMA ParallelJoinWorks ==
  ASSUME IndInv, GateInv, WorkInv, joinParallel
  PROVE  Works
<1>1. At("parallel") /\ (\A i \in DOMAIN jobs : jobs[i].pc \in {"none", "done"}) /\ (InBatch => Unstarted = {})
  BY DEF joinParallel
<1>2. /\ BatchOpen => BatchWork(CurrentLeaf)
      /\ InBatch <=> BatchOpen
      /\ Leaf = CurrentLeaf /\ Calls = DOMAIN CurrentLeaf.calls /\ IsDrive(drive) /\ drive.pc = "parallel"
  BY <1>1, AtBatch DEF BatchPcs
<1>3. IsBatchArg(drive.arg) /\ TurnFor("parallel", drive.arg)
  BY <1>2 DEF GateInv, PlacementReturns, WorkInv, PassWork, BatchPcs
<1>4. /\ drive' = [drive EXCEPT !.pc = "place.read", !.arg = [drive.arg EXCEPT !.after = "loop"]]
      /\ jobs' = [i \in DOMAIN jobs |-> NoJob]
      /\ Unwritten /\ fault' = fault /\ CurrentLeaf' = CurrentLeaf /\ BatchOpen' = BatchOpen
  BY <1>2, <1>3 DEF joinParallel, Unwritten, CurrentLeaf, Current, BatchOpen, IsDrive, IsBatchArg
<1>5. SamePass /\ drive'.pc = "place.read" /\ drive'.seen = drive.seen /\ drive'.arg = [drive.arg EXCEPT !.after = "loop"]
  BY <1>2, <1>4 DEF IsDrive, SamePass
<1>6. drive'.arg.turns = drive.arg.turns /\ drive'.arg.mode = drive.arg.mode /\ drive'.arg.after = "loop"
  BY <1>3, <1>5 DEF IsBatchArg
<1>7. ASSUME BatchOpen, NEW i \in DOMAIN CurrentLeaf.calls
      PROVE CurrentLeaf.calls[i].status \in Staged
  <2>1. DOMAIN jobs = DOMAIN CurrentLeaf.calls /\ TaskFits(i) /\ Call(i).status = Status(i)
    BY <1>2, <1>7 DEF WorkInv, TaskWork, BatchPcs, Call, Status
  <2>2. CASE jobs[i].pc = "none"
    <3>1. Status(i) \notin Unsettled
      BY <1>1, <1>2, <1>7, <2>1, <2>2 DEF Unstarted, Unsettled
    <3>2. IsCall(CurrentLeaf.calls[i])
      BY <1>2, <1>7 DEF BatchWork, CallsWork
    <3>3. QED
      BY <3>1, <3>2 DEF Status, IsCall
  <2>3. CASE jobs[i].pc = "done"
    BY <1>7, <2>1, <2>3 DEF TaskFits, Status
  <2>4. QED
    BY <1>1, <2>1, <2>2, <2>3
<1>8. TurnFor("place.read", drive'.arg)
  BY <1>3, <1>6, <1>7 DEF TurnFor, BatchPcs, PlacePcs
<1>9. TaskWork'
  <2>1. BatchOpen => DOMAIN jobs = DOMAIN CurrentLeaf.calls
    BY <1>2 DEF WorkInv, TaskWork, BatchPcs
  <2>2. QED
    BY <1>4, <1>5, <2>1, RestedTasks DEF NoJob, Job
<1>10. QED
  BY <1>1, <1>4, <1>5, <1>8, <1>9, BatchGoesOn DEF BatchPcs

-----------------------------------------------------------------------------
(* Placements.                                                             *)

\* The calls a placement lists are those it places.
LEMMA OrderFacts ==
  ASSUME NEW n \in Nat, NEW placed, NEW order, order = ItemsAt([i \in 1..n |-> i], placed)
  PROVE  /\ Len(order) \in Nat /\ DOMAIN order = 1..Len(order)
         /\ \A k \in DOMAIN order : order[k] \in 1..n /\ order[k] \in placed
<1> DEFINE s == [i \in 1..n |-> i]
<1>1. s = [i \in 1..n |-> s[i]] /\ \A i \in 1..n : s[i] \in Nat
  OBVIOUS
<1>2. \A i \in 1..n : s[i] = i
  OBVIOUS
<1>3. order = ItemsAt(s, placed)
  OBVIOUS
<1> HIDE DEF s
<1>4. s \in Seq(Nat) /\ Len(s) = n
  BY <1>1, FunctionIsSeq
<1>5. order \in Seq(Nat) /\ HoldsItems(s, placed, n, order)
  BY <1>3, <1>4, ItemsAtHolds
<1>6. \A k \in DOMAIN order : \E j \in 1..n : j \in placed /\ order[k] = s[j]
  BY <1>5 DEF HoldsItems
<1>7. QED
  BY <1>2, <1>5, <1>6, LenProperties

\* A call with a new status.
LEMMA ChangedCall ==
  ASSUME NEW c, IsCall(c), NEW d, d = [c EXCEPT !.status = "completed", !.outcome = Null]
  PROVE  IsCall(d) /\ d.status = "completed" /\ d.result = c.result
BY DEF IsCall, Staged

\* The calls of a batch after some were placed.
MarkPlaced(calls, placed) ==
  [i \in DOMAIN calls |-> IF i \in placed THEN [calls[i] EXCEPT !.status = "completed", !.outcome = Null] ELSE calls[i]]

\* They are the same calls; those that were placed are completed.
LEMMA PlacedCalls ==
  ASSUME NEW assistant, NEW old, CallsWork(assistant, old), NEW placed, NEW calls, calls = MarkPlaced(old, placed)
  PROVE  /\ Len(calls) \in Nat /\ DOMAIN calls = 1..Len(calls) /\ calls = [i \in 1..Len(calls) |-> calls[i]]
         /\ DOMAIN calls = DOMAIN old
         /\ \A i \in DOMAIN calls : /\ IsCall(calls[i]) /\ calls[i].result = old[i].result
                                    /\ calls[i].status = IF i \in placed THEN "completed" ELSE old[i].status
<1> DEFINE n == Len(old)
<1>1. n \in Nat /\ DOMAIN old = 1..n /\ \A i \in DOMAIN old : IsCall(old[i])
  BY DEF CallsWork
<1>2. DOMAIN calls = 1..n /\ calls = [i \in 1..n |-> calls[i]]
  BY <1>1 DEF MarkPlaced
<1> HIDE DEF n
<1>3. Len(calls) = n
  BY <1>1, <1>2, FunctionIsSeq
<1>4. ASSUME NEW i \in DOMAIN calls
      PROVE /\ IsCall(calls[i]) /\ calls[i].result = old[i].result
            /\ calls[i].status = IF i \in placed THEN "completed" ELSE old[i].status
  <2>1. i \in DOMAIN old /\ IsCall(old[i])
    BY <1>1, <1>2
  <2>2. CASE i \in placed
    <3>1. calls[i] = [old[i] EXCEPT !.status = "completed", !.outcome = Null]
      BY <2>1, <2>2 DEF MarkPlaced
    <3>2. PICK c, d : c = old[i] /\ d = calls[i]
      OBVIOUS
    <3>3. IsCall(d) /\ d.status = "completed" /\ d.result = c.result
      BY <2>1, <3>1, <3>2, ChangedCall
    <3>4. QED
      BY <2>2, <3>2, <3>3
  <2>3. CASE i \notin placed
    <3>1. calls[i] = old[i]
      BY <2>1, <2>3 DEF MarkPlaced
    <3>2. QED
      BY <2>1, <2>3, <3>1
  <2>4. QED
    BY <2>2, <2>3
<1>5. QED
  BY <1>1, <1>2, <1>3, <1>4

\* What a placement leaves of a batch that is still open.
AfterPlacement(placed) ==
  /\ CurrentLeaf'.assistant = CurrentLeaf.assistant
  /\ DOMAIN CurrentLeaf'.calls = DOMAIN CurrentLeaf.calls
  /\ \A i \in DOMAIN CurrentLeaf.calls :
       /\ CurrentLeaf'.calls[i].result = CurrentLeaf.calls[i].result
       /\ Status(i)' = IF i \in placed THEN "completed" ELSE Status(i)
       /\ Tool(i)' = Tool(i)

\* What a placement writes.
LEMMA PlaceItemsFacts ==
  ASSUME StoreInv, NEW placed, PlaceItems(placed), Leaf = CurrentLeaf, mem.tip = store.tip, mem.op.id = Current
  PROVE  LET order == ItemsAt([i \in Calls |-> i], placed)
             items == [k \in DOMAIN order |->
                         <<Call(order[k]).result,
                           [type |-> "result", assistant |-> Leaf.assistant, index |-> order[k]]>>]
             calls == MarkPlaced(Leaf.calls, placed)
             full  == \A i \in Calls : calls[i].status = "completed"
             freed == {PendingEntry(Call(i).result) : i \in placed} \cup (IF full THEN BatchArguments ELSE {})
         IN  \E s, m, leaf :
               /\ SettleCommit(s, m, WithLeaf(leaf), FALSE)
               /\ SameRecords(store, s) /\ s.log = store.log \o ChainEntries(store.tip, items)
               /\ s.tip = TipAfter(store.tip, items) /\ s.vals = store.vals \ freed
               /\ ~full => leaf = [Leaf EXCEPT !.calls = calls]
               /\ full => leaf.at = "checkpoint" /\ ~leaf.continuation.flag
<1> DEFINE order == ItemsAt([i \in Calls |-> i], placed)
           items == [k \in DOMAIN order |->
                       <<Call(order[k]).result,
                         [type |-> "result", assistant |-> Leaf.assistant, index |-> order[k]]>>]
           calls == MarkPlaced(Leaf.calls, placed)
           full  == \A i \in Calls : calls[i].status = "completed"
           freed == {PendingEntry(Call(i).result) : i \in placed} \cup (IF full THEN BatchArguments ELSE {})
           u     == InsertEntries(store, items)
           added == UNION {Call(i).outcome.added : i \in placed}
           cfg   == PlacedConfig(added)
           tip   == TipAfter(mem.tip, items)
           leaf  == IF ~full THEN [Leaf EXCEPT !.calls = calls]
                    ELSE Checkpoint(IF \A i \in Calls : calls[i].terminate THEN MayFinish(FALSE)
                                    ELSE NeedAssistant(FALSE), tip)
           rows  == ItemsAt([i \in Calls |-> i], {i \in placed : Call(i).outcome.metered})
           more  == [k \in DOMAIN rows |-> Call(rows[k]).result]
           m     == [mem EXCEPT !.tip = tip, !.cfg = cfg]
           s     == [u EXCEPT !.cfg = cfg, !.vals = u.vals \ freed, !.usage = u.usage \o more]
<1>1. calls = [i \in Calls |-> IF i \in placed THEN [Call(i) EXCEPT !.status = "completed", !.outcome = Null] ELSE Call(i)]
  BY DEF MarkPlaced, Calls, Call
<1>2. /\ u.log = store.log \o ChainEntries(store.tip, items) /\ u.tip = TipAfter(store.tip, items) /\ u.vals = store.vals
      /\ SameRecords(store, u)
  BY InsertFacts DEF StoreInv
<1>3. SettleCommit([u EXCEPT !.cfg = cfg, !.vals = @ \ freed, !.usage = @ \o more], m, WithLeaf(leaf), FALSE)
  BY <1>1 DEF PlaceItems
<1>4. ~full => leaf = [Leaf EXCEPT !.calls = calls]
  OBVIOUS
<1>5. full => leaf.at = "checkpoint" /\ ~leaf.continuation.flag
  BY DEF Checkpoint, MayFinish, NeedAssistant
<1> HIDE DEF u, cfg, freed, more, m, leaf, full, items, order, calls
<1>6. [u EXCEPT !.cfg = cfg, !.vals = @ \ freed, !.usage = @ \o more] = s
  BY <1>2 DEF SameRecords, IsStore
<1>7. SettleCommit(s, m, WithLeaf(leaf), FALSE)
  BY <1>3, <1>6
<1>8. s.log = u.log /\ s.tip = u.tip /\ s.vals = u.vals \ freed /\ SameRecords(u, s)
  <2>1. s = [u EXCEPT !.cfg = cfg, !.vals = u.vals \ freed, !.usage = u.usage \o more]
    OBVIOUS
  <2> HIDE DEF s
  <2>2. QED
    BY <1>2, <2>1 DEF SameRecords, IsStore
<1>9. SameRecords(store, s) /\ s.vals = store.vals \ freed
  BY <1>2, <1>8 DEF SameRecords
<1> HIDE DEF s
<1>10. \E s1, m1, leaf1 :
         /\ SettleCommit(s1, m1, WithLeaf(leaf1), FALSE)
         /\ SameRecords(store, s1) /\ s1.log = store.log \o ChainEntries(store.tip, items)
         /\ s1.tip = TipAfter(store.tip, items) /\ s1.vals = store.vals \ freed
         /\ ~full => leaf1 = [Leaf EXCEPT !.calls = calls]
         /\ full => leaf1.at = "checkpoint" /\ ~leaf1.continuation.flag
  BY <1>2, <1>4, <1>5, <1>7, <1>8, <1>9
<1>11. QED
  BY <1>10 DEF freed, full, items, order, calls

\* What a commit that leaves the inbox alone leaves.
LEMMA PlainCommit ==
  ASSUME StoreInv, mem # Null, Current # Null, NEW s, SameRecords(store, s), NEW m, NEW st, SettleCommit(s, m, st, FALSE)
  PROVE  store'.log = s.log /\ store'.vals = s.vals /\ Current' = Current /\ State' = st /\ CurrentLeaf' = st.leaf
<1>1. PICK patches \in BOOLEAN : patches = FALSE /\ SettleCommit(s, m, st, patches)
  OBVIOUS
<1>2. patches \in BOOLEAN /\ SettleCommit(s, m, st, patches)
  BY <1>1
<1>3. QED
  BY <1>2, CommitFacts

\* An entry stays the only one with its id when entries with other ids are inserted.
LEMMA OnlyStays ==
  ASSUME LogWork, NEW n \in Nat, NEW items, DOMAIN items = 1..n,
         store'.log = store.log \o ChainEntries(store.tip, items),
         NEW id, \A k \in DOMAIN items : items[k][1] # id,
         NEW e, OnlyEntry(id, e)
  PROVE  OnlyEntry(id, e)'
<1> DEFINE new == ChainEntries(store.tip, items)
<1>1. new = [k \in 1..n |-> new[k]] /\ \A k \in 1..n : new[k].id = items[k][1]
  BY DEF ChainEntries
<1> HIDE DEF new
<1>2. new \in Seq({new[k] : k \in 1..n}) /\ DOMAIN new = 1..n
  BY <1>1, FunctionIsSeq
<1>3. ToSet(new) = {new[k] : k \in 1..n}
  BY <1>2 DEF ToSet
<1>4. ToSet(store'.log) = ToSet(store.log) \cup ToSet(new)
  BY <1>2, ConcatElements DEF LogWork, new
<1>5. \A f \in ToSet(store'.log) : f.id = id => f \in ToSet(store.log)
  BY <1>1, <1>4, <1>3
<1>6. e \in ToSet(store'.log)
  BY <1>4 DEF OnlyEntry
<1>7. QED
  BY <1>5, <1>6, StillOnly

\* What a placement keeps: the log only grows by results, the batch by completed calls.
LEMMA PlacementKeeps ==
  ASSUME IndInv, WorkInv, NothingRuns, mem # Null, Current # Null, BatchOpen, ids' \in Nat, ids <= ids',
         NEW placed, placed \subseteq {i \in DOMAIN CurrentLeaf.calls : Status(i) = "outcome_ready"}, PlaceItems(placed)
  PROVE  /\ StoreWork' /\ PhaseMap' = PhaseMap /\ Current' = Current
         /\ BatchOpen' => AfterPlacement(placed)
         /\ ~BatchOpen' => \A i \in DOMAIN CurrentLeaf.calls : Status(i) \in Staged
<1>1. /\ StoreInv /\ Leaf = CurrentLeaf /\ CurrentLeaf = State.leaf /\ mem.tip = store.tip /\ mem.op.id = Current
      /\ LeafIs(State) /\ BatchWork(CurrentLeaf) /\ store.tip # Null /\ LogWork /\ RunsWork /\ InboxWork
  BY MemFacts DEF IndInv, WorkInv, StoreWork, LeafWork, LeafIs, BatchOpen, CurrentLeaf, State, Current
<1>2. PICK old, assistant : old = CurrentLeaf.calls /\ assistant = CurrentLeaf.assistant
  OBVIOUS
<1>3. /\ CallsWork(assistant, old) /\ SourceWork(assistant, old) /\ CallValues(assistant, old)
      /\ CurrentLeaf = [at |-> "tools", assistant |-> assistant, cfg |-> CurrentLeaf.cfg, calls |-> old]
  BY <1>1, <1>2 DEF BatchWork
<1>4. PICK n \in Nat : DOMAIN old = 1..n
  BY <1>3 DEF CallsWork
<1> DEFINE order0 == ItemsAt([i \in Calls |-> i], placed)
           items0 == [k \in DOMAIN order0 |->
                       <<Call(order0[k]).result,
                         [type |-> "result", assistant |-> Leaf.assistant, index |-> order0[k]]>>]
           calls0 == MarkPlaced(Leaf.calls, placed)
           full0  == \A i \in Calls : calls0[i].status = "completed"
           freed0 == {PendingEntry(Call(i).result) : i \in placed} \cup (IF full0 THEN BatchArguments ELSE {})
<1>5. \E s, m, leaf :
        /\ SettleCommit(s, m, WithLeaf(leaf), FALSE)
        /\ SameRecords(store, s) /\ s.log = store.log \o ChainEntries(store.tip, items0)
        /\ s.tip = TipAfter(store.tip, items0) /\ s.vals = store.vals \ freed0
        /\ ~full0 => leaf = [Leaf EXCEPT !.calls = calls0]
        /\ full0 => leaf.at = "checkpoint" /\ ~leaf.continuation.flag
  BY <1>1, PlaceItemsFacts, ZenonT(60)
<1>6. PICK order, items, calls, freed :
        /\ order = order0 /\ items = items0 /\ calls = calls0 /\ freed = freed0
  OBVIOUS
<1>7. /\ order = ItemsAt([i \in Calls |-> i], placed)
      /\ items = [k \in DOMAIN order |->
                   <<Call(order[k]).result,
                     [type |-> "result", assistant |-> Leaf.assistant, index |-> order[k]]>>]
      /\ calls = MarkPlaced(Leaf.calls, placed)
      /\ freed = {PendingEntry(Call(i).result) : i \in placed}
                   \cup (IF \A i \in Calls : calls[i].status = "completed" THEN BatchArguments ELSE {})
      /\ full0 <=> \A i \in Calls : calls[i].status = "completed"
  BY <1>6, Zenon
<1> HIDE DEF order0, items0, calls0, full0, freed0
<1>8. PICK s, m, leaf :
        /\ SettleCommit(s, m, WithLeaf(leaf), FALSE)
        /\ SameRecords(store, s) /\ s.log = store.log \o ChainEntries(store.tip, items)
        /\ s.tip = TipAfter(store.tip, items) /\ s.vals = store.vals \ freed
        /\ ~full0 => leaf = [Leaf EXCEPT !.calls = calls]
        /\ full0 => leaf.at = "checkpoint" /\ ~leaf.continuation.flag
  BY <1>5, <1>6
<1>9. /\ Calls = 1..n /\ calls = MarkPlaced(old, placed)
      /\ \A i \in 1..n : Call(i) = old[i] /\ Status(i) = old[i].status
      /\ \A i \in placed : i \in 1..n /\ old[i].status = "outcome_ready"
  BY <1>1, <1>2, <1>4, <1>7 DEF Calls, Call, Status
<1>10. order = ItemsAt([i \in 1..n |-> i], placed)
  BY <1>7, <1>9
<1>11. PICK len \in Nat : /\ DOMAIN order = 1..len
                         /\ \A k \in DOMAIN order : order[k] \in 1..n /\ order[k] \in placed
  BY <1>10, OrderFacts
<1>12. /\ DOMAIN items = 1..len /\ items = [k \in 1..len |-> items[k]]
       /\ \A k \in DOMAIN items : items[k][1] = Call(order[k]).result
  <2>1. items = [k \in 1..len |->
                   <<Call(order[k]).result, [type |-> "result", assistant |-> Leaf.assistant, index |-> order[k]]>>]
    BY <1>7, <1>11
  <2>2. QED
    BY <1>11, <2>1
<1>13. PICK full \in BOOLEAN : full <=> \A i \in 1..n : calls[i].status = "completed"
  OBVIOUS
<1>14. \A v \in freed : (\E i \in placed : v = PendingEntry(old[i].result)) \/ (full /\ v \in BatchArguments)
  BY <1>7, <1>9, <1>13
<1>15. /\ ~full => leaf = [Leaf EXCEPT !.calls = calls]
       /\ full => leaf.at = "checkpoint" /\ ~leaf.continuation.flag
  BY <1>8, <1>7, <1>9, <1>13
<1>16. \A i \in 1..n : old[i].result \in Minted /\ old[i].result # assistant
  BY <1>3, <1>4 DEF CallsWork
<1>17. \A k \in DOMAIN items : items[k][1] \in Minted /\ items[k][1] # assistant
  BY <1>9, <1>11, <1>12, <1>16
<1>18. /\ Len(calls) \in Nat /\ DOMAIN calls = 1..Len(calls) /\ calls = [i \in 1..Len(calls) |-> calls[i]]
       /\ DOMAIN calls = 1..n
       /\ \A i \in 1..n : /\ IsCall(calls[i]) /\ calls[i].result = old[i].result
                          /\ calls[i].status = IF i \in placed THEN "completed" ELSE old[i].status
  BY <1>3, <1>4, <1>9, PlacedCalls
<1>19. ids \in Nat /\ ids' \in Nat /\ ids <= ids'
  BY <1>1 DEF LogWork
<1>20. \A x \in Minted : x \in 1..ids' /\ x # Null
  BY <1>19, NullAssumption DEF Minted
<1>21. LogFits(s.log, ids') /\ s.tip # Null
  <2>1. \A k \in DOMAIN items : items[k][1] \in HostIds \cup 1..ids' /\ items[k][1] # Null
    BY <1>17, <1>20
  <2>2. LogFits(store.log, ids)
    BY <1>1, LogWorkFits
  <2>3. LogFits(s.log, ids')
    BY <1>8, <1>12, <1>19, <2>1, <2>2, GrowLogFits
  <2>4. s.tip # Null
    <3>1. store.tip # Null /\ s.tip = TipAfter(store.tip, items)
      BY <1>1, <1>8
    <3>2. items = [k \in 1..len |-> items[k]]
      BY <1>12
    <3>3. \A k \in DOMAIN items : items[k][1] # Null
      BY <2>1
    <3>4. QED
      BY <3>1, <3>2, <3>3, TipIsSome
  <2>5. QED
    BY <2>3, <2>4
<1>22. \A i \in DOMAIN store.lane.inbox : PendingEntry(store.lane.inbox[i].id) \in s.vals
  <2> SUFFICES ASSUME NEW i \in DOMAIN store.lane.inbox PROVE PendingEntry(store.lane.inbox[i].id) \in s.vals
    OBVIOUS
  <2>1. PICK id \in HostIds : id = store.lane.inbox[i].id /\ PendingEntry(id) \in store.vals
    BY <1>1, QueuedIds DEF InboxWork
  <2>2. \A k \in placed : old[k].result # id
    BY <1>9, <1>16, <2>1, HostIdFacts DEF Minted
  <2>3. PendingEntry(id) \notin BatchArguments
    BY DEF BatchArguments, PendingEntry
  <2>4. PendingEntry(id) \notin freed
    BY <1>14, <2>2, <2>3 DEF PendingEntry
  <2>5. QED
    BY <1>8, <2>1, <2>4
<1>23. PICK st : st = WithLeaf(leaf) /\ st.leaf = leaf
  BY <1>1, LeafFacts
<1>24. /\ store'.log = s.log /\ store'.vals = s.vals /\ Current' = Current /\ State' = st /\ CurrentLeaf' = leaf
  <2>1. SettleCommit(s, m, st, FALSE)
    BY <1>8, <1>23
  <2>2. StoreInv /\ SameRecords(store, s)
    BY <1>1, <1>8
  <2>3. store'.log = s.log /\ store'.vals = s.vals /\ Current' = Current /\ State' = st /\ CurrentLeaf' = st.leaf
    BY <2>1, <2>2, PlainCommit
  <2>4. QED
    BY <1>23, <2>3
<1>25. PICK e : /\ OnlyEntry(assistant, e) /\ OnlyEntry(assistant, e)' /\ e.body.type = "assistant"
                /\ DOMAIN old \subseteq DOMAIN e.body.calls
  <2>1. PICK e \in ToSet(store.log) : OnlyEntry(assistant, e) /\ e.body.type = "assistant" /\ DOMAIN old \subseteq DOMAIN e.body.calls
    BY <1>3 DEF SourceWork
  <2>2. DOMAIN items = 1..len /\ len \in Nat /\ LogWork
    BY <1>1, <1>12
  <2>3. /\ \A k \in DOMAIN items : items[k][1] # assistant
        /\ store'.log = store.log \o ChainEntries(store.tip, items)
    BY <1>8, <1>17, <1>24
  <2>4. OnlyEntry(assistant, e)'
    BY <2>1, <2>2, <2>3, OnlyStays
  <2>5. QED
    BY <2>1, <2>4
<1>26. ~full => leaf = [at |-> "tools", assistant |-> assistant, cfg |-> CurrentLeaf.cfg, calls |-> calls]
  BY <1>1, <1>3, <1>15
<1>27. full \/ \E i \in 1..n : calls[i].status # "completed"
  BY <1>13
<1>28. full => \A i \in 1..n : calls[i].status = "completed"
  BY <1>13
<1>29. LeafIs(st)'
  <2>1. CASE full
    BY <1>23, <1>15, <2>1, PlainLeaf
  <2>2. CASE ~full
    <3>1. leaf.at = "tools" /\ leaf.assistant = assistant /\ leaf.cfg = CurrentLeaf.cfg /\ leaf.calls = calls
      BY <1>26, <2>2
    <3>2. SourceWork(assistant, calls)'
      <4>1. assistant \in Minted'
        BY <1>3, <1>20 DEF SourceWork, Minted
      <4>2. DOMAIN calls = DOMAIN old
        BY <1>4, <1>18
      <4>3. QED
        BY <1>25, <4>1, <4>2 DEF SourceWork, OnlyEntry
    <3>3. CallsWork(assistant, calls)'
      <4>1. \A i \in DOMAIN calls : IsCall(calls[i]) /\ calls[i].result \in Minted' /\ calls[i].result # assistant
        BY <1>16, <1>18, <1>20 DEF Minted
      <4>2. \A i, j \in DOMAIN calls : calls[i].result = calls[j].result => i = j
        BY <1>3, <1>4, <1>18 DEF CallsWork
      <4>3. \E i \in DOMAIN calls : calls[i].status # "completed"
        BY <1>18, <1>27, <2>2
      <4>4. Len(calls) \in Nat /\ calls = [i \in 1..Len(calls) |-> calls[i]]
        BY <1>18
      <4>5. QED
        BY <4>1, <4>2, <4>3, <4>4 DEF CallsWork
    <3>4. CallValues(assistant, calls)'
      <4>1. \A v \in store.vals : (\A i \in placed : v # PendingEntry(old[i].result)) => v \in store'.vals
        BY <1>8, <1>14, <1>24, <2>2
      <4>2. ASSUME NEW i \in DOMAIN calls, calls[i].status = "outcome_ready" PROVE PendingEntry(calls[i].result) \in store'.vals
        <5>1. i \in 1..n /\ i \notin placed /\ old[i].status = "outcome_ready" /\ calls[i].result = old[i].result
          BY <1>18, <4>2
        <5>2. PendingEntry(old[i].result) \in store.vals
          BY <1>3, <1>4, <5>1 DEF CallValues
        <5>3. \A k \in placed : old[k].result # old[i].result
          BY <1>3, <1>4, <1>9, <5>1 DEF CallsWork
        <5>4. \A k \in placed : PendingEntry(old[i].result) # PendingEntry(old[k].result)
          BY <5>3 DEF PendingEntry
        <5>5. QED
          BY <4>1, <5>1, <5>2, <5>4
      <4>3. ASSUME NEW i \in DOMAIN calls, calls[i].status = "effect_pending" PROVE <<"args", Current', assistant, i>> \in store'.vals
        <5>1. i \in 1..n /\ old[i].status = "effect_pending"
          BY <1>18, <4>3
        <5>2. <<"args", Current, assistant, i>> \in store.vals
          BY <1>3, <1>4, <5>1 DEF CallValues
        <5>3. \A k \in placed : <<"args", Current, assistant, i>> # PendingEntry(old[k].result)
          BY DEF PendingEntry
        <5>4. QED
          BY <1>24, <4>1, <5>2, <5>3
      <4>4. ASSUME NEW i \in DOMAIN calls, calls[i].status = "planned" PROVE \A x \in executed' : x.call # calls[i].result
        <5>1. i \in 1..n /\ old[i].status = "planned" /\ calls[i].result = old[i].result
          BY <1>18, <4>4
        <5>2. QED
          BY <1>3, <1>4, <5>1 DEF CallValues, NothingRuns
      <4>5. QED
        BY <4>2, <4>3, <4>4 DEF CallValues
    <3>5. BatchWork(leaf)'
      <4>1. leaf = [at |-> "tools", assistant |-> leaf.assistant, cfg |-> leaf.cfg, calls |-> leaf.calls]
        BY <1>26, <2>2
      <4>2. QED
        BY <3>1, <3>2, <3>3, <3>4, <4>1 DEF BatchWork
    <3>6. QED
      BY <1>23, <3>1, <3>5 DEF LeafIs, Leaves, Pending, Deferred
  <2>3. QED
    BY <2>1, <2>2
<1>30. StoreWork'
  <2>1. store.lane.inbox \in Seq(InboxItem)
    BY <1>1 DEF InboxWork
  <2>2. QED
    BY <1>8, <1>19, <1>21, <1>22, <1>23, <1>29, <2>1, GrownKeeps
<1>31. BatchOpen' <=> ~full
  BY <1>24, <1>26, <1>15 DEF BatchOpen
<1>32. ASSUME ~full PROVE AfterPlacement(placed)
  <2>1. leaf.assistant = assistant /\ leaf.calls = calls
    BY <1>26, <1>32
  <2>2. Entry(store, assistant) = e /\ Entry(store', assistant) = e
    BY <1>25 DEF OnlyEntry, Entry
  <2>3. \A i \in 1..n : Tool(i)' = Tool(i)
    BY <1>2, <1>24, <2>1, <2>2 DEF Tool
  <2>4. \A i \in 1..n : Status(i)' = calls[i].status /\ Status(i) = old[i].status
    BY <1>2, <1>24, <2>1 DEF Status
  <2>5. QED
    BY <1>2, <1>4, <1>18, <1>24, <2>1, <2>3, <2>4 DEF AfterPlacement
<1>33. ASSUME full, NEW i \in DOMAIN CurrentLeaf.calls PROVE Status(i) \in Staged
  BY <1>2, <1>4, <1>9, <1>18, <1>28, <1>33 DEF Staged
<1>34. PhaseMap' = PhaseMap
  BY <1>1, PlaceItemsStep DEF Current
<1>35. QED
  BY <1>24, <1>30, <1>31, <1>32, <1>33, <1>34

\* The calls a placement of the whole prefix leaves behind.
LEMMA PrefixPlaced ==
  ASSUME BatchWork(CurrentLeaf), AfterPlacement(Prefix(CurrentLeaf.calls))
  PROVE  /\ \A i \in DOMAIN CurrentLeaf.calls : (\A j \in 1..i : Status(j) \in Staged) => Status(i)' = "completed"
         /\ Prefix(CurrentLeaf.calls)' = {}
<1>1. PICK n \in Nat : DOMAIN CurrentLeaf.calls = 1..n
  BY DEF BatchWork, CallsWork
<1>2. \A i \in 1..n : \A j \in 1..i : j \in 1..n
  BY <1>1
<1>3. \A i \in 1..n : i \in 1..i /\ Status(i) = CurrentLeaf.calls[i].status
  BY <1>1 DEF Status
<1>4. \A i \in 1..n : Status(i)' = IF i \in Prefix(CurrentLeaf.calls) THEN "completed" ELSE Status(i)
  BY <1>1 DEF AfterPlacement
<1>5. \A i \in Prefix(CurrentLeaf.calls) : Status(i) = "outcome_ready"
  BY DEF Prefix, Status
<1>6. ASSUME NEW i \in 1..n, \A j \in 1..i : Status(j) \in Staged PROVE Status(i)' = "completed"
  <2>1. CASE Status(i) = "completed"
    BY <1>4, <1>5, <2>1
  <2>2. CASE Status(i) = "outcome_ready"
    <3>1. \A j \in 1..i : CurrentLeaf.calls[j].status \in {"completed", "outcome_ready"}
      BY <1>2, <1>3, <1>6 DEF Staged
    <3>2. i \in Prefix(CurrentLeaf.calls)
      BY <1>1, <1>3, <2>2, <3>1 DEF Prefix
    <3>3. QED
      BY <1>4, <3>2
  <2>3. QED
    BY <1>3, <1>6, <2>1, <2>2 DEF Staged
<1>7. ASSUME NEW i \in Prefix(CurrentLeaf.calls)' PROVE FALSE
  <2>1. DOMAIN CurrentLeaf'.calls = 1..n
    BY <1>1 DEF AfterPlacement
  <2>2. i \in 1..n /\ Status(i)' = "outcome_ready" /\ \A j \in 1..i : Status(j)' \in {"completed", "outcome_ready"}
    BY <1>7, <2>1 DEF Prefix, Status
  <2>3. \A j \in 1..i : Status(j) \in Staged
    BY <1>2, <1>4, <1>5, <2>2 DEF Staged
  <2>4. QED
    BY <1>6, <2>2, <2>3
<1>8. QED
  BY <1>1, <1>6, <1>7

\* A pass at work on its batch after a commit.
LEMMA BatchPassWork ==
  ASSUME PassWork, Phase' = Phase, SamePass, drive.pc \in BatchPcs, drive'.pc \in BatchPcs,
         Phase = "running" => drive'.seen.leaf.at = "tools", TurnFor(drive.pc, drive.arg)'
  PROVE  PassWork'
<1>1. AtLeaf(drive.pc)' /\ ArgFor(drive.pc, drive.arg)' /\ OutcomeFor(drive.pc, drive.arg)'
  BY DEF BatchPcs, AtLeaf, ArgFor, OutcomeFor, StartPcs, CheckPcs, ReadyPcs, RetryPcs, DeferPcs, RequestPcs, ReplyPcs, CancelPcs
<1>2. SeenFor(drive.pc, drive.seen)'
  BY DEF BatchPcs, SeenFor, StartPcs, CheckPcs, ReadyPcs, RetryPcs, DeferPcs, RequestPcs, SeenPcs
<1>3. SignalWork' /\ ModeWork'
  BY DEF SignalWork, ModeWork, SamePass, PassWork, BatchPcs
<1>4. QED
  BY <1>1, <1>2, <1>3 DEF PassWork

\* The drive's placement (tool-placement.ts commitPlacement).
LEMMA CommitPlacementWorks ==
  ASSUME IndInv, GateInv, WorkInv, commitPlacement
  PROVE  Works
<1>1. At("place.commit") /\ TasksKept /\ ids' = ids /\ fault' = fault /\ PlaceItems(drive.arg.items)
  BY DEF commitPlacement, MainTurn, toolVars, TasksKept
<1>2. /\ mem # Null /\ Current # Null /\ IsDrive(drive) /\ drive.pc = "place.commit" /\ drive.id \in OpIds
      /\ BatchOpen => BatchWork(CurrentLeaf)
      /\ Phase = "running" => drive.seen.leaf.at = "tools"
  BY <1>1, AtBatch DEF BatchPcs
<1>3. IsBatchArg(drive.arg) /\ TurnFor("place.commit", drive.arg)
  BY <1>2 DEF GateInv, PlacementReturns, WorkInv, PassWork, BatchPcs
<1>4. BatchOpen /\ BatchWork(CurrentLeaf) /\ drive.arg.items = Prefix(CurrentLeaf.calls)
  BY <1>2, <1>3 DEF TurnFor, BatchPcs
<1>5. PICK placed : placed = drive.arg.items /\ placed = Prefix(CurrentLeaf.calls) /\ PlaceItems(placed)
  BY <1>1, <1>4
<1>6. placed \subseteq {i \in DOMAIN CurrentLeaf.calls : Status(i) = "outcome_ready"}
  BY <1>5 DEF Prefix, Status
<1>7. ids' \in Nat /\ ids <= ids' /\ NothingRuns
  BY <1>1 DEF WorkInv, StoreWork, LogWork, TasksKept, NothingRuns
<1>8. /\ StoreWork' /\ PhaseMap' = PhaseMap /\ Current' = Current
      /\ BatchOpen' => AfterPlacement(placed)
  BY <1>2, <1>4, <1>5, <1>6, <1>7, PlacementKeeps
<1>9. drive' = [drive EXCEPT !.pc = drive.arg.after, !.arg = [drive.arg EXCEPT !.items = {}]]
  BY <1>2, <1>3 DEF commitPlacement, IsDrive, IsBatchArg
<1>10. /\ SamePass /\ drive'.pc = drive.arg.after /\ drive'.arg = [drive.arg EXCEPT !.items = {}] /\ drive'.seen = drive.seen
       /\ Goto(drive.arg.after, [drive.arg EXCEPT !.items = {}])
  BY <1>2, <1>9 DEF IsDrive, SamePass, Goto
<1>11. drive'.arg.turns = drive.arg.turns /\ drive'.arg.mode = drive.arg.mode /\ drive'.arg.after = drive.arg.after
  BY <1>3, <1>10 DEF IsBatchArg
<1>12. Phase' = Phase
  BY <1>2, <1>8, <1>10, PhaseStays DEF SamePass
<1>13. BatchOpen' => /\ \A i \in DOMAIN CurrentLeaf.calls : (\A j \in 1..i : Status(j) \in Staged) => Status(i)' = "completed"
                     /\ Prefix(CurrentLeaf.calls)' = {}
  BY <1>4, <1>5, <1>8, PrefixPlaced
<1>14. BatchOpen' => DOMAIN CurrentLeaf'.calls = DOMAIN CurrentLeaf.calls
  BY <1>8 DEF AfterPlacement
<1>15. \A i \in DOMAIN CurrentLeaf.calls : i \in Nat /\ \A j \in 1..i : j \in DOMAIN CurrentLeaf.calls /\ j <= i
  BY <1>4 DEF BatchWork, CallsWork
<1>16. CASE drive.arg.after = "loop"
  <2>1. \A i \in DOMAIN CurrentLeaf.calls : Status(i) \in Staged
    BY <1>3, <1>4, <1>16 DEF TurnFor, BatchPcs, PlacePcs, Status
  <2>2. ASSUME BatchOpen' PROVE FALSE
    <3>1. BatchWork(CurrentLeaf)'
      BY <1>2, <1>8, <2>2 DEF StoreWork, LeafWork, LeafIs, BatchOpen, CurrentLeaf, State, Current
    <3>2. PICK i \in DOMAIN CurrentLeaf'.calls : Status(i)' # "completed"
      BY <3>1 DEF BatchWork, CallsWork, Status
    <3>3. i \in DOMAIN CurrentLeaf.calls
      BY <1>14, <2>2, <3>2
    <3>4. QED
      BY <1>13, <1>15, <2>1, <2>2, <3>2, <3>3
  <2>3. Phase # "running" \/ drive.seen # State'
    <3>1. State'.leaf.at # "tools"
      BY <2>2 DEF BatchOpen, CurrentLeaf, State, Current
    <3>2. QED
      BY <1>2, <3>1
  <2>4. "place.commit" \notin JoinPcs \cup {"none", "begin", "done"}
    BY DEF JoinPcs
  <2>5. QED
    BY <1>1, <1>8, <1>10, <1>16, <2>3, <2>4, LoopWorks
<1>17. CASE drive.arg.after \in {"sequential", "tools.begin"}
  <2>1. drive.pc \in BatchPcs \ JoinPcs /\ drive'.pc \in BatchPcs /\ drive'.pc \notin PlacePcs /\ drive'.pc \notin JoinPcs
    BY <1>2, <1>10, <1>17 DEF BatchPcs, JoinPcs, PlacePcs
  <2>2. TaskWork'
    BY <1>1, <1>4, <1>14, <2>1, TasksRest DEF TasksKept, JoinPcs
  <2>3. drive.arg.mode = "settle" => Phase = "cancelling"
    BY <1>3 DEF TurnFor, BatchPcs
  <2>4. CASE drive.arg.after = "tools.begin"
    <3>1. drive.arg.turns = 0
      BY <1>3, <2>4 DEF TurnFor, BatchPcs, PlacePcs
    <3>2. TurnFor(drive.pc, drive.arg)'
      BY <1>10, <1>11, <1>12, <2>1, <2>3, <2>4, <3>1 DEF TurnFor, PlacePcs
    <3>3. PassWork'
      BY <1>2, <1>10, <1>12, <2>1, <3>2, BatchPassWork DEF WorkInv
    <3>4. QED
      BY <1>1, <1>8, <2>2, <3>3 DEF Works, WorkInv, Sound
  <2>5. CASE drive.arg.after = "sequential"
    <3>1. drive.arg.turns \in Nat /\ \A i \in DOMAIN CurrentLeaf.calls : i <= drive.arg.turns => Status(i) \in Staged
      BY <1>3, <1>4, <2>5 DEF TurnFor, BatchPcs, PlacePcs, Status
    <3>2. ASSUME BatchOpen', NEW i \in DOMAIN CurrentLeaf'.calls, i <= drive'.arg.turns
          PROVE CurrentLeaf'.calls[i].status = "completed"
      <4>1. i \in DOMAIN CurrentLeaf.calls /\ i <= drive.arg.turns
        BY <1>11, <1>14, <3>2
      <4>2. \A j \in 1..i : j \in DOMAIN CurrentLeaf.calls /\ j <= drive.arg.turns
        BY <1>15, <3>1, <4>1
      <4>3. Status(i)' = "completed"
        BY <1>13, <3>1, <3>2, <4>1, <4>2
      <4>4. QED
        BY <4>3 DEF Status
    <3>3. TurnFor(drive.pc, drive.arg)'
      BY <1>10, <1>11, <1>12, <1>13, <2>1, <2>3, <2>5, <3>1, <3>2 DEF TurnFor, PlacePcs
    <3>4. PassWork'
      BY <1>2, <1>10, <1>12, <2>1, <3>3, BatchPassWork DEF WorkInv
    <3>5. QED
      BY <1>1, <1>8, <2>2, <3>4 DEF Works, WorkInv, Sound
  <2>6. QED
    BY <1>17, <2>4, <2>5
<1>18. QED
  BY <1>3, <1>16, <1>17 DEF IsBatchArg, Returns

\* The pass's steps over a batch keep the invariant.
LEMMA BatchWorks ==
  ASSUME IndInv, GateInv, WorkInv, BatchStep
  PROVE  Works
BY SourceReadWorks, PlacementReadWorks, CommitPlacementWorks, RunToolsWorks, SequentialWorks, SequentialJoinWorks,
   ParallelStartWorks, ParallelJoinWorks DEF BatchStep

-----------------------------------------------------------------------------
(* Tasks of a batch.                                                       *)

\* What holds when a task takes a step.
LEMMA AtTask ==
  ASSUME IndInv, WorkInv, NEW i, NEW pc, pc \notin {"none", "done"}, JobAt(i, pc)
  PROVE  /\ i \in DOMAIN jobs /\ jobs[i].pc = pc /\ drive.pc \in JoinPcs /\ drive.id \in OpIds
         /\ mem # Null /\ Current # Null /\ StoreInv
         /\ InBatch <=> BatchOpen
         /\ Leaf = CurrentLeaf /\ Calls = DOMAIN CurrentLeaf.calls /\ mem.op.id = Current
         /\ BatchOpen => BatchWork(CurrentLeaf) /\ DOMAIN jobs = DOMAIN CurrentLeaf.calls
         /\ ReadyPrefix = Prefix(CurrentLeaf.calls)
         /\ \A j \in DOMAIN jobs : TaskFits(j)
         /\ Call(i) = CurrentLeaf.calls[i] /\ ToolOf(i) = Tool(i)
<1>1. i \in DOMAIN jobs /\ jobs[i].pc = pc /\ drive.pc \in JoinPcs /\ Driving
  BY TaskFacts DEF JobAt
<1>2. PICK from : from = drive.pc /\ from \in BatchPcs
  BY <1>1 DEF JoinPcs, BatchPcs
<1>3. At(from)
  BY <1>1, <1>2 DEF At
<1>4. /\ mem # Null /\ Current # Null /\ StoreInv /\ drive.id \in OpIds
      /\ InBatch <=> BatchOpen
      /\ Leaf = CurrentLeaf /\ Calls = DOMAIN CurrentLeaf.calls
      /\ BatchOpen => BatchWork(CurrentLeaf)
      /\ ReadyPrefix = Prefix(CurrentLeaf.calls)
  BY <1>2, <1>3, AtBatch
<1>5. (BatchOpen => DOMAIN jobs = DOMAIN CurrentLeaf.calls) /\ \A j \in DOMAIN jobs : TaskFits(j)
  BY <1>2 DEF WorkInv, TaskWork
<1>6. Call(i) = CurrentLeaf.calls[i] /\ ToolOf(i) = Tool(i)
  BY <1>4 DEF Call, ToolOf, Tool
<1>7. mem.op.id = Current
  BY <1>4, MemFacts
<1>8. QED
  BY <1>1, <1>4, <1>5, <1>6, <1>7

\* A task took its step: the others are where they were, and the batch only moved on.
LEMMA TaskMoved ==
  ASSUME WorkInv, drive.pc \in JoinPcs, drive.id \in OpIds, drive' = drive, fault' = fault, PhaseMap' = PhaseMap, StoreWork',
         NEW i \in DOMAIN jobs, jobs[i].pc # "none", jobs'[i].pc # "none",
         DOMAIN jobs' = DOMAIN jobs, \A j \in DOMAIN jobs : j # i => jobs'[j] = jobs[j],
         jobs'[i].pc = "placing" => \A j \in DOMAIN jobs : jobs[j].pc # "placing",
         \A j \in DOMAIN jobs : TaskFits(j)',
         BatchOpen' => /\ BatchOpen /\ DOMAIN CurrentLeaf'.calls = DOMAIN CurrentLeaf.calls
                       /\ \A j \in DOMAIN CurrentLeaf.calls : Status(j) = "completed" => Status(j)' = "completed"
  PROVE  Works
<1>1. Phase' = Phase
  BY PhaseStays
<1>2. PassWork'
  BY <1>1, JoinStays DEF WorkInv
<1>3. \A j, k \in DOMAIN jobs' : jobs'[j].pc = "placing" /\ jobs'[k].pc = "placing" => j = k
  BY DEF WorkInv, TaskWork
<1>4. BatchOpen' => DOMAIN jobs' = DOMAIN CurrentLeaf'.calls
  BY DEF WorkInv, TaskWork, JoinPcs, BatchPcs
<1>5. OneAtATime'
  <2> SUFFICES ASSUME drive'.pc = "sequential.join"
               PROVE  \E n \in DOMAIN jobs' :
                        /\ jobs'[n].pc # "none"
                        /\ \A j \in DOMAIN jobs' : j # n => jobs'[j].pc = "none"
                        /\ BatchOpen' => /\ n >= drive'.arg.turns
                                         /\ \A j \in DOMAIN CurrentLeaf'.calls : j < n => Status(j)' = "completed"
    BY DEF OneAtATime
  <2>1. PICK n \in DOMAIN jobs :
          /\ jobs[n].pc # "none"
          /\ \A j \in DOMAIN jobs : j # n => jobs[j].pc = "none"
          /\ BatchOpen => n >= drive.arg.turns /\ \A j \in DOMAIN CurrentLeaf.calls : j < n => Status(j) = "completed"
    BY DEF WorkInv, TaskWork, OneAtATime
  <2>2. n = i
    BY <2>1
  <2>3. \A j \in DOMAIN jobs' : j # n => jobs'[j].pc = "none"
    BY <2>1, <2>2
  <2>4. BatchOpen' => n >= drive'.arg.turns /\ \A j \in DOMAIN CurrentLeaf'.calls : j < n => Status(j)' = "completed"
    BY <2>1
  <2>5. QED
    BY <2>2, <2>3, <2>4
<1>6. TaskWork'
  BY <1>3, <1>4, <1>5 DEF TaskWork
<1>7. QED
  BY <1>2, <1>6 DEF Works, WorkInv, Sound

\* A task that is not a placement stays while its batch moves on, unless its own call does.
LEMMA OtherFits ==
  ASSUME NEW j, TaskFits(j), jobs'[j] = jobs[j],
         \A e \in executed' : e \in executed \/ e.call # CurrentLeaf.calls[j].result,
         ~BatchOpen' => jobs[j].pc \notin OpenTasks,
         BatchOpen' => /\ BatchOpen /\ Tool(j)' = Tool(j) /\ CurrentLeaf'.calls[j].result = CurrentLeaf.calls[j].result
                       /\ Status(j)' = Status(j) \/ (Status(j) \in Staged /\ Status(j)' \in Staged),
         jobs[j].pc = "placing" => /\ BatchOpen' /\ DOMAIN CurrentLeaf'.calls = DOMAIN CurrentLeaf.calls
                                   /\ \A k \in jobs[j].out : Status(k)' = Status(k)
  PROVE  TaskFits(j)'
<1>1. CASE jobs[j].pc \in OpenTasks
  <2>1. BatchOpen' /\ Status(j) \in Unsettled
    BY <1>1 DEF TaskFits
  <2>2. Status(j)' = Status(j) /\ Status(j)' \in Unsettled
    BY <2>1 DEF Unsettled, Staged
  <2>3. jobs[j].pc \notin {"place", "done", "placing"}
    BY <1>1 DEF OpenTasks, PlannedTasks, StartedTasks
  <2>4. QED
    BY <1>1, <2>1, <2>2, <2>3 DEF TaskFits
<1>2. CASE jobs[j].pc \in {"place", "done"}
  BY <1>2 DEF TaskFits, OpenTasks, PlannedTasks, StartedTasks, Staged
<1>3. CASE jobs[j].pc = "none"
  BY <1>3 DEF TaskFits, OpenTasks, PlannedTasks, StartedTasks
<1>4. CASE jobs[j].pc = "placing"
  BY <1>4 DEF TaskFits, OpenTasks, PlannedTasks, StartedTasks, Staged
<1>5. QED
  BY <1>1, <1>2, <1>3, <1>4 DEF TaskFits

\* A task that writes nothing.
LEMMA QuietTaskWorks ==
  ASSUME IndInv, WorkInv, NEW i, NEW pc, pc \notin {"none", "done"}, JobAt(i, pc), Unwritten, drive' = drive, fault' = fault,
         PhaseMap' = PhaseMap, DOMAIN jobs' = DOMAIN jobs, \A j \in DOMAIN jobs : j # i => jobs'[j] = jobs[j],
         jobs'[i].pc # "none", TaskFits(i)',
         jobs'[i].pc = "placing" => \A j \in DOMAIN jobs : jobs[j].pc # "placing"
  PROVE  Works
<1>1. i \in DOMAIN jobs /\ jobs[i].pc = pc /\ drive.pc \in JoinPcs /\ drive.id \in OpIds /\ \A j \in DOMAIN jobs : TaskFits(j)
  BY AtTask
<1>2. StoreWork'
  BY KeepStoreWork DEF WorkInv
<1>3. \A j \in DOMAIN jobs : TaskFits(j)'
  BY <1>1, SameFits DEF Unwritten
<1>4. CurrentLeaf' = CurrentLeaf /\ BatchOpen' = BatchOpen
  BY DEF Unwritten, CurrentLeaf, Current, BatchOpen
<1>5. \A j \in DOMAIN CurrentLeaf.calls : Status(j)' = Status(j)
  BY <1>4 DEF Status
<1>6. QED
  BY <1>1, <1>2, <1>3, <1>4, <1>5, TaskMoved

\* Hooks, refusals, checkpoints and returns of tools write nothing (tool-hooks.ts, tool-execution.ts).
LEMMA QuietJobWorks ==
  ASSUME IndInv, GateInv, WorkInv, NEW i,
         \/ beforeToolReturns(i) \/ refusedTool(i) \/ readCheckpoint(i) \/ toolReturns(i) \/ afterToolReturns(i)
         \/ (publishToolIntent(i) /\ Cancelled)
  PROVE  Works
<1>1. PICK pc \in {"before", "refused", "checkpoint", "execute", "after", "intent"} : JobAt(i, pc)
  BY DEF beforeToolReturns, refusedTool, publishToolIntent, readCheckpoint, toolReturns, afterToolReturns
<1>2. Unwritten /\ drive' = drive /\ fault' = fault
  BY DEF beforeToolReturns, refusedTool, publishToolIntent, readCheckpoint, toolReturns, afterToolReturns, jobUnchanged, Unwritten
<1>3. /\ i \in DOMAIN jobs /\ jobs[i].pc = pc /\ TaskFits(i) /\ TasksAreJobs
  BY <1>1, AtTask DEF GateInv
<1>4. PICK to, out : SetJob(i, to, out) /\ to \in {"intent", "outcome", "after"}
                     /\ (to = "intent" => pc = "before") /\ (to = "after" => pc = "execute")
  <2>1. CASE beforeToolReturns(i)
    BY <1>3, <2>1 DEF beforeToolReturns, JobAt
  <2>2. CASE refusedTool(i) \/ readCheckpoint(i) \/ (publishToolIntent(i) /\ Cancelled)
    <3>1. SetJob(i, "outcome", Synthetic)
      BY <2>2 DEF refusedTool, readCheckpoint, publishToolIntent
    <3>2. QED
      BY <3>1
  <2>3. CASE afterToolReturns(i)
    BY <2>3 DEF afterToolReturns
  <2>4. CASE toolReturns(i)
    BY <1>3, <2>4 DEF toolReturns, JobAt
  <2>5. QED
    BY <2>1, <2>2, <2>3, <2>4
<1>5. DOMAIN jobs' = DOMAIN jobs /\ jobs'[i].pc = to /\ \A j \in DOMAIN jobs : j # i => jobs'[j] = jobs[j]
  BY <1>3, <1>4, JobSet
<1>6. BatchOpen' = BatchOpen /\ Status(i)' = Status(i)
  BY <1>2 DEF Unwritten, BatchOpen, Status, CurrentLeaf, Current
<1>7. TaskFits(i)'
  BY <1>3, <1>4, <1>5, <1>6 DEF TaskFits, OpenTasks, PlannedTasks, StartedTasks
<1>8. PhaseMap' = PhaseMap
  BY JobStepStep DEF JobStep
<1>9. QED
  BY <1>1, <1>2, <1>4, <1>5, <1>7, <1>8, QuietTaskWorks

\* The tool starts, or its start is refused (tool-execution.ts executeToolCall).
LEMMA AdmitToolWorks ==
  ASSUME IndInv, GateInv, WorkInv, NEW i, admitTool(i)
  PROVE  Works
<1>1. JobAt(i, "admit") /\ store' = store /\ ids' = ids /\ drive' = drive /\ fault' = fault
  BY DEF admitTool
<1>2. /\ i \in DOMAIN jobs /\ jobs[i].pc = "admit" /\ TaskFits(i) /\ TasksAreJobs /\ drive.pc \in JoinPcs /\ drive.id \in OpIds
      /\ \A j \in DOMAIN jobs : TaskFits(j)
      /\ Leaf = CurrentLeaf /\ Call(i) = CurrentLeaf.calls[i] /\ ToolOf(i) = Tool(i)
      /\ BatchOpen => BatchWork(CurrentLeaf) /\ DOMAIN jobs = DOMAIN CurrentLeaf.calls
  BY <1>1, AtTask DEF GateInv
<1>3. PhaseMap' = PhaseMap
  BY JobStepStep DEF JobStep
<1>4. CurrentLeaf' = CurrentLeaf /\ BatchOpen' = BatchOpen /\ \A j : Status(j)' = Status(j) /\ Tool(j)' = Tool(j)
  BY <1>1 DEF CurrentLeaf, Current, BatchOpen, Status, Tool, Entry
<1>5. CASE ~GateOpen
  <2>1. SetJob(i, "refused", Null) /\ Unwritten
    BY <1>1, <1>5 DEF admitTool, Unwritten
  <2>2. DOMAIN jobs' = DOMAIN jobs /\ jobs'[i].pc = "refused" /\ \A j \in DOMAIN jobs : j # i => jobs'[j] = jobs[j]
    BY <1>2, <2>1, JobSet
  <2>3. TaskFits(i)'
    BY <1>2, <1>4, <2>2 DEF TaskFits, OpenTasks, PlannedTasks, StartedTasks
  <2>4. QED
    BY <1>1, <1>3, <2>1, <2>2, <2>3, QuietTaskWorks
<1>6. CASE GateOpen
  <2>1. PICK start : start = Started(i)
    OBVIOUS
  <2>2. jobs' = [jobs EXCEPT ![i].pc = "execute", ![i].ran = TRUE]
        /\ executed' = executed \cup {start} /\ reexecuted' = reexecuted \cup ({start} \cap executed)
    BY <1>6, <2>1 DEF admitTool
  <2>3. BatchOpen /\ BatchWork(CurrentLeaf) /\ Status(i) = "effect_pending" /\ DOMAIN jobs = DOMAIN CurrentLeaf.calls
        /\ (Tool(i) \in SafeTools \/ \A e \in executed : e.call # CurrentLeaf.calls[i].result)
    BY <1>2 DEF TaskFits, OpenTasks, StartedTasks
  <2>4. start.call = CurrentLeaf.calls[i].result /\ start.tool = Tool(i)
    BY <1>2, <2>1 DEF Started
  <2>5. /\ start.call \in Minted
        /\ \A j \in DOMAIN CurrentLeaf.calls : j # i => start.call # CurrentLeaf.calls[j].result
    BY <1>2, <2>3, <2>4 DEF BatchWork, CallsWork
  <2>6. RunsWork'
    BY <1>1, <2>2, <2>3, <2>4, <2>5 DEF WorkInv, StoreWork, RunsWork, UnsafeToolsRunOnce, Minted
  <2>7. CallValues(CurrentLeaf.assistant, CurrentLeaf.calls)'
    <3>1. CallValues(CurrentLeaf.assistant, CurrentLeaf.calls)
      BY <2>3 DEF BatchWork
    <3>2. CurrentLeaf.calls[i].status # "planned"
      BY <2>3 DEF Status
    <3>3. QED
      BY <1>1, <1>4, <2>2, <2>5, <3>1, <3>2 DEF CallValues, Current
  <2>8. LeafWork'
    <3>1. BatchWork(State.leaf)'
      <4>1. State' = State /\ CurrentLeaf = State.leaf
        BY <1>1 DEF State, CurrentLeaf, Current
      <4>2. SourceWork(CurrentLeaf.assistant, CurrentLeaf.calls)' /\ CallsWork(CurrentLeaf.assistant, CurrentLeaf.calls)'
        BY <1>1, <1>4, <2>3 DEF BatchWork, SourceWork, CallsWork, OnlyEntry, Minted
      <4>3. BatchWork(CurrentLeaf)'
        BY <1>4, <2>3, <2>7, <4>2 DEF BatchWork
      <4>4. QED
        BY <1>4, <4>1, <4>3
    <3>2. State'.leaf.at = "tools"
      BY <1>1, <2>3 DEF BatchOpen, CurrentLeaf, State, Current
    <3>3. LeafIs(State)'
      BY <3>1, <3>2 DEF LeafIs, Leaves, Pending, Deferred
    <3>4. QED
      BY <1>1, <3>3 DEF WorkInv, StoreWork, LeafWork, Current
  <2>9. StoreWork'
    BY <1>1, <2>6, <2>8 DEF WorkInv, StoreWork, LogWork, InboxWork, LogIds, Minted
  <2>10. DOMAIN jobs' = DOMAIN jobs /\ jobs'[i].pc = "execute" /\ \A j \in DOMAIN jobs : j # i => jobs'[j] = jobs[j]
    <3>1. jobs[i] = [pc |-> jobs[i].pc, out |-> jobs[i].out, ran |-> jobs[i].ran]
      BY <1>2 DEF TasksAreJobs, IsJob
    <3>2. /\ DOMAIN jobs' = DOMAIN jobs
          /\ jobs'[i] = [[jobs[i] EXCEPT !.pc = "execute"] EXCEPT !.ran = TRUE]
          /\ \A j \in DOMAIN jobs : j # i => jobs'[j] = jobs[j]
      BY <1>2, <2>2
    <3>3. jobs'[i] = [pc |-> "execute", out |-> jobs[i].out, ran |-> TRUE]
      BY <3>1, <3>2
    <3>4. QED
      BY <3>2, <3>3
  <2>11. TaskFits(i)'
    BY <1>4, <2>3, <2>10 DEF TaskFits, OpenTasks, PlannedTasks, StartedTasks, Unsettled
  <2>12. ASSUME NEW j \in DOMAIN jobs, j # i PROVE TaskFits(j)'
    <3>1. TaskFits(j) /\ jobs'[j] = jobs[j] /\ \A e \in executed' : e \in executed \/ e.call # CurrentLeaf.calls[j].result
      BY <1>2, <2>2, <2>3, <2>5, <2>10, <2>12
    <3>2. BatchOpen'
      BY <1>4, <2>3
    <3>3. QED
      BY <1>4, <2>3, <3>1, <3>2, OtherFits
  <2>13. \A j \in DOMAIN jobs : TaskFits(j)'
    BY <2>11, <2>12
  <2>14. QED
    BY <1>1, <1>2, <1>3, <1>4, <2>9, <2>10, <2>13, TaskMoved
<1>7. QED
  BY <1>5, <1>6

\* A job looks for staged outcomes to place (tool-placement.ts readPlacement).
LEMMA JobReadsWorks ==
  ASSUME IndInv, GateInv, WorkInv, NEW i, jobReadsPlacement(i)
  PROVE  Works
<1>1. JobAt(i, "place") /\ \A j \in DOMAIN jobs : jobs[j].pc # "placing"
  BY DEF jobReadsPlacement
<1>2. /\ i \in DOMAIN jobs /\ jobs[i].pc = "place" /\ TaskFits(i) /\ TasksAreJobs
      /\ InBatch <=> BatchOpen
      /\ Leaf = CurrentLeaf /\ ReadyPrefix = Prefix(CurrentLeaf.calls)
      /\ BatchOpen => BatchWork(CurrentLeaf)
  BY <1>1, AtTask DEF GateInv
<1>3. ~PlacementFaults
  BY <1>2, StagedThere
<1>4. Unwritten /\ drive' = drive /\ fault' = fault
  BY <1>3 DEF jobReadsPlacement, Unwritten
<1>5. PICK to, out : /\ SetJob(i, to, out) /\ to \in {"done", "placing"}
                     /\ to = "placing" => BatchOpen /\ out = Prefix(CurrentLeaf.calls)
  BY <1>2, <1>3 DEF jobReadsPlacement, PlacementReads
<1>6. DOMAIN jobs' = DOMAIN jobs /\ jobs'[i].pc = to /\ \A j \in DOMAIN jobs : j # i => jobs'[j] = jobs[j]
  BY <1>2, <1>5, JobSet
<1>7. jobs'[i].out = out
  <2>1. jobs[i] = [pc |-> jobs[i].pc, out |-> jobs[i].out, ran |-> jobs[i].ran]
    BY <1>2 DEF TasksAreJobs, IsJob
  <2>2. jobs'[i] = [[jobs[i] EXCEPT !.pc = to] EXCEPT !.out = out]
    BY <1>2, <1>5 DEF SetJob
  <2>3. QED
    BY <2>1, <2>2
<1>8. BatchOpen' = BatchOpen /\ CurrentLeaf' = CurrentLeaf
  BY <1>4 DEF Unwritten, BatchOpen, CurrentLeaf, Current
<1>9. TaskFits(i)'
  <2>1. BatchOpen => Status(i) \in Staged
    BY <1>2 DEF TaskFits
  <2>2. to = "placing" => out \subseteq {j \in DOMAIN CurrentLeaf.calls : Status(j) = "outcome_ready"}
    BY <1>5 DEF Prefix, Status
  <2>3. QED
    BY <1>5, <1>6, <1>7, <1>8, <2>1, <2>2 DEF TaskFits, OpenTasks, PlannedTasks, StartedTasks, Status
<1>10. PhaseMap' = PhaseMap
  BY JobStepStep DEF JobStep
<1>11. QED
  BY <1>1, <1>4, <1>5, <1>6, <1>9, <1>10, QuietTaskWorks

\* A job's placement (tool-placement.ts commitPlacement).
LEMMA JobCommitsWorks ==
  ASSUME IndInv, GateInv, WorkInv, NEW i, jobCommitsPlacement(i)
  PROVE  Works
<1>1. JobAt(i, "placing") /\ PlaceItems(jobs[i].out) /\ SetJob(i, "done", Null)
      /\ drive' = drive /\ ids' = ids /\ fault' = fault /\ NothingRuns
  BY DEF jobCommitsPlacement, NothingRuns
<1>2. /\ i \in DOMAIN jobs /\ jobs[i].pc = "placing" /\ TasksAreJobs /\ drive.pc \in JoinPcs /\ drive.id \in OpIds
      /\ mem # Null /\ Current # Null /\ \A j \in DOMAIN jobs : TaskFits(j)
      /\ BatchOpen => BatchWork(CurrentLeaf) /\ DOMAIN jobs = DOMAIN CurrentLeaf.calls
  BY <1>1, AtTask DEF GateInv
<1>3. BatchOpen /\ Status(i) \in Staged
      /\ jobs[i].out \subseteq {j \in DOMAIN CurrentLeaf.calls : Status(j) = "outcome_ready"}
  BY <1>2 DEF TaskFits
<1>4. PICK placed : placed = jobs[i].out /\ PlaceItems(placed)
  BY <1>1
<1>5. ids' \in Nat /\ ids <= ids'
  BY <1>1 DEF WorkInv, StoreWork, LogWork
<1>6. /\ StoreWork' /\ PhaseMap' = PhaseMap
      /\ BatchOpen' => AfterPlacement(placed)
      /\ ~BatchOpen' => \A j \in DOMAIN CurrentLeaf.calls : Status(j) \in Staged
  BY <1>1, <1>2, <1>3, <1>4, <1>5, PlacementKeeps
<1>7. DOMAIN jobs' = DOMAIN jobs /\ jobs'[i].pc = "done" /\ \A j \in DOMAIN jobs : j # i => jobs'[j] = jobs[j]
  BY <1>1, <1>2, JobSet
<1>8. \A j \in DOMAIN CurrentLeaf.calls : j \in placed => Status(j) = "outcome_ready"
  BY <1>3, <1>4
<1>9. TaskFits(i)'
  <2>1. BatchOpen' => Status(i)' \in Staged
    BY <1>2, <1>3, <1>6 DEF AfterPlacement, Staged
  <2>2. QED
    BY <1>7, <2>1 DEF TaskFits, OpenTasks, PlannedTasks, StartedTasks
<1>10. ASSUME NEW j \in DOMAIN jobs, j # i PROVE TaskFits(j)'
  <2>1. TaskFits(j) /\ jobs'[j] = jobs[j] /\ executed' = executed /\ j \in DOMAIN CurrentLeaf.calls
    BY <1>1, <1>2, <1>3, <1>7, <1>10 DEF NothingRuns
  <2>2. jobs[j].pc # "placing"
    BY <1>2, <1>10 DEF WorkInv, TaskWork
  <2>3. jobs[j].pc \in OpenTasks => Status(j) \in Unsettled
    BY <2>1 DEF TaskFits
  <2>4. ~BatchOpen' => jobs[j].pc \notin OpenTasks
    BY <1>6, <2>1, <2>3 DEF Unsettled, Staged
  <2>5. BatchOpen' => /\ Tool(j)' = Tool(j) /\ CurrentLeaf'.calls[j].result = CurrentLeaf.calls[j].result
                      /\ Status(j)' = Status(j) \/ (Status(j) \in Staged /\ Status(j)' \in Staged)
    BY <1>6, <1>8, <2>1 DEF AfterPlacement, Staged
  <2>6. QED
    BY <1>3, <2>1, <2>2, <2>4, <2>5, OtherFits
<1>11. \A j \in DOMAIN jobs : TaskFits(j)'
  BY <1>9, <1>10
<1>12. BatchOpen' => /\ DOMAIN CurrentLeaf'.calls = DOMAIN CurrentLeaf.calls
                     /\ \A j \in DOMAIN CurrentLeaf.calls : Status(j) = "completed" => Status(j)' = "completed"
  BY <1>6 DEF AfterPlacement
<1>13. QED
  BY <1>1, <1>2, <1>3, <1>6, <1>7, <1>11, <1>12, TaskMoved

\* A write that frees neither payloads nor arguments.
KeepsValues(vals) ==
  /\ \A id : PendingEntry(id) \in store.vals => PendingEntry(id) \in vals
  /\ \A op, assistant, i : <<"args", op, assistant, i>> \in store.vals => <<"args", op, assistant, i>> \in vals

\* It keeps what the store must hold.
LEMMA ValuesWork ==
  ASSUME IndInv, WorkInv, NEW vals, KeepsValues(vals), store' = [store EXCEPT !.vals = vals], ids' = ids,
         executed' = executed, reexecuted' = reexecuted
  PROVE  /\ StoreWork' /\ CurrentLeaf' = CurrentLeaf /\ BatchOpen' = BatchOpen /\ Current' = Current /\ State' = State
         /\ \A i : Status(i)' = Status(i) /\ Tool(i)' = Tool(i)
         /\ LogIds' = LogIds
<1>1. /\ store'.vals = vals /\ store'.log = store.log /\ store'.tip = store.tip /\ store'.lane = store.lane
      /\ store'.opMeta = store.opMeta /\ store'.opState = store.opState
  BY DEF IndInv, StoreInv, IsStore
<1>2. Current' = Current /\ State' = State /\ CurrentLeaf' = CurrentLeaf /\ BatchOpen' = BatchOpen
  BY <1>1 DEF Current, State, CurrentLeaf, BatchOpen
<1>3. \A i : Status(i)' = Status(i) /\ Tool(i)' = Tool(i)
  BY <1>1, <1>2 DEF Status, Tool, Entry
<1>4. LogIds' = LogIds /\ LogWork' /\ RunsWork'
  BY <1>1 DEF WorkInv, StoreWork, LogWork, RunsWork, LogIds, Minted, UnsafeToolsRunOnce
<1>5. InboxWork'
  BY <1>1 DEF WorkInv, StoreWork, InboxWork, KeepsValues
<1>6. LeafWork'
  <2> SUFFICES ASSUME Current # Null
               PROVE  store'.opMeta[Current'].kind = "run" /\ store'.tip # Null /\ LeafIs(State)'
    BY <1>2 DEF LeafWork
  <2>1. LeafIs(State) /\ store.opMeta[Current].kind = "run" /\ store.tip # Null
    BY DEF WorkInv, StoreWork, LeafWork
  <2>2. ASSUME NEW source, DeferredWork(source) PROVE DeferredWork(source)'
    BY <1>1, <2>2 DEF DeferredWork, OnlyEntry, Minted
  <2>3. ASSUME BatchWork(State.leaf) PROVE BatchWork(State.leaf)'
    <3>1. PICK assistant, calls : assistant = State.leaf.assistant /\ calls = State.leaf.calls
      OBVIOUS
    <3>2. SourceWork(assistant, calls) /\ CallsWork(assistant, calls) /\ CallValues(assistant, calls)
      BY <2>3, <3>1 DEF BatchWork
    <3>3. SourceWork(assistant, calls)' /\ CallsWork(assistant, calls)'
      BY <1>1, <3>2 DEF SourceWork, CallsWork, OnlyEntry, Minted
    <3>4. CallValues(assistant, calls)'
      BY <1>1, <1>2, <3>2 DEF CallValues, KeepsValues
    <3>5. QED
      BY <1>2, <2>3, <3>1, <3>3, <3>4 DEF BatchWork
  <2>4. LeafIs(State)'
    BY <1>1, <1>2, <1>4, <2>1, <2>2, <2>3 DEF LeafIs, Minted
  <2>5. QED
    BY <1>1, <1>2, <2>1, <2>4
<1>7. QED
  BY <1>2, <1>3, <1>4, <1>5, <1>6 DEF StoreWork

\* The checkpoint of a tool that will run again is dropped (tool-recovery.ts).
LEMMA ClearCheckpointWorks ==
  ASSUME IndInv, GateInv, WorkInv, NEW i, clearReplayCheckpoint(i)
  PROVE  Works
<1>1. JobAt(i, "clear")
  BY DEF clearReplayCheckpoint
<1>2. /\ i \in DOMAIN jobs /\ jobs[i].pc = "clear" /\ TaskFits(i) /\ TasksAreJobs /\ drive.pc \in JoinPcs /\ drive.id \in OpIds
      /\ StoreInv /\ mem.op.id = Current /\ Leaf = CurrentLeaf
      /\ \A j \in DOMAIN jobs : TaskFits(j)
      /\ BatchOpen => BatchWork(CurrentLeaf) /\ DOMAIN jobs = DOMAIN CurrentLeaf.calls
  BY <1>1, AtTask DEF GateInv
<1>3. BatchOpen /\ Status(i) = "effect_pending" /\ Tool(i) \in SafeTools
  BY <1>2 DEF TaskFits, OpenTasks, StartedTasks
<1>4. ArgsOf(i) \in store.vals
  BY <1>2, <1>3 DEF ArgsOf, BatchWork, CallValues, Status
<1>5. PICK vals : vals = store.vals \ {OutputOf(i)} /\ store' = [store EXCEPT !.vals = vals]
  BY <1>2, <1>4 DEF clearReplayCheckpoint, StoreInv, IsStore
<1>6. /\ SetJob(i, "admit", Null) /\ ids' = ids /\ drive' = drive /\ fault' = fault
      /\ executed' = executed /\ reexecuted' = reexecuted
  BY <1>4 DEF clearReplayCheckpoint
<1>7. KeepsValues(vals)
  BY <1>5 DEF KeepsValues, OutputOf, PendingEntry
<1>8. /\ StoreWork' /\ CurrentLeaf' = CurrentLeaf /\ BatchOpen' = BatchOpen
      /\ \A j : Status(j)' = Status(j) /\ Tool(j)' = Tool(j)
  BY <1>5, <1>6, <1>7, ValuesWork
<1>9. DOMAIN jobs' = DOMAIN jobs /\ jobs'[i].pc = "admit" /\ \A j \in DOMAIN jobs : j # i => jobs'[j] = jobs[j]
  BY <1>2, <1>6, JobSet
<1>10. TaskFits(i)'
  BY <1>3, <1>8, <1>9 DEF TaskFits, OpenTasks, PlannedTasks, StartedTasks, Unsettled
<1>11. \A j \in DOMAIN jobs : j # i => TaskFits(j)'
  BY <1>2, <1>3, <1>6, <1>8, <1>9, OtherFits
<1>12. PhaseMap' = PhaseMap
  BY JobStepStep DEF JobStep
<1>13. \A j \in DOMAIN jobs : TaskFits(j)'
  BY <1>10, <1>11
<1>14. QED
  BY <1>2, <1>3, <1>6, <1>8, <1>9, <1>12, <1>13, TaskMoved

\* What the commit of one call leaves of its batch.
AfterCall(i, status) ==
  /\ BatchOpen' /\ DOMAIN CurrentLeaf'.calls = DOMAIN CurrentLeaf.calls
  /\ \A j \in DOMAIN CurrentLeaf.calls :
       /\ CurrentLeaf'.calls[j].result = CurrentLeaf.calls[j].result /\ Tool(j)' = Tool(j)
       /\ Status(j)' = IF j = i THEN status ELSE Status(j)

\* A commit of one call keeps what the store must hold.
LEMMA CallCommitKeeps ==
  ASSUME IndInv, WorkInv, NothingRuns, mem # Null, Current # Null, BatchOpen, Leaf = CurrentLeaf, ids' = ids,
         NEW i \in DOMAIN CurrentLeaf.calls, NEW vals, KeepsValues(vals),
         NEW call, IsCall(call), call.result = CurrentLeaf.calls[i].result,
         \/ call.status = "outcome_ready" /\ PendingEntry(call.result) \in vals
         \/ call.status = "effect_pending" /\ <<"args", Current, CurrentLeaf.assistant, i>> \in vals,
         SettleCommit([store EXCEPT !.vals = vals], mem, WithCall(i, call), FALSE)
  PROVE  StoreWork' /\ AfterCall(i, call.status)
<1>1. PICK s : s = [store EXCEPT !.vals = vals]
  OBVIOUS
<1>2. StoreInv /\ IsStore(store) /\ ids \in Nat
  BY DEF IndInv, StoreInv, WorkInv, StoreWork, LogWork
<1>3. SameRecords(store, s) /\ s.tip = store.tip /\ s.log = store.log /\ s.vals = vals
  BY <1>1, <1>2, ValsStore DEF IsStore
<1>4. CurrentLeaf = State.leaf /\ LeafIs(State) /\ BatchWork(CurrentLeaf)
  BY DEF WorkInv, StoreWork, LeafWork, LeafIs, BatchOpen, CurrentLeaf, State, Current
<1>5. PICK old, assistant : old = CurrentLeaf.calls /\ assistant = CurrentLeaf.assistant
  OBVIOUS
<1>6. /\ CallsWork(assistant, old) /\ SourceWork(assistant, old) /\ CallValues(assistant, old)
      /\ CurrentLeaf = [at |-> "tools", assistant |-> assistant, cfg |-> CurrentLeaf.cfg, calls |-> old]
  BY <1>4, <1>5 DEF BatchWork
<1>7. PICK n \in Nat : DOMAIN old = 1..n /\ n = Len(old) /\ old = [k \in 1..n |-> old[k]]
  BY <1>6 DEF CallsWork
<1>8. PICK calls : calls = [old EXCEPT ![i] = call]
  OBVIOUS
<1>9. /\ DOMAIN calls = 1..n /\ calls = [k \in 1..n |-> calls[k]]
      /\ \A k \in 1..n : calls[k] = IF k = i THEN call ELSE old[k]
  BY <1>5, <1>7, <1>8
<1>10. Len(calls) = n
  BY <1>7, <1>9, FunctionIsSeq
<1>11. PICK leaf : leaf = [at |-> "tools", assistant |-> assistant, cfg |-> CurrentLeaf.cfg, calls |-> calls]
  OBVIOUS
<1>12. SettleCommit(s, mem, WithLeaf(leaf), FALSE)
  <2>1. [Leaf EXCEPT !.calls[i] = call] = [Leaf EXCEPT !.calls = [Leaf.calls EXCEPT ![i] = call]]
    OBVIOUS
  <2>2. [Leaf EXCEPT !.calls[i] = call] = leaf
    BY <1>5, <1>6, <1>8, <1>11, <2>1
  <2>3. QED
    BY <1>1, <2>2 DEF WithCall
<1>13. \A id \in HostIds : PendingEntry(id) \in store.vals => PendingEntry(id) \in s.vals
  BY <1>3 DEF KeepsValues
<1>14. ids' \in Nat /\ ids <= ids'
  BY <1>2
<1>15. /\ Current' = Current /\ CurrentLeaf' = leaf /\ State'.leaf = leaf /\ LogIds' = LogIds
       /\ store'.log = store.log /\ store'.vals = vals
       /\ LeafIs(State)' => StoreWork'
  BY <1>3, <1>12, <1>13, <1>14, LeafCommitKeeps
<1>16. \A k \in 1..n : calls[k].result = old[k].result /\ (k # i => calls[k] = old[k])
  BY <1>5, <1>9
<1>17. SourceWork(assistant, calls)'
  BY <1>6, <1>7, <1>9, <1>15 DEF SourceWork, OnlyEntry, Minted
<1>18. CallsWork(assistant, calls)'
  <2>1. \A k \in 1..n : IsCall(calls[k]) /\ calls[k].result \in Minted' /\ calls[k].result # assistant
    BY <1>6, <1>7, <1>9, <1>16 DEF CallsWork, Minted
  <2>2. \A j, k \in 1..n : calls[j].result = calls[k].result => j = k
    BY <1>6, <1>7, <1>16 DEF CallsWork
  <2>3. i \in 1..n /\ calls[i].status # "completed"
    BY <1>5, <1>7, <1>9
  <2>4. QED
    BY <1>7, <1>9, <1>10, <2>1, <2>2, <2>3 DEF CallsWork
<1>19. CallValues(assistant, calls)'
  <2>1. i \in 1..n /\ calls[i] = call
    BY <1>5, <1>7, <1>9
  <2>2. \A k \in 1..n : k # i => calls[k] = old[k] /\ k \in DOMAIN old
    BY <1>7, <1>16
  <2>3. /\ call.status = "outcome_ready" => PendingEntry(call.result) \in vals
        /\ call.status = "effect_pending" => <<"args", Current, assistant, i>> \in vals
        /\ call.status # "planned"
    BY <1>5
  <2>4. QED
    BY <1>6, <1>9, <1>15, <2>1, <2>2, <2>3 DEF CallValues, KeepsValues, NothingRuns
<1>20. BatchWork(leaf)'
  BY <1>11, <1>17, <1>18, <1>19 DEF BatchWork
<1>21. StoreWork'
  BY <1>11, <1>15, <1>20 DEF LeafIs, Leaves, Pending, Deferred
<1>22. AfterCall(i, call.status)
  <2>1. \A j : Tool(j)' = Tool(j)
    BY <1>5, <1>11, <1>15 DEF Tool, Entry
  <2>2. BatchOpen' /\ DOMAIN CurrentLeaf'.calls = DOMAIN CurrentLeaf.calls
    BY <1>5, <1>7, <1>9, <1>11, <1>15 DEF BatchOpen
  <2>3. ASSUME NEW j \in DOMAIN CurrentLeaf.calls
        PROVE  /\ CurrentLeaf'.calls[j].result = CurrentLeaf.calls[j].result
               /\ Status(j)' = IF j = i THEN call.status ELSE Status(j)
    <3>1. j \in 1..n /\ i \in 1..n /\ CurrentLeaf'.calls = calls
      BY <1>5, <1>7, <1>11, <1>15
    <3>2. calls[j].result = old[j].result /\ calls[j] = IF j = i THEN call ELSE old[j]
      BY <1>9, <1>16, <3>1
    <3>3. QED
      BY <1>5, <3>1, <3>2 DEF Status
  <2>4. QED
    BY <2>1, <2>2, <2>3 DEF AfterCall
<1>23. QED
  BY <1>21, <1>22

\* The other tasks after the commit of a call that was not settled.
LEMMA OthersAfterCall ==
  ASSUME WorkInv, NEW i \in DOMAIN jobs, Status(i) \in Unsettled, NEW status, AfterCall(i, status), BatchOpen,
         DOMAIN jobs = DOMAIN CurrentLeaf.calls, executed' = executed,
         \A j \in DOMAIN jobs : j # i => jobs'[j] = jobs[j]
  PROVE  \A j \in DOMAIN jobs : j # i => TaskFits(j)'
<1> SUFFICES ASSUME NEW j \in DOMAIN jobs, j # i PROVE TaskFits(j)'
  OBVIOUS
<1>1. TaskFits(j) /\ jobs'[j] = jobs[j]
  BY DEF WorkInv, TaskWork
<1>2. /\ BatchOpen' /\ Tool(j)' = Tool(j) /\ CurrentLeaf'.calls[j].result = CurrentLeaf.calls[j].result
      /\ Status(j)' = Status(j) /\ DOMAIN CurrentLeaf'.calls = DOMAIN CurrentLeaf.calls
  BY DEF AfterCall
<1>3. ASSUME jobs[j].pc = "placing", NEW k \in jobs[j].out PROVE Status(k)' = Status(k)
  <2>1. k \in DOMAIN CurrentLeaf.calls /\ Status(k) = "outcome_ready"
    BY <1>1, <1>3 DEF TaskFits
  <2>2. k # i
    BY <2>1 DEF Unsettled
  <2>3. QED
    BY <2>1, <2>2 DEF AfterCall
<1>4. QED
  BY <1>1, <1>2, <1>3, OtherFits

\* The intent of a tool is on record before the tool may start (tool-intent.ts).
LEMMA ToolIntentWorks ==
  ASSUME IndInv, GateInv, WorkInv, NEW i, publishToolIntent(i), ~Cancelled
  PROVE  Works
<1>1. JobAt(i, "intent") /\ SetJob(i, "admit", Null) /\ ids' = ids /\ drive' = drive /\ fault' = fault /\ NothingRuns
  BY DEF publishToolIntent, NothingRuns
<1>2. /\ i \in DOMAIN jobs /\ jobs[i].pc = "intent" /\ TaskFits(i) /\ TasksAreJobs /\ drive.pc \in JoinPcs /\ drive.id \in OpIds
      /\ mem # Null /\ Current # Null /\ StoreInv /\ mem.op.id = Current /\ Leaf = CurrentLeaf
      /\ BatchOpen => BatchWork(CurrentLeaf) /\ DOMAIN jobs = DOMAIN CurrentLeaf.calls
      /\ Call(i) = CurrentLeaf.calls[i] /\ ToolOf(i) = Tool(i)
  BY <1>1, AtTask DEF GateInv
<1>3. BatchOpen /\ Status(i) = "planned" /\ i \in DOMAIN CurrentLeaf.calls
  BY <1>2 DEF TaskFits, OpenTasks, PlannedTasks
<1>4. IsCall(Call(i)) /\ \A e \in executed : e.call # CurrentLeaf.calls[i].result
  BY <1>2, <1>3 DEF BatchWork, CallsWork, CallValues, Status
<1>5. PICK vals, call :
        /\ vals = store.vals \cup {ArgsOf(i)}
        /\ call = [Call(i) EXCEPT !.status = "effect_pending", !.replay = IF ToolOf(i) \in SafeTools THEN "safe" ELSE "never"]
  OBVIOUS
<1>6. SettleCommit([store EXCEPT !.vals = vals], mem, WithCall(i, call), FALSE)
  <2>1. vals = store.vals \cup {ArgsOf(i)} /\ IsStore(store)
    BY <1>2, <1>5 DEF StoreInv
  <2>2. [store EXCEPT !.vals = @ \cup {ArgsOf(i)}] = [store EXCEPT !.vals = vals]
    BY <2>1 DEF IsStore
  <2>3. QED
    BY <1>5, <2>2 DEF publishToolIntent
<1>7. IsCall(call) /\ call.result = CurrentLeaf.calls[i].result /\ call.status = "effect_pending"
  <2>1. PICK replay : replay = IF ToolOf(i) \in SafeTools THEN "safe" ELSE "never"
    OBVIOUS
  <2>2. call = [Call(i) EXCEPT !.status = "effect_pending", !.replay = replay]
    BY <1>5, <2>1
  <2>3. QED
    BY <1>2, <1>4, <2>2 DEF IsCall, Unsettled
<1>8. KeepsValues(vals) /\ <<"args", Current, CurrentLeaf.assistant, i>> \in vals
  BY <1>2, <1>5 DEF KeepsValues, ArgsOf
<1>9. StoreWork' /\ AfterCall(i, call.status)
  BY <1>1, <1>2, <1>3, <1>6, <1>7, <1>8, CallCommitKeeps
<1>10. AfterCall(i, "effect_pending")
  BY <1>7, <1>9
<1>11. DOMAIN jobs' = DOMAIN jobs /\ jobs'[i].pc = "admit" /\ \A j \in DOMAIN jobs : j # i => jobs'[j] = jobs[j]
  BY <1>1, <1>2, JobSet
<1>12. TaskFits(i)'
  <2>1. BatchOpen' /\ Status(i)' = "effect_pending" /\ CurrentLeaf'.calls[i].result = CurrentLeaf.calls[i].result
    BY <1>3, <1>10 DEF AfterCall
  <2>2. QED
    BY <1>1, <1>4, <1>11, <2>1 DEF TaskFits, OpenTasks, PlannedTasks, StartedTasks, Unsettled, NothingRuns
<1>13. Status(i) \in Unsettled /\ executed' = executed
  BY <1>1, <1>3 DEF Unsettled, NothingRuns
<1>14. \A j \in DOMAIN jobs : j # i => TaskFits(j)'
  BY <1>2, <1>3, <1>10, <1>11, <1>13, OthersAfterCall
<1>15. PhaseMap' = PhaseMap
  BY JobStepStep DEF JobStep
<1>16. BatchOpen' => /\ DOMAIN CurrentLeaf'.calls = DOMAIN CurrentLeaf.calls
                     /\ \A j \in DOMAIN CurrentLeaf.calls : Status(j) = "completed" => Status(j)' = "completed"
  BY <1>3, <1>10 DEF AfterCall
<1>17. \A j \in DOMAIN jobs : TaskFits(j)'
  BY <1>12, <1>14
<1>18. QED
  BY <1>1, <1>2, <1>3, <1>9, <1>11, <1>15, <1>16, <1>17, TaskMoved

\* The outcome of a tool is staged (tool-outcome.ts).
LEMMA ToolOutcomeWorks ==
  ASSUME IndInv, GateInv, WorkInv, NEW i, publishToolOutcome(i)
  PROVE  Works
<1>1. JobAt(i, "outcome") /\ ids' = ids /\ drive' = drive /\ fault' = fault /\ NothingRuns
  BY DEF publishToolOutcome, NothingRuns
<1>2. /\ i \in DOMAIN jobs /\ jobs[i].pc = "outcome" /\ TaskFits(i) /\ TasksAreJobs /\ drive.pc \in JoinPcs /\ drive.id \in OpIds
      /\ mem # Null /\ Current # Null /\ StoreInv /\ mem.op.id = Current /\ Leaf = CurrentLeaf
      /\ BatchOpen => BatchWork(CurrentLeaf) /\ DOMAIN jobs = DOMAIN CurrentLeaf.calls
      /\ Call(i) = CurrentLeaf.calls[i]
  BY <1>1, AtTask DEF GateInv
<1>3. BatchOpen /\ Status(i) \in Unsettled /\ i \in DOMAIN CurrentLeaf.calls
  BY <1>2 DEF TaskFits, OpenTasks
<1>4. IsCall(Call(i))
  BY <1>2, <1>3 DEF BatchWork, CallsWork
<1>5. PICK to \in {"place", "done"} : SetJob(i, to, Null)
  BY DEF publishToolOutcome
<1>6. PICK vals : vals = (store.vals \ {OutputOf(i), MemoOf(i)}) \cup {PendingEntry(Call(i).result)}
  OBVIOUS
<1>7. PICK call : call = [Call(i) EXCEPT !.status = "outcome_ready", !.outcome = jobs[i].out,
                                         !.terminate = ~Cancelled /\ jobs[i].out.terminate]
  OBVIOUS
<1>8. SettleCommit([store EXCEPT !.vals = vals], mem, WithCall(i, call), FALSE)
  <2>1. IsStore(store)
    BY <1>2 DEF StoreInv
  <2>2. [store EXCEPT !.vals = (@ \ {OutputOf(i), MemoOf(i)}) \cup {PendingEntry(Call(i).result)}]
          = [store EXCEPT !.vals = vals]
    BY <1>6, <2>1 DEF IsStore
  <2>3. QED
    BY <1>7, <2>2 DEF publishToolOutcome
<1>9. IsCall(call) /\ call.result = CurrentLeaf.calls[i].result /\ call.status = "outcome_ready"
  BY <1>2, <1>4, <1>7 DEF IsCall, Staged
<1>10. KeepsValues(vals) /\ PendingEntry(call.result) \in vals
  <2>1. KeepsValues(vals)
    BY <1>6 DEF KeepsValues, OutputOf, MemoOf, PendingEntry
  <2>2. QED
    BY <1>2, <1>6, <1>9, <2>1
<1>11. StoreWork' /\ AfterCall(i, call.status)
  BY <1>1, <1>2, <1>3, <1>8, <1>9, <1>10, CallCommitKeeps
<1>12. AfterCall(i, "outcome_ready")
  BY <1>9, <1>11
<1>13. DOMAIN jobs' = DOMAIN jobs /\ jobs'[i].pc = to /\ \A j \in DOMAIN jobs : j # i => jobs'[j] = jobs[j]
  BY <1>2, <1>5, JobSet
<1>14. TaskFits(i)'
  <2>1. BatchOpen' /\ Status(i)' = "outcome_ready"
    BY <1>3, <1>12 DEF AfterCall
  <2>2. QED
    BY <1>13, <2>1 DEF TaskFits, OpenTasks, PlannedTasks, StartedTasks, Staged
<1>15. executed' = executed
  BY <1>1 DEF NothingRuns
<1>16. \A j \in DOMAIN jobs : j # i => TaskFits(j)'
  BY <1>2, <1>3, <1>12, <1>13, <1>15, OthersAfterCall
<1>17. PhaseMap' = PhaseMap
  BY JobStepStep DEF JobStep
<1>18. BatchOpen' => /\ DOMAIN CurrentLeaf'.calls = DOMAIN CurrentLeaf.calls
                     /\ \A j \in DOMAIN CurrentLeaf.calls : Status(j) = "completed" => Status(j)' = "completed"
  BY <1>3, <1>12 DEF AfterCall, Unsettled
<1>19. \A j \in DOMAIN jobs : TaskFits(j)'
  BY <1>14, <1>16
<1>20. QED
  BY <1>1, <1>2, <1>3, <1>11, <1>13, <1>17, <1>18, <1>19, TaskMoved

\* Every step of a task keeps the invariant.
LEMMA JobWorks ==
  ASSUME IndInv, GateInv, WorkInv, NEW i, JobStep(i)
  PROVE  Works
BY QuietJobWorks, AdmitToolWorks, JobReadsWorks, JobCommitsWorks, ClearCheckpointWorks, ToolIntentWorks, ToolOutcomeWorks
   DEF JobStep

-----------------------------------------------------------------------------
(* Steps beside the pass: hosts, the line, recovery data.                  *)

\* The operation and its branch stay; what its calls have on record stays.
RunStays ==
  /\ store'.log = store.log /\ store'.tip = store.tip /\ store'.opMeta = store.opMeta /\ Current' = Current
  /\ CurrentLeaf' = CurrentLeaf /\ State'.latest = State.latest
  /\ ids' = ids /\ executed' = executed /\ reexecuted' = reexecuted /\ jobs' = jobs
  /\ \A id \in Minted : PendingEntry(id) \in store.vals => PendingEntry(id) \in store'.vals
  /\ \A op, assistant, i : <<"args", op, assistant, i>> \in store.vals => <<"args", op, assistant, i>> \in store'.vals

\* Such a step keeps what the store must hold, given the inbox.
LEMMA RunStaysWork ==
  ASSUME WorkInv, RunStays, InboxWork'
  PROVE  /\ StoreWork' /\ BatchOpen' = BatchOpen
         /\ \A i : Status(i)' = Status(i) /\ Tool(i)' = Tool(i)
<1>1. BatchOpen' = BatchOpen /\ State.leaf = CurrentLeaf /\ State'.leaf = CurrentLeaf'
  BY DEF RunStays, BatchOpen, State, CurrentLeaf
<1>2. \A i : Status(i)' = Status(i) /\ Tool(i)' = Tool(i)
  BY DEF RunStays, Status, Tool, Entry
<1>3. LogIds' = LogIds /\ LogWork' /\ RunsWork'
  BY DEF RunStays, WorkInv, StoreWork, LogWork, RunsWork, LogIds, Minted, UnsafeToolsRunOnce
<1>4. LeafWork'
  <2> SUFFICES ASSUME Current # Null
               PROVE  store'.opMeta[Current'].kind = "run" /\ store'.tip # Null /\ LeafIs(State)'
    BY DEF LeafWork, RunStays
  <2>1. LeafIs(State) /\ store.opMeta[Current].kind = "run" /\ store.tip # Null
    BY DEF WorkInv, StoreWork, LeafWork
  <2>2. ASSUME NEW source, DeferredWork(source) PROVE DeferredWork(source)'
    BY <2>2 DEF RunStays, DeferredWork, OnlyEntry, Minted
  <2>3. ASSUME BatchWork(State.leaf) PROVE BatchWork(State.leaf)'
    <3>1. PICK assistant, calls : assistant = State.leaf.assistant /\ calls = State.leaf.calls
      OBVIOUS
    <3>2. SourceWork(assistant, calls) /\ CallsWork(assistant, calls) /\ CallValues(assistant, calls)
      BY <2>3, <3>1 DEF BatchWork
    <3>3. SourceWork(assistant, calls)' /\ CallsWork(assistant, calls)'
      BY <3>2 DEF RunStays, SourceWork, CallsWork, OnlyEntry, Minted
    <3>4. \A i \in DOMAIN calls : calls[i].result \in Minted
      BY <3>2 DEF CallsWork
    <3>5. CallValues(assistant, calls)'
      BY <3>2, <3>4 DEF RunStays, CallValues
    <3>6. State'.leaf = State.leaf
      BY <1>1 DEF RunStays
    <3>7. QED
      BY <2>3, <3>1, <3>3, <3>5, <3>6 DEF BatchWork
  <2>4. State'.leaf = State.leaf /\ State'.latest = State.latest /\ Current' = Current /\ store'.opMeta = store.opMeta
    BY <1>1 DEF RunStays
  <2>5. LeafIs(State)'
    BY <1>3, <2>1, <2>2, <2>3, <2>4 DEF LeafIs, Minted, RunStays
  <2>6. QED
    BY <2>1, <2>5 DEF RunStays
<1>5. QED
  BY <1>1, <1>2, <1>3, <1>4 DEF StoreWork

\* The pass keeps its place; its flags may change.
StaysAt ==
  /\ drive'.id = drive.id /\ drive'.pc = drive.pc /\ drive'.arg = drive.arg /\ drive'.seen = drive.seen
  /\ drive'.waitForRetry = drive.waitForRetry

\* So do its tasks, unless a cancellation becomes durable.
LEMMA PassStays ==
  ASSUME WorkInv, RunStays, InboxWork', StaysAt, SignalWork', ModeWork', Sound,
         drive.pc \in {"none", "done"} \/ Phase' = "cancelling" \/ (Phase' = Phase /\ State' = State)
  PROVE  Works
<1>1. /\ StoreWork' /\ BatchOpen' = BatchOpen /\ CurrentLeaf' = CurrentLeaf
      /\ \A i : Status(i)' = Status(i) /\ Tool(i)' = Tool(i)
  BY RunStaysWork DEF RunStays
<1>2. AtLeaf(drive.pc)'
  BY <1>1 DEF WorkInv, PassWork, StaysAt, AtLeaf
<1>3. SeenFor(drive.pc, drive.seen)'
  BY <1>1 DEF WorkInv, PassWork, StaysAt, SeenFor
<1>4. ArgFor(drive.pc, drive.arg)'
  BY DEF WorkInv, PassWork, StaysAt, ArgFor, ReplyPcs, CancelPcs
<1>5. OutcomeFor(drive.pc, drive.arg)'
  BY DEF WorkInv, PassWork, StaysAt, OutcomeFor
<1>6. TurnFor(drive.pc, drive.arg)'
  BY <1>1 DEF WorkInv, PassWork, StaysAt, TurnFor, BatchPcs
<1>7. \A i \in DOMAIN jobs : TaskFits(i)'
  <2> SUFFICES ASSUME NEW i \in DOMAIN jobs PROVE TaskFits(i)'
    OBVIOUS
  <2>1. TaskFits(i) /\ jobs'[i] = jobs[i] /\ executed' = executed
    BY DEF WorkInv, TaskWork, RunStays
  <2>2. QED
    BY <1>1, <2>1 DEF TaskFits
<1>8. OneAtATime'
  BY <1>1 DEF WorkInv, TaskWork, OneAtATime, StaysAt, RunStays
<1>9. TaskWork'
  BY <1>1, <1>7, <1>8 DEF WorkInv, TaskWork, StaysAt, RunStays
<1>10. QED
  BY <1>1, <1>2, <1>3, <1>4, <1>5, <1>6, <1>9 DEF Works, WorkInv, PassWork

\* Nor is the pass touched when only the inbox and values change.
LEMMA BesideWorks ==
  ASSUME WorkInv, RunStays, InboxWork', drive' = drive, fault' = fault, State' = State, store'.results = store.results
  PROVE  Works
<1>1. Phase' = Phase
  BY DEF Phase, PhaseOf, RunStays, Current, State
<1>2. SignalWork' /\ ModeWork'
  BY <1>1 DEF WorkInv, PassWork, SignalWork, ModeWork
<1>3. QED
  BY <1>1, <1>2, PassStays DEF StaysAt, Sound

\* A command that changes the inbox and the payloads of its items.
InboxCommit(vals, inbox) ==
  /\ store' = [store EXCEPT !.vals = vals, !.lane = durableLaneState(mem.op.id, inbox, mem.last)]
  /\ drive' = drive /\ fault' = fault /\ ids' = ids

\* It keeps the invariant when every item left has its payload.
LEMMA InboxWorks ==
  ASSUME IndInv, WorkInv, Open, TasksKept, NEW vals, NEW inbox, InboxCommit(vals, inbox),
         inbox \in Seq(InboxItem), \A i \in DOMAIN inbox : PendingEntry(inbox[i].id) \in vals,
         \A id \in Minted : PendingEntry(id) \in store.vals => PendingEntry(id) \in vals,
         \A op, assistant, i : <<"args", op, assistant, i>> \in store.vals => <<"args", op, assistant, i>> \in vals
  PROVE  Works
<1>1. IsStore(store) /\ mem.op.id = store.lane.cur
  BY OpenFacts
<1>2. /\ store'.log = store.log /\ store'.tip = store.tip /\ store'.opMeta = store.opMeta /\ store'.opState = store.opState
      /\ store'.results = store.results /\ store'.vals = vals /\ store'.lane.cur = store.lane.cur /\ store'.lane.inbox = inbox
  BY <1>1 DEF InboxCommit, IsStore, durableLaneState
<1>3. Current' = Current /\ State' = State /\ CurrentLeaf' = CurrentLeaf
  BY <1>2 DEF Current, State, CurrentLeaf
<1>4. RunStays
  BY <1>2, <1>3 DEF RunStays, TasksKept, InboxCommit
<1>5. InboxWork'
  BY <1>2 DEF InboxWork
<1>6. QED
  BY <1>2, <1>3, <1>4, <1>5, BesideWorks DEF InboxCommit

\* What a command finds on an open lane.
LEMMA OpenInbox ==
  ASSUME IndInv, WorkInv, Open
  PROVE  mem.inbox = store.lane.inbox /\ PayloadsPresent(mem.inbox) /\ IsStore(store) /\ mem.op.id = store.lane.cur
<1>1. mem.inbox = store.lane.inbox /\ IsStore(store) /\ mem.op.id = store.lane.cur
  BY OpenFacts
<1>2. PayloadsPresent(store.lane.inbox)
  BY PayloadsThere DEF WorkInv, StoreWork
<1>3. QED
  BY <1>1, <1>2

\* An item joins the inbox with its payload.
LEMMA JoinInbox ==
  ASSUME IndInv, WorkInv, Open, TasksKept, NEW m \in HostIds, NEW kind \in InboxKinds,
         InboxCommit(store.vals \cup {PendingEntry(m)}, Append(mem.inbox, [id |-> m, kind |-> kind]))
  PROVE  Works
<1>1. PICK vals : vals = store.vals \cup {PendingEntry(m)}
  OBVIOUS
<1>2. PICK inbox : inbox = Append(mem.inbox, [id |-> m, kind |-> kind])
  OBVIOUS
<1>3. PICK q : q = store.lane.inbox /\ q \in Seq(InboxItem) /\ mem.inbox = q
              /\ \A i \in DOMAIN q : PendingEntry(q[i].id) \in store.vals
  BY OpenInbox DEF WorkInv, StoreWork, InboxWork
<1>4. [id |-> m, kind |-> kind] \in InboxItem
  BY DEF InboxItem, HostIds
<1>5. PICK item : item = [id |-> m, kind |-> kind] /\ item.id = m /\ item \in InboxItem
  BY <1>4
<1>6. inbox = Append(q, item)
  BY <1>2, <1>3, <1>5
<1>7. /\ inbox \in Seq(InboxItem) /\ DOMAIN inbox = 1..(Len(q) + 1) /\ Len(q) \in Nat /\ DOMAIN q = 1..Len(q)
      /\ inbox[Len(q) + 1] = item /\ \A i \in 1..Len(q) : inbox[i] = q[i]
  BY <1>3, <1>5, <1>6, AppendProperties, LenProperties
<1>8. ASSUME NEW i \in DOMAIN inbox PROVE PendingEntry(inbox[i].id) \in vals
  <2>1. CASE i = Len(q) + 1
    BY <1>1, <1>5, <1>7, <2>1
  <2>2. CASE i # Len(q) + 1
    <3>1. i \in 1..Len(q)
      BY <1>7, <2>2
    <3>2. PendingEntry(q[i].id) \in store.vals /\ inbox[i] = q[i]
      BY <1>3, <1>7, <3>1
    <3>3. QED
      BY <1>1, <3>2
  <2>3. QED
    BY <2>1, <2>2
<1>9. InboxCommit(vals, inbox)
  BY <1>1, <1>2
<1>10. store.vals \subseteq vals
  BY <1>1
<1>11. QED
  BY <1>7, <1>8, <1>9, <1>10, InboxWorks

\* steer, followUp and nextRun (lane.ts).
LEMMA EnqueueWorks ==
  ASSUME IndInv, WorkInv, TasksKept, NEW kind \in InboxKinds, NEW m \in HostIds, enqueue(kind, m)
  PROVE  Works
<1>1. Open
  BY DEF enqueue, Ready
<1>2. PayloadsPresent(mem.inbox) /\ IsStore(store)
  BY <1>1, OpenInbox
<1>3. InboxCommit(store.vals \cup {PendingEntry(m)}, Append(mem.inbox, [id |-> m, kind |-> kind]))
  BY <1>2 DEF enqueue, CurrentId, IsStore, InboxCommit
<1>4. QED
  BY <1>1, <1>3, JoinInbox

\* What stays in the inbox when items leave it.
LEMMA LeftFacts ==
  ASSUME InboxWork, NEW removed, NEW left, left = withoutInboxItems(store.lane.inbox, removed)
  PROVE  left \in Seq(InboxItem)
         /\ \A k \in DOMAIN left : left[k].id \in HostIds /\ left[k].id \notin removed /\ PendingEntry(left[k].id) \in store.vals
<1> DEFINE q == store.lane.inbox
           R == {i \in DOMAIN q : q[i].id \notin removed}
<1>1. q \in Seq(InboxItem) /\ left = ItemsAt(q, R)
  BY DEF InboxWork, withoutInboxItems
<1>2. left \in Seq(InboxItem) /\ HoldsItems(q, R, Len(q), left)
  BY <1>1, ItemsAtHolds
<1>3. \A k \in DOMAIN left : \E j \in DOMAIN q : q[j].id \notin removed /\ left[k] = q[j]
  BY <1>2 DEF HoldsItems
<1>4. ASSUME NEW k \in DOMAIN left
      PROVE  left[k].id \in HostIds /\ left[k].id \notin removed /\ PendingEntry(left[k].id) \in store.vals
  <2>1. PICK j \in DOMAIN q : q[j].id \notin removed /\ left[k] = q[j]
    BY <1>3
  <2>2. QED
    BY <2>1, QueuedIds DEF InboxWork
<1>5. QED
  BY <1>2, <1>4

\* Items with the given kinds are host input.
LEMMA KindFacts ==
  ASSUME InboxWork, NEW kinds, NEW items, items = inboxItems(store.lane.inbox, kinds)
  PROVE  items \in Seq(InboxItem) /\ inboxIds(items) \subseteq HostIds
<1> DEFINE q == store.lane.inbox
           R == {i \in DOMAIN q : q[i].kind \in kinds}
<1>1. q \in Seq(InboxItem) /\ items = ItemsAt(q, R)
  BY DEF InboxWork, inboxItems
<1>2. items \in Seq(InboxItem) /\ HoldsItems(q, R, Len(q), items)
  BY <1>1, ItemsAtHolds
<1>3. \A k \in DOMAIN items : \E j \in DOMAIN q : items[k] = q[j]
  BY <1>2 DEF HoldsItems
<1>4. QED
  BY <1>2, <1>3, QueuedIds DEF inboxIds

\* Payloads of host input are neither staged outcomes nor arguments.
LEMMA FreedFacts ==
  ASSUME NEW removed, removed \subseteq HostIds, ids \in Nat, NEW vals, vals = store.vals \ {PendingEntry(id) : id \in removed}
  PROVE  /\ \A id \in Minted : PendingEntry(id) \in store.vals => PendingEntry(id) \in vals
         /\ \A op, assistant, i : <<"args", op, assistant, i>> \in store.vals => <<"args", op, assistant, i>> \in vals
         /\ \A id : id \notin removed /\ PendingEntry(id) \in store.vals => PendingEntry(id) \in vals
<1>1. \A id : PendingEntry(id) \in {PendingEntry(x) : x \in removed} => id \in removed
  BY DEF PendingEntry
<1>2. \A id \in Minted : id \notin removed
  BY HostIdFacts DEF Minted
<1>3. \A op, assistant, i : <<"args", op, assistant, i>> \notin {PendingEntry(x) : x \in removed}
  BY DEF PendingEntry
<1>4. QED
  BY <1>1, <1>2, <1>3

\* Items leave the inbox with their payloads.
LEMMA LeaveInbox ==
  ASSUME IndInv, WorkInv, Open, TasksKept, NEW removed, removed \subseteq HostIds,
         InboxCommit(store.vals \ {PendingEntry(id) : id \in removed}, withoutInboxItems(mem.inbox, removed))
  PROVE  Works
<1>1. PICK vals : vals = store.vals \ {PendingEntry(id) : id \in removed}
  OBVIOUS
<1>2. PICK inbox : inbox = withoutInboxItems(mem.inbox, removed)
  OBVIOUS
<1>3. mem.inbox = store.lane.inbox /\ InboxWork /\ ids \in Nat
  BY OpenInbox DEF WorkInv, StoreWork, LogWork
<1>4. inbox \in Seq(InboxItem)
      /\ \A k \in DOMAIN inbox : inbox[k].id \notin removed /\ PendingEntry(inbox[k].id) \in store.vals
  BY <1>2, <1>3, LeftFacts
<1>5. /\ \A id \in Minted : PendingEntry(id) \in store.vals => PendingEntry(id) \in vals
      /\ \A op, assistant, i : <<"args", op, assistant, i>> \in store.vals => <<"args", op, assistant, i>> \in vals
      /\ \A id : id \notin removed /\ PendingEntry(id) \in store.vals => PendingEntry(id) \in vals
  BY <1>1, <1>3, FreedFacts
<1>6. InboxCommit(vals, inbox)
  BY <1>1, <1>2
<1>7. QED
  BY <1>4, <1>5, <1>6, InboxWorks

\* cancelQueued (lane.ts).
LEMMA CancelQueuedWorks ==
  ASSUME IndInv, WorkInv, TasksKept, NEW m \in HostIds, cancelQueued(m)
  PROVE  Works
<1>1. Open
  BY DEF cancelQueued, Ready
<1>2. PayloadsPresent(mem.inbox) /\ IsStore(store)
  BY <1>1, OpenInbox
<1>3. PICK removed : removed = {m} /\ removed \subseteq HostIds
  OBVIOUS
<1>4. {PendingEntry(m)} = {PendingEntry(id) : id \in removed}
  BY <1>3
<1>5. InboxCommit(store.vals \ {PendingEntry(m)}, withoutInboxItems(mem.inbox, {m}))
  BY <1>2 DEF cancelQueued, CurrentId, IsStore, InboxCommit
<1>6. InboxCommit(store.vals \ {PendingEntry(id) : id \in removed}, withoutInboxItems(mem.inbox, removed))
  BY <1>3, <1>4, <1>5
<1>7. QED
  BY <1>1, <1>3, <1>6, LeaveInbox

-----------------------------------------------------------------------------
(* Commands on a lane without an operation.                                *)

\* Such a lane has no pass at work.
LEMMA IdlePass ==
  ASSUME IndInv, GateInv, Current = Null
  PROVE  drive.pc \in {"none", "done"}
<1> SUFFICES ASSUME drive.pc \notin {"none", "done"} PROVE FALSE
  OBVIOUS
<1>1. drive.id \in OpIds /\ drive.id # Null
  BY NullAssumption DEF IndInv, DriveShape, PassOwnsOperation
<1>2. Phase \notin {"running", "cancelling"}
  BY <1>1 DEF Current, Phase, PhaseOf, IndInv, StoreInv, IsStore
<1>3. QED
  BY <1>2 DEF GateInv, PassHasOperation

\* A step beside a pass that is not at work.
LEMMA IdleWorks ==
  ASSUME WorkInv, drive.pc \in {"none", "done"}, drive' = drive, jobs' = jobs, StoreWork', Sound
  PROVE  Works
<1>1. drive'.pc \in {"none", "done"} /\ drive.pc \notin JoinPcs /\ drive'.pc \notin BatchPcs
  BY DEF JoinPcs, BatchPcs
<1>2. AtLeaf(drive.pc)' /\ SeenFor(drive.pc, drive.seen)' /\ ArgFor(drive.pc, drive.arg)'
  BY <1>1 DEF AtLeaf, SeenFor, ArgFor, StartPcs, CheckPcs, ReadyPcs, RetryPcs, DeferPcs, RequestPcs, ReplyPcs, CancelPcs
<1>3. OutcomeFor(drive.pc, drive.arg)' /\ SignalWork' /\ ModeWork'
  BY DEF WorkInv, PassWork, OutcomeFor, SignalWork, ModeWork
<1>4. TurnFor(drive.pc, drive.arg)'
  BY <1>1 DEF TurnFor
<1>5. TaskWork'
  BY <1>1, RestingTasks DEF WorkInv
<1>6. QED
  BY <1>2, <1>3, <1>4, <1>5 DEF Works, WorkInv, PassWork

\* Entries of host input, as a sequence.
HostItems(n, items) ==
  n \in Nat /\ DOMAIN items = 1..n /\ items = [k \in 1..n |-> items[k]] /\ \A k \in 1..n : items[k][1] \in HostIds

\* What one more message makes of queued items.
LEMMA AppendedItems ==
  ASSUME NEW queued \in Seq(InboxItem), NEW m \in HostIds, NEW body, NEW items,
         items = Append(pendingEntryWrite(queued), <<m, body>>)
  PROVE  \E n \in Nat : HostItems(n, items)
<1>1. PICK old : old = pendingEntryWrite(queued)
  OBVIOUS
<1>2. PICK n \in Nat : n = Len(queued)
  BY PendingItems
<1>3. /\ DOMAIN old = 1..n /\ old = [k \in 1..n |-> old[k]]
      /\ \A k \in 1..n : old[k][1] = queued[k].id /\ k \in DOMAIN queued
  BY <1>1, <1>2, PendingItems
<1>4. \A k \in DOMAIN queued : queued[k].id \in HostIds
  <2>1. \A k \in DOMAIN queued : queued[k] \in InboxItem
    BY ElementOfSeq, LenProperties
  <2>2. QED
    BY <2>1 DEF InboxItem, HostIds
<1>5. PICK T : T = {old[k] : k \in 1..n} \cup {<<m, body>>}
  OBVIOUS
<1>6. old \in Seq(T) /\ Len(old) = n /\ <<m, body>> \in T
  <2>1. \A k \in 1..n : old[k] \in T
    BY <1>5
  <2>2. old \in Seq(T) /\ Len(old) = n
    BY <1>3, <2>1, FunctionIsSeq
  <2>3. QED
    BY <1>5, <2>2
<1>7. /\ items \in Seq(T) /\ Len(items) = n + 1 /\ items[n + 1] = <<m, body>>
      /\ \A k \in 1..n : items[k] = old[k]
  BY <1>1, <1>6, AppendProperties
<1>8. DOMAIN items = 1..(n + 1) /\ items = [k \in 1..(n + 1) |-> items[k]]
  BY <1>7, LenProperties
<1>9. ASSUME NEW k \in 1..(n + 1) PROVE items[k][1] \in HostIds
  <2>1. CASE k = n + 1
    BY <1>7, <2>1
  <2>2. CASE k # n + 1
    <3>1. k \in 1..n
      BY <2>2
    <3>2. QED
      BY <1>3, <1>4, <1>7, <3>1
  <2>3. QED
    BY <2>1, <2>2
<1>10. n + 1 \in Nat
  OBVIOUS
<1>11. HostItems(n + 1, items)
  BY <1>8, <1>9, <1>10 DEF HostItems
<1>12. QED
  BY <1>10, <1>11

\* A message or note on a lane without an operation (lane.ts append).
LEMMA IdleAppendWorks ==
  ASSUME IndInv, GateInv, WorkInv, TasksKept, NEW m \in HostIds, append(m), ~Busy
  PROVE  Works
<1> DEFINE queued == inboxItems(mem.inbox, {"write"})
           after  == withoutInboxItems(mem.inbox, inboxIds(queued))
           items  == Append(pendingEntryWrite(queued), <<m, UserBody(m)>>)
           s      == InsertEntries(store, items)
           vals   == s.vals \ PendingOf(queued)
<1>1. Open
  BY DEF append, Ready
<1>2. /\ mem.inbox = store.lane.inbox /\ PayloadsPresent(mem.inbox) /\ IsStore(store) /\ store.lane.cur = Null
      /\ InboxWork /\ LogWork /\ RunsWork
  BY <1>1, OpenInbox DEF Busy, WorkInv, StoreWork
<1>3. SameRecords(store, s) /\ s.log = store.log \o ChainEntries(store.tip, items) /\ s.vals = store.vals
  BY <1>2, InsertFacts
<1>4. IsStore(s)
  BY <1>3 DEF SameRecords
<1>5. store' = [s EXCEPT !.tip = m, !.vals = vals, !.lane = durableLaneState(Null, after, mem.last)]
  BY <1>2, <1>4 DEF append, IsStore
<1>6. drive' = drive /\ fault' = fault /\ ids' = ids
  BY <1>2 DEF append
<1>7. queued \in Seq(InboxItem) /\ inboxIds(queued) \subseteq HostIds
  BY <1>2, KindFacts
<1> HIDE DEF queued, s
<1>8. PICK n \in Nat : HostItems(n, items)
  BY <1>7, AppendedItems
<1> HIDE DEF after, items, vals
<1>9. store'.log = s.log /\ store'.vals = vals /\ store'.lane.cur = Null /\ store'.lane.inbox = after
  BY <1>4, <1>5 DEF IsStore, durableLaneState
<1>10. ids \in Nat /\ ids' \in Nat /\ ids <= ids'
  BY <1>2, <1>6 DEF LogWork
<1>11. LogWork'
  <2>1. DOMAIN items = 1..n /\ \A k \in DOMAIN items : items[k][1] \in HostIds \cup 1..ids'
    BY <1>8 DEF HostItems
  <2>2. store'.log = store.log \o ChainEntries(store.tip, items)
    BY <1>3, <1>9
  <2>3. QED
    BY <1>2, <1>10, <2>1, <2>2, GrowLog
<1>12. InboxWork'
  <2>1. after \in Seq(InboxItem)
        /\ \A k \in DOMAIN after : after[k].id \notin inboxIds(queued) /\ PendingEntry(after[k].id) \in store.vals
    BY <1>2, LeftFacts DEF after
  <2>2. vals = store.vals \ {PendingEntry(id) : id \in inboxIds(queued)}
    BY <1>3 DEF vals, PendingOf
  <2>3. \A id : id \notin inboxIds(queued) /\ PendingEntry(id) \in store.vals => PendingEntry(id) \in vals
    BY <1>7, <1>10, <2>2, FreedFacts
  <2>4. QED
    BY <1>9, <2>1, <2>3 DEF InboxWork
<1>13. RunsWork'
  BY <1>2, <1>10, KeepRuns DEF TasksKept
<1>14. StoreWork'
  BY <1>9, <1>11, <1>12, <1>13 DEF StoreWork, LeafWork, Current
<1>15. drive.pc \in {"none", "done"}
  BY <1>2, IdlePass DEF Current
<1>16. QED
  BY <1>6, <1>14, <1>15, IdleWorks DEF TasksKept, Sound

\* A message or note (lane.ts append).
LEMMA AppendWorks ==
  ASSUME IndInv, GateInv, WorkInv, TasksKept, NEW m \in HostIds, append(m)
  PROVE  Works
<1>1. CASE ~Busy
  BY <1>1, IdleAppendWorks
<1>2. CASE Busy
  <2>1. Open
    BY DEF append, Ready
  <2>2. PayloadsPresent(mem.inbox) /\ IsStore(store)
    BY <2>1, OpenInbox
  <2>3. InboxCommit(store.vals \cup {PendingEntry(m)}, Append(mem.inbox, [id |-> m, kind |-> "write"]))
    BY <1>2, <2>2 DEF append, IsStore, InboxCommit
  <2>4. "write" \in InboxKinds
    BY DEF InboxKinds
  <2>5. QED
    BY <2>1, <2>3, <2>4, JoinInbox
<1>3. QED
  BY <1>1, <1>2

\* The entries of a prompt, after the queued items it takes along.
PromptEntries(taken, prompt) ==
  pendingEntryWrite(taken) \o [i \in DOMAIN prompt |-> <<prompt[i], UserBody(prompt[i])>>]

\* Their ids are hosts' ids, and every message of the prompt is among them.
LEMMA PromptItems ==
  ASSUME NEW taken \in Seq(InboxItem), NEW prompt \in Seq(Msgs), NEW items, items = PromptEntries(taken, prompt)
  PROVE  \E n \in Nat : /\ HostItems(n, items)
                        /\ taken # <<>> \/ prompt # <<>> => n # 0
                        /\ \A i \in DOMAIN prompt : \E k \in 1..n : items[k][1] = prompt[i]
<1>1. PICK old, new : old = pendingEntryWrite(taken) /\ new = [i \in DOMAIN prompt |-> <<prompt[i], UserBody(prompt[i])>>]
  OBVIOUS
<1>2. PICK a, b \in Nat : a = Len(taken) /\ b = Len(prompt)
  BY LenProperties
<1>3. /\ DOMAIN old = 1..a /\ old = [k \in 1..a |-> old[k]]
      /\ \A k \in 1..a : old[k][1] = taken[k].id /\ k \in DOMAIN taken
  BY <1>1, <1>2, PendingItems
<1>4. \A k \in DOMAIN taken : taken[k].id \in HostIds
  <2>1. \A k \in DOMAIN taken : taken[k] \in InboxItem
    BY ElementOfSeq, LenProperties
  <2>2. QED
    BY <2>1 DEF InboxItem, HostIds
<1>5. DOMAIN prompt = 1..b /\ \A k \in 1..b : prompt[k] \in Msgs
  BY <1>2, ElementOfSeq, LenProperties
<1>6. DOMAIN new = 1..b /\ new = [k \in 1..b |-> new[k]] /\ \A k \in 1..b : new[k][1] = prompt[k] /\ prompt[k] \in HostIds
  BY <1>1, <1>5 DEF HostIds
<1>7. PICK T : T = {old[k] : k \in 1..a} \cup {new[k] : k \in 1..b}
  OBVIOUS
<1>8. (\A k \in 1..a : old[k] \in T) /\ (\A k \in 1..b : new[k] \in T)
  BY <1>7
<1>9. old \in Seq(T) /\ Len(old) = a
  BY <1>3, <1>8, FunctionIsSeq
<1>10. new \in Seq(T) /\ Len(new) = b
  BY <1>6, <1>8, FunctionIsSeq
<1>11. items = old \o new
  BY <1>1 DEF PromptEntries
<1>12. /\ items \in Seq(T) /\ Len(items) = a + b
       /\ \A k \in 1..(a + b) : items[k] = IF k <= a THEN old[k] ELSE new[k - a]
  <2> DEFINE r == old \o new
  <2>1. /\ r \in Seq(T) /\ Len(r) = Len(old) + Len(new)
        /\ \A k \in 1..(Len(old) + Len(new)) : r[k] = IF k <= Len(old) THEN old[k] ELSE new[k - Len(old)]
    BY <1>9, <1>10, ConcatProperties
  <2>2. items = r
    BY <1>11
  <2> HIDE DEF r
  <2>3. QED
    BY <1>9, <1>10, <2>1, <2>2
<1>13. DOMAIN items = 1..(a + b) /\ items = [k \in 1..(a + b) |-> items[k]] /\ a + b \in Nat
  BY <1>12, LenProperties
<1>14. ASSUME NEW k \in 1..(a + b) PROVE items[k][1] \in HostIds
  <2>1. CASE k <= a
    <3>1. k \in 1..a /\ items[k] = old[k]
      BY <1>12, <2>1
    <3>2. QED
      BY <1>3, <1>4, <3>1
  <2>2. CASE ~(k <= a)
    <3>1. k - a \in 1..b
      BY <2>2
    <3>2. QED
      BY <1>6, <1>12, <2>2, <3>1
  <2>3. QED
    BY <2>1, <2>2
<1>15. ASSUME NEW i \in DOMAIN prompt PROVE \E k \in 1..(a + b) : items[k][1] = prompt[i]
  <2>1. PICK k \in 1..(a + b) : k = a + i /\ i \in 1..b /\ ~(k <= a) /\ k - a = i
    BY <1>5
  <2>2. items[k] = new[i]
    BY <1>12, <2>1
  <2>3. QED
    BY <1>6, <2>1, <2>2
<1>16. taken # <<>> \/ prompt # <<>> => a + b # 0
  BY <1>2, EmptySeq
<1>17. HostItems(a + b, items)
  BY <1>13, <1>14 DEF HostItems
<1>18. QED
  BY <1>13, <1>15, <1>16, <1>17

\* The tip after entries of host input.
LEMMA TipIsHost ==
  ASSUME NEW n \in Nat, n # 0, NEW items, HostItems(n, items), NEW tip
  PROVE  TipAfter(tip, items) # Null
<1>1. DOMAIN items = 1..n /\ items = [k \in 1..n |-> items[k]] /\ \A k \in 1..n : items[k][1] \in HostIds
  BY DEF HostItems
<1>2. PICK T : T = {items[k] : k \in 1..n}
  OBVIOUS
<1>3. \A k \in 1..n : items[k] \in T
  BY <1>2
<1>4. items \in Seq(T) /\ Len(items) = n
  BY <1>1, <1>3, FunctionIsSeq
<1>5. items # <<>>
  BY <1>4, EmptySeq
<1>6. n \in 1..n /\ Last(items) = items[n]
  BY <1>4 DEF Last
<1>7. Last(items)[1] # Null
  BY <1>1, <1>6, HostIdFacts
<1>8. QED
  BY <1>5, <1>7 DEF TipAfter

\* Prompts are sequences of messages.
LEMMA PromptIsSeq ==
  ASSUME NEW prompt \in Prompts
  PROVE  prompt \in Seq(Msgs)
<1>1. PICK n \in 0..MaxPrompt : prompt \in [1..n -> Msgs]
  BY DEF Prompts
<1>2. n \in Nat
  BY HostAssumption
<1>3. QED
  BY <1>1, <1>2

\* acceptRun (lane.ts) opens an operation whose prompt is on the branch.
LEMMA AcceptRunWorks ==
  ASSUME IndInv, GateInv, WorkInv, TasksKept, NEW op \in OpIds, NEW prompt \in Prompts, NEW settings,
         acceptRun(op, prompt, settings)
  PROVE  Works
<1> DEFINE taken == selectAcceptedInbox(mem.inbox, settings)
           inbox == withoutInboxItems(mem.inbox, inboxIds(taken))
           items == PromptEntries(taken, prompt)
           meta  == [kind |-> "run", source |-> mem.tip, prompt |-> prompt]
           st    == [ctl |-> "running", settings |-> settings, latest |-> Null, leaf |-> [at |-> "starting"]]
           s     == InsertEntries(store, items)
           vals  == s.vals \ PendingOf(taken)
<1>1. Open /\ ~Busy
  BY DEF acceptRun, Ready
<1>2. /\ mem.inbox = store.lane.inbox /\ PayloadsPresent(mem.inbox) /\ IsStore(store) /\ store.lane.cur = Null
      /\ InboxWork /\ LogWork /\ RunsWork
  BY <1>1, OpenInbox DEF Busy, WorkInv, StoreWork
<1>3. /\ SameRecords(store, s) /\ s.log = store.log \o ChainEntries(store.tip, items) /\ s.vals = store.vals
      /\ s.tip = TipAfter(store.tip, items)
  BY <1>2, InsertFacts
<1>4. IsStore(s)
  BY <1>3 DEF SameRecords
<1>5. store' = [s EXCEPT !.vals = vals, !.opMeta = [s.opMeta EXCEPT ![op] = meta],
                         !.opState = [s.opState EXCEPT ![op] = st], !.lane = durableLaneState(op, inbox, mem.last)]
  BY <1>2, <1>4 DEF acceptRun, IsStore, PromptEntries
<1>6. /\ drive' = drive /\ fault' = fault /\ ids' = ids
      /\ prompt # <<>> \/ \E i \in DOMAIN taken : taken[i].kind # "write"
  BY <1>2 DEF acceptRun
<1>7. prompt \in Seq(Msgs)
  BY PromptIsSeq
<1>8. taken \in Seq(InboxItem) /\ inboxIds(taken) \subseteq HostIds
  <2>1. PICK set : taken = itemsOf(store.lane.inbox, set)
    BY <1>2 DEF selectAcceptedInbox
  <2>2. taken \in Seq(InboxItem) /\ \A k \in DOMAIN taken : taken[k].id \in HostIds
    BY <1>2, <2>1, TakenFacts
  <2>3. QED
    BY <2>2 DEF inboxIds
<1>9. prompt # <<>> \/ taken # <<>>
  BY <1>6, EmptySeq
<1> HIDE DEF taken, s
<1>10. \E n \in Nat : /\ HostItems(n, items)
                      /\ taken # <<>> \/ prompt # <<>> => n # 0
                      /\ \A i \in DOMAIN prompt : \E k \in 1..n : items[k][1] = prompt[i]
  BY <1>7, <1>8, PromptItems
<1> HIDE DEF items
<1>11. PICK n \in Nat : /\ HostItems(n, items)
                        /\ taken # <<>> \/ prompt # <<>> => n # 0
                        /\ \A i \in DOMAIN prompt : \E k \in 1..n : items[k][1] = prompt[i]
  BY <1>10
<1>12. meta.kind = "run" /\ meta.prompt = prompt /\ st.leaf = [at |-> "starting"]
  OBVIOUS
<1> HIDE DEF inbox, meta, st, vals
<1>13. /\ store'.log = s.log /\ store'.tip = s.tip /\ store'.vals = vals /\ store'.lane.cur = op /\ store'.lane.inbox = inbox
       /\ store'.opMeta[op] = meta /\ store'.opState[op] = st
  <2>1. /\ store'.log = s.log /\ store'.tip = s.tip /\ store'.vals = vals /\ store'.lane.cur = op /\ store'.lane.inbox = inbox
        /\ store'.opMeta = [s.opMeta EXCEPT ![op] = meta] /\ store'.opState = [s.opState EXCEPT ![op] = st]
    BY <1>4, <1>5 DEF IsStore, durableLaneState
  <2>2. QED
    BY <1>4, <2>1 DEF IsStore
<1>14. ids \in Nat /\ ids' \in Nat /\ ids <= ids'
  BY <1>2, <1>6 DEF LogWork
<1>15. LogWork' /\ LogIds' = LogIds \cup {items[k][1] : k \in DOMAIN items}
  <2>1. DOMAIN items = 1..n /\ \A k \in DOMAIN items : items[k][1] \in HostIds \cup 1..ids'
    BY <1>11 DEF HostItems
  <2>2. store'.log = store.log \o ChainEntries(store.tip, items)
    BY <1>3, <1>13
  <2>3. QED
    BY <1>2, <1>14, <2>1, <2>2, GrowLog
<1>16. InboxWork'
  <2>1. inbox \in Seq(InboxItem)
        /\ \A k \in DOMAIN inbox : inbox[k].id \notin inboxIds(taken) /\ PendingEntry(inbox[k].id) \in store.vals
    BY <1>2, LeftFacts DEF inbox
  <2>2. vals = store.vals \ {PendingEntry(id) : id \in inboxIds(taken)}
    BY <1>3 DEF vals, PendingOf
  <2>3. \A id : id \notin inboxIds(taken) /\ PendingEntry(id) \in store.vals => PendingEntry(id) \in vals
    BY <1>8, <1>14, <2>2, FreedFacts
  <2>4. QED
    BY <1>13, <2>1, <2>3 DEF InboxWork
<1>17. RunsWork'
  BY <1>2, <1>14, KeepRuns DEF TasksKept
<1>18. LeafWork'
  <2>1. Current' = op /\ State' = st
    BY <1>13 DEF Current, State
  <2>2. store'.tip # Null
    BY <1>3, <1>9, <1>11, <1>13, TipIsHost
  <2>3. ToSet(prompt) \subseteq LogIds'
    <3>1. \A i \in DOMAIN prompt : prompt[i] \in LogIds'
      BY <1>11, <1>15 DEF HostItems
    <3>2. QED
      BY <3>1 DEF ToSet
  <2>4. LeafIs(State)'
    BY <1>12, <1>13, <2>1, <2>3 DEF LeafIs, Leaves, Pending, Deferred
  <2>5. QED
    BY <1>12, <1>13, <2>1, <2>2, <2>4 DEF LeafWork
<1>19. StoreWork'
  BY <1>15, <1>16, <1>17, <1>18 DEF StoreWork
<1>20. drive.pc \in {"none", "done"}
  BY <1>2, IdlePass DEF Current
<1>21. QED
  BY <1>6, <1>19, <1>20, IdleWorks DEF TasksKept, Sound

\* Nothing is written, and the pass stays.
LEMMA QuietWorks ==
  ASSUME WorkInv, Unwritten, jobs' = jobs, drive' = drive, Sound
  PROVE  Works
<1>1. Current' = Current /\ State' = State /\ CurrentLeaf' = CurrentLeaf /\ Phase' = Phase
  BY DEF Unwritten, Current, State, CurrentLeaf, Phase, PhaseOf
<1>2. RunStays
  BY <1>1 DEF Unwritten, RunStays
<1>3. InboxWork'
  BY DEF Unwritten, InboxWork, WorkInv, StoreWork
<1>4. SignalWork' /\ ModeWork'
  BY <1>1 DEF WorkInv, PassWork, SignalWork, ModeWork
<1>5. QED
  BY <1>1, <1>2, <1>3, <1>4, PassStays DEF StaysAt

\* setModel, setThinkingLevel and setActiveTools (lane.ts).
LEMMA ConfigurationWorks ==
  ASSUME IndInv, WorkInv, TasksKept, NEW c, setConfiguration(c)
  PROVE  Works
<1>1. Open
  BY DEF setConfiguration, Ready
<1>2. IsStore(store)
  BY <1>1, OpenInbox
<1>3. /\ store'.log = store.log /\ store'.tip = store.tip /\ store'.opMeta = store.opMeta /\ store'.opState = store.opState
      /\ store'.results = store.results /\ store'.vals = store.vals /\ store'.lane = store.lane
      /\ drive' = drive /\ fault' = fault /\ ids' = ids
  BY <1>2 DEF setConfiguration, IsStore
<1>4. Current' = Current /\ State' = State /\ CurrentLeaf' = CurrentLeaf
  BY <1>3 DEF Current, State, CurrentLeaf
<1>5. RunStays
  BY <1>3, <1>4 DEF RunStays, TasksKept
<1>6. InboxWork'
  BY <1>3 DEF InboxWork, WorkInv, StoreWork
<1>7. QED
  BY <1>3, <1>4, <1>5, <1>6, BesideWorks

\* The synchronous part of an abort (lane.ts).
LEMMA RequestAbortWorks ==
  ASSUME IndInv, WorkInv, TasksKept, NEW op, requestOperationAbort(op)
  PROVE  Works
<1>1. Unwritten /\ jobs' = jobs /\ Sound
  BY DEF requestOperationAbort, Unwritten, TasksKept, Sound
<1>2. drive' = drive \/ drive' = [drive EXCEPT !.gate = "aborting"]
  BY DEF requestOperationAbort
<1>3. CASE drive' = drive
  BY <1>1, <1>3, QuietWorks
<1>4. CASE drive' = [drive EXCEPT !.gate = "aborting"]
  <2>1. StaysAt /\ drive'.resumed = drive.resumed /\ drive'.gate = "aborting"
    BY <1>4 DEF IndInv, DriveShape, IsDrive, StaysAt
  <2>2. Current' = Current /\ State' = State /\ CurrentLeaf' = CurrentLeaf /\ Phase' = Phase
    BY <1>1, <2>1 DEF Unwritten, Current, State, CurrentLeaf, Phase, PhaseOf, StaysAt
  <2>3. RunStays
    BY <1>1, <2>2 DEF Unwritten, RunStays
  <2>4. InboxWork'
    BY <1>1 DEF Unwritten, InboxWork, WorkInv, StoreWork
  <2>5. SignalWork' /\ ModeWork'
    BY <2>1 DEF WorkInv, PassWork, SignalWork, ModeWork, StaysAt
  <2>6. QED
    BY <1>1, <2>1, <2>2, <2>3, <2>4, <2>5, PassStays
<1>5. QED
  BY <1>2, <1>3, <1>4

\* Commands of hosts.
LEMMA HostWorks ==
  ASSUME IndInv, GateInv, WorkInv, TasksKept, HostStep
  PROVE  Works
<1>1. CASE \E op \in OpIds, prompt \in Prompts, settings \in RunSettings : acceptRun(op, prompt, settings)
  BY <1>1, AcceptRunWorks
<1>2. CASE \E kind \in HostActions \cap {"steer", "followUp", "nextRun"}, m \in Msgs : enqueue(kind, m)
  BY <1>2, EnqueueWorks DEF InboxKinds, HostIds
<1>3. CASE \E m \in Msgs \cup Notes : append(m)
  BY <1>3, AppendWorks DEF HostIds
<1>4. CASE \E m \in Msgs \cup Notes : cancelQueued(m)
  BY <1>4, CancelQueuedWorks DEF HostIds
<1>5. CASE \E c \in HostConfigs : setConfiguration(c)
  BY <1>5, ConfigurationWorks
<1>6. CASE claimIdle \/ releaseIdle
  BY <1>6, QuietWorks DEF claimIdle, releaseIdle, Unwritten, TasksKept, Sound
<1>7. CASE \E op \in OpIds : requestOperationAbort(op)
  BY <1>7, RequestAbortWorks
<1>8. QED
  BY <1>1, <1>2, <1>3, <1>4, <1>5, <1>6, <1>7 DEF HostStep

\* Issuing drive().
LEMMA DriveCallWorks ==
  ASSUME WorkInv, TasksKept, DriveCallStep
  PROVE  Works
BY QuietWorks DEF DriveCallStep, requestDrive, Unwritten, TasksKept, Sound

\* The claim of drive() at the head of the line names a host of this instance.
LEMMA ClaimFacts ==
  ASSUME GateInv, HeadIs("drive")
  PROVE  Head(line).op \in OpIds /\ Head(line).mode \in DriveModes
<1>1. line \in Seq(Token) /\ line # <<>> /\ Head(line).who = "drive"
  BY DEF GateInv, LineAgrees, HeadIs
<1>2. Head(line) \in Token
  BY <1>1, HeadTailProperties
<1>3. QED
  BY <1>1, <1>2 DEF Token

\* drive() installs a pass or observes the one it finds (lane.ts).
LEMMA InstallWorks ==
  ASSUME IndInv, GateInv, WorkInv, TasksKept, installDrive
  PROVE  Works
<1>1. PICK t : t = Head(line)
  OBVIOUS
<1>2. t.op \in OpIds /\ t.mode \in DriveModes /\ Open
  BY <1>1, ClaimFacts DEF installDrive, Ready
<1>3. Unwritten /\ jobs' = jobs /\ Sound
  BY DEF installDrive, Unwritten, TasksKept, Sound
<1>4. \/ drive' = drive
      \/ drive.id = t.op /\ drive' = [drive EXCEPT !.resumed = drive.resumed \/ t.mode.resumed]
      \/ drive.id = Null /\ Busy /\ mem.op.id = t.op /\ drive' = newDrive(t.op, t.mode)
  BY <1>1 DEF installDrive, IndInv, DriveShape, IsDrive
<1>5. Current' = Current /\ State' = State /\ CurrentLeaf' = CurrentLeaf
  BY <1>3 DEF Unwritten, Current, State, CurrentLeaf
<1>6. InboxWork'
  BY <1>3 DEF Unwritten, InboxWork, WorkInv, StoreWork
<1>7. CASE drive' = drive
  BY <1>3, <1>7, QuietWorks
<1>8. CASE drive.id = t.op /\ drive' = [drive EXCEPT !.resumed = drive.resumed \/ t.mode.resumed]
  <2>1. StaysAt /\ drive'.gate = drive.gate /\ drive'.resumed = (drive.resumed \/ t.mode.resumed)
    BY <1>8 DEF IndInv, DriveShape, IsDrive, StaysAt
  <2>2. Phase' = Phase
    BY <1>3, <2>1 DEF Unwritten, Phase, PhaseOf, StaysAt
  <2>3. RunStays
    BY <1>3, <1>5 DEF Unwritten, RunStays
  <2>4. SignalWork'
    BY <2>1, <2>2 DEF WorkInv, PassWork, SignalWork, StaysAt
  <2>5. ModeWork'
    <3>1. drive'.id = drive.id /\ drive'.waitForRetry = drive.waitForRetry
      BY <2>1 DEF StaysAt
    <3>2. drive.resumed \/ t.mode.resumed => \E mode \in DriveModes : drive.resumed \/ mode.resumed
      BY <1>2
    <3>3. drive.id # Null => \E mode \in DriveModes : mode.wait = drive.waitForRetry
      BY DEF WorkInv, PassWork, ModeWork
    <3>4. drive.id # Null /\ drive.resumed => \E mode \in DriveModes : mode.resumed
      BY DEF WorkInv, PassWork, ModeWork
    <3>5. drive.id # Null /\ drive'.resumed => \E mode \in DriveModes : mode.resumed
      BY <1>2, <2>1, <3>4, Zenon
    <3>6. QED
      BY <3>1, <3>3, <3>5 DEF ModeWork
  <2>6. QED
    BY <1>3, <1>5, <1>6, <2>1, <2>2, <2>3, <2>4, <2>5, PassStays
<1>9. CASE drive.id = Null /\ Busy /\ mem.op.id = t.op /\ drive' = newDrive(t.op, t.mode)
  <2>1. /\ drive'.pc = "begin" /\ drive'.seen = NoState /\ drive'.gate = "open" /\ drive'.resumed = t.mode.resumed
        /\ drive'.waitForRetry = t.mode.wait
    BY <1>9 DEF newDrive
  <2>2. drive.pc = "none"
    BY <1>9 DEF IndInv, DriveShape
  <2>3. StoreWork'
    BY <1>3, KeepStoreWork DEF WorkInv
  <2>4. AtLeaf(drive.pc)' /\ SeenFor(drive.pc, drive.seen)' /\ ArgFor(drive.pc, drive.arg)' /\ drive'.pc \notin BatchPcs
    BY <2>1 DEF AtLeaf, SeenFor, ArgFor, StartPcs, CheckPcs, ReadyPcs, RetryPcs, DeferPcs, RequestPcs, SeenPcs, ReplyPcs,
       CancelPcs, BatchPcs
  <2>5. OutcomeFor(drive.pc, drive.arg)' /\ SignalWork' /\ TurnFor(drive.pc, drive.arg)'
    BY <2>1, <2>4 DEF OutcomeFor, SignalWork, TurnFor
  <2>6. ModeWork'
    BY <1>2, <2>1 DEF ModeWork
  <2>7. TaskWork'
    BY <1>3, <2>2, <2>4, RestingTasks DEF WorkInv, JoinPcs
  <2>8. QED
    BY <1>3, <2>3, <2>4, <2>5, <2>6, <2>7 DEF Works, WorkInv, PassWork
<1>10. QED
  BY <1>4, <1>7, <1>8, <1>9

\* A pass at work owns the current operation from its first step on.
LEMMA AtOwn ==
  ASSUME IndInv, GateInv, drive.pc \notin {"none", "done"}
  PROVE  drive.id \in OpIds /\ drive.id # Null /\ Current = drive.id
<1>1. drive.id \in OpIds /\ drive.id # Null /\ IsStore(store)
  BY NullAssumption DEF IndInv, StoreInv, DriveShape, PassOwnsOperation
<1>2. Phase \in {"running", "cancelling"}
  BY DEF GateInv, PassHasOperation
<1>3. QED
  BY <1>1, <1>2 DEF Phase, PhaseOf, IsStore, Current

\* The abort command at the head of the line.
LEMMA AbortFacts ==
  ASSUME GateInv, HeadIs("abort")
  PROVE  Head(line).sampled => Head(line).op = drive.id
<1>1. line \in Seq(Token) /\ line # <<>> /\ Head(line).who = "abort"
  BY DEF GateInv, LineAgrees, HeadIs
<1>2. 1 \in DOMAIN line /\ line[1] = Head(line)
  BY <1>1, HeadTailProperties, EmptySeq
<1>3. QED
  BY <1>1, <1>2 DEF GateInv, LineAgrees, Aborts

\* An abort of an operation that is not there, or is cancelled already.
LEMMA RepeatedAbortWorks ==
  ASSUME IndInv, GateInv, WorkInv, TasksKept, commitAbort, ~(Busy /\ mem.op.id = Head(line).op /\ ~Cancelled)
  PROVE  Works
<1>1. PICK t : t = Head(line)
  OBVIOUS
<1>2. Open /\ HeadIs("abort")
  BY DEF commitAbort, Ready
<1>3. t.sampled => t.op = drive.id
  BY <1>1, <1>2, AbortFacts
<1>4. Unwritten /\ jobs' = jobs /\ Sound
  BY DEF commitAbort, Unwritten, TasksKept, Sound
<1>5. \/ drive' = drive
      \/ /\ t.sampled
         /\ drive' = [drive EXCEPT !.released = TRUE, !.gate = IF Busy /\ mem.op.id = t.op THEN "signalled" ELSE drive.gate]
  BY <1>1 DEF commitAbort, IndInv, DriveShape, IsDrive
<1>6. CASE drive' = drive
  BY <1>4, <1>6, QuietWorks
<1>7. CASE /\ t.sampled
           /\ drive' = [drive EXCEPT !.released = TRUE, !.gate = IF Busy /\ mem.op.id = t.op THEN "signalled" ELSE drive.gate]
  <2>1. /\ StaysAt /\ drive'.resumed = drive.resumed
        /\ drive'.gate = IF Busy /\ mem.op.id = t.op THEN "signalled" ELSE drive.gate
    BY <1>7 DEF IndInv, DriveShape, IsDrive, StaysAt
  <2>2. Current' = Current /\ State' = State /\ CurrentLeaf' = CurrentLeaf /\ Phase' = Phase
    BY <1>4, <2>1 DEF Unwritten, Current, State, CurrentLeaf, Phase, PhaseOf, StaysAt
  <2>3. RunStays
    BY <1>4, <2>2 DEF Unwritten, RunStays
  <2>4. InboxWork'
    BY <1>4 DEF Unwritten, InboxWork, WorkInv, StoreWork
  <2>5. ModeWork'
    BY <2>1 DEF WorkInv, PassWork, ModeWork, StaysAt
  <2>6. SignalWork'
    <3> SUFFICES ASSUME drive'.gate = "signalled", drive.pc \notin {"none", "done"} PROVE Phase = "cancelling"
      BY <2>1, <2>2 DEF SignalWork, StaysAt
    <3>1. CASE drive.gate = "signalled"
      BY <3>1 DEF WorkInv, PassWork, SignalWork
    <3>2. CASE Busy /\ mem.op.id = t.op
      <4>1. drive.id = t.op /\ Cancelled /\ Current = drive.id /\ Current # Null
        BY <1>1, <1>3, <1>7, <3>2, AtOwn
      <4>2. State.ctl = "cancel_requested"
        BY <1>2, <4>1, MemFacts DEF IndInv, Open
      <4>3. QED
        BY <4>1, <4>2 DEF Phase, PhaseOf, State, Current
    <3>3. QED
      BY <2>1, <3>1, <3>2
  <2>7. QED
    BY <1>4, <2>1, <2>2, <2>3, <2>4, <2>5, <2>6, PassStays
<1>8. QED
  BY <1>5, <1>6, <1>7

\* The cancellation of the current operation becomes durable (lane.ts).
LEMMA CancelWorks ==
  ASSUME IndInv, GateInv, WorkInv, TasksKept, commitAbort, Busy, mem.op.id = Head(line).op, ~Cancelled
  PROVE  Works
<1>1. PICK cur : cur = Current
  OBVIOUS
<1>2. Open /\ HeadIs("abort")
  BY DEF commitAbort, Ready
<1>3. /\ mem.inbox = store.lane.inbox /\ PayloadsPresent(mem.inbox) /\ IsStore(store) /\ mem.op.id = Current
      /\ InboxWork /\ ids \in Nat
  BY <1>2, OpenInbox DEF WorkInv, StoreWork, LogWork, Current
<1>4. Head(line).op = cur /\ cur # Null /\ cur \in OpIds
  BY <1>1, <1>3 DEF Busy, Current, IsStore
<1>5. mem.op.st = State /\ IsState(State)
  BY <1>1, <1>2, <1>4, MemFacts DEF IndInv, Open
<1> DEFINE removed == inboxItems(mem.inbox, {"steer", "followUp"})
           inbox   == withoutInboxItems(mem.inbox, inboxIds(removed))
           st      == [State EXCEPT !.ctl = "cancel_requested"]
           vals    == store.vals \ PendingOf(removed)
<1>6. store' = [store EXCEPT !.vals = vals, !.opState = [store.opState EXCEPT ![cur] = st],
                             !.lane = durableLaneState(cur, inbox, mem.last)]
  BY <1>3, <1>4, <1>5 DEF commitAbort, IsStore
<1>7. ids' = ids /\ fault' = fault
  BY <1>3 DEF commitAbort
<1>8. drive' = drive \/ drive' = [drive EXCEPT !.released = TRUE, !.gate = "signalled"]
  BY <1>3 DEF commitAbort, IndInv, DriveShape, IsDrive
<1>9. st.leaf = State.leaf /\ st.latest = State.latest /\ st.ctl = "cancel_requested"
  <2>1. PICK old : old = State /\ IsState(old)
    BY <1>5
  <2>2. st = [old EXCEPT !.ctl = "cancel_requested"]
    BY <2>1
  <2> HIDE DEF st
  <2>3. st.leaf = old.leaf /\ st.latest = old.latest /\ st.ctl = "cancel_requested"
    BY <2>1, <2>2 DEF IsState
  <2>4. QED
    BY <2>1, <2>3
<1>10. inboxIds(removed) \subseteq HostIds
  BY <1>3, KindFacts
<1>11. inbox \in Seq(InboxItem)
       /\ \A k \in DOMAIN inbox : inbox[k].id \notin inboxIds(removed) /\ PendingEntry(inbox[k].id) \in store.vals
  BY <1>3, LeftFacts
<1> HIDE DEF removed, inbox, st
<1>12. vals = store.vals \ {PendingEntry(id) : id \in inboxIds(removed)}
  BY DEF PendingOf
<1> HIDE DEF vals
<1>13. /\ \A id \in Minted : PendingEntry(id) \in store.vals => PendingEntry(id) \in vals
       /\ \A op, assistant, i : <<"args", op, assistant, i>> \in store.vals => <<"args", op, assistant, i>> \in vals
       /\ \A id : id \notin inboxIds(removed) /\ PendingEntry(id) \in store.vals => PendingEntry(id) \in vals
  BY <1>3, <1>10, <1>12, FreedFacts
<1>14. /\ store'.log = store.log /\ store'.tip = store.tip /\ store'.opMeta = store.opMeta /\ store'.vals = vals
       /\ store'.lane.cur = cur /\ store'.lane.inbox = inbox /\ store'.opState = [store.opState EXCEPT ![cur] = st]
  BY <1>3, <1>6 DEF IsStore, durableLaneState
<1>15. Current' = Current /\ State' = st /\ CurrentLeaf' = CurrentLeaf
  <2>1. store'.opState[cur] = st
    BY <1>3, <1>4, <1>14 DEF IsStore
  <2>2. Current' = cur /\ State' = st
    BY <1>14, <2>1 DEF Current, State
  <2>3. QED
    BY <1>1, <1>9, <2>2 DEF CurrentLeaf, State
<1>16. RunStays
  BY <1>7, <1>9, <1>13, <1>14, <1>15 DEF RunStays, TasksKept
<1>17. InboxWork'
  BY <1>11, <1>13, <1>14 DEF InboxWork
<1>18. StaysAt /\ drive'.resumed = drive.resumed
  <2>1. CASE drive' = drive
    BY <2>1 DEF StaysAt
  <2>2. CASE drive' = [drive EXCEPT !.released = TRUE, !.gate = "signalled"]
    BY <2>2 DEF IndInv, DriveShape, IsDrive, StaysAt
  <2>3. QED
    BY <1>8, <2>1, <2>2
<1>19. drive.pc \in {"none", "done"} \/ Phase' = "cancelling"
  <2> SUFFICES ASSUME drive.pc \notin {"none", "done"} PROVE Phase' = "cancelling"
    OBVIOUS
  <2>1. drive'.id = Current'
    BY <1>15, <1>18, AtOwn DEF StaysAt
  <2>2. QED
    BY <1>9, <1>15, <2>1 DEF Phase, PhaseOf, State, Current
<1>20. SignalWork' /\ ModeWork'
  BY <1>18, <1>19 DEF WorkInv, PassWork, SignalWork, ModeWork, StaysAt
<1>21. QED
  BY <1>7, <1>16, <1>17, <1>18, <1>19, <1>20, PassStays DEF Sound

\* The abort command (lane.ts).
LEMMA AbortWorks ==
  ASSUME IndInv, GateInv, WorkInv, TasksKept, commitAbort
  PROVE  Works
BY RepeatedAbortWorks, CancelWorks

-----------------------------------------------------------------------------
(* Recovery data; losing and restoring the process.                        *)

\* Frames, tool output and memos of effects that run.
LEMMA ProgressWorks ==
  ASSUME IndInv, WorkInv, ProgressStep
  PROVE  Works
<1>1. \E vals : KeepsValues(vals) /\ store' = [store EXCEPT !.vals = vals]
  <2>1. IsStore(store)
    BY DEF IndInv, StoreInv
  <2>2. CASE appendFrame
    <3>1. PICK vals : vals = store.vals \cup {PendingFrames(drive.id, Leaf.response)}
      OBVIOUS
    <3>2. store' = [store EXCEPT !.vals = vals]
      BY <2>1, <2>2, <3>1 DEF appendFrame, IsStore
    <3>3. KeepsValues(vals)
      BY <3>1 DEF KeepsValues
    <3>4. QED
      BY <3>2, <3>3
  <2>3. ASSUME NEW i \in DOMAIN jobs, writeToolOutput(i)
        PROVE  \E vals : KeepsValues(vals) /\ store' = [store EXCEPT !.vals = vals]
    <3>1. PICK vals : vals = store.vals \cup {OutputOf(i)}
      OBVIOUS
    <3>2. store' = [store EXCEPT !.vals = vals]
      BY <2>1, <2>3, <3>1 DEF writeToolOutput, IsStore
    <3>3. KeepsValues(vals)
      BY <3>1 DEF KeepsValues
    <3>4. QED
      BY <3>2, <3>3
  <2>4. ASSUME NEW i \in DOMAIN jobs, setMemo(i)
        PROVE  \E vals : KeepsValues(vals) /\ store' = [store EXCEPT !.vals = vals]
    <3>1. PICK memo, vals : vals = (store.vals \ {MemoOf(i)}) \cup memo /\ store' = [store EXCEPT !.vals = vals]
      BY <2>1, <2>4 DEF setMemo, IsStore
    <3>2. KeepsValues(vals)
      BY <3>1 DEF KeepsValues, MemoOf, PendingEntry
    <3>3. QED
      BY <3>1, <3>2
  <2>5. QED
    BY <2>2, <2>3, <2>4 DEF ProgressStep
<1>2. PICK vals : KeepsValues(vals) /\ store' = [store EXCEPT !.vals = vals]
  BY <1>1
<1>3. drive' = drive /\ jobs' = jobs /\ ids' = ids /\ fault' = fault /\ executed' = executed /\ reexecuted' = reexecuted
  BY DEF ProgressStep, appendFrame, writeToolOutput, setMemo, toolVars
<1>4. StoreWork' /\ CurrentLeaf' = CurrentLeaf /\ Current' = Current /\ State' = State
  BY <1>2, <1>3, ValuesWork
<1>5. /\ store'.log = store.log /\ store'.tip = store.tip /\ store'.opMeta = store.opMeta /\ store'.results = store.results
      /\ store'.vals = vals
  BY <1>2 DEF IndInv, StoreInv, IsStore
<1>6. RunStays
  BY <1>2, <1>3, <1>4, <1>5 DEF RunStays, KeepsValues
<1>7. InboxWork'
  BY <1>4 DEF StoreWork
<1>8. QED
  BY <1>3, <1>4, <1>5, <1>6, <1>7, BesideWorks

\* Losing the process.
LEMMA StopWorks ==
  ASSUME WorkInv, StopStep
  PROVE  Works
<1>1. Unwritten /\ drive' = NoDrive /\ jobs' = <<>> /\ Sound
  BY DEF StopStep, stopProcess, Unwritten, Sound
<1>2. StoreWork'
  BY <1>1, KeepStoreWork DEF WorkInv
<1>3. drive'.pc = "none" /\ drive'.id = Null /\ drive'.pc \notin BatchPcs /\ drive'.pc \notin JoinPcs /\ DOMAIN jobs' = {}
  BY <1>1 DEF NoDrive, BatchPcs, JoinPcs
<1>4. PassWork'
  BY <1>3 DEF PassWork, AtLeaf, SeenFor, ArgFor, OutcomeFor, SignalWork, ModeWork, TurnFor, StartPcs, CheckPcs, ReadyPcs,
     RetryPcs, DeferPcs, RequestPcs, ReplyPcs, CancelPcs
<1>5. TaskWork'
  BY <1>3, RestedTasks
<1>6. QED
  BY <1>1, <1>2, <1>4, <1>5 DEF Works, WorkInv

\* A store whose operations are open restores (restore.ts).
LEMMA RestoreWorks ==
  ASSUME IndInv, WorkInv, RestoreStep
  PROVE  Works
<1>1. ~RestoreFails(store)
  <2> SUFFICES ASSUME Current # Null PROVE store.opMeta[Current] # NoMeta /\ State # NoState
    BY DEF RestoreFails, Current, State
  <2>1. store.opMeta[Current].kind = "run" /\ IsState(State)
    BY DEF WorkInv, StoreWork, LeafWork, IndInv, StoreInv, CurrentIsOpen, Current, State
  <2>2. QED
    BY <2>1, StateIsSome DEF NoMeta
<1>2. Unwritten /\ drive' = drive /\ jobs' = jobs /\ fault' = fault
  BY <1>1 DEF RestoreStep, restoreSession, Unwritten, toolVars
<1>3. QED
  BY <1>2, QuietWorks DEF Sound

-----------------------------------------------------------------------------
(* The theorems.                                                           *)

\* A lane starts without an operation, a pass and tasks.
LEMMA InitWorkInv == Init => WorkInv
<1> SUFFICES ASSUME Init PROVE WorkInv
  OBVIOUS
<1>1. /\ store.log = <<>> /\ store.lane = [cur |-> Null, last |-> Null, inbox |-> <<>>]
      /\ drive = NoDrive /\ ids = 0 /\ jobs = <<>> /\ executed = {} /\ reexecuted = {}
  BY DEF Init, LaneInit, ToolInit, durableLaneState
<1>2. store.log \in Seq(ToSet(store.log)) /\ LogIds = {}
  <2>1. ToSet(store.log) = {}
    BY <1>1 DEF ToSet
  <2>2. QED
    BY <1>1, <2>1 DEF LogIds
<1>3. LogWork /\ RunsWork
  BY <1>1, <1>2 DEF LogWork, RunsWork, UnsafeToolsRunOnce
<1>4. InboxWork
  <2>1. store.lane.inbox = <<>>
    BY <1>1
  <2>2. store.lane.inbox \in Seq(InboxItem) /\ DOMAIN store.lane.inbox = {}
    BY <2>1
  <2>3. QED
    BY <2>2 DEF InboxWork
<1>5. LeafWork
  BY <1>1 DEF LeafWork, Current
<1>6. drive.pc = "none" /\ drive.id = Null /\ drive.pc \notin BatchPcs /\ drive.pc \notin JoinPcs /\ DOMAIN jobs = {}
  BY <1>1 DEF NoDrive, BatchPcs, JoinPcs
<1>7. PassWork
  BY <1>6 DEF PassWork, AtLeaf, SeenFor, ArgFor, OutcomeFor, SignalWork, ModeWork, TurnFor, StartPcs, CheckPcs, ReadyPcs,
     RetryPcs, DeferPcs, RequestPcs, ReplyPcs, CancelPcs
<1>8. TaskWork
  BY <1>6 DEF TaskWork, OneAtATime
<1>9. QED
  BY <1>3, <1>4, <1>5, <1>7, <1>8 DEF WorkInv, StoreWork

\* Every step keeps the invariant, and faults only where hosts let it.
LEMMA NextWorks ==
  ASSUME IndInv, GateInv, WorkInv, [Next]_vars
  PROVE  Works
<1>1. CASE UNCHANGED vars
  BY <1>1, QuietWorks DEF vars, laneVars, toolVars, Unwritten, Sound
<1>2. CASE (HostStep \/ DriveCallStep \/ LineStep \/ RunStep) /\ UNCHANGED <<toolVars, stops>>
  <2>1. TasksKept
    BY <1>2 DEF TasksKept, toolVars
  <2>2. QED
    BY <1>2, <2>1, HostWorks, DriveCallWorks, InstallWorks, AbortWorks, RunWorks DEF LineStep
<1>3. CASE BatchStep \/ (\E i \in DOMAIN jobs : JobStep(i)) \/ ProgressStep \/ RestoreStep
  BY <1>3, BatchWorks, JobWorks, ProgressWorks, RestoreWorks
<1>4. CASE StopStep
  BY <1>4, StopWorks
<1>5. QED
  BY <1>1, <1>2, <1>3, <1>4 DEF Next, Rest

\* WorkInv is an invariant of the harness.
THEOREM WorkInvariant == Spec => []WorkInv
<1>1. IndInv /\ GateInv /\ WorkInv /\ [Next]_vars => WorkInv'
  BY NextWorks DEF Works
<1>2. QED
  BY <1>1, InitWorkInv, Invariance, GateInvariant, PTL DEF Spec

\* A tool not declared safe to replay is started at most once per call, whatever
\* crashes, cancellations and recoveries happen after its intent (tools.ts
\* recoverToolInvocation, tool-placement.ts).
THEOREM UnsafeRunsOnce == Spec => []UnsafeToolsRunOnce
<1>1. WorkInv => UnsafeToolsRunOnce
  BY DEF WorkInv, StoreWork, RunsWork
<1>2. QED
  BY <1>1, WorkInvariant, PTL

\* No interleaving of commands, hooks, effects, aborts and restarts reaches a
\* SessionInvariantError, where no before_drive hook fails and hosts that resume
\* wait for retries (drive.ts driveOperation, lane.ts onFault).
THEOREM NothingFaults ==
  ASSUME ~HostFaults
  PROVE  Spec => []NoInvariantFault
<1>1. Init => NoInvariantFault
  BY DEF Init, LaneInit, NoInvariantFault
<1>2. IndInv /\ GateInv /\ WorkInv /\ NoInvariantFault /\ [Next]_vars => NoInvariantFault'
  BY NextWorks DEF Works, Sound, NoInvariantFault
<1>3. QED
  BY <1>1, <1>2, WorkInvariant, Invariance, GateInvariant, PTL DEF Spec
=============================================================================
