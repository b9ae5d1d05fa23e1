-------------------------------- MODULE Delta --------------------------------
(***************************************************************************)
(* chord/src/delta/index.ts: a tracker notes which paths of a JSON value   *)
(* were written, derives the operations that bring a replica up to date    *)
(* when it is flushed, and advances its own baseline.  Values are strings, *)
(* arrays, objects and null; object keys and array indices are numbers,    *)
(* counted from 1, and the order of an object's keys is left out.  Path    *)
(* safety and the checks of an operation's shape are left out: only the    *)
(* tracker's operations are applied.                                       *)
(***************************************************************************)
EXTENDS Integers, Sequences, SequencesExt, FiniteSetsExt

CONSTANTS
  Roots,         \* initial values
  Items,         \* values written into objects and arrays
  Keys,          \* object keys
  MaxLen,        \* bound: elements of an array
  MaxWrites,     \* bound: writes
  MaxFlushes,    \* bound: flushes
  KeepHeld,      \* whether the producer keeps a child's proxy beyond a flush
  MaxOverlapScan, Probe, MaxCandidates   \* overlap's limits

VARIABLES
  root,      \* the tracked value
  pending,   \* the tree of dirty paths
  hasPending,
  baseline,  \* the value as of the last flush
  forceBase,
  replica,   \* the consumer's value
  held,      \* a child's proxy the producer holds: the path it has, the path its target is at
  count      \* writes and flushes so far

vars == <<root, pending, hasPending, baseline, forceBase, replica, held, count>>

Str(s) == [k |-> "string", v |-> s]
Arr(s) == [k |-> "array", v |-> s]
Obj(f) == [k |-> "object", v |-> f]
NullValue == [k |-> "null", v |-> <<>>]
MISSING == [k |-> "missing", v |-> <<>>]
Broken == [k |-> "broken", v |-> <<>>]   \* the applier threw

isObj(x) == x.k \in {"array", "object"}
ownValue(x, seg) == IF isObj(x) /\ seg \in DOMAIN x.v THEN x.v[seg] ELSE MISSING
Without(f, seg) == [i \in DOMAIN f \ {seg} |-> f[i]]

RECURSIVE At(_, _)
At(x, path) == IF path = <<>> THEN x ELSE At(ownValue(x, Head(path)), Tail(path))

RECURSIVE Put(_, _, _)
\* The value with what is at a path replaced.
Put(x, path, y) ==
  IF path = <<>> THEN y
  ELSE [x EXCEPT !.v = IF Head(path) \in DOMAIN @ THEN [@ EXCEPT ![Head(path)] = Put(@, Tail(path), y)]
                       ELSE IF x.k = "array" THEN Append(@, y)
                       ELSE [i \in DOMAIN @ \cup {Head(path)} |-> IF i = Head(path) THEN y ELSE @[i]]]

Spliced(s, i, remove, items) == SubSeq(s, 1, i - 1) \o items \o SubSeq(s, i + remove, Len(s))

-----------------------------------------------------------------------------
(* The difference of two values. *)

Op(op, path, val, n, m) == [op |-> op, path |-> path, val |-> val, n |-> n, m |-> m]

overlapAt(tail, b, k) == LET n == Len(tail) - k + 1 IN n <= Len(b) /\ SubSeq(tail, k, Len(tail)) = SubSeq(b, 1, n)

\* The longest suffix of a that is a prefix of b, of the candidates looked at.
overlap(a, b) ==
  LET tail == SubSeq(a, Len(a) - Min({MaxOverlapScan, Len(a)}) + 1, Len(a))
      Heads(h) == {k \in 1..Len(tail) - h + 1 : SubSeq(tail, k, k + h - 1) = SubSeq(b, 1, h)}
      Tried(h) == {k \in Heads(h) : Cardinality({j \in Heads(h) : j <= k}) <= MaxCandidates}
      Found(h) == {k \in Tried(h) : overlapAt(tail, b, k)}
      long == Found(Min({Probe, Len(b)}))
      any == IF long # {} THEN long ELSE Found(1)
  IN  IF a = <<>> \/ b = <<>> \/ any = {} THEN 0 ELSE Len(tail) - Min(any) + 1

emitSet(path, val) == <<IF path = <<>> THEN Op("r", path, val, 0, 0) ELSE Op("s", path, val, 0, 0)>>

diffString(before, after, path) ==
  LET shared == overlap(before.v, after.v)
      Rest(n) == Str(SubSeq(after.v, n + 1, Len(after.v)))
  IN  IF before = after THEN <<>>
      ELSE IF Len(after.v) > Len(before.v) /\ IsPrefix(before.v, after.v)
           THEN <<Op("a", path, Rest(Len(before.v)), 0, 0)>>
      ELSE IF shared = 0 THEN <<Op("s", path, after, 0, 0)>>
      ELSE <<Op("t", path, NullValue, Len(before.v) - shared, 0)>>
             \o (IF Len(after.v) > shared THEN <<Op("a", path, Rest(shared), 0, 0)>> ELSE <<>>)

Each(S, F(_)) == FoldLeft(LAMBDA out, i : out \o F(i), <<>>, SetToSortSeq(S, <))

RECURSIVE diffValue(_, _, _)

diffObject(before, after, path) ==
  LET Changed(k) == diffValue(ownValue(before, k), after.v[k], Append(path, k))
      Deleted(k) == <<Op("d", Append(path, k), NullValue, 0, 0)>>
  IN  Each(DOMAIN after.v, Changed) \o Each(DOMAIN before.v \ DOMAIN after.v, Deleted)

\* How many elements the two arrays share at their fronts, and at their ends behind that.
CommonPrefix(s, t) == Max({n \in 0..Min({Len(s), Len(t)}) : SubSeq(s, 1, n) = SubSeq(t, 1, n)})
CommonSuffix(s, t, room) ==
  Max({n \in 0..room : SubSeq(s, Len(s) - n + 1, Len(s)) = SubSeq(t, Len(t) - n + 1, Len(t))})

diffArray(before, after, path) ==
  LET b == before.v
      a == after.v
      shorter == Min({Len(a), Len(b)})
      prefix == CommonPrefix(b, a)
      suffix == CommonSuffix(b, a, shorter - prefix)
      remove == Len(b) - prefix - suffix
      Changed(i) == diffValue(b[i], a[i], Append(path, i))
      indexed == Each(1..shorter, Changed)
  IN  IF Len(a) = Len(b) THEN indexed
      ELSE IF prefix + suffix = shorter
           THEN IF prefix = 0 /\ remove = Len(b) THEN emitSet(path, after)
                ELSE <<Op("p", path, Arr(SubSeq(a, prefix + 1, Len(a) - suffix)), prefix + 1, remove)>>
      ELSE indexed \o
           (IF Len(a) > Len(b) THEN <<Op("p", path, Arr(SubSeq(a, Len(b) + 1, Len(a))), Len(b) + 1, 0)>>
            ELSE IF a = <<>> THEN emitSet(path, after)
            ELSE <<Op("p", path, Arr(<<>>), Len(a) + 1, Len(b) - Len(a))>>)

diffValue(before, after, path) ==
  IF before = MISSING THEN IF after = MISSING THEN <<>> ELSE emitSet(path, after)
  ELSE IF after = MISSING THEN <<Op("d", path, NullValue, 0, 0)>>
  ELSE IF before = after THEN <<>>
  ELSE IF before.k # after.k THEN emitSet(path, after)
  ELSE CASE before.k = "string" -> diffString(before, after, path)
         [] before.k = "array" -> diffArray(before, after, path)
         [] before.k = "object" -> diffObject(before, after, path)

-----------------------------------------------------------------------------
(* Dirty paths. *)

None == [kind |-> "none", start |-> 0]
dirtyNode == [dirty |-> FALSE, array |-> None, children |-> <<>>]
Covered(node) == node.dirty \/ node.array.kind \in {"diff", "replace"}

RECURSIVE ensureNode(_, _, _)
\* The tree with the node at a path made and marked, unless a node above it covers it.
ensureNode(node, path, mark) ==
  IF path = <<>>
  THEN CASE mark.kind = "value" -> [dirtyNode EXCEPT !.dirty = TRUE]
         [] mark.kind = "append" ->
              IF Covered(node) \/ node.array # None THEN node ELSE [node EXCEPT !.array = mark]
         [] mark.kind = "diff" ->
              IF node.dirty \/ node.array.kind = "replace" THEN node ELSE [node EXCEPT !.array = mark, !.children = <<>>]
         [] mark.kind = "replace" -> IF node.dirty THEN node ELSE [node EXCEPT !.array = mark, !.children = <<>>]
  ELSE IF Covered(node) THEN node
  ELSE LET seg == Head(path)
           child == IF seg \in DOMAIN node.children THEN node.children[seg] ELSE dirtyNode
       IN  [node EXCEPT !.children =
              [i \in DOMAIN @ \cup {seg} |-> IF i = seg THEN ensureNode(child, Tail(path), mark) ELSE @[i]]]

RECURSIVE findNode(_, _)
findNode(node, path) ==
  IF path = <<>> THEN node
  ELSE IF Head(path) \in DOMAIN node.children THEN findNode(node.children[Head(path)], Tail(path)) ELSE dirtyNode

Value == [kind |-> "value", start |-> 0]
Diff == [kind |-> "diff", start |-> 0]
Replace == [kind |-> "replace", start |-> 0]
\* Elements beyond start were appended.
AppendFrom(n) == [kind |-> "append", start |-> n]
NoMark == [kind |-> "nothing", start |-> 0]

appendStart(path) ==
  LET array == findNode(pending, path).array IN IF array.kind = "append" THEN array.start ELSE MaxLen + 1

RECURSIVE walkDirty(_, _, _, _)
walkDirty(before, after, node, path) ==
  LET start == node.array.start
      Child(seg) ==
        LET b == ownValue(before, seg)
            a == ownValue(after, seg)
            child == node.children[seg]
        IN  IF child.dirty \/ ~isObj(b) \/ ~isObj(a) THEN diffValue(b, a, Append(path, seg))
            ELSE walkDirty(b, a, child, Append(path, seg))
      appended == SubSeq(after.v, start + 1, Len(after.v))
  IN  IF node.dirty THEN diffValue(before, after, path)
      ELSE CASE node.array.kind = "none" -> Each(DOMAIN node.children, Child)
             [] node.array.kind = "replace" -> IF before = after THEN <<>> ELSE emitSet(path, after)
             [] node.array.kind = "diff" -> diffValue(before, after, path)
             [] node.array.kind = "append" ->
                  IF before.k # "array" \/ after.k # "array" \/ Len(before.v) # start \/ Len(after.v) < start
                  THEN diffValue(before, after, path)
                  ELSE Each({seg \in DOMAIN node.children : seg <= start}, Child)
                         \o (IF appended = <<>> THEN <<>> ELSE <<Op("p", path, Arr(appended), start + 1, 0)>>)

RECURSIVE canSync(_)
canSync(node) ==
  node.array.kind \in {"none", "append"} /\ \A seg \in DOMAIN node.children : canSync(node.children[seg])

RECURSIVE syncInto(_, _, _)
\* The baseline brought up to the root along the dirty paths.
syncInto(base, now, node) ==
  LET appends == node.array.kind = "append" /\ base.k = "array" /\ now.k = "array"
      segs == {seg \in DOMAIN node.children : appends => seg <= node.array.start}
      Child(x, seg) ==
        LET current == ownValue(now, seg)
            previous == ownValue(x, seg)
            child == node.children[seg]
        IN  IF current = MISSING
            THEN [x EXCEPT !.v = IF x.k = "array" THEN RemoveAt(@, seg) ELSE Without(@, seg)]
            ELSE IF child.dirty \/ ~isObj(current) \/ ~isObj(previous) \/ current.k # previous.k
                 THEN Put(x, <<seg>>, current)
            ELSE Put(x, <<seg>>, syncInto(previous, current, child))
      synced == FoldLeft(Child, base, SetToSortSeq(segs, <))
  IN  IF appends THEN [synced EXCEPT !.v = @ \o SubSeq(now.v, node.array.start + 1, Len(now.v))] ELSE synced

-----------------------------------------------------------------------------
(* The applier. *)

applyOp(x, op) ==
  LET parent == At(x, Front(op.path))
      key == op.path[Len(op.path)]
      current == ownValue(parent, key)
  IN  IF x = Broken THEN x
      ELSE CASE op.op = "r" -> op.val
             [] op.op = "p" ->
                  LET s == At(x, op.path)
                  IN  IF s.k # "array" THEN Broken ELSE Put(x, op.path, Arr(Spliced(s.v, op.n, op.m, op.val.v)))
             [] op.op = "s" ->
                  IF ~isObj(parent) \/ (parent.k = "array" /\ key > Len(parent.v) + 1) THEN Broken
                  ELSE Put(x, op.path, op.val)
             [] op.op = "d" ->
                  IF ~isObj(parent) \/ (parent.k = "array" /\ key > Len(parent.v)) THEN Broken
                  ELSE Put(x, Front(op.path),
                           [parent EXCEPT !.v = IF parent.k = "array" THEN RemoveAt(@, key) ELSE Without(@, key)])
             [] op.op = "a" -> IF current.k # "string" THEN Broken ELSE Put(x, op.path, Str(current.v \o op.val.v))
             [] op.op = "t" ->
                  IF current.k # "string" THEN Broken ELSE Put(x, op.path, Str(SubSeq(current.v, op.n + 1, Len(current.v))))

apply(x, ops) == FoldLeft(applyOp, x, ops)

-----------------------------------------------------------------------------
(* The tracker. *)

NotHeld == [path |-> <<>>, at |-> <<>>]

Init ==
  /\ root \in Roots
  /\ pending = dirtyNode /\ hasPending = FALSE /\ forceBase = TRUE
  /\ baseline = MISSING /\ replica = MISSING
  /\ held = NotHeld
  /\ count = [writes |-> 0, flushes |-> 0]

\* A write at a path: what the value becomes there, what is marked and where
\* the elements of an array go (0: nowhere).  "at" is where the write lands,
\* "path" the path of the proxy it goes through.
Write(at, path, seg, val, mark, moved) ==
  /\ count.writes < MaxWrites
  /\ count' = [count EXCEPT !.writes = @ + 1]
  /\ root' = Put(root, at, val)
  /\ pending' = IF mark = NoMark THEN pending ELSE ensureNode(pending, path \o seg, mark)
  /\ hasPending' = (hasPending \/ mark # NoMark)
  /\ held' = IF held.at # <<>> /\ Len(held.at) > Len(at) /\ IsPrefix(at, held.at)
             THEN LET to == moved[held.at[Len(at) + 1]]
                  IN  IF to = 0 THEN NotHeld ELSE [held EXCEPT !.at[Len(at) + 1] = to]
             ELSE held
  /\ UNCHANGED <<baseline, forceBase, replica>>

Stay == [i \in 1..MaxLen + Cardinality(Keys) |-> i]

\* set and deleteProperty on an object
setKey(at, path, key, val) ==
  LET x == At(root, at)
  IN  /\ x.k = "object"
      /\ IF val = MISSING
         THEN Write(at, path, <<key>>, Obj(Without(x.v, key)), Value, [Stay EXCEPT ![key] = 0])
         ELSE Write(at, path, <<key>>, Put(x, <<key>>, val),
                    IF ~isObj(val) /\ ownValue(x, key) = val THEN NoMark ELSE Value, [Stay EXCEPT ![key] = 0])

\* set on an index: an element replaced, or one appended
setIndex(at, path, i, val) ==
  LET x == At(root, at)
      mark == IF i = Len(x.v) + 1 THEN AppendFrom(Len(x.v))
              ELSE IF (~isObj(val) /\ x.v[i] = val) \/ i > appendStart(path) THEN NoMark ELSE Value
  IN  /\ x.k = "array" /\ i <= Len(x.v) + 1 /\ i <= MaxLen
      /\ Write(at, path, IF mark.kind = "value" THEN <<i>> ELSE <<>>, Put(x, <<i>>, val), mark, [Stay EXCEPT ![i] = 0])

\* Where splicing moves an element.
Moved(i, remove, n) == [j \in DOMAIN Stay |-> IF j < i THEN j ELSE IF j < i + remove THEN 0 ELSE j + n - remove]

\* What a splice marks, in an array whose appended tail starts behind start.
SpliceMark(len, start, i, remove, n) ==
  IF remove = 0 /\ n = 0 THEN NoMark
  ELSE IF i = 1 /\ remove = len THEN Replace
  ELSE IF i > start THEN NoMark
  ELSE IF i = len + 1 /\ remove = 0 THEN AppendFrom(len) ELSE Diff

splice(at, path, i, remove, items) ==
  LET x == At(root, at)
  IN  /\ x.k = "array" /\ i <= Len(x.v) + 1 /\ remove <= Len(x.v) - i + 1
      /\ Len(x.v) - remove + Len(items) <= MaxLen
      /\ Write(at, path, <<>>, Arr(Spliced(x.v, i, remove, items)),
               SpliceMark(Len(x.v), appendStart(path), i, remove, Len(items)), Moved(i, remove, Len(items)))

push(at, path, items) ==
  LET x == At(root, at)
  IN  /\ x.k = "array" /\ Len(x.v) + Len(items) <= MaxLen
      /\ Write(at, path, <<>>, Arr(x.v \o items), AppendFrom(Len(x.v)), Stay)

unshift(at, path, items) ==
  LET x == At(root, at)
  IN  /\ x.k = "array" /\ Len(x.v) + Len(items) <= MaxLen
      /\ Write(at, path, <<>>, Arr(items \o x.v), Diff, Moved(1, 0, Len(items)))

\* Mutant: a pop that reaches below the appended tail is not noted.
PopMark_tail(len, start) == IF start <= MaxLen THEN NoMark ELSE Diff
PopMark(len, start) == IF len > start THEN NoMark ELSE Diff
pop(at, path) ==
  LET x == At(root, at)
  IN  /\ x.k = "array" /\ x.v # <<>>
      /\ Write(at, path, <<>>, Arr(Front(x.v)), PopMark(Len(x.v), appendStart(path)), [Stay EXCEPT ![Len(x.v)] = 0])

shift(at, path) ==
  LET x == At(root, at)
  IN  /\ x.k = "array" /\ x.v # <<>>
      /\ Write(at, path, <<>>, Arr(Tail(x.v)), Diff, Moved(1, 1, 0))

\* sort, reverse, fill and copyWithin
reverse(at, path) ==
  LET x == At(root, at)
  IN  /\ x.k = "array"
      /\ Write(at, path, <<>>, Arr(Reverse(x.v)), Diff, [j \in DOMAIN Stay |-> IF j <= Len(x.v) THEN Len(x.v) + 1 - j ELSE 0])

setLength(at, path, n) ==
  LET x == At(root, at)
      mark == IF n > Len(x.v) THEN AppendFrom(Len(x.v))
              ELSE IF n = Len(x.v) THEN NoMark
              ELSE IF n = 0 THEN Replace ELSE IF n < appendStart(path) THEN Diff ELSE NoMark
  IN  /\ x.k = "array" /\ n <= MaxLen
      /\ Write(at, path, <<>>, Arr([i \in 1..n |-> IF i <= Len(x.v) THEN x.v[i] ELSE NullValue]), mark,
               [j \in DOMAIN Stay |-> IF j <= n THEN j ELSE 0])

Writes(at, path) ==
  \/ \E key \in Keys, val \in Items \cup {MISSING} : setKey(at, path, key, val)
  \/ \E i \in 1..MaxLen, val \in Items : setIndex(at, path, i, val)
  \/ \E i \in 1..MaxLen + 1, remove \in 0..2, val \in Items :
       splice(at, path, i, remove, <<>>) \/ splice(at, path, i, remove, <<val>>)
  \/ \E val \in Items : push(at, path, <<val>>) \/ unshift(at, path, <<val>>)
  \/ pop(at, path) \/ shift(at, path) \/ reverse(at, path)
  \/ \E n \in 0..MaxLen : setLength(at, path, n)

\* The containers that a proxy can be got for.
Containers ==
  {<<>>} \cup UNION {{path \in [1..n -> DOMAIN Stay] : isObj(At(root, path))} : n \in 1..2}

\* The producer keeps the proxy of an element.
hold ==
  /\ held = NotHeld
  /\ \E path \in Containers : Len(path) = 2 /\ held' = [path |-> path, at |-> path]
  /\ UNCHANGED <<root, pending, hasPending, baseline, forceBase, replica, count>>

mutate == \E path \in Containers : Writes(path, path)
mutateHeld == held # NotHeld /\ isObj(At(root, held.at)) /\ Writes(held.at, held.path)

clearPending == pending' = dirtyNode /\ hasPending' = FALSE

Advanced(ops) == IF canSync(pending) THEN syncInto(baseline, root, pending) ELSE apply(baseline, ops)

\* flush, and its batch applied by the consumer
flush ==
  /\ count.flushes < MaxFlushes /\ (forceBase \/ hasPending)
  /\ count' = [count EXCEPT !.flushes = @ + 1]
  /\ IF forceBase
     THEN baseline' = root /\ replica' = apply(replica, <<Op("r", <<>>, root, 0, 0)>>)
     ELSE LET ops == walkDirty(baseline, root, pending, <<>>)
          IN  baseline' = Advanced(ops) /\ replica' = apply(replica, ops)
  /\ forceBase' = FALSE
  /\ clearPending
  /\ held' = IF KeepHeld THEN held ELSE NotHeld
  /\ UNCHANGED root

\* state is assigned, or rebase is called: the next batch is a base.
assignState ==
  /\ count.writes < MaxWrites
  /\ count' = [count EXCEPT !.writes = @ + 1]
  /\ root' \in Roots \cup {root}
  /\ baseline' = IF root' = root THEN baseline ELSE MISSING
  /\ forceBase' = TRUE
  /\ clearPending
  /\ held' = IF root' = root THEN held ELSE NotHeld
  /\ UNCHANGED replica

\* discard: the consumer has the value from elsewhere.
discard ==
  /\ hasPending /\ ~forceBase
  /\ baseline' = root /\ replica' = root
  /\ clearPending
  /\ held' = IF KeepHeld THEN held ELSE NotHeld
  /\ UNCHANGED <<root, forceBase, count>>

Next == mutate \/ hold \/ mutateHeld \/ flush \/ assignState \/ discard

Spec == Init /\ [][Next]_vars

-----------------------------------------------------------------------------
\* Whenever nothing is pending the replica that applied every batch is the
\* tracked value, and so is the baseline the next batch is derived from
\* (track, flush, walkDirty, syncBaseline, applyOps).
ReplicaIsExact == ~forceBase /\ ~hasPending => replica = root /\ baseline = root
=============================================================================
