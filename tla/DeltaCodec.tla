------------------------------ MODULE DeltaCodec ------------------------------
(***************************************************************************)
(* The path codec of chord/src/delta/index.ts: an encoder interns a path   *)
(* on its second use and omits it where it repeats, a decoder undoes both. *)
(* One decoder reads the whole stream; another one starts, fresh, at the   *)
(* last base batch.  An operation is its verb and its path.                *)
(***************************************************************************)
EXTENDS Integers, Sequences, SequencesExt, FiniteSets

CONSTANTS
  Paths,       \* paths of operations
  Verbs,       \* verbs other than "r", e.g. "s" and "d"
  MaxBatch,    \* bound: operations in a batch
  MaxBatches   \* bound: batches

VARIABLES
  enc,      \* the encoder: seen paths, ids of paths, the next id
  dec,      \* the stream's decoder: paths by id
  reader,   \* the decoder of a reader that began at the last base batch
  exact,    \* whether each of them decoded the last batch as it was sent
  batches   \* batches sent

vars == <<enc, dec, reader, exact, batches>>

NoPath == "none"
Replace == [verb |-> "r", path |-> NoPath]
Ops == {Replace} \cup [verb : Verbs, path : Paths]

\* Wire operations: a definition, or an operation with its path inline, by id, or left out.
Define(id, path) == [verb |-> "#", form |-> "define", id |-> id, path |-> path]
Wire(verb, form, id, path) == [verb |-> verb, form |-> form, id |-> id, path |-> path]

NewEncoder == [seen |-> {}, ids |-> <<>>]   \* ids[i] is the path of id i
\* The ids that are left after a base, on both sides.
AfterBase(ids) == <<>>

IdOf(e, path) == CHOOSE i \in DOMAIN e.ids : e.ids[i] = path

\* One operation: what is put out and what the encoder is then; previous is the last path of the batch.
encodeOp(st, op) ==
  LET e == st.enc
      known == \E i \in DOMAIN e.ids : e.ids[i] = op.path
      defined == [e EXCEPT !.ids = Append(@, op.path)]
  IN  IF op.verb = "r"
      THEN [out |-> Append(st.out, Wire("r", "whole", 0, NoPath)), enc |-> [seen |-> {}, ids |-> AfterBase(e.ids)], previous |-> NoPath]
      ELSE IF op.path = st.previous
           THEN [st EXCEPT !.out = Append(@, Wire(op.verb, "short", 0, NoPath))]
      ELSE IF known
           THEN [out |-> Append(st.out, Wire(op.verb, "id", IdOf(e, op.path), NoPath)), enc |-> e, previous |-> op.path]
      ELSE IF op.path \in e.seen
           THEN [out |-> st.out \o <<Define(Len(e.ids) + 1, op.path), Wire(op.verb, "id", Len(e.ids) + 1, NoPath)>>,
                 enc |-> defined, previous |-> op.path]
      ELSE [out |-> Append(st.out, Wire(op.verb, "inline", 0, op.path)),
            enc |-> [e EXCEPT !.seen = @ \cup {op.path}], previous |-> op.path]

encode(ops) == FoldLeft(encodeOp, [out |-> <<>>, enc |-> enc, previous |-> NoPath], ops)

PreviousOf(st, w, path) == path

\* One wire operation; a path that cannot be resolved ends the decoding.
decodeOp(st, w) ==
  IF ~st.ok THEN st
  ELSE CASE w.form = "define" -> [st EXCEPT !.ids = [i \in DOMAIN @ \cup {w.id} |-> IF i = w.id THEN w.path ELSE @[i]]]
         [] w.form = "whole" -> [st EXCEPT !.out = Append(@, Replace), !.ids = AfterBase(@), !.previous = NoPath]
         [] OTHER ->
              LET path == CASE w.form = "short" -> st.previous
                            [] w.form = "id" -> IF w.id \in DOMAIN st.ids THEN st.ids[w.id] ELSE NoPath
                            [] w.form = "inline" -> w.path
              IN  IF path = NoPath THEN [st EXCEPT !.ok = FALSE]
                  ELSE [st EXCEPT !.out = Append(@, [verb |-> w.verb, path |-> path]),
                                  !.previous = PreviousOf(st, w, path)]

decode(ids, wire) == FoldLeft(decodeOp, [out |-> <<>>, ids |-> ids, previous |-> NoPath, ok |-> TRUE], wire)

isBase(ops) == ops[1].verb = "r"

Init == enc = NewEncoder /\ dec = <<>> /\ reader = <<>> /\ exact = [stream |-> TRUE, reader |-> TRUE] /\ batches = 0

\* A batch is encoded and decoded; a stream begins with a base.
send(ops) ==
  /\ batches < MaxBatches /\ (batches = 0 => isBase(ops))
  /\ batches' = batches + 1
  /\ LET e == encode(ops)
         d == decode(dec, e.out)
         r == decode(IF isBase(ops) THEN <<>> ELSE reader, e.out)
     IN  /\ enc' = e.enc
         /\ dec' = d.ids /\ reader' = r.ids
         /\ exact' = [stream |-> d.ok /\ d.out = ops, reader |-> r.ok /\ r.out = ops]

Next == \E n \in 1..MaxBatch : \E ops \in [1..n -> Ops] : send(ops)

Spec == Init /\ [][Next]_vars

-----------------------------------------------------------------------------
\* The stream's decoder gives back every batch as it was encoded (encoder,
\* decoder: ids, definitions and omitted paths).
StreamIsExact == exact.stream

\* So does a reader that knows nothing of what was before the last base batch
\* (a base batch is a recovery point).
RecoveryIsExact == exact.reader
=============================================================================
