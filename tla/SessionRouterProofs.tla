------------------------ MODULE SessionRouterProofs ------------------------
(***************************************************************************)
(* Proofs, for every value of the constants, of what the session router    *)
(* keeps: routes lead to live attachments, a session has one worker at a    *)
(* time, and a lease outlives the calls admitted through it.                *)
(*                                                                         *)
(* None is inductive alone.  A handle's state must agree with the two       *)
(* tables it is found in (HandlesAgree); a client's queue says which release *)
(* is its own (QueuesAgree); and a release that is not its client's comes    *)
(* with the end of the worker (ReleasesAgree).                              *)
(***************************************************************************)
EXTENDS SessionRouter, TLAPS, SequenceTheorems, FiniteSetTheorems

HandleStates == {"opening", "refused", "failed", "open", "closing", "closed"}
Up == {"open", "closing"}
Hosts == {"open", "closing", "closed"}   \* states of a handle that was hosted

HandleRec == [session : Sessions, state : HandleStates]

Call == [id : Nat, named : Nat]

AttachmentRec ==
  [client : Clients, handle : Nat, member : BOOLEAN,
   lease : {"acquiring", "held", "failed", "released"}, ops : SUBSET Call,
   rel : {"no", "ops", "clearing", "done"}, waitFor : SUBSET Call, publish : BOOLEAN]

OpRec ==
  [kind : {"attach", "detach", "call", "disconnect"}, session : Sessions \cup {0},
   pc : {"start", "acquire", "release", "lease", "drop"}, cur : Nat, handle : Nat, att : Nat]

TypeOK ==
  /\ handle \in Seq(HandleRec)
  /\ att \in Seq(AttachmentRec)
  /\ hosted \in [Sessions -> Nat] /\ opening \in [Sessions -> Nat]
  /\ byClient \in [Clients -> Nat] /\ shown \in [Clients -> Nat]
  /\ queue \in [Clients -> Seq(OpRec)]
  /\ calls \in Nat
  /\ remover \in [pc : {"idle", "release", "close"}, handle : Nat, wait : SUBSET Nat]
  /\ closer.pc \in {"open", "connections", "wait", "release", "handles", "closed"}
  /\ DOMAIN closer = {"pc", "ops", "wait"}

\* The tables name the handle that is being opened and the one that is hosted.
HandlesAgree ==
  /\ \A s \in Sessions : hosted[s] # 0 =>
       /\ hosted[s] \in Handles /\ handle[hosted[s]].session = s
       /\ handle[hosted[s]].state \in Up
  /\ \A s \in Sessions : opening[s] # 0 =>
       /\ opening[s] \in Handles /\ handle[opening[s]].session = s
       /\ handle[opening[s]].state \in {"opening", "refused"}
       /\ hosted[s] = 0
  /\ \A h \in Handles :
       /\ handle[h].state \in Up => hosted[handle[h].session] = h
       /\ handle[h].state \in {"opening", "refused"} => opening[handle[h].session] = h
  /\ remover.pc # "idle" =>
       remover.handle \in Handles /\ handle[remover.handle].state \in Hosts
  /\ remover.pc = "close" => handle[remover.handle].state # "open"

\* What the first operation of a client knows of its handle and its attachments.
Waits(c, op) ==
  /\ op.pc = "acquire" =>
       /\ op.kind = "attach" /\ op.handle \in Handles
       /\ op.cur # 0 => op.cur \in Attachments /\ att[op.cur].client = c
  /\ op.pc = "release" =>
       /\ op.kind = "attach" /\ op.handle \in Handles /\ handle[op.handle].state \in Hosts
       /\ op.cur # 0 => op.cur \in Attachments /\ att[op.cur].client = c
  /\ op.pc = "lease" =>
       /\ op.kind = "attach" /\ op.att \in Attachments /\ att[op.att].client = c
       /\ byClient[c] # op.att
  /\ op.pc = "drop" => op.att \in Attachments /\ op.kind # "call"

QueueAgrees(c) ==
  /\ \A i \in 1..Len(queue[c]) :
       /\ i > 1 => queue[c][i].pc = "start"
       /\ queue[c][i].kind = "attach" => queue[c][i].session \in Sessions
  /\ queue[c] # <<>> => Waits(c, Head(queue[c]))

QueuesAgree == \A c \in Clients : QueueAgrees(c)

\* The first operation of an attachment's client waits for its release.
OwnRelease(a) ==
  LET c == att[a].client
      op == Head(queue[c])
  IN /\ queue[c] # <<>>
     /\ (op.pc = "release" /\ op.cur = a) \/ (op.pc = "drop" /\ op.att = a)

\* The worker of an attachment is being stopped, or has gone.
Ended(a) ==
  \/ handle[att[a].handle].state \in {"closing", "closed"}
  \/ remover.pc # "idle" /\ remover.handle = att[a].handle
  \/ closer.pc = "release"

ReleaseAgrees(a) ==
  /\ att[a].handle \in Handles /\ handle[att[a].handle].state \in Hosts
  /\ \A k \in att[a].ops : k.named = a
  /\ att[a].rel \in {"no", "ops"} => att[a].lease # "released"
  /\ att[a].rel \in {"ops", "clearing"} => OwnRelease(a) \/ Ended(a)
  /\ att[a].rel # "no" /\ ~Ended(a) => att[a].ops \subseteq att[a].waitFor
  /\ att[a].rel \in {"clearing", "done"} => att[a].waitFor = {}
  /\ att[a].rel = "done" => ~att[a].member

ReleasesAgree == \A a \in Attachments : ReleaseAgrees(a)

Routes ==
  \A c \in Clients : /\ byClient[c] # 0 => byClient[c] \in Attachments
                     /\ shown[c] # 0 => shown[c] \in Attachments

RouterInv ==
  TypeOK /\ HandlesAgree /\ QueuesAgree /\ ReleasesAgree /\ Routes /\ RoutesAreLive

-----------------------------------------------------------------------------
(* What the sequences and their updates are. *)

\* Starting releases keeps everything else an attachment holds.
LEMMA Releases ==
  ASSUME att \in Seq(AttachmentRec), NEW S, NEW p \in BOOLEAN, att' = Releasing(att, S, p)
  PROVE  /\ att' \in Seq(AttachmentRec) /\ Len(att') = Len(att)
         /\ \A a \in Attachments :
              /\ att'[a].client = att[a].client /\ att'[a].handle = att[a].handle
              /\ att'[a].member = att[a].member /\ att'[a].lease = att[a].lease
              /\ att'[a].ops = att[a].ops
              /\ att'[a].rel = IF a \in S /\ att[a].rel = "no" THEN "ops" ELSE att[a].rel
              /\ att'[a].waitFor = IF a \in S /\ att[a].rel = "no" THEN att[a].ops ELSE att[a].waitFor
<1> DEFINE e(a) == IF a \in S /\ att[a].rel = "no"
                   THEN [att[a] EXCEPT !.rel = "ops", !.waitFor = att[a].ops, !.publish = p]
                   ELSE att[a]
<1>1. Len(att) \in Nat /\ DOMAIN att = 1..Len(att)
  BY LenProperties
<1>2. \A a \in 1..Len(att) : att[a] \in AttachmentRec
  BY ElementOfSeq
<1>3. \A a \in 1..Len(att) : e(a) \in AttachmentRec
  BY <1>2 DEF AttachmentRec
<1>4. att' = [a \in 1..Len(att) |-> e(a)]
  BY <1>1 DEF Releasing
<1>5. att' \in [1..Len(att) -> AttachmentRec]
  BY <1>3, <1>4
<1>6. att' \in Seq(AttachmentRec) /\ Len(att') = Len(att)
  BY <1>1, <1>5, SeqDef
<1>7. ASSUME NEW a \in Attachments PROVE att'[a] = e(a)
  BY <1>4 DEF Attachments
<1>8. QED
  BY <1>2, <1>6, <1>7 DEF Attachments, AttachmentRec

\* One attachment is replaced by another record.
LEMMA Replaced ==
  ASSUME att \in Seq(AttachmentRec), NEW a \in Attachments, NEW e \in AttachmentRec,
         att' = [att EXCEPT ![a] = e]
  PROVE  /\ att' \in Seq(AttachmentRec) /\ Len(att') = Len(att)
         /\ \A b \in Attachments : att'[b] = IF b = a THEN e ELSE att[b]
BY ExceptSeq DEF Attachments

\* One handle is replaced by another record.
LEMMA HandleReplaced ==
  ASSUME handle \in Seq(HandleRec), NEW h \in Handles, NEW x \in HandleStates,
         handle' = [handle EXCEPT ![h].state = x]
  PROVE  /\ handle' \in Seq(HandleRec) /\ Len(handle') = Len(handle)
         /\ \A g \in Handles :
              /\ handle'[g].session = handle[g].session
              /\ handle'[g].state = IF g = h THEN x ELSE handle[g].state
<1> DEFINE e == [handle[h] EXCEPT !.state = x]
<1>1. \A g \in Handles : handle[g] \in HandleRec
  BY ElementOfSeq DEF Handles
<1>2. e \in HandleRec /\ e.session = handle[h].session /\ e.state = x
  BY <1>1 DEF HandleRec
<1>3. handle' = [handle EXCEPT ![h] = e]
  OBVIOUS
<1>4. /\ handle' \in Seq(HandleRec) /\ Len(handle') = Len(handle)
      /\ \A g \in Handles : handle'[g] = IF g = h THEN e ELSE handle[g]
  BY <1>2, <1>3, ExceptSeq DEF Handles
<1>5. QED
  BY <1>2, <1>4

\* What the elements of the sequences are.
LEMMA AttachmentFacts ==
  ASSUME TypeOK, NEW a \in Attachments
  PROVE  att[a] \in AttachmentRec /\ att[a].client \in Clients /\ a \in Nat \ {0}
<1>1. att \in Seq(AttachmentRec) /\ Len(att) \in Nat
  BY LenProperties DEF TypeOK
<1>2. att[a] \in AttachmentRec
  BY <1>1, ElementOfSeq DEF Attachments
<1>3. QED
  BY <1>1, <1>2 DEF AttachmentRec, Attachments

\* What the invariant says of one handle.
LEMMA HandleFacts ==
  ASSUME TypeOK, NEW h \in Handles
  PROVE  /\ handle[h] \in HandleRec /\ handle[h].session \in Sessions
         /\ handle[h].state \in HandleStates /\ h \in Nat \ {0}
<1>1. handle \in Seq(HandleRec) /\ Len(handle) \in Nat
  BY LenProperties DEF TypeOK
<1>2. handle[h] \in HandleRec
  BY <1>1, ElementOfSeq DEF Handles
<1>3. QED
  BY <1>1, <1>2 DEF HandleRec, Handles

\* The types of a queue and of what follows its first operation.
LEMMA QueueFacts ==
  ASSUME TypeOK, NEW c \in Clients, queue[c] # <<>>
  PROVE  /\ Head(queue[c]) \in OpRec /\ Head(queue[c]) = queue[c][1]
         /\ Tail(queue[c]) \in Seq(OpRec) /\ Len(queue[c]) \in Nat \ {0}
         /\ Len(Tail(queue[c])) = Len(queue[c]) - 1
         /\ \A i \in 1..Len(Tail(queue[c])) : Tail(queue[c])[i] = queue[c][i + 1]
<1>1. queue[c] \in Seq(OpRec)
  BY DEF TypeOK
<1>2. QED
  BY <1>1, HeadTailProperties, EmptySeq


-----------------------------------------------------------------------------
(* What a step leaves of the invariant where it does not reach. *)

\* A handle keeps its session and never comes back to life.
HandlesGrow ==
  \A h \in Handles :
    /\ h \in Handles' /\ handle'[h].session = handle[h].session
    /\ handle[h].state \in Hosts => handle'[h].state \in Hosts
    /\ handle[h].state \in {"closing", "closed"} => handle'[h].state \in {"closing", "closed"}

\* An attachment keeps its client and its handle.
AttachmentsGrow ==
  \A a \in Attachments :
    a \in Attachments' /\ att'[a].client = att[a].client /\ att'[a].handle = att[a].handle

\* An operation that may join a queue.
Fresh(op) == op \in OpRec /\ op.pc = "start" /\ (op.kind = "attach" => op.session \in Sessions)

Joined(c) == \E op : Fresh(op) /\ queue'[c] = Append(queue[c], op)

\* An operation that joins a queue leaves its head alone.
LEMMA JoinFacts ==
  ASSUME TypeOK, NEW c \in Clients, Joined(c)
  PROVE  /\ queue'[c] \in Seq(OpRec) /\ queue'[c] # <<>>
         /\ queue[c] # <<>> => Head(queue'[c]) = Head(queue[c])
<1>1. queue[c] \in Seq(OpRec)
  BY DEF TypeOK
<1>2. QED
  BY <1>1 DEF Joined, Fresh

\* A client whose first operation stays keeps agreeing with its queue.
LEMMA KeepQueue ==
  ASSUME TypeOK, HandlesGrow, AttachmentsGrow, NEW c \in Clients, QueueAgrees(c),
         byClient'[c] \in {byClient[c], 0}, queue'[c] = queue[c] \/ Joined(c)
  PROVE  QueueAgrees(c)'
<1>0. \A a \in Attachments : a # 0
  BY DEF Attachments
<1>1. queue[c] # <<>> => Waits(c, Head(queue[c]))'
  <2> SUFFICES ASSUME queue[c] # <<>> PROVE Waits(c, Head(queue[c]))'
    BY JoinFacts
  <2> DEFINE op == Head(queue[c])
  <2>1. Waits(c, op)
    BY DEF QueueAgrees
  <2>2. Head(queue'[c]) = op
    BY JoinFacts
  <2>3. QED
    BY <1>0, <2>1, <2>2 DEF Waits, HandlesGrow, AttachmentsGrow
<1>2. CASE queue'[c] = queue[c]
  BY <1>1, <1>2 DEF QueueAgrees
<1>3. CASE Joined(c)
  <2>1. queue[c] \in Seq(OpRec)
    BY DEF TypeOK
  <2>2. PICK op : Fresh(op) /\ queue'[c] = Append(queue[c], op)
    BY <1>3 DEF Joined
  <2>3. \A i \in 1..Len(queue'[c]) :
          /\ i > 1 => queue'[c][i].pc = "start"
          /\ queue'[c][i].kind = "attach" => queue'[c][i].session \in Sessions
    BY <2>1, <2>2 DEF QueueAgrees, Fresh
  <2>4. queue[c] = <<>> => Head(queue'[c]) = op
    BY <2>1, <2>2 DEF Fresh
  <2>5. queue[c] = <<>> => Waits(c, Head(queue[c]))'
    BY <2>2, <2>4 DEF Waits, Fresh
  <2>6. QED
    BY <1>1, <2>3, <2>5 DEF QueueAgrees
<1>4. QED
  BY <1>2, <1>3

\* The first operation has ended.
LEMMA EndQueue ==
  ASSUME TypeOK, NEW c \in Clients, QueueAgrees(c), queue[c] # <<>>, queue'[c] = Tail(queue[c])
  PROVE  QueueAgrees(c)' /\ queue'[c] \in Seq(OpRec)
<1>1. queue'[c] \in Seq(OpRec)
  BY QueueFacts
<1>2. \A i \in 1..Len(queue'[c]) :
        /\ queue'[c][i].pc = "start"
        /\ queue'[c][i].kind = "attach" => queue'[c][i].session \in Sessions
  BY QueueFacts DEF QueueAgrees
<1>3. ASSUME queue'[c] # <<>> PROVE Head(queue'[c]).pc = "start"
  <2>1. 1 \in 1..Len(queue'[c])
    BY <1>1, <1>3
  <2>2. Head(queue'[c]) = queue'[c][1]
    BY <1>1, <1>3
  <2>3. QED
    BY <1>2, <2>1, <2>2
<1>4. QED
  BY <1>1, <1>2, <1>3 DEF QueueAgrees, Waits

\* The first operation goes on as op.
LEMMA GoQueue ==
  ASSUME TypeOK, NEW c \in Clients, QueueAgrees(c), queue[c] # <<>>, NEW op \in OpRec,
         queue'[c] = <<op>> \o Tail(queue[c]), op.kind = "attach" => op.session \in Sessions,
         Waits(c, op)'
  PROVE  QueueAgrees(c)' /\ queue'[c] \in Seq(OpRec) /\ queue'[c] # <<>> /\ Head(queue'[c]) = op
<1>1. <<op>> \in Seq(OpRec) /\ Len(<<op>>) = 1
  OBVIOUS
<1>2. /\ queue'[c] \in Seq(OpRec) /\ Len(queue'[c]) = Len(queue[c])
      /\ \A i \in 1..Len(queue'[c]) : queue'[c][i] = IF i = 1 THEN op ELSE queue[c][i]
  BY <1>1, QueueFacts, ConcatProperties
<1>3. queue'[c] # <<>> /\ Head(queue'[c]) = op
  BY <1>2, QueueFacts, HeadTailProperties, EmptySeq
<1>4. QED
  BY <1>2, <1>3, QueueFacts DEF QueueAgrees

\* Steps that leave the handles and both tables alone.
LEMMA SameHandles ==
  ASSUME HandlesAgree, UNCHANGED <<handle, hosted, opening, remover>>
  PROVE  HandlesAgree' /\ HandlesGrow
BY DEF HandlesAgree, HandlesGrow, Handles

\* All clients, when no first operation moves.
LEMMA KeepQueues ==
  ASSUME TypeOK, QueuesAgree, HandlesGrow, AttachmentsGrow,
         \A c \in Clients : byClient'[c] \in {byClient[c], 0},
         \A c \in Clients : queue'[c] = queue[c] \/ Joined(c)
  PROVE  QueuesAgree'
BY KeepQueue DEF QueuesAgree

\* The queue of client c moves, that of every other client stays.
LEMMA MoveQueue ==
  ASSUME TypeOK, QueuesAgree, HandlesGrow, AttachmentsGrow, NEW c \in Clients, NEW q,
         queue' = [queue EXCEPT ![c] = q], q \in Seq(OpRec), QueueAgrees(c)',
         \A d \in Clients \ {c} : byClient'[d] \in {byClient[d], 0}
  PROVE  QueuesAgree' /\ queue' \in [Clients -> Seq(OpRec)]
<1>1. queue \in [Clients -> Seq(OpRec)]
  BY DEF TypeOK
<1>2. \A d \in Clients \ {c} : queue'[d] = queue[d]
  BY <1>1
<1>3. \A d \in Clients \ {c} : QueueAgrees(d)'
  BY <1>2, KeepQueue DEF QueuesAgree
<1>4. QED
  BY <1>1, <1>3 DEF QueuesAgree

\* The end of a worker is not undone, and a release that its client started is
\* its client's until it is done.
EndsKept == \A a \in Attachments : Ended(a) => Ended(a)'
OwnKept ==
  \A a \in Attachments : att[a].rel \in {"ops", "clearing"} /\ OwnRelease(a) => OwnRelease(a)'

\* A release that comes with the end of a worker still does.
LEMMA EndsStay ==
  ASSUME ReleasesAgree, HandlesGrow, AttachmentsGrow, UNCHANGED remover,
         closer.pc = "release" => closer'.pc = "release"
  PROVE  EndsKept
BY DEF EndsKept, Ended, ReleasesAgree, ReleaseAgrees, HandlesGrow, AttachmentsGrow

\* The first operation of c waits for no release that is still under way.
Free(c) ==
  LET op == Head(queue[c])
  IN  /\ op.pc = "release" => op.cur = 0 \/ att[op.cur].rel = "done"
      /\ op.pc = "drop" => att[op.att].rel = "done"

\* A release that is its client's still is.
LEMMA OwnStays ==
  ASSUME TypeOK, AttachmentsGrow,
         \A c \in Clients : queue'[c] = queue[c] \/ Joined(c) \/ (queue[c] # <<>> /\ Free(c))
  PROVE  OwnKept
<1> SUFFICES ASSUME NEW a \in Attachments, att[a].rel \in {"ops", "clearing"}, OwnRelease(a)
             PROVE  OwnRelease(a)'
  BY DEF OwnKept
<1> DEFINE c == att[a].client
<1>1. c \in Clients /\ a # 0
  BY AttachmentFacts
<1>2. ~Free(c)
  BY <1>1 DEF Free, OwnRelease
<1>3. queue'[c] # <<>> /\ Head(queue'[c]) = Head(queue[c])
  BY <1>1, <1>2, JoinFacts DEF OwnRelease
<1>4. att'[a].client = c
  BY DEF AttachmentsGrow
<1>5. QED
  BY <1>3, <1>4 DEF OwnRelease

\* An attachment whose calls and release stay as they are.
LEMMA KeepRelease ==
  ASSUME HandlesGrow, AttachmentsGrow, EndsKept, OwnKept, NEW a \in Attachments,
         ReleaseAgrees(a), att'[a].rel = att[a].rel, att'[a].ops = att[a].ops,
         att'[a].waitFor = att[a].waitFor, att'[a].member => att[a].member,
         att'[a].rel \in {"no", "ops"} => att'[a].lease # "released"
  PROVE  ReleaseAgrees(a)'
BY DEF ReleaseAgrees, HandlesGrow, AttachmentsGrow, EndsKept, OwnKept

\* All attachments, when no release moves.
LEMMA KeepReleases ==
  ASSUME TypeOK, ReleasesAgree, HandlesGrow, EndsKept, OwnKept, UNCHANGED att
  PROVE  ReleasesAgree'
<1>1. AttachmentsGrow
  BY DEF AttachmentsGrow, Attachments
<1>2. \A a \in Attachments : ReleaseAgrees(a)'
  BY <1>1, KeepRelease DEF ReleasesAgree, ReleaseAgrees
<1>3. QED
  BY <1>2 DEF ReleasesAgree, Attachments

\* Releases that begin are their client's, or come with the end of the worker.
LEMMA BeginReleases ==
  ASSUME TypeOK, ReleasesAgree, HandlesGrow, EndsKept, OwnKept, NEW S, NEW p \in BOOLEAN,
         att' = Releasing(att, S, p),
         \A a \in Attachments : a \in S => OwnRelease(a)' \/ Ended(a)'
  PROVE  ReleasesAgree'
<1>0. att \in Seq(AttachmentRec)
  BY DEF TypeOK
<1>1. AttachmentsGrow /\ Attachments' = Attachments
  BY <1>0, Releases DEF AttachmentsGrow, Attachments
<1>2. ASSUME NEW a \in Attachments, a \notin S \/ att[a].rel # "no" PROVE ReleaseAgrees(a)'
  BY <1>0, <1>1, <1>2, Releases, KeepRelease DEF ReleasesAgree, ReleaseAgrees
<1>3. ASSUME NEW a \in Attachments, a \in S, att[a].rel = "no" PROVE ReleaseAgrees(a)'
  <2>1. /\ att'[a].rel = "ops" /\ att'[a].ops = att[a].ops /\ att'[a].waitFor = att[a].ops
        /\ att'[a].handle = att[a].handle /\ att'[a].lease = att[a].lease
    BY <1>0, <1>3, Releases
  <2>2. ReleaseAgrees(a)
    BY DEF ReleasesAgree
  <2>3. QED
    BY <1>3, <2>1, <2>2 DEF ReleaseAgrees, HandlesGrow
<1>4. QED
  BY <1>1, <1>2, <1>3 DEF ReleasesAgree

\* Routes stay, or are cleared.
LEMMA KeepRoutes ==
  ASSUME TypeOK, Routes, RoutesAreLive, AttachmentsGrow,
         \A c \in Clients : byClient'[c] \in {byClient[c], 0} /\ shown'[c] \in {shown[c], 0},
         \A c \in Clients : byClient'[c] # 0 => att'[byClient[c]].member = att[byClient[c]].member,
         \A a \in Attachments : att'[a].rel = "no" =>
           /\ att[a].rel = "no"
           /\ att[a].lease = "held" => att'[a].lease = "held"
           /\ LET h == att[a].handle
              IN  att[a].member /\ handle[h].state \in Up /\ hosted[handle[h].session] = h =>
                    /\ handle'[h].state \in Up /\ handle'[h].session = handle[h].session
                    /\ hosted'[handle[h].session] = h
  PROVE  Routes' /\ RoutesAreLive'
<1>1. Routes'
  BY DEF Routes, AttachmentsGrow
<1>2. ASSUME NEW c \in Clients, byClient'[c] # 0
      PROVE  LET a == att'[byClient'[c]]
             IN /\ a.client = c /\ a.member
                /\ a.rel = "no" => /\ a.lease = "held"
                                   /\ handle'[a.handle].state \in {"open", "closing"}
                                   /\ hosted'[handle'[a.handle].session] = a.handle
  BY <1>2 DEF Routes, RoutesAreLive, AttachmentsGrow, Up
<1>3. QED
  BY <1>1, <1>2 DEF RoutesAreLive

\* Routes stay live while attachments and handles stay as they are.
LEMMA SameRoutes ==
  ASSUME Routes, RoutesAreLive, UNCHANGED <<byClient, shown, att, handle, hosted>>
  PROVE  Routes' /\ RoutesAreLive'
BY DEF Routes, RoutesAreLive, Attachments


-----------------------------------------------------------------------------
(* Attachments and leases. *)

\* The invariant across releaseLease.
LEMMA releaseLeaseStep ==
  ASSUME RouterInv, NEW a \in Attachments, releaseLease(a) PROVE RouterInv'
<1> USE DEF RouterInv
<1> DEFINE e == [att[a] EXCEPT !.rel = "clearing",
                               !.lease = IF att[a].lease = "held" THEN "released" ELSE att[a].lease]
<1>1. e \in AttachmentRec
  BY AttachmentFacts DEF AttachmentRec
<1>2. att' = [att EXCEPT ![a] = e]
  BY DEF releaseLease
<1>3. /\ att' \in Seq(AttachmentRec) /\ Len(att') = Len(att)
      /\ \A b \in Attachments : att'[b] = IF b = a THEN e ELSE att[b]
  <2> HIDE DEF e
  <2>1. att \in Seq(AttachmentRec)
    BY DEF TypeOK
  <2>2. QED
    BY <1>1, <1>2, <2>1, Replaced
<1>4. /\ e.client = att[a].client /\ e.handle = att[a].handle /\ e.ops = att[a].ops
      /\ e.member = att[a].member /\ e.waitFor = att[a].waitFor /\ e.rel = "clearing"
  BY AttachmentFacts DEF AttachmentRec
<1>5. TypeOK'
  BY <1>3 DEF TypeOK, releaseLease
<1>6. HandlesAgree' /\ HandlesGrow
  BY SameHandles DEF releaseLease
<1>7. AttachmentsGrow /\ Attachments' = Attachments
  BY <1>3, <1>4 DEF AttachmentsGrow, Attachments
<1>8. QueuesAgree' /\ OwnKept /\ EndsKept
  BY <1>6, <1>7, KeepQueues, OwnStays, EndsStay DEF releaseLease
<1>9. ASSUME NEW b \in Attachments PROVE ReleaseAgrees(b)'
  <2>1. CASE b # a
    BY <1>3, <1>6, <1>7, <1>8, <2>1, KeepRelease DEF ReleasesAgree, ReleaseAgrees
  <2>2. CASE b = a
    BY <1>3, <1>4, <1>6, <1>7, <1>8, <2>2
    DEF ReleasesAgree, ReleaseAgrees, HandlesGrow, EndsKept, OwnKept, releaseLease
  <2>3. QED
    BY <2>1, <2>2
<1>10. Routes' /\ RoutesAreLive'
  <2>1. \A b \in Attachments : att'[b].rel = "no" => b # a
    BY <1>3, <1>4
  <2>2. QED
    BY <1>3, <1>4, <1>7, <2>1, KeepRoutes DEF releaseLease, Routes
<1>11. QED
  BY <1>5, <1>6, <1>7, <1>8, <1>9, <1>10 DEF ReleasesAgree

\* The invariant across clearAttachment.
LEMMA clearAttachmentStep ==
  ASSUME RouterInv, NEW a \in Attachments, clearAttachment(a) PROVE RouterInv'
<1> USE DEF RouterInv
<1> DEFINE e == [att[a] EXCEPT !.rel = "done", !.member = FALSE]
<1>1. e \in AttachmentRec
  BY AttachmentFacts DEF AttachmentRec
<1>2. att' = [att EXCEPT ![a] = e]
  BY DEF clearAttachment
<1>3. /\ att' \in Seq(AttachmentRec) /\ Len(att') = Len(att)
      /\ \A b \in Attachments : att'[b] = IF b = a THEN e ELSE att[b]
  <2> HIDE DEF e
  <2>1. att \in Seq(AttachmentRec)
    BY DEF TypeOK
  <2>2. QED
    BY <1>1, <1>2, <2>1, Replaced
<1>4. /\ e.client = att[a].client /\ e.handle = att[a].handle /\ e.ops = att[a].ops
      /\ e.member = FALSE /\ e.waitFor = att[a].waitFor /\ e.rel = "done"
  BY AttachmentFacts DEF AttachmentRec
<1>5. /\ byClient' \in [Clients -> Nat] /\ shown' \in [Clients -> Nat]
      /\ \A c \in Clients : byClient'[c] \in {byClient[c], 0} /\ shown'[c] \in {shown[c], 0}
  <2>1. byClient \in [Clients -> Nat] /\ shown \in [Clients -> Nat] /\ att[a].client \in Clients
    BY AttachmentFacts DEF TypeOK
  <2>2. byClient' = byClient \/ byClient' = [byClient EXCEPT ![att[a].client] = 0]
    BY DEF clearAttachment
  <2>3. shown' = shown \/ shown' = [shown EXCEPT ![att[a].client] = 0]
    BY DEF clearAttachment
  <2>4. QED
    BY <2>1, <2>2, <2>3
<1>6. TypeOK'
  BY <1>3, <1>5 DEF TypeOK, clearAttachment
<1>7. HandlesAgree' /\ HandlesGrow
  BY SameHandles DEF clearAttachment
<1>8. AttachmentsGrow /\ Attachments' = Attachments
  BY <1>3, <1>4 DEF AttachmentsGrow, Attachments
<1>9. QueuesAgree' /\ OwnKept /\ EndsKept
  BY <1>5, <1>7, <1>8, KeepQueues, OwnStays, EndsStay DEF clearAttachment
<1>10. ASSUME NEW b \in Attachments PROVE ReleaseAgrees(b)'
  <2>1. CASE b # a
    BY <1>3, <1>7, <1>8, <1>9, <2>1, KeepRelease DEF ReleasesAgree, ReleaseAgrees
  <2>2. CASE b = a
    BY <1>3, <1>4, <1>7, <1>8, <1>9, <2>2
    DEF ReleasesAgree, ReleaseAgrees, HandlesGrow, EndsKept, clearAttachment
  <2>3. QED
    BY <2>1, <2>2
<1>11. ASSUME NEW c \in Clients, byClient'[c] # 0 PROVE byClient[c] # a
  <2>1. byClient[c] = a => att[a].client = c
    BY AttachmentFacts DEF RoutesAreLive
  <2>2. att[a].client \in Clients /\ att[a].rel = "clearing" /\ byClient \in [Clients -> Nat]
    BY AttachmentFacts DEF clearAttachment, TypeOK
  <2>3. QED
    BY <1>11, <2>1, <2>2 DEF clearAttachment, Cleared
<1>12. Routes' /\ RoutesAreLive'
  <2>1. \A b \in Attachments : att'[b].rel = "no" => b # a
    BY <1>3, <1>4
  <2>2. \A c \in Clients : byClient'[c] # 0 => att'[byClient[c]].member = att[byClient[c]].member
    BY <1>3, <1>5, <1>11 DEF Routes
  <2>3. UNCHANGED <<handle, hosted>>
    BY DEF clearAttachment
  <2>4. QED
    BY <1>3, <1>4, <1>5, <1>8, <2>1, <2>2, <2>3, KeepRoutes
<1>13. QED
  BY <1>6, <1>7, <1>8, <1>9, <1>10, <1>12 DEF ReleasesAgree

\* A lease is granted or refused.
LEMMA LeaseStep ==
  ASSUME RouterInv, NEW a \in Attachments, Lease(a) PROVE RouterInv'
<1> USE DEF RouterInv
<1>1. PICK x \in {"held", "failed"} : att' = [att EXCEPT ![a].lease = x]
  BY DEF Lease, leaseGranted, leaseFails
<1>2. /\ att[a].lease = "acquiring"
      /\ UNCHANGED <<handle, hosted, opening, byClient, queue, shown, calls, remover, closer>>
  BY DEF Lease, leaseGranted, leaseFails
<1> DEFINE e == [att[a] EXCEPT !.lease = x]
<1>3. /\ e \in AttachmentRec /\ e.client = att[a].client /\ e.handle = att[a].handle
      /\ e.ops = att[a].ops /\ e.member = att[a].member /\ e.waitFor = att[a].waitFor
      /\ e.rel = att[a].rel /\ e.lease = x
  BY AttachmentFacts DEF AttachmentRec
<1>4. /\ att' \in Seq(AttachmentRec) /\ Len(att') = Len(att)
      /\ \A b \in Attachments : att'[b] = IF b = a THEN e ELSE att[b]
  <2>1. att' = [att EXCEPT ![a] = e]
    BY <1>1
  <2>2. QED
    BY <1>3, <2>1, Replaced DEF TypeOK
<1>5. TypeOK'
  BY <1>2, <1>4 DEF TypeOK
<1>6. HandlesAgree' /\ HandlesGrow
  BY <1>2, SameHandles
<1>7. AttachmentsGrow /\ Attachments' = Attachments
  BY <1>3, <1>4 DEF AttachmentsGrow, Attachments
<1>8. QueuesAgree' /\ OwnKept /\ EndsKept
  BY <1>2, <1>6, <1>7, KeepQueues, OwnStays, EndsStay
<1>9. ASSUME NEW b \in Attachments PROVE ReleaseAgrees(b)'
  <2>1. ReleaseAgrees(b)
    BY DEF ReleasesAgree
  <2>2. /\ att'[b].rel = att[b].rel /\ att'[b].ops = att[b].ops
        /\ att'[b].waitFor = att[b].waitFor /\ att'[b].member = att[b].member
        /\ att'[b].lease \in {att[b].lease, "held", "failed"}
    BY <1>1, <1>3, <1>4
  <2>3. att'[b].rel \in {"no", "ops"} => att'[b].lease # "released"
    BY <2>1, <2>2 DEF ReleaseAgrees
  <2>4. QED
    BY <1>6, <1>7, <1>8, <2>1, <2>2, <2>3, KeepRelease
<1>10. Routes' /\ RoutesAreLive'
  <2>1. \A c \in Clients : byClient'[c] # 0 => att'[byClient[c]].member = att[byClient[c]].member
    BY <1>2, <1>3, <1>4 DEF Routes
  <2>2. \A b \in Attachments : att'[b].rel = att[b].rel /\ (att[b].lease = "held" => att'[b].lease = "held")
    BY <1>2, <1>3, <1>4
  <2>3. QED
    BY <1>2, <1>7, <2>1, <2>2, KeepRoutes
<1>11. QED
  BY <1>5, <1>6, <1>7, <1>8, <1>9, <1>10 DEF ReleasesAgree

\* The invariant across callSettles.
LEMMA callSettlesStep ==
  ASSUME RouterInv, NEW a \in Attachments, NEW k \in att[a].ops, callSettles(a, k)
  PROVE  RouterInv'
<1> USE DEF RouterInv
<1> DEFINE e == [att[a] EXCEPT !.ops = att[a].ops \ {k}, !.waitFor = att[a].waitFor \ {k}]
<1>1. UNCHANGED <<handle, hosted, opening, byClient, queue, shown, calls, remover, closer>>
  BY DEF callSettles
<1>2. /\ e \in AttachmentRec /\ e.client = att[a].client /\ e.handle = att[a].handle
      /\ e.ops = att[a].ops \ {k} /\ e.waitFor = att[a].waitFor \ {k}
      /\ e.member = att[a].member /\ e.rel = att[a].rel /\ e.lease = att[a].lease
  BY AttachmentFacts DEF AttachmentRec
<1>3. /\ att' \in Seq(AttachmentRec) /\ Len(att') = Len(att)
      /\ \A b \in Attachments : att'[b] = IF b = a THEN e ELSE att[b]
  <2>1. att' = [att EXCEPT ![a] = e]
    BY DEF callSettles
  <2>2. QED
    BY <1>2, <2>1, Replaced DEF TypeOK
<1>4. TypeOK'
  BY <1>1, <1>3 DEF TypeOK
<1>5. HandlesAgree' /\ HandlesGrow
  BY <1>1, SameHandles
<1>6. AttachmentsGrow /\ Attachments' = Attachments
  BY <1>2, <1>3 DEF AttachmentsGrow, Attachments
<1>7. QueuesAgree' /\ OwnKept /\ EndsKept
  BY <1>1, <1>5, <1>6, KeepQueues, OwnStays, EndsStay
<1>8. ASSUME NEW b \in Attachments PROVE ReleaseAgrees(b)'
  <2>1. CASE b # a
    BY <1>3, <1>5, <1>6, <1>7, <2>1, KeepRelease DEF ReleasesAgree, ReleaseAgrees
  <2>2. CASE b = a
    <3>1. /\ att'[b].rel = att[a].rel /\ att'[b].ops = att[a].ops \ {k} /\ att'[b].lease = att[a].lease
          /\ att'[b].waitFor = att[a].waitFor \ {k} /\ att'[b].handle = att[a].handle
          /\ att'[b].member = att[a].member
      BY <1>2, <1>3, <2>2
    <3>2. ReleaseAgrees(a)
      BY DEF ReleasesAgree
    <3>3. QED
      BY <1>5, <1>7, <2>2, <3>1, <3>2 DEF ReleaseAgrees, HandlesGrow, EndsKept, OwnKept
  <2>3. QED
    BY <2>1, <2>2
<1>9. Routes' /\ RoutesAreLive'
  <2>1. \A c \in Clients : byClient'[c] # 0 => att'[byClient[c]].member = att[byClient[c]].member
    BY <1>1, <1>2, <1>3 DEF Routes
  <2>2. \A b \in Attachments : att'[b].rel = att[b].rel /\ att'[b].lease = att[b].lease
    BY <1>2, <1>3
  <2>3. QED
    BY <1>1, <1>6, <2>1, <2>2, KeepRoutes
<1>10. QED
  BY <1>4, <1>5, <1>6, <1>7, <1>8, <1>9 DEF ReleasesAgree

-----------------------------------------------------------------------------
(* Operations that join a queue. *)

\* An operation joins the queue of its client.
LEMMA JoinStep ==
  ASSUME RouterInv, UNCHANGED <<handle, hosted, opening, att, byClient, shown, calls, remover>>,
         queue' \in [Clients -> Seq(OpRec)],
         \A c \in Clients : queue'[c] = queue[c] \/ Joined(c),
         closer'.pc \in {"open", "connections", "wait", "closed"} \/ closer' = closer,
         DOMAIN closer' = {"pc", "ops", "wait"}, closer.pc = "release" => closer' = closer
  PROVE  RouterInv'
<1> USE DEF RouterInv
<1>1. TypeOK'
  BY DEF TypeOK
<1>2. HandlesAgree' /\ HandlesGrow
  BY SameHandles
<1>3. AttachmentsGrow
  BY DEF AttachmentsGrow, Attachments
<1>4. QueuesAgree' /\ OwnKept /\ EndsKept
  BY <1>2, <1>3, KeepQueues, OwnStays, EndsStay
<1>5. ReleasesAgree'
  BY <1>2, <1>4, KeepReleases
<1>6. Routes' /\ RoutesAreLive'
  BY SameRoutes
<1>7. QED
  BY <1>1, <1>2, <1>4, <1>5, <1>6

\* The invariant across ask.
LEMMA askStep ==
  ASSUME RouterInv, NEW c \in Clients, ask(c) PROVE RouterInv'
<1> USE DEF RouterInv
<1>1. UNCHANGED <<handle, hosted, opening, att, byClient, shown, calls, remover, closer>>
  BY DEF ask
<1>2. PICK op : Fresh(op) /\ queue' = [queue EXCEPT ![c] = Append(queue[c], op)]
  <2>1. CASE \E s \in Sessions : queue' = runForClient(c, Op("attach", s))
    BY <2>1 DEF runForClient, Op, Fresh, OpRec
  <2>2. CASE queue' = runForClient(c, Op("detach", 0))
    BY <2>2 DEF runForClient, Op, Fresh, OpRec
  <2>3. CASE shown[c] # 0 /\ queue' = runForClient(c, [Op("call", handle[att[shown[c]].handle].session)
                                                          EXCEPT !.att = shown[c]])
    <3>1. shown[c] \in Attachments /\ shown[c] \in Nat
      BY <2>3 DEF Routes, TypeOK
    <3>2. att[shown[c]].handle \in Handles
      BY <3>1 DEF ReleasesAgree, ReleaseAgrees
    <3>3. handle[att[shown[c]].handle].session \in Sessions
      BY <3>2, HandleFacts
    <3>4. QED
      BY <2>3, <3>1, <3>3 DEF runForClient, Op, Fresh, OpRec
  <2>4. QED
    BY <2>1, <2>2, <2>3 DEF ask
<1>3. queue \in [Clients -> Seq(OpRec)]
  BY DEF TypeOK
<1>4. \A d \in Clients : queue'[d] = queue[d] \/ Joined(d)
  BY <1>2, <1>3 DEF Joined
<1>5. queue' \in [Clients -> Seq(OpRec)]
  BY <1>2, <1>3 DEF Fresh
<1>6. QED
  BY <1>1, <1>4, <1>5, JoinStep DEF TypeOK

\* The invariant across disconnect.
LEMMA disconnectStep ==
  ASSUME RouterInv, NEW c \in Clients, disconnect(c) PROVE RouterInv'
<1> USE DEF RouterInv
<1>1. UNCHANGED <<handle, hosted, opening, att, byClient, shown, calls, remover, closer>>
  BY DEF disconnect
<1>2. PICK op : Fresh(op) /\ queue' = [queue EXCEPT ![c] = Append(queue[c], op)]
  BY DEF disconnect, runForClient, Op, Fresh, OpRec
<1>3. queue \in [Clients -> Seq(OpRec)]
  BY DEF TypeOK
<1>4. \A d \in Clients : queue'[d] = queue[d] \/ Joined(d)
  BY <1>2, <1>3 DEF Joined
<1>5. queue' \in [Clients -> Seq(OpRec)]
  BY <1>2, <1>3 DEF Fresh
<1>6. QED
  BY <1>1, <1>4, <1>5, JoinStep DEF TypeOK

\* The invariant across closeRouter.
LEMMA closeRouterStep ==
  ASSUME RouterInv, closeRouter PROVE RouterInv'
<1> USE DEF RouterInv
<1>1. /\ UNCHANGED <<handle, hosted, opening, att, byClient, shown, calls, remover>>
      /\ closer'.pc = "wait" /\ DOMAIN closer' = {"pc", "ops", "wait"} /\ closer.pc = "connections"
  BY DEF closeRouter
<1>2. PICK op : Fresh(op) /\ op = Op("disconnect", 0)
  BY DEF Op, Fresh, OpRec
<1>3. queue \in [Clients -> Seq(OpRec)]
  BY DEF TypeOK
<1>4. queue' = [d \in Clients |-> IF d \in Clients \ gone THEN Append(queue[d], op) ELSE queue[d]]
  BY <1>2 DEF closeRouter
<1>5. queue' \in [Clients -> Seq(OpRec)] /\ \A d \in Clients : queue'[d] = queue[d] \/ Joined(d)
  BY <1>2, <1>3, <1>4 DEF Joined, Fresh
<1>6. QED
  BY <1>1, <1>5, JoinStep

\* The invariant across close, and stuttering.
LEMMA QuietStep ==
  ASSUME RouterInv, close \/ UNCHANGED vars PROVE RouterInv'
<1> USE DEF RouterInv
<1>1. UNCHANGED <<handle, hosted, opening, att, byClient, queue, shown, calls, remover>>
  BY DEF close, vars
<1>2. closer' = closer \/ (closer.pc = "open" /\ closer' = [closer EXCEPT !.pc = "connections"])
  BY DEF close, vars
<1>3. queue' \in [Clients -> Seq(OpRec)] /\ \A c \in Clients : queue'[c] = queue[c]
  BY <1>1 DEF TypeOK
<1>4. /\ DOMAIN closer' = {"pc", "ops", "wait"}
      /\ closer' = closer \/ closer'.pc = "connections"
      /\ closer.pc = "release" => closer' = closer
  BY <1>2 DEF TypeOK
<1>5. QED
  BY <1>1, <1>3, <1>4, JoinStep

-----------------------------------------------------------------------------
(* The operations of a client. *)

\* The first operation of c ends or goes on; what that leaves alone.
LEMMA ClientMoves ==
  ASSUME RouterInv, NEW c \in Clients, queue[c] # <<>>, Free(c), HandlesGrow, AttachmentsGrow,
         NEW q \in Seq(OpRec), queue' = [queue EXCEPT ![c] = q], QueueAgrees(c)',
         \A d \in Clients \ {c} : byClient'[d] = byClient[d], UNCHANGED <<remover, closer>>
  PROVE  /\ QueuesAgree' /\ OwnKept /\ EndsKept /\ queue' \in [Clients -> Seq(OpRec)]
         /\ queue'[c] = q
<1> USE DEF RouterInv
<1>1. queue \in [Clients -> Seq(OpRec)]
  BY DEF TypeOK
<1>2. QueuesAgree' /\ queue' \in [Clients -> Seq(OpRec)]
  BY MoveQueue
<1>3. \A d \in Clients : queue'[d] = queue[d] \/ (queue[d] # <<>> /\ Free(d))
  BY <1>1
<1>4. OwnKept /\ EndsKept
  BY <1>3, OwnStays, EndsStay
<1>5. QED
  BY <1>1, <1>2, <1>4

\* The first operation of c ends and nothing else of the routing changes.
LEMMA EndStep ==
  ASSUME RouterInv, NEW c \in Clients, queue[c] # <<>>, Free(c), Ends(c),
         UNCHANGED <<handle, hosted, opening, att, byClient, shown, calls, remover, closer>>
  PROVE  RouterInv'
<1> USE DEF RouterInv
<1>1. HandlesAgree' /\ HandlesGrow /\ AttachmentsGrow
  BY SameHandles DEF AttachmentsGrow, Attachments
<1>2. Tail(queue[c]) \in Seq(OpRec) /\ queue \in [Clients -> Seq(OpRec)]
  BY QueueFacts DEF TypeOK
<1>3. queue' = [queue EXCEPT ![c] = Tail(queue[c])] /\ queue'[c] = Tail(queue[c])
  BY <1>2 DEF Ends
<1>4. QueueAgrees(c)'
  BY <1>3, EndQueue DEF QueuesAgree
<1>5. QueuesAgree' /\ OwnKept /\ EndsKept /\ queue' \in [Clients -> Seq(OpRec)]
  BY <1>1, <1>2, <1>3, <1>4, ClientMoves
<1>6. TypeOK'
  BY <1>5 DEF TypeOK
<1>7. ReleasesAgree' /\ Routes' /\ RoutesAreLive'
  BY <1>1, <1>5, KeepReleases, SameRoutes
<1>8. QED
  BY <1>1, <1>5, <1>6, <1>7

\* The invariant across dropped.
LEMMA droppedStep ==
  ASSUME RouterInv, NEW c \in Clients, dropped(c) PROVE RouterInv'
<1>1. queue[c] # <<>> /\ Ends(c) /\ Free(c)
  BY DEF dropped, Free
<1>2. QED
  BY <1>1, EndStep DEF dropped

\* The first operation of c goes on as op; if it names one, attachment a is released.
LEMMA GoStep ==
  ASSUME RouterInv, NEW c \in Clients, queue[c] # <<>>, Free(c), NEW op \in OpRec, Goes(c, op),
         op.kind = "attach" => op.session \in Sessions, Waits(c, op), op.pc # "lease",
         NEW a \in Nat, NEW p \in BOOLEAN, att' = IF a = 0 THEN att ELSE Releasing(att, {a}, p),
         a # 0 => /\ a \in Attachments /\ att[a].client = c
                  /\ (op.pc = "release" /\ op.cur = a) \/ (op.pc = "drop" /\ op.att = a),
         UNCHANGED <<handle, hosted, opening, byClient, shown, calls, remover, closer>>
  PROVE  RouterInv'
<1> USE DEF RouterInv
<1>0. att \in Seq(AttachmentRec)
  BY DEF TypeOK
<1>1. att' \in Seq(AttachmentRec) /\ AttachmentsGrow /\ Attachments' = Attachments
  <2>1. CASE a = 0
    BY <1>0, <2>1 DEF AttachmentsGrow, Attachments
  <2>2. CASE a # 0
    BY <1>0, <2>2, Releases DEF AttachmentsGrow, Attachments
  <2>3. QED
    BY <2>1, <2>2
<1>2. HandlesAgree' /\ HandlesGrow
  BY SameHandles
<1>3. queue \in [Clients -> Seq(OpRec)] /\ Tail(queue[c]) \in Seq(OpRec)
  BY QueueFacts DEF TypeOK
<1>4. <<op>> \o Tail(queue[c]) \in Seq(OpRec)
  BY <1>3, ConcatProperties
<1>5. queue'[c] = <<op>> \o Tail(queue[c])
  BY <1>3 DEF Goes
<1>6. Waits(c, op)'
  BY <1>1, <1>2 DEF Waits, AttachmentsGrow, HandlesGrow
<1>7. QueueAgrees(c)' /\ queue'[c] # <<>> /\ Head(queue'[c]) = op
  BY <1>5, <1>6, GoQueue DEF QueuesAgree
<1>8. QueuesAgree' /\ OwnKept /\ EndsKept /\ queue' \in [Clients -> Seq(OpRec)]
  BY <1>1, <1>2, <1>4, <1>7, ClientMoves DEF Goes
<1>9. TypeOK'
  BY <1>1, <1>8 DEF TypeOK
<1>10. ReleasesAgree'
  <2>1. CASE a = 0
    BY <1>2, <1>8, <2>1, KeepReleases
  <2>2. CASE a # 0
    <3>1. OwnRelease(a)'
      BY <1>1, <1>7, <2>2 DEF OwnRelease, AttachmentsGrow
    <3>2. att' = Releasing(att, {a}, p) /\ \A b \in Attachments : b \in {a} => OwnRelease(b)'
      BY <2>2, <3>1
    <3>3. QED
      BY <1>2, <1>8, <3>2, BeginReleases
  <2>3. QED
    BY <2>1, <2>2
<1>11. Routes' /\ RoutesAreLive'
  <2>1. CASE a = 0
    BY <2>1, SameRoutes
  <2>2. CASE a # 0
    <3>1. \A b \in Attachments :
            /\ att'[b].member = att[b].member /\ att'[b].lease = att[b].lease
            /\ att'[b].rel = "no" => att[b].rel = "no"
      BY <1>0, <2>2, Releases
    <3>2. QED
      BY <1>1, <3>1, KeepRoutes DEF Routes
  <2>3. QED
    BY <2>1, <2>2
<1>12. QED
  BY <1>2, <1>8, <1>9, <1>10, <1>11

\* The invariant across detachBegin.
LEMMA detachBeginStep ==
  ASSUME RouterInv, NEW c \in Clients, NEW kind \in {"detach", "disconnect"}, detachBegin(c, kind)
  PROVE  RouterInv'
<1> USE DEF RouterInv
<1>1. /\ queue[c] # <<>> /\ Head(queue[c]).kind = kind /\ Head(queue[c]).pc = "start" /\ Free(c)
      /\ UNCHANGED <<handle, hosted, opening, byClient, shown, calls, remover, closer>>
  BY DEF detachBegin, Running, Free
<1>2. CASE byClient[c] = 0
  <2>1. Ends(c) /\ UNCHANGED att
    BY <1>2 DEF detachBegin
  <2>2. QED
    BY <1>1, <2>1, EndStep
<1>3. CASE byClient[c] # 0
  <2>1. PICK a : a = byClient[c]
    OBVIOUS
  <2>2. a \in Attachments /\ att[a].client = c /\ a \in Nat
    BY <1>3, <2>1, AttachmentFacts DEF Routes, RoutesAreLive
  <2>3. PICK op : op = [Head(queue[c]) EXCEPT !.pc = "drop", !.att = a]
    OBVIOUS
  <2>4. op \in OpRec /\ op.kind = kind /\ op.pc = "drop" /\ op.att = a
    <3>1. Head(queue[c]) \in OpRec
      BY <1>1, QueueFacts
    <3>2. QED
      BY <1>1, <2>2, <2>3, <3>1 DEF OpRec
  <2>5. Goes(c, op) /\ att' = Releasing(att, {a}, Tells(kind)) /\ Tells(kind) \in BOOLEAN
    BY <1>3, <2>1, <2>3 DEF detachBegin, Tells
  <2>6. Waits(c, op)
    BY <2>2, <2>4 DEF Waits
  <2>7. QED
    <3>1. op.kind # "attach" /\ op.pc # "lease" /\ att' = IF a = 0 THEN att ELSE Releasing(att, {a}, Tells(kind))
      BY <1>3, <2>1, <2>4, <2>5
    <3>2. QED
      BY <1>1, <2>2, <2>4, <2>5, <2>6, <3>1, GoStep
<1>4. QED
  BY <1>2, <1>3

\* The invariant across attachBegin.
LEMMA attachBeginStep ==
  ASSUME RouterInv, NEW c \in Clients, attachBegin(c) PROVE RouterInv'
<1> USE DEF RouterInv
<1> DEFINE s == Head(queue[c]).session
           cur == byClient[c]
           h == Acquired(s)
<1>1. /\ queue[c] # <<>> /\ Head(queue[c]).kind = "attach" /\ Head(queue[c]).pc = "start" /\ Free(c)
      /\ UNCHANGED <<hosted, att, byClient, shown, calls, remover, closer>>
  BY DEF attachBegin, Running, Free
<1>2. s \in Sessions /\ Head(queue[c]) \in OpRec
  BY <1>1, QueueFacts DEF QueuesAgree, QueueAgrees
<1>3. cur \in Nat /\ (cur # 0 => cur \in Attachments /\ att[cur].client = c)
  BY DEF TypeOK, Routes, RoutesAreLive
<1>4. CASE Ends(c) /\ UNCHANGED <<handle, opening>>
  BY <1>1, <1>4, EndStep
<1>5. CASE /\ h # 0 /\ UNCHANGED <<handle, opening>>
           /\ Goes(c, [Head(queue[c]) EXCEPT !.pc = "acquire", !.cur = cur, !.handle = h])
  <2>1. h \in Handles /\ h \in Nat
    BY <1>2, <1>5, HandleFacts DEF Acquired, HandlesAgree
  <2>2. PICK op : op = [Head(queue[c]) EXCEPT !.pc = "acquire", !.cur = cur, !.handle = h]
    OBVIOUS
  <2>3. /\ op \in OpRec /\ op.kind = "attach" /\ op.session = s /\ op.pc = "acquire"
        /\ op.cur = cur /\ op.handle = h
    BY <1>1, <1>2, <1>3, <2>1, <2>2 DEF OpRec
  <2>4. Waits(c, op)
    BY <1>3, <2>1, <2>3 DEF Waits
  <2>5. Goes(c, op) /\ att' = att
    BY <1>1, <1>5, <2>2
  <2>6. QED
    BY <1>1, <1>2, <1>5, <2>3, <2>4, <2>5, GoStep
<1>6. CASE /\ h = 0 /\ handle' = Append(handle, [session |-> s, state |-> "opening"])
           /\ opening' = [opening EXCEPT ![s] = Len(handle) + 1]
           /\ Goes(c, [Head(queue[c]) EXCEPT !.pc = "acquire", !.cur = cur, !.handle = Len(handle) + 1])
  <2>1. handle \in Seq(HandleRec) /\ Len(handle) \in Nat
    BY LenProperties DEF TypeOK
  <2>2. PICK new : new = Len(handle) + 1
    OBVIOUS
  <2>3. PICK e \in HandleRec : e = [session |-> s, state |-> "opening"]
    BY <1>2 DEF HandleRec, HandleStates
  <2>4. /\ handle' \in Seq(HandleRec) /\ Len(handle') = new /\ handle'[new] = e
        /\ \A g \in Handles : handle'[g] = handle[g]
    BY <1>6, <2>1, <2>2, <2>3, AppendProperties DEF Handles
  <2>5. Handles' = Handles \cup {new} /\ new \notin Handles /\ new \in Nat \ {0}
    BY <2>1, <2>2, <2>4 DEF Handles
  <2>6. HandlesGrow /\ AttachmentsGrow /\ Attachments' = Attachments
    BY <1>1, <2>4, <2>5 DEF HandlesGrow, AttachmentsGrow, Attachments
  <2>7. hosted[s] = 0 /\ opening[s] = 0
    BY <1>6 DEF Acquired
  <2>8. opening' \in [Sessions -> Nat] /\ opening'[s] = new
        /\ \A t \in Sessions \ {s} : opening'[t] = opening[t]
    BY <1>2, <1>6, <2>2, <2>5 DEF TypeOK
  <2>9. HandlesAgree'
    <3>1. \A g \in Handles : handle[g].session = s => handle[g].state \notin Up \cup {"opening", "refused"}
      BY <2>5, <2>7 DEF HandlesAgree, Handles
    <3>2. \A t \in Sessions : hosted'[t] # 0 =>
            /\ hosted'[t] \in Handles' /\ handle'[hosted'[t]].session = t
            /\ handle'[hosted'[t]].state \in Up
      BY <1>1, <2>4, <2>5 DEF HandlesAgree
    <3>3. \A t \in Sessions : opening'[t] # 0 =>
            /\ opening'[t] \in Handles' /\ handle'[opening'[t]].session = t
            /\ handle'[opening'[t]].state \in {"opening", "refused"} /\ hosted'[t] = 0
      BY <1>1, <2>3, <2>4, <2>5, <2>7, <2>8 DEF HandlesAgree
    <3>4. \A g \in Handles' :
            /\ handle'[g].state \in Up => hosted'[handle'[g].session] = g
            /\ handle'[g].state \in {"opening", "refused"} => opening'[handle'[g].session] = g
      <4>1. handle'[new].state = "opening" /\ handle'[new].session = s
        BY <2>3, <2>4
      <4>2. ASSUME NEW g \in Handles
            PROVE  /\ handle'[g].state \in Up => hosted'[handle'[g].session] = g
                   /\ handle'[g].state \in {"opening", "refused"} => opening'[handle'[g].session] = g
        BY <1>1, <2>4, <2>8, <3>1, HandleFacts DEF HandlesAgree
      <4>3. QED
        BY <2>5, <2>8, <4>1, <4>2 DEF Up
    <3>5. /\ remover'.pc # "idle" =>
               remover'.handle \in Handles' /\ handle'[remover'.handle].state \in Hosts
          /\ remover'.pc = "close" => handle'[remover'.handle].state # "open"
      BY <1>1, <2>4, <2>5 DEF HandlesAgree, TypeOK
    <3>6. QED
      BY <3>2, <3>3, <3>4, <3>5 DEF HandlesAgree
  <2>10. PICK op : op = [Head(queue[c]) EXCEPT !.pc = "acquire", !.cur = cur, !.handle = new]
    OBVIOUS
  <2>11. /\ op \in OpRec /\ op.kind = "attach" /\ op.session = s /\ op.pc = "acquire"
         /\ op.cur = cur /\ op.handle = new
    BY <1>1, <1>2, <1>3, <2>5, <2>10 DEF OpRec
  <2>12. Waits(c, op)'
    BY <1>1, <1>3, <2>5, <2>6, <2>11 DEF Waits
  <2>13. queue \in [Clients -> Seq(OpRec)] /\ <<op>> \o Tail(queue[c]) \in Seq(OpRec)
    BY <1>1, <2>11, QueueFacts, ConcatProperties DEF TypeOK
  <2>14. queue' = [queue EXCEPT ![c] = <<op>> \o Tail(queue[c])]
    BY <1>6, <2>2, <2>10 DEF Goes
  <2>15. queue'[c] = <<op>> \o Tail(queue[c])
    BY <2>13, <2>14
  <2>16. QueueAgrees(c)'
    BY <1>1, <1>2, <2>11, <2>12, <2>15, GoQueue DEF QueuesAgree
  <2>17. QueuesAgree' /\ OwnKept /\ EndsKept /\ queue' \in [Clients -> Seq(OpRec)]
    BY <1>1, <2>6, <2>13, <2>14, <2>16, ClientMoves
  <2>18. TypeOK'
    BY <1>1, <2>4, <2>8, <2>17 DEF TypeOK
  <2>19. ReleasesAgree'
    BY <1>1, <2>6, <2>17, KeepReleases
  <2>20. Routes' /\ RoutesAreLive'
    BY <1>1, <2>4, <2>6, KeepRoutes DEF ReleasesAgree, ReleaseAgrees
  <2>21. QED
    BY <2>9, <2>17, <2>18, <2>19, <2>20
<1>7. QED
  BY <1>4, <1>5, <1>6 DEF attachBegin

\* The invariant across attachAcquired.
LEMMA attachAcquiredStep ==
  ASSUME RouterInv, NEW c \in Clients, attachAcquired(c) PROVE RouterInv'
<1> USE DEF RouterInv
<1>1. /\ queue[c] # <<>> /\ Head(queue[c]).kind = "attach" /\ Head(queue[c]).pc = "acquire" /\ Free(c)
      /\ handle[Head(queue[c]).handle].state \notin {"opening", "refused"}
      /\ UNCHANGED <<handle, hosted, opening, byClient, shown, calls, remover, closer>>
  BY DEF attachAcquired, Running, Free
<1>2. CASE Ends(c) /\ UNCHANGED att
  BY <1>1, <1>2, EndStep
<1>3. CASE /\ ~NeverHosted(Head(queue[c]).handle)
           /\ Goes(c, [Head(queue[c]) EXCEPT !.pc = "release"])
           /\ att' = IF Head(queue[c]).cur = 0 THEN att
                     ELSE Releasing(att, {Head(queue[c]).cur}, FALSE)
  <2>1. PICK op : op = [Head(queue[c]) EXCEPT !.pc = "release"]
    OBVIOUS
  <2>2. Head(queue[c]) \in OpRec /\ Waits(c, Head(queue[c])) /\ Head(queue[c]).session \in Sessions
    BY <1>1, QueueFacts DEF QueuesAgree, QueueAgrees
  <2>3. /\ op \in OpRec /\ op.kind = "attach" /\ op.session \in Sessions /\ op.pc = "release"
        /\ op.cur = Head(queue[c]).cur /\ op.handle = Head(queue[c]).handle
    BY <1>1, <2>1, <2>2 DEF OpRec
  <2>4. /\ op.handle \in Handles
        /\ op.cur # 0 => op.cur \in Attachments /\ att[op.cur].client = c
    BY <1>1, <2>2, <2>3 DEF Waits
  <2>5. handle[op.handle].state \in Hosts
    BY <1>1, <1>3, <2>3, <2>4, HandleFacts DEF Hosts, HandleStates, NeverHosted
  <2>6. Waits(c, op)
    BY <2>3, <2>4, <2>5 DEF Waits
  <2>7. /\ Goes(c, op) /\ att' = IF op.cur = 0 THEN att ELSE Releasing(att, {op.cur}, FALSE)
        /\ op.cur \in Nat
    BY <1>3, <2>1, <2>3 DEF OpRec
  <2>8. QED
    BY <1>1, <2>3, <2>4, <2>6, <2>7, GoStep
<1>4. QED
  BY <1>2, <1>3 DEF attachAcquired

\* The invariant across attachLease.
LEMMA attachLeaseStep ==
  ASSUME RouterInv, NEW c \in Clients, attachLease(c) PROVE RouterInv'
<1> USE DEF RouterInv
<1>1. /\ queue[c] # <<>> /\ Head(queue[c]).kind = "attach" /\ Head(queue[c]).pc = "release" /\ Free(c)
      /\ UNCHANGED <<handle, hosted, opening, byClient, shown, calls, remover, closer>>
  BY DEF attachLease, Running, Free
<1>2. /\ Head(queue[c]) \in OpRec /\ Head(queue[c]).session \in Sessions
      /\ Head(queue[c]).handle \in Handles /\ handle[Head(queue[c]).handle].state \in Hosts
      /\ queue \in [Clients -> Seq(OpRec)]
  BY <1>1, QueueFacts DEF QueuesAgree, QueueAgrees, Waits, TypeOK
<1>3. att \in Seq(AttachmentRec) /\ Len(att) \in Nat
  BY LenProperties DEF TypeOK
<1>4. PICK new : new = Len(att) + 1
  OBVIOUS
<1>5. PICK e : e = [client |-> c, handle |-> Head(queue[c]).handle, member |-> TRUE,
                    lease |-> IF handle[Head(queue[c]).handle].state = "open"
                              THEN "acquiring" ELSE "failed",
                    ops |-> {}, rel |-> "no", waitFor |-> {}, publish |-> FALSE]
  OBVIOUS
<1>6. /\ e \in AttachmentRec /\ e.client = c /\ e.handle \in Handles /\ handle[e.handle].state \in Hosts
      /\ e.lease # "released" /\ e.ops = {} /\ e.rel = "no"
  BY <1>2, <1>5, HandleFacts DEF AttachmentRec
<1>7. /\ att' \in Seq(AttachmentRec) /\ Len(att') = new /\ att'[new] = e
      /\ \A b \in Attachments : att'[b] = att[b]
  <2>1. att' = Append(att, e)
    BY <1>5 DEF attachLease
  <2>2. QED
    BY <1>3, <1>4, <1>6, <2>1, AppendProperties DEF Attachments
<1>8. Attachments' = Attachments \cup {new} /\ new \notin Attachments /\ new \in Nat \ {0}
  BY <1>3, <1>4, <1>7 DEF Attachments
<1>9. HandlesAgree' /\ HandlesGrow
  BY <1>1, SameHandles
<1>10. AttachmentsGrow
  BY <1>7, <1>8 DEF AttachmentsGrow
<1>11. PICK op : op = [Head(queue[c]) EXCEPT !.pc = "lease", !.att = new]
  OBVIOUS
<1>12. op \in OpRec /\ op.kind = "attach" /\ op.session \in Sessions /\ op.pc = "lease" /\ op.att = new
  BY <1>1, <1>2, <1>8, <1>11 DEF OpRec
<1>13. Waits(c, op)'
  <2>1. byClient'[c] # new
    BY <1>1, <1>8 DEF Routes
  <2>2. QED
    BY <1>6, <1>7, <1>8, <1>12, <2>1 DEF Waits
<1>14. queue' = [queue EXCEPT ![c] = <<op>> \o Tail(queue[c])]
  BY <1>4, <1>11 DEF attachLease, Goes
<1>15. queue'[c] = <<op>> \o Tail(queue[c]) /\ <<op>> \o Tail(queue[c]) \in Seq(OpRec)
  BY <1>1, <1>2, <1>12, <1>14, QueueFacts, ConcatProperties
<1>16. QueueAgrees(c)'
  BY <1>1, <1>12, <1>13, <1>15, GoQueue DEF QueuesAgree
<1>17. QueuesAgree' /\ OwnKept /\ EndsKept /\ queue' \in [Clients -> Seq(OpRec)]
  BY <1>1, <1>9, <1>10, <1>14, <1>15, <1>16, ClientMoves
<1>18. TypeOK'
  BY <1>1, <1>7, <1>17 DEF TypeOK
<1>19. ReleasesAgree'
  <2>1. ASSUME NEW b \in Attachments PROVE ReleaseAgrees(b)'
    BY <1>7, <1>9, <1>10, <1>17, KeepRelease DEF ReleasesAgree, ReleaseAgrees
  <2>2. ReleaseAgrees(new)'
    BY <1>1, <1>6, <1>7, <1>9 DEF ReleaseAgrees, HandlesGrow
  <2>3. QED
    BY <1>8, <2>1, <2>2 DEF ReleasesAgree
<1>20. Routes' /\ RoutesAreLive'
  <2>1. Routes'
    BY <1>1, <1>8 DEF Routes
  <2>2. RoutesAreLive'
    BY <1>1, <1>7 DEF Routes, RoutesAreLive
  <2>3. QED
    BY <2>1, <2>2
<1>21. QED
  BY <1>9, <1>17, <1>18, <1>19, <1>20

\* The invariant across attachInstall.
LEMMA attachInstallStep ==
  ASSUME RouterInv, NEW c \in Clients, attachInstall(c) PROVE RouterInv'
<1> USE DEF RouterInv
<1>1. /\ queue[c] # <<>> /\ Head(queue[c]).kind = "attach" /\ Head(queue[c]).pc = "lease" /\ Free(c)
      /\ UNCHANGED <<handle, hosted, opening, calls, remover, closer>>
  BY DEF attachInstall, Running, Free
<1>2. PICK a : a = Head(queue[c]).att
  OBVIOUS
<1>3. /\ Head(queue[c]) \in OpRec /\ Head(queue[c]).session \in Sessions
      /\ a \in Attachments /\ att[a].client = c /\ byClient[c] # a
      /\ queue \in [Clients -> Seq(OpRec)] /\ Tail(queue[c]) \in Seq(OpRec)
  BY <1>1, <1>2, QueueFacts DEF QueuesAgree, QueueAgrees, Waits, TypeOK
<1>4. att[a] \in AttachmentRec /\ a \in Nat /\ a # 0 /\ att[a].lease # "acquiring" /\ ReleaseAgrees(a)
  BY <1>2, <1>3, AttachmentFacts DEF attachInstall, ReleasesAgree
<1>5. HandlesAgree' /\ HandlesGrow
  BY <1>1, SameHandles
<1>6. CASE /\ att' = [att EXCEPT ![a].member = FALSE]
           /\ Ends(c) /\ UNCHANGED <<byClient, shown>>
  <2>1. PICK e : e = [att[a] EXCEPT !.member = FALSE]
    OBVIOUS
  <2>2. /\ e \in AttachmentRec /\ e.client = att[a].client /\ e.handle = att[a].handle
        /\ e.ops = att[a].ops /\ e.member = FALSE /\ e.waitFor = att[a].waitFor
        /\ e.rel = att[a].rel /\ e.lease = att[a].lease
    BY <1>4, <2>1 DEF AttachmentRec
  <2>3. /\ att' \in Seq(AttachmentRec) /\ Len(att') = Len(att)
        /\ \A b \in Attachments : att'[b] = IF b = a THEN e ELSE att[b]
    <3>1. att' = [att EXCEPT ![a] = e]
      BY <1>6, <2>1
    <3>2. QED
      BY <1>3, <2>2, <3>1, Replaced DEF TypeOK
  <2>4. AttachmentsGrow /\ Attachments' = Attachments
    BY <2>2, <2>3 DEF AttachmentsGrow, Attachments
  <2>5. queue' = [queue EXCEPT ![c] = Tail(queue[c])] /\ queue'[c] = Tail(queue[c])
    BY <1>3, <1>6 DEF Ends
  <2>6. QueueAgrees(c)'
    BY <1>1, <2>5, EndQueue DEF QueuesAgree
  <2>7. QueuesAgree' /\ OwnKept /\ EndsKept /\ queue' \in [Clients -> Seq(OpRec)]
    BY <1>1, <1>3, <1>5, <1>6, <2>4, <2>5, <2>6, ClientMoves
  <2>8. TypeOK'
    BY <1>1, <1>6, <2>3, <2>7 DEF TypeOK
  <2>9. ASSUME NEW b \in Attachments PROVE ReleaseAgrees(b)'
    BY <1>5, <2>2, <2>3, <2>4, <2>7, KeepRelease DEF ReleasesAgree, ReleaseAgrees
  <2>10. \A d \in Clients : byClient'[d] # 0 => byClient[d] \in Attachments /\ byClient[d] # a
    BY <1>3, <1>6 DEF Routes, RoutesAreLive
  <2>11. Routes' /\ RoutesAreLive'
    <3>1. \A b \in Attachments :
            /\ b # a => att'[b].member = att[b].member
            /\ att'[b].rel = att[b].rel /\ att'[b].lease = att[b].lease
      BY <2>2, <2>3
    <3>2. \A d \in Clients : byClient'[d] # 0 => att'[byClient[d]].member = att[byClient[d]].member
      BY <1>6, <2>10, <3>1
    <3>3. QED
      BY <1>1, <1>6, <2>4, <3>1, <3>2, KeepRoutes
  <2>12. QED
    BY <1>5, <2>4, <2>7, <2>8, <2>9, <2>11 DEF ReleasesAgree
<1>7. CASE /\ att' = Releasing(att, {a}, TRUE)
           /\ Goes(c, [Head(queue[c]) EXCEPT !.pc = "drop"]) /\ UNCHANGED <<byClient, shown>>
  <2>1. PICK op : op = [Head(queue[c]) EXCEPT !.pc = "drop"]
    OBVIOUS
  <2>2. op \in OpRec /\ op.kind = "attach" /\ op.session \in Sessions /\ op.pc = "drop" /\ op.att = a
    BY <1>1, <1>2, <1>3, <2>1 DEF OpRec
  <2>3. Waits(c, op)
    BY <1>3, <2>2 DEF Waits
  <2>4. Goes(c, op) /\ att' = IF a = 0 THEN att ELSE Releasing(att, {a}, TRUE)
    BY <1>4, <1>7, <2>1
  <2>5. QED
    BY <1>1, <1>3, <1>4, <1>7, <2>2, <2>3, <2>4, GoStep
<1>8. CASE /\ att[a].lease # "failed" /\ MayInstall(c, a)
           /\ byClient' = [byClient EXCEPT ![c] = a]
           /\ shown' = IF c \in gone THEN shown ELSE [shown EXCEPT ![c] = a]
           /\ Ends(c) /\ UNCHANGED att
  <2>1. /\ byClient' \in [Clients -> Nat] /\ shown' \in [Clients -> Nat] /\ byClient'[c] = a
        /\ \A d \in Clients \ {c} : byClient'[d] = byClient[d]
        /\ \A d \in Clients : shown'[d] \in {shown[d], a}
    BY <1>4, <1>8 DEF TypeOK
  <2>2. AttachmentsGrow
    BY <1>8 DEF AttachmentsGrow, Attachments
  <2>3. queue' = [queue EXCEPT ![c] = Tail(queue[c])] /\ queue'[c] = Tail(queue[c])
    BY <1>3, <1>8 DEF Ends
  <2>4. QueueAgrees(c)'
    BY <1>1, <2>3, EndQueue DEF QueuesAgree
  <2>5. QueuesAgree' /\ OwnKept /\ EndsKept /\ queue' \in [Clients -> Seq(OpRec)]
    BY <1>1, <1>3, <1>5, <2>1, <2>2, <2>3, <2>4, ClientMoves
  <2>6. TypeOK'
    BY <1>1, <1>8, <2>1, <2>5 DEF TypeOK
  <2>7. ReleasesAgree'
    BY <1>5, <1>8, <2>5, KeepReleases
  <2>8. Routes'
    BY <1>3, <1>8, <2>1 DEF Routes, Attachments
  <2>9. /\ att[a].member /\ hosted[handle[att[a].handle].session] = att[a].handle
        /\ handle[att[a].handle].state \in Up
        /\ att[a].rel = "no" => att[a].lease = "held"
    <3>1. att[a].handle \in Handles /\ att[a].handle # 0 /\ handle[att[a].handle].session \in Sessions
      BY <1>4, HandleFacts DEF ReleaseAgrees
    <3>2. att[a].rel = "no" => att[a].lease = "held"
      BY <1>4, <1>8 DEF ReleaseAgrees, AttachmentRec
    <3>3. QED
      BY <1>8, <3>1, <3>2 DEF MayInstall, HandlesAgree
  <2>10. RoutesAreLive'
    BY <1>1, <1>3, <1>8, <2>1, <2>9 DEF RoutesAreLive, Up
  <2>11. QED
    BY <1>5, <2>5, <2>6, <2>7, <2>8, <2>10
<1>9. QED
  BY <1>2, <1>6, <1>7, <1>8 DEF attachInstall

\* The invariant across startServiceCall.
LEMMA startServiceCallStep ==
  ASSUME RouterInv, NEW c \in Clients, startServiceCall(c) PROVE RouterInv'
<1> USE DEF RouterInv
<1>1. /\ queue[c] # <<>> /\ Head(queue[c]).kind = "call" /\ Head(queue[c]).pc = "start" /\ Free(c)
      /\ Ends(c) /\ UNCHANGED <<handle, hosted, opening, byClient, shown, remover, closer>>
  BY DEF startServiceCall, Running, Free
<1>2. CASE UNCHANGED <<calls, att>>
  BY <1>1, <1>2, EndStep
<1>3. CASE /\ Routed(c) /\ calls' = calls + 1
           /\ att' = [att EXCEPT ![byClient[c]].ops =
                        @ \cup {[id |-> calls + 1, named |-> Head(queue[c]).att]}]
  <2>1. PICK a : a = byClient[c]
    OBVIOUS
  <2>2. a \in Attachments /\ att[a].client = c /\ att[a].member /\ a = Head(queue[c]).att
    BY <1>3, <2>1 DEF Routed, Routes, RoutesAreLive
  <2>3. PICK k \in Call : k = [id |-> calls + 1, named |-> Head(queue[c]).att] /\ k.named = a
    <3>1. calls + 1 \in Nat /\ a \in Nat
      BY <2>2, AttachmentFacts DEF TypeOK
    <3>2. [id |-> calls + 1, named |-> Head(queue[c]).att] \in Call
      BY <2>2, <3>1 DEF Call
    <3>3. QED
      BY <2>2, <3>2
  <2>4. PICK e : e = [att[a] EXCEPT !.ops = att[a].ops \cup {k}]
    OBVIOUS
  <2>5. /\ e \in AttachmentRec /\ e.client = att[a].client /\ e.handle = att[a].handle
        /\ e.ops = att[a].ops \cup {k} /\ e.waitFor = att[a].waitFor
        /\ e.member = att[a].member /\ e.rel = att[a].rel /\ e.lease = att[a].lease
    <3>1. att[a] \in AttachmentRec
      BY <2>2, AttachmentFacts
    <3>2. att[a].ops \cup {k} \in SUBSET Call
      BY <3>1 DEF AttachmentRec
    <3>3. QED
      BY <2>4, <3>1, <3>2 DEF AttachmentRec
  <2>6. /\ att' \in Seq(AttachmentRec) /\ Len(att') = Len(att)
        /\ \A b \in Attachments : att'[b] = IF b = a THEN e ELSE att[b]
    <3>1. att' = [att EXCEPT ![a] = e]
      BY <1>3, <2>1, <2>3, <2>4
    <3>2. QED
      BY <2>2, <2>5, <3>1, Replaced DEF TypeOK
  <2>7. HandlesAgree' /\ HandlesGrow
    BY <1>1, SameHandles
  <2>8. AttachmentsGrow /\ Attachments' = Attachments
    BY <2>5, <2>6 DEF AttachmentsGrow, Attachments
  <2>9. queue \in [Clients -> Seq(OpRec)] /\ Tail(queue[c]) \in Seq(OpRec)
    BY <1>1, QueueFacts DEF TypeOK
  <2>10. queue' = [queue EXCEPT ![c] = Tail(queue[c])] /\ queue'[c] = Tail(queue[c])
    BY <1>1, <2>9 DEF Ends
  <2>11. QueueAgrees(c)'
    BY <1>1, <2>10, EndQueue DEF QueuesAgree
  <2>12. QueuesAgree' /\ OwnKept /\ EndsKept /\ queue' \in [Clients -> Seq(OpRec)]
    BY <1>1, <2>7, <2>8, <2>9, <2>10, <2>11, ClientMoves
  <2>13. TypeOK'
    <3>1. calls' \in Nat
      BY <1>3 DEF TypeOK
    <3>2. QED
      BY <1>1, <2>6, <2>12, <3>1 DEF TypeOK
  <2>14. ASSUME NEW b \in Attachments PROVE ReleaseAgrees(b)'
    <3>1. CASE b # a
      BY <2>6, <2>7, <2>8, <2>12, <3>1, KeepRelease DEF ReleasesAgree, ReleaseAgrees
    <3>2. CASE b = a
      <4>1. ReleaseAgrees(a) /\ att[a].rel \in {"no", "ops", "clearing", "done"}
        BY <2>2, AttachmentFacts DEF ReleasesAgree, AttachmentRec
      <4>2. ~OwnRelease(a)
        BY <1>1, <2>2 DEF OwnRelease
      <4>3. att[a].rel = "no" \/ Ended(a)
        BY <2>2, <4>1, <4>2 DEF ReleaseAgrees
      <4>4. /\ att'[b].rel = att[a].rel /\ att'[b].ops = att[a].ops \cup {k}
            /\ att'[b].lease = att[a].lease /\ att'[b].waitFor = att[a].waitFor
            /\ att'[b].handle = att[a].handle /\ att'[b].member = att[a].member
        BY <2>5, <2>6, <3>2
      <4>5. Ended(a) => Ended(b)'
        BY <2>2, <2>12, <3>2 DEF EndsKept
      <4>6. \A j \in att'[b].ops : j.named = b
        BY <2>3, <3>2, <4>1, <4>4 DEF ReleaseAgrees
      <4>7. QED
        BY <2>7, <4>1, <4>3, <4>4, <4>5, <4>6 DEF ReleaseAgrees, HandlesGrow
    <3>3. QED
      BY <3>1, <3>2
  <2>15. Routes' /\ RoutesAreLive'
    <3>1. \A b \in Attachments :
            /\ att'[b].member = att[b].member /\ att'[b].lease = att[b].lease
            /\ att'[b].rel = att[b].rel
      BY <2>5, <2>6
    <3>2. QED
      BY <1>1, <2>8, <3>1, KeepRoutes DEF Routes
  <2>16. QED
    BY <2>7, <2>8, <2>12, <2>13, <2>14, <2>15 DEF ReleasesAgree
<1>4. QED
  BY <1>2, <1>3 DEF startServiceCall

-----------------------------------------------------------------------------
(* Handles: opens, removals, ends of workers and the shutdown. *)

\* A handle changes its state, and the two tables with it; att stays.
LEMMA HandleStep ==
  ASSUME RouterInv, TypeOK', HandlesGrow, HandlesAgree', EndsKept,
         UNCHANGED <<att, byClient, queue, shown>>,
         \A h \in Handles : handle[h].state \in Up /\ hosted[handle[h].session] = h =>
           handle'[h].state \in Up /\ hosted'[handle[h].session] = h
  PROVE  RouterInv'
<1> USE DEF RouterInv
<1>1. AttachmentsGrow
  BY DEF AttachmentsGrow, Attachments
<1>2. QueuesAgree' /\ OwnKept
  BY <1>1, KeepQueues, OwnStays
<1>3. ReleasesAgree'
  BY <1>2, KeepReleases
<1>4. Routes' /\ RoutesAreLive'
  <2>1. \A a \in Attachments :
          LET h == att[a].handle
          IN  handle[h].state \in Up /\ hosted[handle[h].session] = h =>
                /\ handle'[h].state \in Up /\ handle'[h].session = handle[h].session
                /\ hosted'[handle[h].session] = h
    BY DEF ReleasesAgree, ReleaseAgrees, HandlesGrow
  <2>2. QED
    BY <1>1, <2>1, KeepRoutes
<1>5. QED
  BY <1>2, <1>3, <1>4

\* The invariant across the answers of a worker that is being opened.
LEMMA WorkerStep ==
  ASSUME RouterInv, NEW h \in Handles, Worker(h) PROVE RouterInv'
<1> USE DEF RouterInv
<1>1. UNCHANGED <<att, byClient, queue, shown, calls, remover, closer>>
  BY DEF Worker, opened, refused, openFails
<1>2. PICK s \in Sessions : s = handle[h].session
  BY HandleFacts
<1>3. handle[h].state \in {"opening", "refused"} /\ opening[s] = h /\ hosted[s] = 0 /\ h # 0 /\ h \in Nat
  BY <1>2, HandleFacts DEF Worker, opened, refused, openFails, HandlesAgree
<1>4. PICK x \in {"refused", "open", "failed"} :
        /\ handle' = [handle EXCEPT ![h].state = x]
        /\ hosted' = [hosted EXCEPT ![s] = IF x = "open" THEN h ELSE hosted[s]]
        /\ opening' = [opening EXCEPT ![s] = IF x = "refused" THEN opening[s] ELSE 0]
  <2>1. hosted = [hosted EXCEPT ![s] = hosted[s]] /\ opening = [opening EXCEPT ![s] = opening[s]]
    BY DEF TypeOK
  <2>2. CASE refused(h) \/ openFails(h)
    BY <1>2, <2>1, <2>2 DEF refused, openFails
  <2>3. CASE opened(h) /\ isClosing
    BY <1>2, <2>1, <2>3 DEF opened
  <2>4. CASE opened(h) /\ ~isClosing
    BY <1>2, <2>1, <2>4 DEF opened
  <2>5. QED
    BY <2>2, <2>3, <2>4 DEF Worker
<1>5. /\ handle' \in Seq(HandleRec) /\ Len(handle') = Len(handle)
      /\ \A g \in Handles : /\ handle'[g].session = handle[g].session
                            /\ handle'[g].state = IF g = h THEN x ELSE handle[g].state
  <2>1. handle \in Seq(HandleRec) /\ x \in HandleStates /\ handle' = [handle EXCEPT ![h].state = x]
    BY <1>4 DEF TypeOK, HandleStates
  <2>2. QED
    BY <2>1, HandleReplaced
<1>6. /\ hosted' \in [Sessions -> Nat] /\ opening' \in [Sessions -> Nat]
      /\ hosted'[s] = IF x = "open" THEN h ELSE 0
      /\ opening'[s] = IF x = "refused" THEN h ELSE 0
      /\ \A t \in Sessions \ {s} : hosted'[t] = hosted[t] /\ opening'[t] = opening[t]
  BY <1>3, <1>4 DEF TypeOK
<1>7. HandlesGrow /\ Handles' = Handles
  BY <1>3, <1>5 DEF HandlesGrow, Handles, Hosts
<1>8. TypeOK'
  BY <1>1, <1>5, <1>6 DEF TypeOK
<1>9. HandlesAgree'
  <2>1. \A t \in Sessions : hosted'[t] # 0 =>
          /\ hosted'[t] \in Handles' /\ handle'[hosted'[t]].session = t
          /\ handle'[hosted'[t]].state \in Up
    BY <1>2, <1>3, <1>5, <1>6, <1>7 DEF HandlesAgree, Up
  <2>2. \A t \in Sessions : opening'[t] # 0 =>
          /\ opening'[t] \in Handles' /\ handle'[opening'[t]].session = t
          /\ handle'[opening'[t]].state \in {"opening", "refused"} /\ hosted'[t] = 0
    BY <1>2, <1>3, <1>5, <1>6, <1>7 DEF HandlesAgree
  <2>3. ASSUME NEW g \in Handles
        PROVE  /\ handle'[g].state \in Up => hosted'[handle'[g].session] = g
               /\ handle'[g].state \in {"opening", "refused"} => opening'[handle'[g].session] = g
    <3>1. CASE g = h
      BY <1>2, <1>5, <1>6, <3>1 DEF Up
    <3>2. CASE g # h
      BY SMTT(30), <1>3, <1>5, <1>6, <3>2, HandleFacts DEF HandlesAgree
    <3>3. QED
      BY <3>1, <3>2
  <2>4. remover.pc # "idle" => remover.handle # h
    BY <1>3 DEF HandlesAgree, Hosts
  <2>5. /\ remover'.pc # "idle" =>
             remover'.handle \in Handles' /\ handle'[remover'.handle].state \in Hosts
        /\ remover'.pc = "close" => handle'[remover'.handle].state # "open"
    BY <1>1, <1>5, <1>7, <2>4 DEF HandlesAgree, TypeOK
  <2>6. QED
    BY <1>7, <2>1, <2>2, <2>3, <2>5 DEF HandlesAgree
<1>10. AttachmentsGrow /\ EndsKept
  BY <1>1, <1>7, EndsStay DEF AttachmentsGrow, Attachments
<1>11. \A g \in Handles : handle[g].state \in Up /\ hosted[handle[g].session] = g =>
         handle'[g].state \in Up /\ hosted'[handle[g].session] = g
  BY <1>3, <1>5, <1>6, HandleFacts DEF Up
<1>12. QED
  BY <1>1, <1>7, <1>8, <1>9, <1>10, <1>11, HandleStep

\* The worker of a handle is told to stop: removeSession does so.
LEMMA removeCloseStep ==
  ASSUME RouterInv, removeClose PROVE RouterInv'
<1> USE DEF RouterInv
<1>1. /\ UNCHANGED <<hosted, opening, att, byClient, queue, shown, calls, closer>>
      /\ remover.pc = "release" /\ remover' = [remover EXCEPT !.pc = "close"]
  BY DEF removeClose
<1>2. PICK h \in Handles : h = remover.handle
  BY <1>1 DEF HandlesAgree
<1>3. handle[h].state \in Hosts /\ handle[h].state \in HandleStates
  BY <1>1, <1>2 DEF HandlesAgree, Hosts, HandleStates
<1>4. PICK x \in Hosts : x = IF handle[h].state = "open" THEN "closing" ELSE handle[h].state
  BY <1>3 DEF Hosts
<1>5. /\ handle' \in Seq(HandleRec) /\ Len(handle') = Len(handle)
      /\ \A g \in Handles : /\ handle'[g].session = handle[g].session
                            /\ handle'[g].state = IF g = h THEN x ELSE handle[g].state
  <2>1. handle' = [handle EXCEPT ![h].state = x]
    BY <1>2, <1>4 DEF removeClose, Closing
  <2>2. QED
    <3>1. handle \in Seq(HandleRec) /\ x \in HandleStates
      BY DEF TypeOK, Hosts, HandleStates
    <3>2. QED
      BY <2>1, <3>1, HandleReplaced
<1>6. HandlesGrow /\ Handles' = Handles
  BY <1>3, <1>4, <1>5 DEF HandlesGrow, Handles, Hosts
<1>7. remover' \in [pc : {"idle", "release", "close"}, handle : Nat, wait : SUBSET Nat] /\ remover'.handle = h
      /\ remover'.pc = "close"
  BY <1>1, <1>2 DEF TypeOK
<1>8. TypeOK'
  BY <1>1, <1>5, <1>7 DEF TypeOK
<1>9. \A g \in Handles : /\ handle'[g].state \in Up <=> handle[g].state \in Up
                         /\ handle'[g].state \in {"opening", "refused"} <=> handle[g].state \in {"opening", "refused"}
  BY <1>3, <1>4, <1>5 DEF Up, Hosts
<1>10. HandlesAgree'
  <2>1. handle'[h].state \in Hosts /\ handle'[h].state # "open"
    BY <1>4, <1>5
  <2>2. QED
    BY <1>1, <1>5, <1>6, <1>7, <1>9, <2>1 DEF HandlesAgree
<1>11. EndsKept
  BY <1>1, <1>2, <1>6, <1>7 DEF EndsKept, Ended, ReleasesAgree, ReleaseAgrees, HandlesGrow
<1>12. QED
  BY <1>1, <1>6, <1>8, <1>9, <1>10, <1>11, HandleStep

\* The invariant across removeEnd.
LEMMA removeEndStep ==
  ASSUME RouterInv, removeEnd PROVE RouterInv'
<1> USE DEF RouterInv
<1>1. /\ UNCHANGED <<handle, opening, att, byClient, queue, shown, calls, closer>>
      /\ remover.pc = "close" /\ handle[remover.handle].state = "closed" /\ remover' = Idle
  BY DEF removeEnd
<1>2. PICK h \in Handles : h = remover.handle
  BY <1>1 DEF HandlesAgree
<1>3. hosted[handle[h].session] # h
  BY <1>1, <1>2, HandleFacts DEF HandlesAgree, Up
<1>4. hosted' = hosted
  BY <1>2, <1>3 DEF removeEnd
<1>5. TypeOK'
  BY <1>1, <1>4 DEF TypeOK, Idle
<1>6. HandlesAgree' /\ HandlesGrow
  BY <1>1, <1>4 DEF HandlesAgree, HandlesGrow, Handles, Idle
<1>7. EndsKept
  BY <1>1, <1>2 DEF EndsKept, Ended
<1>8. QED
  BY <1>1, <1>4, <1>5, <1>6, <1>7, HandleStep

\* The invariant across closeHandles.
LEMMA closeHandlesStep ==
  ASSUME RouterInv, closeHandles PROVE RouterInv'
<1> USE DEF RouterInv
<1>1. /\ UNCHANGED <<hosted, opening, att, byClient, queue, shown, calls, remover>>
      /\ closer.pc = "release" /\ closer'.pc = "handles" /\ DOMAIN closer' = {"pc", "ops", "wait"}
  BY DEF closeHandles, TypeOK
<1>2. handle \in Seq(HandleRec) /\ Len(handle) \in Nat
  BY LenProperties DEF TypeOK
<1>3. PICK e : e = [h \in Handles |-> IF handle[h].state = "open"
                                      THEN [handle[h] EXCEPT !.state = "closing"] ELSE handle[h]]
  OBVIOUS
<1>4. ASSUME NEW h \in Handles
      PROVE  /\ e[h] \in HandleRec /\ e[h].session = handle[h].session
             /\ e[h].state = IF handle[h].state = "open" THEN "closing" ELSE handle[h].state
  BY <1>3, HandleFacts DEF HandleRec, HandleStates
<1>5. handle' = e
  <2>1. ASSUME NEW h \in Handles
        PROVE  /\ h \in {hosted[s] : s \in Sessions} \ {0} <=> handle[h].state \in Up
               /\ Closing(h)[h] = IF handle[h].state = "open"
                                  THEN [handle[h] EXCEPT !.state = "closing"] ELSE handle[h]
    <3>1. h \in {hosted[s] : s \in Sessions} \ {0} <=> handle[h].state \in Up
      BY HandleFacts DEF HandlesAgree
    <3>2. h \in DOMAIN handle /\ handle[h] \in HandleRec
      BY <1>2, HandleFacts DEF Handles
    <3>3. Closing(h)[h] = [handle[h] EXCEPT !.state = IF handle[h].state = "open" THEN "closing" ELSE handle[h].state]
      BY <3>2 DEF Closing
    <3>4. [handle[h] EXCEPT !.state = handle[h].state] = handle[h]
      BY <3>2 DEF HandleRec
    <3>5. QED
      BY <3>1, <3>3, <3>4
  <2>2. QED
    BY <1>3, <2>1 DEF closeHandles, Up
<1>6. handle' \in Seq(HandleRec) /\ Len(handle') = Len(handle) /\ Handles' = Handles
  <2>1. e \in [1..Len(handle) -> HandleRec]
    BY <1>3, <1>4 DEF Handles
  <2>2. handle' \in Seq(HandleRec) /\ Len(handle') = Len(handle)
    BY <1>2, <1>5, <2>1, SeqDef
  <2>3. QED
    BY <2>2 DEF Handles
<1>7. HandlesGrow
  BY <1>4, <1>5, <1>6 DEF HandlesGrow, Hosts
<1>8. TypeOK'
  BY <1>1, <1>6 DEF TypeOK
<1>9. \A g \in Handles : /\ handle'[g].state \in Up <=> handle[g].state \in Up
                         /\ handle'[g].state \in {"opening", "refused"} <=> handle[g].state \in {"opening", "refused"}
                         /\ handle'[g].session = handle[g].session /\ handle'[g].state # "open"
  BY <1>4, <1>5 DEF Up
<1>10. HandlesAgree'
  BY <1>1, <1>6, <1>7, <1>9 DEF HandlesAgree, HandlesGrow
<1>11. EndsKept
  <2>1. \A a \in Attachments : handle'[att[a].handle].state \in {"closing", "closed"}
    BY <1>7, <1>9 DEF ReleasesAgree, ReleaseAgrees, HandlesGrow, Hosts
  <2>2. QED
    BY <1>1, <2>1 DEF EndsKept, Ended
<1>12. QED
  BY <1>1, <1>7, <1>8, <1>9, <1>10, <1>11, HandleStep

\* The attachments in S are released because their worker ends.
LEMMA EndedStep ==
  ASSUME RouterInv, TypeOK', HandlesGrow, HandlesAgree', EndsKept, NEW S,
         UNCHANGED <<byClient, queue, shown>>, att' = Releasing(att, S, TRUE),
         \A a \in Attachments : a \in S => Ended(a)',
         \A a \in Attachments :
           LET h == att[a].handle
           IN  a \notin S /\ att[a].member /\ handle[h].state \in Up /\ hosted[handle[h].session] = h =>
                 handle'[h].state \in Up /\ hosted'[handle[h].session] = h
  PROVE  RouterInv'
<1> USE DEF RouterInv
<1>0. att \in Seq(AttachmentRec)
  BY DEF TypeOK
<1>1. /\ Len(att') = Len(att)
      /\ \A a \in Attachments :
           /\ att'[a].client = att[a].client /\ att'[a].handle = att[a].handle
           /\ att'[a].member = att[a].member /\ att'[a].lease = att[a].lease
           /\ att'[a].rel = "no" => a \notin S /\ att[a].rel = "no"
  BY <1>0, Releases
<1>2. AttachmentsGrow
  BY <1>1 DEF AttachmentsGrow, Attachments
<1>3. QueuesAgree' /\ OwnKept
  BY <1>2, KeepQueues, OwnStays
<1>4. ReleasesAgree'
  BY <1>3, BeginReleases
<1>5. Routes' /\ RoutesAreLive'
  <2>1. \A c \in Clients : byClient'[c] # 0 => att'[byClient[c]].member = att[byClient[c]].member
    BY <1>1 DEF Routes
  <2>2. ASSUME NEW a \in Attachments, att'[a].rel = "no"
        PROVE  LET h == att[a].handle
               IN  att[a].member /\ handle[h].state \in Up /\ hosted[handle[h].session] = h =>
                     /\ handle'[h].state \in Up /\ handle'[h].session = handle[h].session
                     /\ hosted'[handle[h].session] = h
    BY <1>1, <2>2 DEF ReleasesAgree, ReleaseAgrees, HandlesGrow
  <2>3. QED
    BY <1>1, <1>2, <2>1, <2>2, KeepRoutes
<1>6. QED
  BY <1>3, <1>4, <1>5

\* The invariant across terminate.
LEMMA terminateStep ==
  ASSUME RouterInv, NEW h \in Handles, terminate(h) PROVE RouterInv'
<1> USE DEF RouterInv
<1>1. /\ UNCHANGED <<opening, byClient, queue, shown, calls, remover, closer>>
      /\ handle[h].state \in Up /\ handle' = [handle EXCEPT ![h].state = "closed"]
  BY DEF terminate, Up
<1>2. PICK s \in Sessions : s = handle[h].session
  BY HandleFacts
<1>3. hosted[s] = h /\ h \in Nat /\ h # 0
  BY <1>1, <1>2, HandleFacts DEF HandlesAgree
<1>4. hosted' = [hosted EXCEPT ![s] = 0] /\ att' = Releasing(att, Members(h), TRUE)
  BY <1>2, <1>3 DEF terminate, Invalidated
<1>5. /\ handle' \in Seq(HandleRec) /\ Len(handle') = Len(handle)
      /\ \A g \in Handles : /\ handle'[g].session = handle[g].session
                            /\ handle'[g].state = IF g = h THEN "closed" ELSE handle[g].state
  <2>1. handle \in Seq(HandleRec) /\ "closed" \in HandleStates
    BY DEF TypeOK, HandleStates
  <2>2. QED
    BY <1>1, <2>1, HandleReplaced
<1>6. /\ hosted' \in [Sessions -> Nat] /\ hosted'[s] = 0
      /\ \A t \in Sessions \ {s} : hosted'[t] = hosted[t]
  BY <1>4 DEF TypeOK
<1>7. HandlesGrow /\ Handles' = Handles
  BY <1>1, <1>5 DEF HandlesGrow, Handles, Hosts, Up
<1>8. att' \in Seq(AttachmentRec)
  <2>1. att \in Seq(AttachmentRec)
    BY DEF TypeOK
  <2>2. QED
    BY <1>4, <2>1, Releases
<1>9. TypeOK'
  BY <1>1, <1>5, <1>6, <1>8 DEF TypeOK
<1>10. HandlesAgree'
  <2>1. \A t \in Sessions : hosted'[t] # 0 =>
          /\ hosted'[t] \in Handles' /\ handle'[hosted'[t]].session = t
          /\ handle'[hosted'[t]].state \in Up
    BY <1>2, <1>5, <1>6, <1>7 DEF HandlesAgree
  <2>2. \A t \in Sessions : opening'[t] # 0 =>
          /\ opening'[t] \in Handles' /\ handle'[opening'[t]].session = t
          /\ handle'[opening'[t]].state \in {"opening", "refused"} /\ hosted'[t] = 0
    BY <1>1, <1>5, <1>6, <1>7 DEF HandlesAgree, Up
  <2>3. ASSUME NEW g \in Handles
        PROVE  /\ handle'[g].state \in Up => hosted'[handle'[g].session] = g
               /\ handle'[g].state \in {"opening", "refused"} => opening'[handle'[g].session] = g
    <3>1. CASE g = h
      BY <1>5, <3>1 DEF Up
    <3>2. CASE g # h
      BY <1>1, <1>3, <1>5, <1>6, <3>2, HandleFacts DEF HandlesAgree
    <3>3. QED
      BY <3>1, <3>2
  <2>4. /\ remover'.pc # "idle" =>
             remover'.handle \in Handles' /\ handle'[remover'.handle].state \in Hosts
        /\ remover'.pc = "close" => handle'[remover'.handle].state # "open"
    BY <1>1, <1>5, <1>7 DEF HandlesAgree, TypeOK, Hosts
  <2>5. QED
    BY <1>7, <2>1, <2>2, <2>3, <2>4 DEF HandlesAgree
<1>11. AttachmentsGrow
  <2>1. att \in Seq(AttachmentRec)
    BY DEF TypeOK
  <2>2. QED
    BY <1>4, <2>1, Releases DEF AttachmentsGrow, Attachments
<1>12. EndsKept
  BY <1>1, <1>7, <1>11, EndsStay
<1>13. \A a \in Attachments : a \in Members(h) => Ended(a)'
  BY <1>5, <1>11 DEF Members, Ended, AttachmentsGrow
<1>14. \A a \in Attachments :
         LET g == att[a].handle
         IN  a \notin Members(h) /\ att[a].member /\ handle[g].state \in Up /\ hosted[handle[g].session] = g =>
               handle'[g].state \in Up /\ hosted'[handle[g].session] = g
  <2> SUFFICES ASSUME NEW a \in Attachments, a \notin Members(h), att[a].member,
                      handle[att[a].handle].state \in Up,
                      hosted[handle[att[a].handle].session] = att[a].handle
               PROVE  /\ handle'[att[a].handle].state \in Up
                      /\ hosted'[handle[att[a].handle].session] = att[a].handle
    OBVIOUS
  <2>1. att[a].handle \in Handles /\ att[a].handle # h
    BY DEF Members, ReleasesAgree, ReleaseAgrees
  <2>2. handle[att[a].handle].session \in Sessions \ {s}
    BY <1>3, <2>1, HandleFacts
  <2>3. QED
    BY <1>5, <1>6, <2>1, <2>2
<1>15. QED
  BY <1>1, <1>4, <1>7, <1>9, <1>10, <1>12, <1>13, <1>14, EndedStep

\* The invariant across removeSession.
LEMMA removeSessionStep ==
  ASSUME RouterInv, NEW s \in Sessions, removeSession(s) PROVE RouterInv'
<1> USE DEF RouterInv
<1>1. /\ UNCHANGED <<handle, hosted, opening, byClient, queue, shown, calls, closer>>
      /\ remover.pc = "idle" /\ hosted[s] # 0
      /\ remover' = [pc |-> "release", handle |-> hosted[s], wait |-> Members(hosted[s])]
      /\ att' = Releasing(att, Members(hosted[s]), TRUE)
  BY DEF removeSession
<1>2. att \in Seq(AttachmentRec) /\ att' \in Seq(AttachmentRec) /\ AttachmentsGrow
  <2>1. att \in Seq(AttachmentRec)
    BY DEF TypeOK
  <2>2. QED
    BY <1>1, <2>1, Releases DEF AttachmentsGrow, Attachments
<1>3. hosted[s] \in Handles /\ handle[hosted[s]].state \in Up /\ hosted[s] \in Nat
  BY <1>1 DEF HandlesAgree, TypeOK
<1>4. remover' \in [pc : {"idle", "release", "close"}, handle : Nat, wait : SUBSET Nat]
  <2>1. Members(hosted[s]) \in SUBSET Nat
    BY AttachmentFacts DEF Members
  <2>2. QED
    BY <1>1, <1>3, <2>1
<1>5. TypeOK'
  BY <1>1, <1>2, <1>4 DEF TypeOK
<1>6. HandlesAgree' /\ HandlesGrow
  BY <1>1, <1>3 DEF HandlesAgree, HandlesGrow, Handles, Up, Hosts
<1>7. EndsKept
  BY <1>1, <1>2 DEF EndsKept, Ended, AttachmentsGrow
<1>8. \A a \in Attachments : a \in Members(hosted[s]) => Ended(a)'
  BY <1>1, <1>2 DEF Ended, Members, AttachmentsGrow
<1>9. QED
  BY <1>1, <1>5, <1>6, <1>7, <1>8, EndedStep

\* The invariant across closeRelease.
LEMMA closeReleaseStep ==
  ASSUME RouterInv, closeRelease PROVE RouterInv'
<1> USE DEF RouterInv
<1>1. PICK S : att' = Releasing(att, S, TRUE)
  BY DEF closeRelease
<1>2. /\ UNCHANGED <<handle, hosted, opening, byClient, queue, shown, calls, remover>>
      /\ closer'.pc = "release" /\ DOMAIN closer' = {"pc", "ops", "wait"}
  BY DEF closeRelease, TypeOK
<1>3. att' \in Seq(AttachmentRec)
  <2>1. att \in Seq(AttachmentRec)
    BY DEF TypeOK
  <2>2. QED
    BY <1>1, <2>1, Releases
<1>4. TypeOK'
  BY <1>2, <1>3 DEF TypeOK
<1>5. HandlesAgree' /\ HandlesGrow
  BY <1>2, SameHandles
<1>6. EndsKept /\ \A a \in Attachments : a \in S => Ended(a)'
  BY <1>2 DEF EndsKept, Ended
<1>7. QED
  BY <1>1, <1>2, <1>4, <1>5, <1>6, EndedStep

\* The invariant across closeEnd.
LEMMA closeEndStep ==
  ASSUME RouterInv, closeEnd PROVE RouterInv'
<1> USE DEF RouterInv
<1>1. /\ UNCHANGED <<handle, hosted, opening, att, queue, shown, calls, remover>>
      /\ closer.pc = "handles" /\ closer'.pc = "closed" /\ DOMAIN closer' = {"pc", "ops", "wait"}
      /\ byClient' \in [Clients -> Nat] /\ \A c \in Clients : byClient'[c] = 0
  BY DEF closeEnd, TypeOK
<1>2. TypeOK'
  BY <1>1 DEF TypeOK
<1>3. HandlesAgree' /\ HandlesGrow /\ AttachmentsGrow
  BY <1>1, SameHandles DEF AttachmentsGrow, Attachments
<1>4. QueuesAgree' /\ OwnKept /\ EndsKept
  BY <1>1, <1>3, KeepQueues, OwnStays, EndsStay
<1>5. ReleasesAgree'
  BY <1>1, <1>3, <1>4, KeepReleases
<1>6. Routes' /\ RoutesAreLive'
  BY <1>1 DEF Routes, RoutesAreLive, Attachments
<1>7. QED
  BY <1>2, <1>3, <1>4, <1>5, <1>6

-----------------------------------------------------------------------------
(* The theorems. *)

\* The router starts with empty tables.
LEMMA RouterInit == Init => RouterInv
<1> SUFFICES ASSUME Init PROVE RouterInv
  OBVIOUS
<1>1. handle = <<>> /\ att = <<>> /\ Handles = {} /\ Attachments = {}
  BY DEF Init, Handles, Attachments
<1>2. /\ hosted \in [Sessions -> Nat] /\ opening \in [Sessions -> Nat]
      /\ byClient \in [Clients -> Nat] /\ shown \in [Clients -> Nat]
      /\ queue \in [Clients -> Seq(OpRec)] /\ calls \in Nat
  BY DEF Init
<1>3. TypeOK
  BY <1>1, <1>2 DEF Init, TypeOK, Idle
<1>4. HandlesAgree /\ QueuesAgree
  BY <1>1 DEF Init, HandlesAgree, QueuesAgree, QueueAgrees, Idle
<1>5. ReleasesAgree /\ Routes /\ RoutesAreLive
  BY <1>1 DEF Init, ReleasesAgree, Routes, RoutesAreLive
<1>6. QED
  BY <1>3, <1>4, <1>5 DEF RouterInv

\* Every step keeps the invariant.
LEMMA RouterNext == RouterInv /\ [Next]_vars => RouterInv'
<1> SUFFICES ASSUME RouterInv, [Next]_vars PROVE RouterInv'
  OBVIOUS
<1>1. ASSUME NEW c \in Clients, ask(c) \/ Client(c) \/ disconnect(c) PROVE RouterInv'
  BY <1>1, askStep, disconnectStep, attachBeginStep, attachAcquiredStep, attachLeaseStep,
     attachInstallStep, detachBeginStep, droppedStep, startServiceCallStep DEF Client
<1>2. ASSUME NEW a \in Attachments,
             Release(a) \/ Lease(a) \/ \E k \in att[a].ops : callSettles(a, k)
      PROVE  RouterInv'
  BY <1>2, releaseLeaseStep, clearAttachmentStep, LeaseStep, callSettlesStep DEF Release
<1>3. ASSUME NEW h \in Handles, Worker(h) \/ terminate(h) PROVE RouterInv'
  BY <1>3, WorkerStep, terminateStep
<1>4. ASSUME NEW s \in Sessions, removeSession(s) PROVE RouterInv'
  BY <1>4, removeSessionStep
<1>5. CASE Removal \/ Close
  BY <1>5, removeCloseStep, removeEndStep, closeRouterStep, closeReleaseStep, closeHandlesStep,
     closeEndStep DEF Removal, Close
<1>6. CASE close \/ rest \/ UNCHANGED vars
  BY <1>6, QuietStep DEF rest
<1>7. QED
  BY <1>1, <1>2, <1>3, <1>4, <1>5, <1>6 DEF Next

(* Whatever the clients ask, the workers do and the server is told, the
   tables of the router, the queues and the releases agree with one another
   (session-router.ts, every method of SessionRouter). *)
THEOREM RouterConsistent == Spec => []RouterInv
<1>1. Init => RouterInv
  BY RouterInit
<1>2. RouterInv /\ [Next]_vars => RouterInv'
  BY RouterNext
<1>3. QED
  BY <1>1, <1>2, PTL DEF Spec

(* A client's route leads to a live attachment of its own, for any number of
   clients and sessions and any interleaving of attaches, removals, deaths of
   workers and the shutdown (attachClientNow, invalidate, #clearAttachment). *)
THEOREM RoutedAlive == Spec => []RoutesAreLive
<1>1. RouterInv => RoutesAreLive
  BY DEF RouterInv
<1>2. QED
  BY <1>1, RouterConsistent, PTL

(* The lease of an attachment outlives every call admitted through it, except
   where its worker ends (releaseAttachment, startServiceCall). *)
THEOREM LeaseOutlivesCalls == Spec => []CallsKeepLease
<1>1. RouterInv => CallsKeepLease
  <2> SUFFICES ASSUME RouterInv, NEW a \in Attachments, att[a].ops # {}
               PROVE  /\ \A k \in att[a].ops : k.named = a
                      /\ att[a].lease = "released" => Ended(a)
    BY DEF CallsKeepLease, Ended
  <2>1. ReleaseAgrees(a) /\ att[a].rel \in {"no", "ops", "clearing", "done"}
    BY AttachmentFacts DEF RouterInv, ReleasesAgree, AttachmentRec
  <2>2. QED
    BY <2>1 DEF ReleaseAgrees
<1>2. QED
  BY <1>1, RouterConsistent, PTL

(* A session has one worker at a time that is being opened, runs or is being
   stopped (acquire, openSession, invalidate). *)
THEOREM WorkersAreSingle == Spec => []OneWorker
<1>1. RouterInv => OneWorker
  <2> SUFFICES ASSUME RouterInv, NEW s \in Sessions
               PROVE  Cardinality({h \in Handles : handle[h].session = s
                        /\ handle[h].state \in {"opening", "refused", "open", "closing"}}) <= 1
    BY DEF OneWorker
  <2> DEFINE H == {h \in Handles : handle[h].session = s
                     /\ handle[h].state \in {"opening", "refused", "open", "closing"}}
  <2>1. \A g, h \in H : g = h
    BY HandleFacts DEF RouterInv, HandlesAgree, Up
  <2>2. CASE H = {}
    BY <2>2, FS_EmptySet
  <2>3. CASE H # {}
    <3>1. PICK h : H = {h}
      BY <2>1, <2>3
    <3>2. Cardinality(H) = 1
      BY <3>1, FS_Singleton
    <3>3. QED
      BY <3>2
  <2>4. QED
    BY <2>2, <2>3
<1>2. QED
  BY <1>1, RouterConsistent, PTL

=============================================================================
