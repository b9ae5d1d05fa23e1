------------------------- MODULE FileMutationQueue -------------------------
(***************************************************************************)
(* The per-file queue of the built-in edit and write tools                 *)
(* (packages/agent/src/harness/tools/file-mutation-queue.ts; the coding    *)
(* agent keeps an identical copy) together with the two tools that run     *)
(* under it.  Calls register one after the other; registration resolves    *)
(* the queue key by asking the file system, and chains the call behind     *)
(* the last one registered with that key.                                  *)
(***************************************************************************)
EXTENDS Integers, Sequences, TLAPS, SequenceTheorems

CONSTANTS
  Null,
  MaxCalls,     \* bound: tool calls, numbered in the order they are made
  Paths,        \* absolute paths
  RealPath,     \* what symbolic links make of each path: its canonical path
  InitialFiles, \* canonical paths of the files that exist at the start
  MayAbort      \* whether contexts may be aborted

VARIABLES
  call,         \* per call: program counter, tool, path, queue key, call waited for, content read
  registration, \* calls whose registration is not finished, in request order
  queues,       \* MutationQueueState.queues: the call whose promise ends each key's chain
  file,         \* content per canonical path: the calls that made it, or Null
  made,         \* number of calls made so far
  serial        \* history: content if each mutation had been one atomic step

Calls == 1..MaxCalls

vars == <<call, registration, queues, file, made, serial>>

Idle == [pc |-> "idle", tool |-> Null, path |-> Null, key |-> Null, prev |-> Null, read |-> Null]

Init ==
  /\ call = [c \in Calls |-> Idle]
  /\ registration = <<>>
  /\ queues = [p \in Paths |-> Null]
  /\ file = [p \in Paths |-> IF p \in InitialFiles THEN <<>> ELSE Null]
  /\ made = 0
  /\ serial = file

Target(c) == RealPath[call[c].path]
Goto(c, pc) == call' = [call EXCEPT ![c].pc = pc]

\* withFileMutationQueue is called: the registration joins the chain of registrations.
withFileMutationQueue(c, tool, path) ==
  /\ c = made + 1 /\ made' = c
  /\ call' = [call EXCEPT ![c].pc = "register", ![c].tool = tool, ![c].path = path]
  /\ registration' = Append(registration, c)
  /\ UNCHANGED <<queues, file, serial>>

\* The canonical path of an existing file, the absolute path of a missing one.
getMutationQueueKey(path) ==
  IF file[RealPath[path]] # Null THEN RealPath[path] ELSE path

Registering(c) == registration # <<>> /\ Head(registration) = c

ResolveKey(c) ==
  /\ Registering(c) /\ call[c].pc = "register"
  /\ call' = [call EXCEPT ![c].pc = "enter", ![c].key = getMutationQueueKey(call[c].path)]
  /\ UNCHANGED <<registration, queues, file, made, serial>>

\* The file system refused (aborted, permission denied): the call rejects, the
\* chain of registrations goes on.
FailRegistration(c) ==
  /\ MayAbort
  /\ Registering(c) /\ call[c].pc = "register"
  /\ Goto(c, "done")
  /\ registration' = Tail(registration)
  /\ UNCHANGED <<queues, file, made, serial>>

\* Chain behind whoever is last now, after the await of the key.
EnterQueue(c) ==
  LET key == call[c].key
  IN /\ Registering(c) /\ call[c].pc = "enter"
     /\ call' = [call EXCEPT ![c].pc = "wait", ![c].prev = queues[key]]
     /\ queues' = [queues EXCEPT ![key] = c]
     /\ registration' = Tail(registration)
     /\ UNCHANGED <<file, made, serial>>

\* The chained promise of a call resolves when the call released it.
Released(c) == c # Null => call[c].pc = "done"

Begin(c) ==
  /\ call[c].pc = "wait" /\ Released(call[c].prev)
  /\ Goto(c, IF call[c].tool = "edit" THEN "read" ELSE "write")
  /\ UNCHANGED <<registration, queues, file, made, serial>>

\* fileInfo and readTextFile of the edit tool; a missing file is an error.
Read(c) ==
  /\ call[c].pc = "read"
  /\ IF file[Target(c)] = Null THEN Goto(c, "release")
     ELSE call' = [call EXCEPT ![c].pc = "write", ![c].read = file[Target(c)]]
  /\ UNCHANGED <<registration, queues, file, made, serial>>

\* writeFile: the edit tool writes the content it read with its replacements.
Write(c) ==
  LET f == Target(c)
      edited(content) == IF call[c].tool = "edit" THEN Append(content, c) ELSE <<c>>
  IN /\ call[c].pc = "write"
     /\ file' = [file EXCEPT ![f] = edited(call[c].read)]
     /\ serial' = [serial EXCEPT ![f] = edited(@)]
     /\ Goto(c, "release")
     /\ UNCHANGED <<registration, queues, made>>

\* The context is aborted: the tool throws at its next test of the signal.
AbortTool(c) ==
  /\ MayAbort
  /\ call[c].pc \in {"read", "write"}
  /\ Goto(c, "release")
  /\ UNCHANGED <<registration, queues, file, made, serial>>

\* finally: release the next call, drop the key if nobody chained behind.
Finish(c) ==
  /\ call[c].pc = "release"
  /\ Goto(c, "done")
  /\ queues' = [queues EXCEPT ![call[c].key] = IF @ = c THEN Null ELSE @]
  /\ UNCHANGED <<registration, file, made, serial>>

Step(c) ==
  ResolveKey(c) \/ EnterQueue(c) \/ Begin(c) \/ Read(c) \/ Write(c) \/ Finish(c)

Next ==
  \E c \in Calls :
    \/ \E tool \in {"edit", "write"}, path \in Paths : withFileMutationQueue(c, tool, path)
    \/ Step(c) \/ FailRegistration(c) \/ AbortTool(c)

Spec == Init /\ [][Next]_vars

\* Promises settle: key resolution, file access and the release all happen.
FairSpec == Spec /\ \A c \in Calls : WF_vars(Step(c))

-----------------------------------------------------------------------------
\* No edit is lost and none overtakes an earlier request (tools run in parallel by
\* default): every file holds what its mutations would have left had each been
\* atomic, and in the order they were requested.
MutationsSerializable ==
  /\ file = serial
  /\ \A p \in Paths : file[p] # Null =>
       \A i, j \in DOMAIN file[p] : i < j => file[p][i] < file[p][j]

\* The map holds a key exactly while a registered call of that key has not
\* finished: nothing leaks, and no newcomer misses a call it must wait for.
QueueKeysExact ==
  \A p \in Paths :
    (queues[p] # Null) <=> (\E c \in Calls : call[c].key = p /\ call[c].pc \in {"wait", "read", "write", "release"})

Asked(c) == call[c].pc = "register"
Ended(c) == call[c].pc = "done"

\* Every call ends, whatever fails or is aborted before it in its queue or in
\* the chain of registrations.
CallsEnd == \A c \in Calls : Asked(c) ~> Ended(c)

-----------------------------------------------------------------------------
(* Proofs, for any number of calls and files, that mutations are           *)
(* serializable and queue keys exact.                                      *)
(*                                                                         *)
(* A key identifies a file as long as no link leads to a file that does    *)
(* not exist yet (KeysAreFiles); through such a link the code uses two     *)
(* keys for one file.  ChainsAgree is what a call knows of those before    *)
(* it: a waiting call is behind the last of them, and a call past its wait *)
(* has none left.  So at most one call of a key is past its wait, which is *)
(* why an edit writes what it read (ContentsAgree), and keys are entered   *)
(* in the order of requests (RegistrationsAgree).                          *)

KeysAreFiles ==
  /\ Null \notin Paths \cup Calls \cup Seq(Calls) /\ MaxCalls \in Nat
  /\ RealPath \in [Paths -> Paths]
  /\ \A p \in Paths : RealPath[p] \in InitialFiles \/ RealPath[p] = p

Active == {"wait", "read", "write", "release"}
PastWait == {"read", "write", "release", "done"}

CallRec ==
  [pc : {"idle", "register", "enter", "done"} \cup Active, tool : {"edit", "write", Null},
   path : Paths \cup {Null}, key : Paths \cup {Null}, prev : Calls \cup {Null},
   read : Seq(Calls) \cup {Null}]

\* Shapes; a call has a number once it is made and a key, the file's, once it is resolved.
Shape ==
  /\ call \in [Calls -> CallRec]
  /\ registration \in Seq(Calls)
  /\ queues \in [Paths -> Calls \cup {Null}]
  /\ file \in [Paths -> Seq(Calls) \cup {Null}] /\ serial = file
  /\ made \in Nat
  /\ \A p \in Paths : p \in InitialFiles => file[p] # Null
  /\ \A c \in Calls :
       /\ call[c].pc = "idle" <=> c > made
       /\ call[c].pc # "idle" => call[c].path \in Paths
       /\ call[c].pc \in {"idle", "register"} => call[c].key = Null
       /\ call[c].pc \in {"enter"} \cup Active => call[c].key # Null
       /\ call[c].key # Null => call[c].key = Target(c)

\* Registrations are served in the order of requests.
RegistrationsAgree ==
  /\ \A i, j \in DOMAIN registration : i < j => registration[i] < registration[j]
  /\ \A i \in DOMAIN registration : call[registration[i]].pc \in {"register", "enter"}
  /\ \A i \in DOMAIN registration : \A d \in Calls :
       call[d].pc \in Active \cup {"done"} => d < registration[i]

\* An earlier call of the same key that has not finished.
Before(d, c) == d < c /\ call[d].key = call[c].key /\ call[d].pc \in Active

\* The map names an unfinished call of the key, the last one.
QueuesName == \A p \in Paths : queues[p] # Null => call[queues[p]].pc \in Active /\ call[queues[p]].key = p
QueuesCover ==
  \A c \in Calls : call[c].pc \in Active => queues[call[c].key] # Null /\ c <= queues[call[c].key]

\* A waiting call is behind the last unfinished call before it.
BehindLast(c) ==
  \/ call[c].prev = Null /\ \A d \in Calls : ~Before(d, c)
  \/ /\ call[c].prev \in Calls /\ call[c].prev < c /\ call[call[c].prev].key = call[c].key
     /\ call[call[c].prev].pc \in Active \cup {"done"}
     /\ \A d \in Calls : Before(d, c) => d <= call[c].prev
WaitersBehind == \A c \in Calls : call[c].pc = "wait" => BehindLast(c)

\* A call past its wait has no unfinished call before it.
NoneLeft ==
  \A c \in Calls : call[c].pc \in PastWait /\ call[c].key # Null => \A d \in Calls : ~Before(d, c)

ChainsAgree == QueuesName /\ QueuesCover /\ WaitersBehind /\ NoneLeft

\* Files hold calls that have written, in order.
FilesHold ==
  \A p \in Paths : file[p] # Null =>
    /\ \A i \in DOMAIN file[p] : call[file[p][i]].pc \in {"release", "done"} /\ call[file[p][i]].key = p
    /\ \A i, j \in DOMAIN file[p] : i < j => file[p][i] < file[p][j]

\* An edit that is to write has read what is there.
ReadIsCurrent ==
  \A c \in Calls : call[c].pc = "write" /\ call[c].tool = "edit" =>
    call[c].read = file[Target(c)] /\ call[c].read # Null

ContentsAgree == FilesHold /\ ReadIsCurrent

QueueInv == Shape /\ RegistrationsAgree /\ ChainsAgree /\ ContentsAgree

\* No call is made yet.
LEMMA InitQueueInv ==
  ASSUME KeysAreFiles, Init
  PROVE  QueueInv
<1>1. \A c \in Calls : call[c] = Idle /\ Idle \in CallRec /\ Idle.pc = "idle" /\ Idle.key = Null /\ c > 0
  BY DEF Init, Idle, CallRec, Calls
<1>2. <<>> \in Seq(Calls) /\ DOMAIN <<>> = {}
  BY DEF Calls
<1>3. file \in [Paths -> Seq(Calls) \cup {Null}] /\ \A p \in Paths : file[p] = IF p \in InitialFiles THEN <<>> ELSE Null
  BY <1>2 DEF Init
<1>4. Shape
  BY <1>1, <1>2, <1>3 DEF Shape, Init, KeysAreFiles, Active
<1>5. RegistrationsAgree
  BY <1>2 DEF RegistrationsAgree, Init
<1>6. ChainsAgree
  BY <1>1 DEF ChainsAgree, QueuesName, QueuesCover, WaitersBehind, NoneLeft, Init, Active, PastWait
<1>7. ContentsAgree
  BY <1>1, <1>2, <1>3 DEF ContentsAgree, FilesHold, ReadIsCurrent
<1>8. QED
  BY <1>4, <1>5, <1>6, <1>7 DEF QueueInv

\* The step of one call: what it may change of its record.
Turn(c, pc) ==
  /\ \A d \in Calls \ {c} : call'[d] = call[d]
  /\ call'[c].pc = pc /\ call'[c].tool = call[c].tool /\ call'[c].path = call[c].path

\* The head of the registrations leaves them.
LEMMA HeadLeaves ==
  ASSUME KeysAreFiles, Shape, RegistrationsAgree, NEW c \in Calls, Registering(c), registration' = Tail(registration),
         NEW pc, pc \notin {"idle", "register", "enter"}, Turn(c, pc)
  PROVE  registration' \in Seq(Calls) /\ RegistrationsAgree'
<1>1. /\ registration \in Seq(Calls) /\ registration # <<>> /\ registration[1] = c
  BY DEF Registering, Shape
<1>2. /\ registration' \in Seq(Calls) /\ 1 \in DOMAIN registration
      /\ \A i \in DOMAIN registration' : i + 1 \in DOMAIN registration /\ registration'[i] = registration[i + 1] /\ i \in Nat /\ i >= 1
  BY <1>1, HeadTailProperties, LenProperties
<1>3. \A i \in DOMAIN registration' : c < registration'[i] /\ registration'[i] \in Calls /\ registration'[i] # c
  <2>1. \A i \in DOMAIN registration' : registration'[i] \in Calls
    BY <1>2, ElementOfSeq, LenProperties
  <2>2. \A i \in DOMAIN registration' : c < registration'[i]
    BY <1>1, <1>2 DEF RegistrationsAgree
  <2>3. QED
    BY <2>1, <2>2 DEF Calls, KeysAreFiles
<1>4. \A i \in DOMAIN registration' : call'[registration'[i]] = call[registration'[i]]
  BY <1>3 DEF Turn
<1>5. \A i, j \in DOMAIN registration' : i < j => registration'[i] < registration'[j]
  BY <1>2 DEF RegistrationsAgree
<1>6. \A i \in DOMAIN registration' : call'[registration'[i]].pc \in {"register", "enter"}
  BY <1>2, <1>4 DEF RegistrationsAgree
<1>7. \A i \in DOMAIN registration' : \A d \in Calls : call'[d].pc \in Active \cup {"done"} => d < registration'[i]
  BY <1>2, <1>3 DEF RegistrationsAgree, Turn
<1>8. QED
  BY <1>2, <1>5, <1>6, <1>7 DEF RegistrationsAgree

\* Registrations stay as they are when a call that is not registering moves on.
LEMMA RegistrationsStay ==
  ASSUME KeysAreFiles, Shape, RegistrationsAgree, NEW c \in Calls, call[c].pc \in Active \cup {"done"}, UNCHANGED registration,
         NEW pc, Turn(c, pc)
  PROVE  RegistrationsAgree'
<1>1. \A i \in DOMAIN registration : registration[i] \in Calls /\ registration[i] # c
  <2>1. \A i \in DOMAIN registration : registration[i] \in Calls
    BY ElementOfSeq, LenProperties DEF Shape
  <2>2. QED
    BY <2>1 DEF RegistrationsAgree, Active
<1>2. QED
  BY <1>1 DEF RegistrationsAgree, Turn

\* A call stays behind the last unfinished call before it.
LEMMA BehindStays ==
  ASSUME NEW d \in Calls, BehindLast(d), call'[d] = call[d], \A e \in Calls : Before(e, d)' => Before(e, d),
         \A e \in Calls : call[e].pc \in Active \cup {"done"} =>
           call'[e].key = call[e].key /\ call'[e].pc \in Active \cup {"done"}
  PROVE  BehindLast(d)'
<1>1. CASE call[d].prev = Null /\ \A e \in Calls : ~Before(e, d)
  BY <1>1 DEF BehindLast
<1>2. CASE ~(call[d].prev = Null /\ \A e \in Calls : ~Before(e, d))
  <2>1. PICK e \in Calls : e = call[d].prev
    BY <1>2 DEF BehindLast
  <2>2. /\ e < d /\ call[e].key = call[d].key /\ call[e].pc \in Active \cup {"done"}
        /\ \A x \in Calls : Before(x, d) => x <= e
    BY <1>2, <2>1 DEF BehindLast
  <2>3. call'[e].key = call[e].key /\ call'[e].pc \in Active \cup {"done"}
    BY <2>2
  <2>4. QED
    BY <2>1, <2>2, <2>3 DEF BehindLast
<1>3. QED
  BY <1>1, <1>2

\* A call moves without touching the chains: it is in none of them before and after, or
\* it is unfinished before and after, with no unfinished call before it.
LEMMA ChainsStay ==
  ASSUME KeysAreFiles, Shape, ChainsAgree, NEW c \in Calls, NEW pc, Turn(c, pc), UNCHANGED queues,
         \/ call[c].pc \notin Active \cup {"done"} /\ pc \notin Active /\ (pc = "done" => call'[c].key = Null)
         \/ /\ call[c].pc \in Active /\ pc \in Active /\ pc # "wait" /\ call'[c].key = call[c].key
            /\ \A d \in Calls : ~Before(d, c)
  PROVE  ChainsAgree'
<1>1. \A d, e \in Calls : e # c /\ Before(d, e)' => Before(d, e)
  BY DEF Turn, Before, Active
<1>2. \A d \in Calls : pc \in Active => ~Before(d, c)'
  BY DEF Turn, Before, Active
<1>3. QueuesName' /\ QueuesCover'
  BY DEF ChainsAgree, QueuesName, QueuesCover, Turn, Active, Shape
<1>4. WaitersBehind'
  <2> SUFFICES ASSUME NEW d \in Calls, call'[d].pc = "wait" PROVE BehindLast(d)'
    BY DEF WaitersBehind
  <2>1. d # c /\ call'[d] = call[d] /\ BehindLast(d)
    BY DEF ChainsAgree, WaitersBehind, Turn, Active
  <2>2. \A e \in Calls : call[e].pc \in Active \cup {"done"} =>
          call'[e].key = call[e].key /\ call'[e].pc \in Active \cup {"done"}
    BY DEF Turn, Active
  <2>3. QED
    BY <1>1, <2>1, <2>2, BehindStays
<1>5. NoneLeft'
  BY <1>1, <1>2 DEF ChainsAgree, NoneLeft, Turn, PastWait, Active
<1>6. QED
  BY <1>3, <1>4, <1>5 DEF ChainsAgree

\* What a moved call's record must be.
LEMMA ShapeStays ==
  ASSUME KeysAreFiles, Shape, NEW c \in Calls, call[c].pc # "idle", NEW r \in CallRec,
         call' = [call EXCEPT ![c] = r], r.pc # "idle", r.path = call[c].path,
         r.pc = "register" => r.key = Null, r.pc \in {"enter"} \cup Active => r.key # Null,
         r.key # Null => r.key = Target(c), registration' \in Seq(Calls), UNCHANGED made,
         queues' \in [Paths -> Calls \cup {Null}], file' \in [Paths -> Seq(Calls) \cup {Null}],
         serial' = file', \A p \in Paths : file[p] # Null => file'[p] # Null
  PROVE  Shape'
<1>1. call' \in [Calls -> CallRec] /\ call'[c] = r /\ \A d \in Calls \ {c} : call'[d] = call[d]
  BY DEF Shape
<1>2. \A d \in Calls : d # c => Target(d)' = Target(d)
  BY <1>1 DEF Target
<1>3. Target(c)' = Target(c)
  BY <1>1 DEF Target
<1>4. QED
  BY <1>1, <1>2, <1>3 DEF Shape

\* A call moves and no file changes.
LEMMA ContentsStay ==
  ASSUME KeysAreFiles, Shape, ContentsAgree, NEW c \in Calls, NEW pc, Turn(c, pc), UNCHANGED file,
         call[c].pc \in {"release", "done"} => pc \in {"release", "done"} /\ call'[c].key = call[c].key,
         pc = "write" /\ call[c].tool = "edit" => call'[c].read = file[Target(c)] /\ call'[c].read # Null
  PROVE  ContentsAgree'
<1>1. \A d \in Calls : Target(d)' = Target(d)
  BY DEF Turn, Target
<1>2. \A p \in Paths : file[p] # Null => \A i \in DOMAIN file[p] : file[p][i] \in Calls
  BY ElementOfSeq, LenProperties DEF Shape
<1>3. FilesHold'
  BY <1>2 DEF ContentsAgree, FilesHold, Turn
<1>4. ReadIsCurrent'
  BY <1>1 DEF ContentsAgree, ReadIsCurrent, Turn
<1>5. QED
  BY <1>3, <1>4 DEF ContentsAgree

\* A new call joins the chain of registrations.
LEMMA MakeKeeps ==
  ASSUME KeysAreFiles, QueueInv, NEW c \in Calls, NEW tool \in {"edit", "write"}, NEW path \in Paths,
         withFileMutationQueue(c, tool, path)
  PROVE  QueueInv'
<1>1. /\ Shape /\ RegistrationsAgree /\ ChainsAgree /\ ContentsAgree
      /\ c = made + 1 /\ made' = c /\ made \in Nat /\ call[c].pc = "idle" /\ call[c].key = Null
  BY DEF QueueInv, withFileMutationQueue, Shape, KeysAreFiles, Calls
<1>2. /\ call \in [Calls -> CallRec]
      /\ call' = [call EXCEPT ![c].pc = "register", ![c].tool = tool, ![c].path = path]
  BY <1>1 DEF withFileMutationQueue, Shape
<1>3. UNCHANGED <<queues, file, serial>> /\ registration' = Append(registration, c)
  BY DEF withFileMutationQueue
<1>4. /\ call' \in [Calls -> CallRec] /\ \A d \in Calls \ {c} : call'[d] = call[d]
      /\ call'[c].pc = "register" /\ call'[c].key = Null /\ call'[c].path = path
  BY <1>1, <1>2 DEF CallRec
<1>5. registration' \in Seq(Calls) /\ Len(registration') = Len(registration) + 1 /\ Len(registration) \in Nat
      /\ registration'[Len(registration) + 1] = c /\ \A i \in 1..Len(registration) : registration'[i] = registration[i]
      /\ DOMAIN registration = 1..Len(registration) /\ DOMAIN registration' = 1..(Len(registration) + 1)
  BY <1>1, <1>3, AppendProperties, LenProperties DEF Shape
<1>6. Shape'
  <2>1. \A d \in Calls \ {c} : Target(d)' = Target(d)
    BY <1>4 DEF Target
  <2>2. \A d \in Calls : d > made /\ d # c <=> d > c
    BY <1>1 DEF Calls, KeysAreFiles
  <2>3. QED
    BY <1>1, <1>3, <1>4, <1>5, <2>1, <2>2 DEF Shape, Active
<1>7. RegistrationsAgree'
  <2>1. \A i \in 1..Len(registration) : registration[i] \in Calls /\ registration[i] < c /\ registration[i] # c
    <3>1. \A i \in 1..Len(registration) : registration[i] \in Calls
      BY <1>1, ElementOfSeq DEF Shape
    <3>2. \A i \in 1..Len(registration) : call[registration[i]].pc # "idle"
      BY <1>5, <1>1 DEF RegistrationsAgree
    <3>3. QED
      BY <1>1, <3>1, <3>2 DEF Shape, Calls, KeysAreFiles
  <2>2. \A d \in Calls : call'[d].pc \in Active \cup {"done"} => d # c /\ d < c
    BY <1>1, <1>4 DEF Shape, Calls, KeysAreFiles, Active
  <2>3. QED
    BY <1>1, <1>4, <1>5, <2>1, <2>2 DEF RegistrationsAgree
<1>8. ChainsAgree'
  <2>1. \A d, e \in Calls : d # c /\ e # c => Before(d, e)' = Before(d, e)
    BY <1>4 DEF Before
  <2>2. \A e \in Calls : ~Before(c, e)'
    BY <1>4 DEF Before, Active
  <2>3. \A d \in Calls : call'[d].pc \in Active \cup PastWait => d # c /\ call'[d] = call[d]
    BY <1>4 DEF Active, PastWait
  <2>4. QueuesName' /\ QueuesCover'
    <3>1. \A d \in Calls : call[d].pc \in Active => call'[d] = call[d]
      BY <1>1, <1>4 DEF Active
    <3>2. \A q \in Paths : queues[q] # Null => queues[q] \in Calls
      BY <1>1 DEF Shape
    <3>3. QueuesName'
      BY <1>1, <1>3, <3>1, <3>2 DEF ChainsAgree, QueuesName
    <3>4. QueuesCover'
      BY <1>1, <1>3, <2>3 DEF ChainsAgree, QueuesCover
    <3>5. QED
      BY <3>3, <3>4
  <2>5. WaitersBehind'
    <3> SUFFICES ASSUME NEW d \in Calls, call'[d].pc = "wait" PROVE BehindLast(d)'
      BY DEF WaitersBehind
    <3>1. d # c /\ call'[d] = call[d] /\ BehindLast(d)
      BY <1>1, <2>3 DEF ChainsAgree, WaitersBehind, Active
    <3>2. \A e \in Calls : call[e].pc \in Active \cup {"done"} => call'[e] = call[e]
      BY <1>1, <1>4 DEF Active
    <3>3. \A e \in Calls : Before(e, d)' => Before(e, d)
      BY <2>1, <2>2, <3>1
    <3>4. QED
      BY <3>1, <3>2, <3>3, BehindStays
  <2>6. NoneLeft'
    BY <1>1, <2>1, <2>2, <2>3 DEF ChainsAgree, NoneLeft
  <2>7. QED
    BY <2>4, <2>5, <2>6 DEF ChainsAgree
<1>9. ContentsAgree'
  <2>1. \A d \in Calls \ {c} : Target(d)' = Target(d)
    BY <1>4 DEF Target
  <2>2. \A p \in Paths : file[p] # Null => \A i \in DOMAIN file[p] : file[p][i] \in Calls
    BY <1>1, ElementOfSeq, LenProperties DEF Shape
  <2>3. FilesHold'
    <3>1. \A d \in Calls : call[d].pc \in {"release", "done"} => call'[d] = call[d]
      BY <1>1, <1>4
    <3>2. file' = file /\ FilesHold
      BY <1>1, <1>3 DEF ContentsAgree
    <3>3. QED
      BY <2>2, <3>1, <3>2 DEF FilesHold
  <2>4. ReadIsCurrent'
    BY <1>1, <1>3, <1>4, <2>1 DEF ContentsAgree, ReadIsCurrent
  <2>5. QED
    BY <2>3, <2>4 DEF ContentsAgree
<1>10. QED
  BY <1>6, <1>7, <1>8, <1>9 DEF QueueInv

\* The key of the next registration is resolved: it is the file's.
LEMMA ResolveKeeps ==
  ASSUME KeysAreFiles, QueueInv, NEW c \in Calls, ResolveKey(c)
  PROVE  QueueInv'
<1> DEFINE k == getMutationQueueKey(call[c].path)
           r == [call[c] EXCEPT !.pc = "enter", !.key = k]
<1>1. /\ Shape /\ RegistrationsAgree /\ ChainsAgree /\ ContentsAgree
      /\ call[c].pc = "register" /\ call[c] \in CallRec /\ call[c].path \in Paths
      /\ UNCHANGED <<registration, queues, file, made, serial>>
  BY DEF QueueInv, ResolveKey, Shape
<1>2. k = Target(c) /\ k \in Paths /\ k # Null
  BY <1>1 DEF getMutationQueueKey, Target, Shape, KeysAreFiles
<1>3. call' = [call EXCEPT ![c] = r] /\ r \in CallRec /\ r.pc = "enter" /\ r.key = k /\ r.path = call[c].path /\ r.tool = call[c].tool
  BY <1>1, <1>2 DEF ResolveKey, Shape, CallRec
<1> HIDE DEF k, r
<1>4. Turn(c, "enter") /\ call'[c] = r
  BY <1>1, <1>3 DEF Turn, Shape
<1>5. Shape'
  BY <1>1, <1>2, <1>3, ShapeStays DEF Shape, Active
<1>6. RegistrationsAgree'
  BY <1>1, <1>4 DEF RegistrationsAgree, Turn, Shape, Active
<1>7. ChainsAgree'
  BY <1>1, <1>4, ChainsStay DEF Active
<1>8. ContentsAgree'
  BY <1>1, <1>4, ContentsStay
<1>9. QED
  BY <1>5, <1>6, <1>7, <1>8 DEF QueueInv

\* A registration that fails leaves the chain of registrations to the next one.
LEMMA FailKeeps ==
  ASSUME KeysAreFiles, QueueInv, NEW c \in Calls, FailRegistration(c)
  PROVE  QueueInv'
<1> DEFINE r == [call[c] EXCEPT !.pc = "done"]
<1>1. /\ Shape /\ RegistrationsAgree /\ ChainsAgree /\ ContentsAgree
      /\ call[c].pc = "register" /\ call[c] \in CallRec /\ call[c].path \in Paths /\ call[c].key = Null
      /\ UNCHANGED <<queues, file, made, serial>> /\ registration' = Tail(registration) /\ Registering(c)
  BY DEF QueueInv, FailRegistration, Shape
<1>2. call' = [call EXCEPT ![c] = r] /\ r \in CallRec /\ r.pc = "done" /\ r.key = Null /\ r.path = call[c].path /\ r.tool = call[c].tool
  BY <1>1 DEF FailRegistration, Goto, Shape, CallRec
<1> HIDE DEF r
<1>3. Turn(c, "done") /\ call'[c] = r
  BY <1>1, <1>2 DEF Turn, Shape
<1>4. registration' \in Seq(Calls) /\ RegistrationsAgree'
  BY <1>1, <1>3, HeadLeaves
<1>5. Shape'
  BY <1>1, <1>2, <1>4, ShapeStays DEF Shape, Active
<1>6. ChainsAgree'
  BY <1>1, <1>2, <1>3, ChainsStay DEF Active
<1>7. ContentsAgree'
  BY <1>1, <1>3, ContentsStay
<1>8. QED
  BY <1>4, <1>5, <1>6, <1>7 DEF QueueInv

\* A call that chains behind the last one of its key is behind all of them.
LEMMA EnterKeeps ==
  ASSUME KeysAreFiles, QueueInv, NEW c \in Calls, EnterQueue(c)
  PROVE  QueueInv'
<1> DEFINE k == call[c].key
           r == [call[c] EXCEPT !.pc = "wait", !.prev = queues[k]]
<1>1. /\ Shape /\ RegistrationsAgree /\ ChainsAgree /\ ContentsAgree
      /\ call[c].pc = "enter" /\ call[c] \in CallRec /\ call[c].path \in Paths /\ k # Null /\ k = Target(c) /\ k \in Paths
      /\ UNCHANGED <<file, made, serial>> /\ registration' = Tail(registration) /\ Registering(c)
      /\ queues' = [queues EXCEPT ![k] = c] /\ queues[k] \in Calls \cup {Null}
  BY DEF QueueInv, EnterQueue, Shape, CallRec
<1>2. /\ call' = [call EXCEPT ![c] = r] /\ r \in CallRec /\ r.pc = "wait" /\ r.key = k /\ r.prev = queues[k]
      /\ r.path = call[c].path /\ r.tool = call[c].tool
  <2>1. r \in CallRec /\ r.pc = "wait" /\ r.key = k /\ r.prev = queues[k] /\ r.path = call[c].path /\ r.tool = call[c].tool
    BY <1>1 DEF CallRec, Active
  <2>2. call' = [call EXCEPT ![c] = r]
    BY <1>1 DEF EnterQueue, Shape
  <2>3. QED
    BY <2>1, <2>2
<1> HIDE DEF r
<1>3. Turn(c, "wait") /\ call'[c] = r
  BY <1>1, <1>2 DEF Turn, Shape
<1>4. registration' \in Seq(Calls) /\ RegistrationsAgree'
  BY <1>1, <1>3, HeadLeaves
<1>5. queues' \in [Paths -> Calls \cup {Null}]
  BY <1>1 DEF Shape
<1>6. Shape'
  BY <1>1, <1>2, <1>4, <1>5, ShapeStays DEF Shape, Active
<1>7. \A d \in Calls : call[d].pc \in Active \cup {"done"} => d < c
  <2>1. 1 \in DOMAIN registration /\ registration[1] = c
    BY <1>1, HeadTailProperties, LenProperties DEF Registering, Shape
  <2>2. QED
    BY <1>1, <2>1 DEF RegistrationsAgree
<1>8. ContentsAgree'
  BY <1>1, <1>3, <1>2, ContentsStay
<1>9. /\ \A d, e \in Calls : d # c /\ e # c => Before(d, e)' = Before(d, e)
      /\ \A e \in Calls : call'[e].pc \in Active \cup {"done"} => ~Before(c, e)'
      /\ \A d \in Calls : Before(d, c)' => d # c /\ d < c /\ call[d].key = k /\ call[d].pc \in Active
  <2>1. \A d, e \in Calls : d # c /\ e # c => Before(d, e)' = Before(d, e)
    BY <1>3 DEF Before, Turn
  <2>2. \A e \in Calls : call'[e].pc \in Active \cup {"done"} => e < c \/ e = c
    BY <1>3, <1>7 DEF Turn
  <2>3. \A e \in Calls : e < c \/ e = c => ~(c < e)
    BY DEF Calls, KeysAreFiles
  <2>4. \A d \in Calls : d < c => d # c
    BY DEF Calls, KeysAreFiles
  <2>5. QED
    BY <1>2, <1>3, <2>1, <2>2, <2>3, <2>4 DEF Before, Turn
<1>10. ChainsAgree'
  <2>1. \A d \in Calls : call[d].pc \in Active \cup {"done"} => call'[d] = call[d] /\ d # c
    BY <1>1, <1>3 DEF Turn, Active
  <2>2. QueuesName'
    <3>1. \A q \in Paths : queues[q] # Null => queues[q] \in Calls
      BY <1>1 DEF Shape
    <3>2. QED
      BY <1>1, <1>2, <1>3, <2>1, <3>1 DEF ChainsAgree, QueuesName, Active, Shape
  <2>3. QueuesCover'
    <3> SUFFICES ASSUME NEW d \in Calls, call'[d].pc \in Active PROVE queues'[call'[d].key] # Null /\ d <= queues'[call'[d].key]
      BY DEF QueuesCover
    <3>1. CASE d = c
      BY <1>1, <1>2, <1>3, <3>1 DEF Shape, KeysAreFiles, Calls
    <3>2. CASE d # c
      <4>1. call'[d] = call[d] /\ queues[call[d].key] # Null /\ d <= queues[call[d].key] /\ d < c
        BY <1>1, <1>3, <1>7, <3>2 DEF ChainsAgree, QueuesCover, Turn
      <4>2. queues'[call[d].key] = c \/ queues'[call[d].key] = queues[call[d].key]
        BY <1>1 DEF Shape
      <4>3. c # Null /\ d <= c
        BY <4>1 DEF KeysAreFiles, Calls
      <4>4. QED
        BY <4>1, <4>2, <4>3
    <3>3. QED
      BY <3>1, <3>2
  <2>4. WaitersBehind'
    <3> SUFFICES ASSUME NEW d \in Calls, call'[d].pc = "wait" PROVE BehindLast(d)'
      BY DEF WaitersBehind
    <3>1. CASE d = c
      <4>1. CASE queues[k] = Null
        <5>1. \A e \in Calls : ~Before(e, c)'
          BY <1>1, <1>9, <4>1 DEF ChainsAgree, QueuesCover
        <5>2. QED
          BY <1>2, <1>3, <3>1, <4>1, <5>1 DEF BehindLast
      <4>2. CASE queues[k] # Null
        <5>1. PICK e \in Calls : e = queues[k]
          BY <1>1, <4>2
        <5>2. call[e].pc \in Active /\ call[e].key = k /\ call'[e] = call[e] /\ e < c
          BY <1>1, <1>7, <2>1, <4>2, <5>1 DEF ChainsAgree, QueuesName
        <5>3. \A x \in Calls : Before(x, c)' => x <= e
          BY <1>1, <1>9, <5>1 DEF ChainsAgree, QueuesCover
        <5>4. QED
          BY <1>2, <1>3, <3>1, <5>1, <5>2, <5>3 DEF BehindLast
      <4>3. QED
        BY <4>1, <4>2
    <3>2. CASE d # c
      <4>1. call'[d] = call[d] /\ BehindLast(d) /\ call'[d].pc \in Active
        BY <1>1, <1>3, <3>2 DEF ChainsAgree, WaitersBehind, Turn, Active
      <4>2. \A e \in Calls : Before(e, d)' => Before(e, d)
        BY <1>9, <3>2, <4>1
      <4>3. QED
        BY <2>1, <4>1, <4>2, BehindStays
    <3>3. QED
      BY <3>1, <3>2
  <2>5. NoneLeft'
    <3> SUFFICES ASSUME NEW d \in Calls, call'[d].pc \in PastWait, call'[d].key # Null, NEW e \in Calls, Before(e, d)' PROVE FALSE
      BY DEF NoneLeft
    <3>1. d # c /\ call'[d] = call[d] /\ call'[d].pc \in Active \cup {"done"}
      BY <1>2, <1>3 DEF Turn, PastWait, Active
    <3>2. e # c
      BY <1>9, <3>1
    <3>3. QED
      BY <1>1, <1>9, <3>1, <3>2 DEF ChainsAgree, NoneLeft
  <2>6. QED
    BY <2>2, <2>3, <2>4, <2>5 DEF ChainsAgree
<1>11. QED
  BY <1>4, <1>6, <1>8, <1>10 DEF QueueInv

\* A call past its wait has no unfinished call before it; one that begins has none either.
LEMMA NoneBefore ==
  ASSUME KeysAreFiles, Shape, ChainsAgree, NEW c \in Calls,
         call[c].pc \in {"read", "write", "release"} \/ (call[c].pc = "wait" /\ Released(call[c].prev))
  PROVE  call[c].key # Null /\ \A d \in Calls : ~Before(d, c)
<1>1. call[c].key # Null
  BY DEF Shape, Active
<1>2. CASE call[c].pc \in {"read", "write", "release"}
  BY <1>1, <1>2 DEF ChainsAgree, NoneLeft, PastWait
<1>3. CASE call[c].pc = "wait" /\ Released(call[c].prev)
  <2>1. BehindLast(c)
    BY <1>3 DEF ChainsAgree, WaitersBehind
  <2>2. CASE call[c].prev \in Calls
    <3>1. PICK e \in Calls : e = call[c].prev
      BY <2>2
    <3>2. e # Null /\ call[e].pc = "done" /\ call[e].key = call[c].key /\ \A d \in Calls : Before(d, c) => d <= e
      BY <1>3, <2>1, <3>1 DEF BehindLast, Released, KeysAreFiles
    <3>3. \A d \in Calls : ~Before(d, e)
      BY <1>1, <3>2 DEF ChainsAgree, NoneLeft, PastWait
    <3>4. ASSUME NEW d \in Calls, Before(d, c) PROVE FALSE
      <4>1. d <= e /\ d # e
        BY <3>2, <3>4 DEF Before, Active
      <4>2. d < e
        BY <4>1 DEF Calls, KeysAreFiles
      <4>3. QED
        BY <3>2, <3>3, <3>4, <4>2 DEF Before
    <3>5. QED
      BY <1>1, <3>4
  <2>3. QED
    BY <1>1, <2>1, <2>2 DEF BehindLast
<1>4. QED
  BY <1>2, <1>3

\* The record of a call that goes on to pc with what it has read.
Moved(c, pc, content) == [call EXCEPT ![c] = [@ EXCEPT !.pc = pc, !.read = content]]

\* A call that goes on and leaves the files alone.
LEMMA GoesOn ==
  ASSUME KeysAreFiles, QueueInv, NEW c \in Calls,
         call[c].pc \in {"read", "write"} \/ (call[c].pc = "wait" /\ Released(call[c].prev)),
         NEW pc \in {"read", "write", "release"}, NEW content \in Seq(Calls) \cup {Null},
         call' = Moved(c, pc, content),
         pc = "write" /\ call[c].tool = "edit" => content = file[Target(c)] /\ content # Null,
         UNCHANGED <<registration, queues, file, made, serial>>
  PROVE  QueueInv'
<1> DEFINE r == [call[c] EXCEPT !.pc = pc, !.read = content]
<1>1. /\ Shape /\ RegistrationsAgree /\ ChainsAgree /\ ContentsAgree
      /\ call[c].pc \in Active /\ call[c].pc \notin {"idle", "release", "done"}
      /\ call[c] \in CallRec /\ call[c].path \in Paths /\ call[c].key # Null /\ call[c].key = Target(c)
  BY DEF QueueInv, Shape, Active
<1>2. call' = [call EXCEPT ![c] = r] /\ r \in CallRec /\ r.pc = pc /\ r.key = call[c].key /\ r.path = call[c].path
      /\ r.tool = call[c].tool /\ r.read = content
  BY <1>1 DEF CallRec, Active, Moved
<1> HIDE DEF r
<1>3. Turn(c, pc) /\ call'[c] = r
  BY <1>1, <1>2 DEF Turn, Shape
<1>4. Shape'
  BY <1>1, <1>2, ShapeStays DEF Shape, Active
<1>5. RegistrationsAgree'
  BY <1>1, <1>3, RegistrationsStay
<1>6. ChainsAgree'
  BY <1>1, <1>2, <1>3, NoneBefore, ChainsStay DEF Active
<1>7. ContentsAgree'
  BY <1>1, <1>2, <1>3, ContentsStay
<1>8. QED
  BY <1>4, <1>5, <1>6, <1>7 DEF QueueInv

\* Begin, the read of an edit and an abort are such steps.
LEMMA GoingKeeps ==
  ASSUME KeysAreFiles, QueueInv, NEW c \in Calls, Begin(c) \/ Read(c) \/ AbortTool(c)
  PROVE  QueueInv'
<1>1. /\ call \in [Calls -> CallRec] /\ call[c].read \in Seq(Calls) \cup {Null}
      /\ file[Target(c)] \in Seq(Calls) \cup {Null}
  <2>1. Shape
    BY DEF QueueInv
  <2>2. call[c].pc # "idle" /\ call[c].path \in Paths
    BY <2>1 DEF Begin, Read, AbortTool, Shape
  <2>3. QED
    BY <2>1, <2>2 DEF Shape, CallRec, Target, KeysAreFiles
<1>2. \A pc : [call EXCEPT ![c].pc = pc] = Moved(c, pc, call[c].read)
  BY <1>1 DEF CallRec, Moved
<1>3. CASE Begin(c)
  <2>1. CASE call[c].tool = "edit"
    BY <1>1, <1>2, <1>3, <2>1, GoesOn DEF Begin, Goto
  <2>2. CASE call[c].tool # "edit"
    BY <1>1, <1>2, <1>3, <2>2, GoesOn DEF Begin, Goto
  <2>3. QED
    BY <2>1, <2>2
<1>4. CASE Read(c)
  <2>1. CASE file[Target(c)] = Null
    BY <1>1, <1>2, <1>4, <2>1, GoesOn DEF Read, Goto
  <2>2. CASE file[Target(c)] # Null
    <3>1. call' = Moved(c, "write", file[Target(c)])
      BY <1>1, <1>4, <2>2 DEF Read, CallRec, Moved
    <3>2. QED
      BY <1>1, <1>4, <2>2, <3>1, GoesOn DEF Read
  <2>3. QED
    BY <2>1, <2>2
<1>5. CASE AbortTool(c)
  BY <1>1, <1>2, <1>5, GoesOn DEF AbortTool, Goto
<1>6. QED
  BY <1>3, <1>4, <1>5

\* A call that finishes drops its key if it is the last of it.
LEMMA FinishKeeps ==
  ASSUME KeysAreFiles, QueueInv, NEW c \in Calls, Finish(c)
  PROVE  QueueInv'
<1> DEFINE r == [call[c] EXCEPT !.pc = "done"]
           k == call[c].key
<1>1. /\ Shape /\ RegistrationsAgree /\ ChainsAgree /\ ContentsAgree
      /\ call[c].pc = "release" /\ call[c] \in CallRec /\ call[c].path \in Paths /\ k # Null /\ k = Target(c) /\ k \in Paths
      /\ UNCHANGED <<registration, file, made, serial>>
      /\ queues' = [queues EXCEPT ![k] = IF @ = c THEN Null ELSE @]
  BY DEF QueueInv, Finish, Shape, Active, CallRec
<1>2. /\ call' = [call EXCEPT ![c] = r] /\ r \in CallRec /\ r.pc = "done" /\ r.key = k
      /\ r.path = call[c].path /\ r.tool = call[c].tool
  BY <1>1 DEF Finish, Goto, Shape, CallRec
<1> HIDE DEF r
<1>3. Turn(c, "done") /\ call'[c] = r
  BY <1>1, <1>2 DEF Turn, Shape
<1>4. queues' \in [Paths -> Calls \cup {Null}]
  BY <1>1 DEF Shape
<1>5. Shape'
  BY <1>1, <1>2, <1>4, ShapeStays DEF Shape, Active
<1>6. RegistrationsAgree'
  BY <1>1, <1>3, RegistrationsStay DEF Active
<1>7. ContentsAgree'
  BY <1>1, <1>2, <1>3, ContentsStay
<1>8. \A d \in Calls : ~Before(d, c)
  BY <1>1, NoneBefore
<1>9. /\ \A d, e \in Calls : Before(d, e)' => Before(d, e)
      /\ \A d \in Calls : call'[d].pc \in Active => d # c /\ call'[d] = call[d]
      /\ \A d \in Calls : d # c => call'[d] = call[d]
  BY <1>2, <1>3 DEF Turn, Before, Active
<1>10. QueuesName'
  <2> SUFFICES ASSUME NEW p \in Paths, queues'[p] # Null PROVE call'[queues'[p]].pc \in Active /\ call'[queues'[p]].key = p
    BY DEF QueuesName
  <2>1. queues[p] \in Calls /\ queues'[p] = queues[p] /\ (p = k => queues[p] # c)
    BY <1>1 DEF Shape
  <2>2. call[queues[p]].pc \in Active /\ call[queues[p]].key = p
    BY <1>1, <2>1 DEF ChainsAgree, QueuesName, KeysAreFiles
  <2>3. QED
    BY <1>9, <2>1, <2>2
<1>11. QueuesCover'
  <2> SUFFICES ASSUME NEW d \in Calls, call'[d].pc \in Active PROVE queues'[call'[d].key] # Null /\ d <= queues'[call'[d].key]
    BY DEF QueuesCover
  <2>1. d # c /\ call'[d] = call[d] /\ queues[call[d].key] # Null /\ d <= queues[call[d].key]
    BY <1>1, <1>9 DEF ChainsAgree, QueuesCover
  <2>2. call[d].key \in Paths
    BY <1>1, <1>9, <2>1 DEF Shape, CallRec
  <2>3. ~(call[d].key = k /\ queues[k] = c)
    <3>1. ~(call[d].key = k /\ d < c)
      BY <1>8, <1>9, <2>1 DEF Before
    <3>2. QED
      BY <2>1, <3>1 DEF Calls, KeysAreFiles
  <2>4. QED
    BY <1>1, <2>1, <2>2, <2>3 DEF Shape
<1>12. WaitersBehind'
  <2> SUFFICES ASSUME NEW d \in Calls, call'[d].pc = "wait" PROVE BehindLast(d)'
    BY DEF WaitersBehind
  <2>1. call'[d] = call[d] /\ BehindLast(d)
    BY <1>1, <1>9 DEF ChainsAgree, WaitersBehind, Active
  <2>2. \A e \in Calls : call[e].pc \in Active \cup {"done"} => call'[e].key = call[e].key /\ call'[e].pc \in Active \cup {"done"}
    BY <1>2, <1>3, <1>9
  <2>3. QED
    BY <1>9, <2>1, <2>2, BehindStays
<1>13. NoneLeft'
  BY <1>1, <1>8, <1>9 DEF ChainsAgree, NoneLeft
<1>14. QED
  BY <1>5, <1>6, <1>7, <1>10, <1>11, <1>12, <1>13 DEF QueueInv, ChainsAgree

\* A write adds to what the file holds; no other call of the file is between its read
\* and its write.
LEMMA WriteKeeps ==
  ASSUME KeysAreFiles, QueueInv, NEW c \in Calls, Write(c)
  PROVE  QueueInv'
<1> DEFINE f == Target(c)
           r == [call[c] EXCEPT !.pc = "release"]
           old == IF call[c].tool = "edit" THEN file[f] ELSE <<>>
           new == Append(old, c)
<1>1. /\ Shape /\ RegistrationsAgree /\ ChainsAgree /\ ContentsAgree
      /\ call[c].pc = "write" /\ call[c] \in CallRec /\ call[c].path \in Paths /\ call[c].key = f /\ call[c].key # Null /\ f \in Paths
      /\ UNCHANGED <<registration, queues, made>>
  BY DEF QueueInv, Write, Shape, Active, Target, KeysAreFiles
<1>2. old \in Seq(Calls) /\ (call[c].tool = "edit" => call[c].read = old)
  BY <1>1 DEF ContentsAgree, ReadIsCurrent, Shape
<1>3. file' = [file EXCEPT ![f] = new] /\ serial' = [serial EXCEPT ![f] = new] /\ serial = file
  <2>1. call[c].tool # "edit" => Append(<<>>, c) = <<c>>
    OBVIOUS
  <2>2. QED
    BY <1>1, <1>2, <2>1 DEF Write, Shape
<1>4. /\ call' = [call EXCEPT ![c] = r] /\ r \in CallRec /\ r.pc = "release" /\ r.key = call[c].key
      /\ r.path = call[c].path /\ r.tool = call[c].tool
  BY <1>1 DEF Write, Goto, Shape, CallRec, Active
<1>5. /\ new \in Seq(Calls) /\ DOMAIN new = 1..(Len(old) + 1) /\ DOMAIN old = 1..Len(old) /\ Len(old) \in Nat
      /\ new[Len(old) + 1] = c /\ \A i \in 1..Len(old) : new[i] = old[i] /\ old[i] \in Calls
  BY <1>2, AppendProperties, LenProperties, ElementOfSeq
<1>6. \A i \in 1..Len(old) : call[old[i]].pc \in {"release", "done"} /\ call[old[i]].key = f
  <2>1. CASE call[c].tool = "edit"
    BY <1>1, <1>2, <1>5, <2>1 DEF ContentsAgree, FilesHold, ReadIsCurrent
  <2>2. CASE call[c].tool # "edit"
    BY <2>2
  <2>3. QED
    BY <2>1, <2>2
<1>7. \A i, j \in 1..Len(old) : i < j => old[i] < old[j]
  <2>1. CASE call[c].tool = "edit"
    BY <1>1, <1>2, <1>5, <2>1 DEF ContentsAgree, FilesHold, ReadIsCurrent
  <2>2. CASE call[c].tool # "edit"
    BY <2>2
  <2>3. QED
    BY <2>1, <2>2
<1> HIDE DEF r, old, new, f
<1>8. Turn(c, "release") /\ call'[c] = r
  BY <1>1, <1>4 DEF Turn, Shape
<1>9. /\ file' \in [Paths -> Seq(Calls) \cup {Null}] /\ serial' = file' /\ file'[f] = new
      /\ \A p \in Paths \ {f} : file'[p] = file[p]
  BY <1>1, <1>3, <1>5 DEF Shape
<1>10. new # Null
  BY <1>5 DEF KeysAreFiles
<1>11. Shape'
  BY <1>1, <1>4, <1>9, <1>10, ShapeStays DEF Shape, Active
<1>12. RegistrationsAgree'
  BY <1>1, <1>8, RegistrationsStay DEF Active
<1>13. ChainsAgree'
  BY <1>1, <1>4, <1>8, NoneBefore, ChainsStay DEF Active
<1>14. FilesHold'
  <2> SUFFICES ASSUME NEW p \in Paths, file'[p] # Null
               PROVE  /\ \A i \in DOMAIN file'[p] : call'[file'[p][i]].pc \in {"release", "done"} /\ call'[file'[p][i]].key = p
                      /\ \A i, j \in DOMAIN file'[p] : i < j => file'[p][i] < file'[p][j]
    BY DEF FilesHold
  <2>1. \A d \in Calls : call[d].pc \in {"release", "done"} => call'[d] = call[d] /\ d # c
    BY <1>1, <1>8 DEF Turn
  <2>2. CASE p # f
    <3>1. file'[p] = file[p] /\ \A i \in DOMAIN file[p] : file[p][i] \in Calls
      BY <1>1, <1>9, <2>2, ElementOfSeq, LenProperties DEF Shape
    <3>2. QED
      BY <1>1, <2>1, <3>1 DEF ContentsAgree, FilesHold
  <2>3. CASE p = f
    <3>1. \A i \in 1..Len(old) : old[i] < c
      <4> SUFFICES ASSUME NEW i \in 1..Len(old), ~(old[i] < c) PROVE FALSE
        OBVIOUS
      <4>1. PICK e \in Calls : e = old[i]
        BY <1>5
      <4>2. call[e].pc \in {"release", "done"} /\ call[e].key = f /\ e # c
        BY <1>6, <2>1, <4>1
      <4>3. c < e
        BY <4>1, <4>2 DEF Calls, KeysAreFiles
      <4>4. ~Before(c, e)
        BY <1>1, <4>2 DEF ChainsAgree, NoneLeft, PastWait
      <4>5. QED
        BY <1>1, <4>2, <4>3, <4>4 DEF Before, Active
    <3>2. \A i \in DOMAIN new : i \in 1..Len(old) \/ i = Len(old) + 1
      BY <1>5
    <3>3. \A i \in DOMAIN new : call'[new[i]].pc \in {"release", "done"} /\ call'[new[i]].key = f
      BY <1>1, <1>4, <1>5, <1>6, <1>8, <2>1, <3>2
    <3>4. ASSUME NEW i \in DOMAIN new, NEW j \in DOMAIN new, i < j PROVE new[i] < new[j]
      <4>1. i \in 1..Len(old)
        BY <1>5, <3>2, <3>4
      <4>2. CASE j \in 1..Len(old)
        BY <1>5, <1>7, <3>4, <4>1, <4>2
      <4>3. CASE j = Len(old) + 1
        BY <1>5, <3>1, <4>1, <4>3
      <4>4. QED
        BY <3>2, <4>2, <4>3
    <3>5. QED
      BY <1>9, <2>3, <3>3, <3>4
  <2>4. QED
    BY <2>2, <2>3
<1>15. ReadIsCurrent'
  <2> SUFFICES ASSUME NEW d \in Calls, call'[d].pc = "write", call'[d].tool = "edit"
               PROVE  call'[d].read = file'[Target(d)'] /\ call'[d].read # Null
    BY DEF ReadIsCurrent
  <2>1. d # c /\ call'[d] = call[d] /\ Target(d)' = Target(d)
    BY <1>4, <1>8 DEF Turn, Target
  <2>2. call[d].read = file[Target(d)] /\ call[d].read # Null
    BY <1>1, <2>1 DEF ContentsAgree, ReadIsCurrent
  <2>3. call[d].key = Target(d) /\ call[d].key # Null /\ Target(d) \in Paths
    BY <1>1, <2>1 DEF Shape, Active, Target, KeysAreFiles
  <2>4. Target(d) # f
    <3> SUFFICES ASSUME Target(d) = f PROVE FALSE
      OBVIOUS
    <3>1. ~Before(c, d) /\ ~Before(d, c)
      BY <1>1, <2>1, NoneBefore
    <3>2. c < d \/ d < c
      BY <2>1 DEF Calls, KeysAreFiles
    <3>3. QED
      BY <1>1, <2>1, <2>3, <3>1, <3>2 DEF Before, Active
  <2>5. QED
    BY <1>9, <2>1, <2>2, <2>3, <2>4
<1>16. QED
  BY <1>11, <1>12, <1>13, <1>14, <1>15 DEF QueueInv, ContentsAgree

\* Every step keeps the invariant.
LEMMA NextKeeps ==
  ASSUME KeysAreFiles, QueueInv, [Next]_vars
  PROVE  QueueInv'
<1>1. CASE UNCHANGED vars
  <2>1. \A c, d \in Calls : Before(d, c)' = Before(d, c) /\ BehindLast(c)' = BehindLast(c) /\ Target(c)' = Target(c)
    BY <1>1 DEF vars, Before, BehindLast, Target
  <2>2. Shape' /\ RegistrationsAgree'
    BY <1>1, <2>1 DEF QueueInv, vars, Shape, RegistrationsAgree
  <2>3. ChainsAgree'
    BY <1>1, <2>1 DEF QueueInv, vars, ChainsAgree, QueuesName, QueuesCover, WaitersBehind, NoneLeft
  <2>4. ContentsAgree'
    BY <1>1, <2>1 DEF QueueInv, vars, ContentsAgree, FilesHold, ReadIsCurrent
  <2>5. QED
    BY <2>2, <2>3, <2>4 DEF QueueInv
<1>2. ASSUME NEW c \in Calls, NEW tool \in {"edit", "write"}, NEW path \in Paths, withFileMutationQueue(c, tool, path)
      PROVE  QueueInv'
  BY <1>2, MakeKeeps
<1>3. ASSUME NEW c \in Calls, Step(c) \/ FailRegistration(c) \/ AbortTool(c)
      PROVE  QueueInv'
  BY <1>3, ResolveKeeps, FailKeeps, EnterKeeps, GoingKeeps, WriteKeeps, FinishKeeps DEF Step
<1>4. QED
  BY <1>1, <1>2, <1>3 DEF Next

\* What the queue knows of its calls is an invariant, for any number of calls and files.
THEOREM QueueInvariant ==
  ASSUME KeysAreFiles
  PROVE  Spec => []QueueInv
BY InitQueueInv, NextKeeps, PTL DEF Spec

\* No edit is lost and none overtakes an earlier request, for any number of parallel calls on any
\* files, whatever is aborted or fails, where no link leads to a file that does not exist yet
\* (file-mutation-queue.ts withFileMutationQueue, edit.ts, write.ts).
THEOREM EditsAreSerial ==
  ASSUME KeysAreFiles
  PROVE  Spec => [](MutationsSerializable /\ QueueKeysExact)
<1>1. QueueInv => MutationsSerializable
  BY DEF QueueInv, Shape, ContentsAgree, FilesHold, MutationsSerializable
<1>2. QueueInv => QueueKeysExact
  <2> SUFFICES ASSUME QueueInv, NEW p \in Paths
               PROVE  (queues[p] # Null) <=> (\E c \in Calls : call[c].key = p /\ call[c].pc \in Active)
    BY DEF QueueKeysExact, Active
  <2>1. queues[p] # Null => queues[p] \in Calls
    BY DEF QueueInv, Shape
  <2>2. QED
    BY <2>1 DEF QueueInv, ChainsAgree, QueuesName, QueuesCover
<1>3. QED
  BY <1>1, <1>2, QueueInvariant, PTL

=============================================================================
