---------------------------- MODULE ModelCatalog ----------------------------
(***************************************************************************)
(* The catalog of one provider's models: refreshes that supersede each     *)
(* other, each restoring the stored catalog and then asking the network,   *)
(* and the chain of publications that write the store and the provider's   *)
(* memory.                                                                 *)
(*                                                                         *)
(* A catalog is the version number of the remote one it was fetched from,  *)
(* 0 for none.  Each process has its own memory, generation and chain; the *)
(* store is a file they share.                                             *)
(***************************************************************************)
EXTENDS Integers, Sequences, FiniteSets

CONSTANTS Processes,     \* processes that share the store
          MaxRefreshes,  \* bound on refreshes
          MaxRemote,     \* bound on versions of the remote catalog
          Statuses       \* answers of the server: subset of {"ok", "unchanged", "gone", "error"}

VARIABLES
  refr,    \* refresh -> [pc, by, gen, net, phase, aborted, stored, outcome]
  gen,     \* process -> refreshGenerations of the provider
  chain,   \* process -> publicationChains: a sequence of publications
  memory,  \* process -> dynamicModels
  store,   \* the stored entry
  remote   \* version of the remote catalog

vars == <<refr, gen, chain, memory, store, remote>>

Refreshes == 1..MaxRefreshes
\* modified: no lastModified, one the built-in catalog is newer than, or a newer one.
NoEntry == [v |-> 0, etag |-> 0, modified |-> "none", fresh |-> FALSE]
Nothing == [v |-> -1, etag |-> -1, modified |-> "none", fresh |-> FALSE]
NotBegun == [pc |-> "unsent", by |-> "", gen |-> 0, net |-> "no", phase |-> 1, aborted |-> FALSE,
             stored |-> NoEntry, outcome |-> "done"]

Init ==
  /\ refr = [r \in Refreshes |-> NotBegun]
  /\ gen = [x \in Processes |-> 0]
  /\ chain = [x \in Processes |-> <<>>]
  /\ memory = [x \in Processes |-> 0]
  /\ store = NoEntry
  /\ remote = 1

Over == {"unsent", "done", "failed", "stopped"}
Active(r) == refr[r].pc \notin Over
First(r) == refr[r].pc = "unsent" /\ \A q \in Refreshes : q < r => refr[q].pc # "unsent"

-----------------------------------------------------------------------------
(* Starting and superseding. *)

\* supersedeProviderRefresh: a new generation; the refresh under way is aborted.
Superseded(x) ==
  [r \in Refreshes |-> IF refr[r].by = x /\ Active(r) THEN [refr[r] EXCEPT !.aborted = TRUE] ELSE refr[r]]

refresh(r, x, net) ==
  /\ First(r)
  /\ gen' = [gen EXCEPT ![x] = @ + 1]
  /\ refr' = [Superseded(x) EXCEPT ![r] =
       [NotBegun EXCEPT !.pc = "read", !.by = x, !.gen = gen'[x], !.net = net]]
  /\ UNCHANGED <<chain, memory, store, remote>>

\* The provider is composed anew: a new object without a catalog.
setProvider(x) ==
  /\ \E r \in Refreshes : refr[r].pc = "unsent"
  /\ memory[x] # 0
  /\ gen' = [gen EXCEPT ![x] = @ + 1]
  /\ refr' = Superseded(x)
  /\ memory' = [memory EXCEPT ![x] = 0]
  /\ UNCHANGED <<chain, store, remote>>

\* The caller of a refresh aborts it.
callerAborts(r) ==
  /\ Active(r) /\ ~refr[r].aborted
  /\ refr' = [refr EXCEPT ![r].aborted = TRUE]
  /\ UNCHANGED <<gen, chain, memory, store, remote>>

\* An aborted refresh ends at the promise it waits for; what it has queued for
\* publication stays queued.
stops(r) ==
  /\ Active(r) /\ refr[r].aborted
  /\ refr' = [refr EXCEPT ![r].pc = "stopped"]
  /\ UNCHANGED <<gen, chain, memory, store, remote>>

-----------------------------------------------------------------------------
(* Publications. *)

\* remoteModels
Restored(e) == IF e.modified = "newer" THEN e.v ELSE 0

\* A publication of refresh r: an entry to write, or Nothing, and the catalog
\* to show, or -1 when memory stays.
Publication(r, persist, update) ==
  [r |-> r, by |-> refr[r].by, gen |-> refr[r].gen, persist |-> persist, update |-> update,
   stage |-> "queued"]
Enqueue(x, pub) == [chain EXCEPT ![x] = Append(@, pub)]

IsCurrent(pub) == ~refr[pub.r].aborted /\ pub.gen = gen[pub.by]

\* The refresh that published goes on, if it still waits.
Published(r, ok) ==
  LET f == refr[r] IN
  IF ~Active(r) \/ f.pc \notin {"restore", "save"} THEN refr
  ELSE [refr EXCEPT ![r].pc =
          IF ~ok THEN "stopped"
          ELSE IF f.pc = "save" THEN f.outcome
          ELSE IF f.net = "no" THEN "done"
          ELSE IF f.phase = 1 THEN "credential"
          ELSE IF f.net # "force" /\ f.stored.fresh /\ f.stored.modified # "none" THEN "done"
          ELSE "fetch"]

Pop(x) == chain' = [chain EXCEPT ![x] = Tail(@)]

\* The chain's head: dropped when superseded, shown, or written first.
publish(x) ==
  /\ chain[x] # <<>>
  /\ LET pub == Head(chain[x]) IN
     /\ pub.stage = "queued"
     /\ IF ~IsCurrent(pub) THEN Pop(x) /\ refr' = Published(pub.r, FALSE) /\ UNCHANGED memory
        ELSE IF pub.persist = Nothing
        THEN /\ Pop(x) /\ refr' = Published(pub.r, TRUE)
             /\ memory' = [memory EXCEPT ![x] = pub.update]
        ELSE /\ chain' = [chain EXCEPT ![x] = <<[pub EXCEPT !.stage = "writing"]>> \o Tail(@)]
             /\ UNCHANGED <<refr, memory>>
  /\ UNCHANGED <<gen, store, remote>>

\* FileModelsStore.write, under the file's lock.
write(x) ==
  /\ chain[x] # <<>>
  /\ LET pub == Head(chain[x]) IN
     /\ pub.stage = "writing"
     /\ store' = pub.persist
     /\ chain' = [chain EXCEPT ![x] = <<[pub EXCEPT !.stage = "written"]>> \o Tail(@)]
  /\ UNCHANGED <<refr, gen, memory, remote>>

\* The write throws: an aborted one before it has the lock.
writeFails(x) ==
  /\ chain[x] # <<>>
  /\ LET pub == Head(chain[x]) IN
     /\ pub.stage = "writing" /\ refr[pub.r].aborted
     /\ refr' = IF Active(pub.r) THEN [refr EXCEPT ![pub.r].pc = "stopped"] ELSE refr
  /\ Pop(x)
  /\ UNCHANGED <<gen, memory, store, remote>>

\* Memory follows what was written, unless superseded meanwhile.
written(x) ==
  /\ chain[x] # <<>>
  /\ LET pub == Head(chain[x]) IN
     /\ pub.stage = "written"
     /\ memory' = IF IsCurrent(pub) /\ pub.update # -1 THEN [memory EXCEPT ![x] = pub.update] ELSE memory
     /\ refr' = Published(pub.r, IsCurrent(pub))
  /\ Pop(x)
  /\ UNCHANGED <<gen, store, remote>>

-----------------------------------------------------------------------------
(* The phases of a refresh. *)

\* runProviderRefreshPhase: the stored entry is read and restored first.
readStore(r) ==
  /\ refr[r].pc = "read" /\ ~refr[r].aborted
  /\ refr' = [refr EXCEPT ![r].pc = "restore", ![r].stored = store]
  /\ chain' = Enqueue(refr[r].by, Publication(r, Nothing, Restored(store)))
  /\ UNCHANGED <<gen, memory, store, remote>>

\* resolveRefreshCredential: there is one, there is none, or it fails.
resolveRefreshCredential(r) ==
  /\ refr[r].pc = "credential" /\ ~refr[r].aborted
  /\ \E to \in {"read", "done", "failed"} :
       refr' = [refr EXCEPT ![r].pc = to, ![r].phase = IF to = "read" THEN 2 ELSE 1]
  /\ UNCHANGED <<gen, chain, memory, store, remote>>

\* The server's answer to a fetch with the stored validator.
Answer(e, status) ==
  CASE status = "ok"        -> [v |-> remote, etag |-> remote, modified |-> "newer", fresh |-> TRUE]
    [] status = "gone"      -> [e EXCEPT !.etag = 0, !.modified = "older", !.fresh = TRUE]
    [] OTHER                -> [e EXCEPT !.fresh = TRUE]

fetch(r, status) ==
  /\ refr[r].pc = "fetch" /\ ~refr[r].aborted
  /\ status = "unchanged" => refr[r].stored.v # 0 /\ refr[r].stored.etag = remote
  /\ refr' = [refr EXCEPT ![r].pc = "save", ![r].outcome = IF status = "error" THEN "failed" ELSE "done"]
  /\ chain' = Enqueue(refr[r].by, Publication(r, Answer(refr[r].stored, status),
                                              IF status = "ok" THEN remote ELSE -1))
  /\ UNCHANGED <<gen, memory, store, remote>>

\* A new remote catalog; the freshness interval passes.
remoteChanges ==
  /\ remote < MaxRemote
  /\ remote' = remote + 1
  /\ UNCHANGED <<refr, gen, chain, memory, store>>
intervalPasses ==
  /\ store.fresh
  /\ store' = [store EXCEPT !.fresh = FALSE]
  /\ UNCHANGED <<refr, gen, chain, memory, remote>>

-----------------------------------------------------------------------------
Rest ==
  /\ \A r \in Refreshes : ~Active(r)
  /\ UNCHANGED vars

Next ==
  \/ \E r \in Refreshes :
       \/ \E x \in Processes, net \in {"no", "yes", "force"} : refresh(r, x, net)
       \/ callerAborts(r) \/ stops(r) \/ readStore(r) \/ resolveRefreshCredential(r)
       \/ \E s \in Statuses : fetch(r, s)
  \/ \E x \in Processes : setProvider(x) \/ publish(x) \/ write(x) \/ writeFails(x) \/ written(x)
  \/ remoteChanges \/ intervalPasses
  \/ Rest

Spec == Init /\ [][Next]_vars

-----------------------------------------------------------------------------
(* Properties, of a store that one process writes: another process that    *)
(* fetched earlier may write its older catalog over a newer one.           *)

\* After a refresh over the network that has succeeded, and until something
\* supersedes it, the process shows the catalog that the store holds: nothing
\* an earlier refresh left behind is written after it (publicationChains).
RefreshedIsStored ==
  \A r \in Refreshes :
    LET x == refr[r].by IN
    refr[r].pc = "done" /\ refr[r].phase = 2 /\ refr[r].gen = gen[x] /\ store.modified = "newer"
      => memory[x] = store.v

\* A process never shows a catalog newer than the stored one, so what it shows
\* survives it (publishProviderModels writes before it updates).
ShownIsStored == \A x \in Processes : memory[x] <= store.v

\* A process that shows a catalog never goes back to an older one, however its
\* refreshes overlap (IsCurrent, publicationChains).
CatalogNeverGoesBackStep ==
  \A x \in Processes : memory[x] # 0 /\ memory'[x] # 0 => memory'[x] >= memory[x]
CatalogNeverGoesBack == [][CatalogNeverGoesBackStep]_vars

=============================================================================
