---------------------------- MODULE Credentials -----------------------------
(***************************************************************************)
(* Credentials in auth.json and the resolution of an OAuth login           *)
(* (coding-agent/src/core/auth-storage.ts, ai/src/auth/resolve.ts).        *)
(* Processes share the file under a lock; in one process the readers share *)
(* a cached copy, valid while the file's revision is the one it was read   *)
(* at, and one reload.  The file has an OAuth credential, a token of some  *)
(* generation, and the API key of another provider.  Refreshing a token    *)
(* consumes it: the provider answers with the next generation and refuses  *)
(* the old one from then on.  0 is no credential.                          *)
(***************************************************************************)
EXTENDS Integers, FiniteSets, TLAPS

CONSTANTS
  Null,
  Procs,        \* processes
  Reqs,         \* calls of resolveProviderAuth, modify and delete
  ProcOf(_),    \* the process a call is made in
  MaxExpiries,  \* bound: tokens that come close to their expiry
  MaxChanges,   \* bound: logins, logouts and changes of the API key
  MaxAborts     \* bound: calls whose signal is aborted

VARIABLES
  file,     \* auth.json: the two credentials and its revision
  lock,     \* the call, or the process for its reload, that holds the file's lock
  cache,    \* per process: readState.data and readState.revision
  reload,   \* per process: readState.reload, its readers and what it read
  req,      \* per call: where it is, what it read under the lock, what it will write and return
  token,    \* tokens issued, consumed and close to expiry
  aborted,  \* calls whose signal is aborted
  count,    \* changes so far
  seen      \* history: the API key last written, refreshes that were refused

vars == <<file, lock, cache, reload, req, token, aborted, count, seen>>

NoData == [oauth |-> 0, key |-> 0]
NoReload == [pc |-> "none", readers |-> {}, data |-> NoData]
NoReq == [pc |-> "none", kind |-> "", data |-> NoData, next |-> 0, result |-> 0, rev |-> Null, why |-> ""]

Init ==
  /\ file = [data |-> [oauth |-> 1, key |-> 0], rev |-> 0]
  /\ lock = Null
  /\ cache = [p \in Procs |-> [data |-> file.data, rev |-> 0]]
  /\ reload = [p \in Procs |-> NoReload]
  /\ req = [r \in Reqs |-> NoReq]
  /\ token = [issued |-> 1, used |-> {}, soon |-> {}]
  /\ aborted = {} /\ count = 0
  /\ seen = [key |-> 0, refused |-> 0]

expiresSoon(t) == t \in token.soon

\* The completions of one event loop are handled in order: a call that has released the lock goes on
\* before another call of the same process is told that it has it.
Settled(p) == reload[p].pc # "released" /\ \A r \in Reqs : ProcOf(r) = p => req[r].pc # "unlocked"

\* lockfile.lock
Free(p) == lock = Null

-----------------------------------------------------------------------------
\* Calls.

\* resolveProviderAuth begins with a read; a login or a change of the key has its credential.
start(r, kind) ==
  /\ req[r].pc = "none"
  /\ kind # "resolve" => count < MaxChanges
  /\ count' = IF kind = "resolve" THEN count ELSE count + 1
  /\ token' = IF kind = "login" THEN [token EXCEPT !.issued = @ + 1] ELSE token
  /\ req' = [req EXCEPT ![r].kind = kind, ![r].pc = IF kind = "resolve" THEN "read" ELSE "wait",
                        ![r].next = CASE kind = "login" -> token.issued + 1
                                      [] kind = "key" -> count + 1
                                      [] OTHER -> 0]
  /\ UNCHANGED <<file, lock, cache, reload, aborted, seen>>

\* What resolveStoredOAuth does with the credential a read returned.
Resolved(q, t) ==
  IF t # 0 /\ expiresSoon(t) THEN [q EXCEPT !.pc = "wait"] ELSE [q EXCEPT !.pc = "done", !.result = t]

\* readLatestData: the cached copy, the reload under way, or a reload of its own.
read(r) ==
  LET p == ProcOf(r)
  IN  /\ req[r].pc = "read"
      /\ IF cache[p].rev = file.rev
         THEN /\ req' = [req EXCEPT ![r] = Resolved(@, cache[p].data.oauth)]
              /\ UNCHANGED reload
         ELSE /\ req' = [req EXCEPT ![r].pc = "reading"]
              /\ reload' = [reload EXCEPT ![p].readers = @ \cup {r},
                                          ![p].pc = IF @ = "none" THEN "wait" ELSE @]
      /\ UNCHANGED <<file, lock, cache, token, aborted, count, seen>>

-----------------------------------------------------------------------------
\* The shared reload.

reloadLocked(p) ==
  /\ reload[p].pc = "wait" /\ Free(p) /\ Settled(p)
  /\ lock' = p
  /\ reload' = [reload EXCEPT ![p].pc = "locked", ![p].data = file.data]
  /\ cache' = [cache EXCEPT ![p] = [data |-> file.data, rev |-> file.rev]]
  /\ UNCHANGED <<file, req, token, aborted, count, seen>>

\* The lock is released; a reload nobody waits for any more ends here.
reloadReleased(p) ==
  /\ lock = p
  /\ lock' = Null
  /\ reload' = IF reload[p].pc = "locked" THEN [reload EXCEPT ![p].pc = "released"] ELSE reload
  /\ UNCHANGED <<file, cache, req, token, aborted, count, seen>>

\* Every reader shares the promise.
Told(r, readers) == r \in readers

reloadResolved(p) ==
  /\ reload[p].pc = "released"
  /\ reload' = [reload EXCEPT ![p] = NoReload]
  /\ req' = [r \in Reqs |-> IF Told(r, reload[p].readers) THEN Resolved(req[r], reload[p].data.oauth) ELSE req[r]]
  /\ UNCHANGED <<file, lock, cache, token, aborted, count, seen>>

\* The lock is not had within thirty seconds: the readers fail, as their signal is given.
reloadFails(p) ==
  /\ reload[p].pc = "wait" /\ ~Free(p)
  /\ reload' = [reload EXCEPT ![p] = NoReload]
  /\ req' = [r \in Reqs |-> IF r \in reload[p].readers THEN [req[r] EXCEPT !.pc = "done", !.why = "locked"]
                            ELSE req[r]]
  /\ UNCHANGED <<file, lock, cache, token, aborted, count, seen>>

-----------------------------------------------------------------------------
\* modify and delete.

\* Mutant: the expiry is not looked at again under the lock.
NeedsRefresh_unchecked(t) == t # 0
\* The check under the lock: logged out meanwhile, or refreshed by another call.
NeedsRefresh(t) == t # 0 /\ expiresSoon(t)

\* The lock is had: the file is read and the callback begins.
locked(r) ==
  /\ req[r].pc = "wait" /\ Free(ProcOf(r)) /\ Settled(ProcOf(r))
  /\ lock' = r
  /\ LET q == [req[r] EXCEPT !.data = file.data]
         t == file.data.oauth
     IN  req' = [req EXCEPT ![r] =
           IF q.kind # "resolve" THEN [q EXCEPT !.pc = "write"]
           ELSE IF NeedsRefresh(t) THEN [q EXCEPT !.pc = "refresh"]
           ELSE [q EXCEPT !.pc = "unlock", !.result = t, !.rev = file.rev]]
  /\ UNCHANGED <<file, cache, reload, token, aborted, count, seen>>

lockFails(r) ==
  /\ req[r].pc = "wait" /\ ~Free(ProcOf(r))
  /\ req' = [req EXCEPT ![r].pc = "done", ![r].why = "locked"]
  /\ UNCHANGED <<file, lock, cache, reload, token, aborted, count, seen>>

\* The credential refreshed is the one read under the lock.
Presented(r) == req[r].data.oauth

\* oauth.refresh: the provider rotates the token, refuses a consumed one, or cannot be reached.
refresh(r) ==
  /\ req[r].pc = "refresh"
  /\ LET t == Presented(r)
     IN  \/ /\ t \notin token.used
            /\ token' = [token EXCEPT !.issued = @ + 1, !.used = @ \cup {t}]
            /\ req' = [req EXCEPT ![r].pc = "write", ![r].next = token.issued + 1]
            /\ UNCHANGED seen
         \/ /\ req' = [req EXCEPT ![r].pc = "unlock", ![r].why = "refused"]
            /\ seen' = IF t \in token.used THEN [seen EXCEPT !.refused = @ + 1] ELSE seen
            /\ UNCHANGED token
  /\ UNCHANGED <<file, lock, cache, reload, aborted, count>>

\* The data read under the lock.
Current(r) == req[r].data

Merged(r) ==
  IF req[r].kind = "key" THEN [Current(r) EXCEPT !.key = req[r].next]
  ELSE [Current(r) EXCEPT !.oauth = IF req[r].kind = "logout" THEN 0 ELSE req[r].next]

\* The callback has returned: nothing is written once the signal is aborted.
write(r) ==
  /\ req[r].pc = "write"
  /\ IF r \in aborted
     THEN /\ req' = [req EXCEPT ![r].pc = "unlock", ![r].why = "aborted"]
          /\ UNCHANGED <<file, seen>>
     ELSE /\ file' = [data |-> Merged(r), rev |-> file.rev + 1]
          /\ req' = [req EXCEPT ![r].pc = "unlock", ![r].data = Merged(r), ![r].result = req[r].next]
          /\ seen' = IF req[r].kind = "key" THEN [seen EXCEPT !.key = req[r].next] ELSE seen
  /\ UNCHANGED <<lock, cache, reload, token, aborted, count>>

unlock(r) ==
  /\ req[r].pc = "unlock"
  /\ lock' = Null
  /\ req' = [req EXCEPT ![r].pc = "unlocked"]
  /\ UNCHANGED <<file, cache, reload, token, aborted, count, seen>>

\* The revision noted under the lock, and none after a write.
Revision(r) == req[r].rev

\* The call returns; after a success the cached copy is what it saw or wrote.
finish(r) ==
  /\ req[r].pc = "unlocked"
  /\ req' = [req EXCEPT ![r].pc = "done"]
  /\ cache' = IF req[r].why # "" THEN cache
              ELSE [cache EXCEPT ![ProcOf(r)] = [data |-> req[r].data, rev |-> Revision(r)]]
  /\ UNCHANGED <<file, lock, reload, token, aborted, count, seen>>

-----------------------------------------------------------------------------
\* Time and the caller's signal.

expire ==
  /\ Cardinality(token.soon) < MaxExpiries /\ token.issued \notin token.soon
  /\ token' = [token EXCEPT !.soon = @ \cup {token.issued}]
  /\ UNCHANGED <<file, lock, cache, reload, req, aborted, count, seen>>

\* The reload is aborted when its last reader leaves.
Abandoned(p, r) == reload[p].readers = {r}

\* A call that reads or waits for the lock ends at once; one that has the lock goes on to its checks.
abort(r) ==
  LET p == ProcOf(r)
      over == req[r].pc = "reading" /\ Abandoned(p, r)
  IN  /\ req[r].pc \notin {"none", "done"} /\ r \notin aborted /\ Cardinality(aborted) < MaxAborts
      /\ aborted' = aborted \cup {r}
      /\ req' = [q \in Reqs |->
           IF q = r /\ req[r].pc \in {"read", "reading", "wait"} THEN [req[r] EXCEPT !.pc = "done", !.why = "aborted"]
           ELSE IF over /\ q \in reload[p].readers THEN [req[q] EXCEPT !.pc = "done", !.why = "aborted"]
           ELSE req[q]]
      /\ reload' = IF over THEN [reload EXCEPT ![p] = NoReload] ELSE [reload EXCEPT ![p].readers = @ \ {r}]
      /\ UNCHANGED <<file, lock, cache, token, count, seen>>

Program ==
  \/ \E p \in Procs : reloadLocked(p) \/ reloadReleased(p) \/ reloadResolved(p) \/ reloadFails(p)
  \/ \E r \in Reqs : read(r) \/ locked(r) \/ lockFails(r) \/ refresh(r) \/ write(r) \/ unlock(r) \/ finish(r)

Next ==
  \/ Program \/ expire
  \/ \E r \in Reqs : abort(r) \/ \E kind \in {"resolve", "login", "logout", "key"} : start(r, kind)

Spec == Init /\ [][Next]_vars
FairSpec == Spec /\ WF_vars(Program)

-----------------------------------------------------------------------------
(* Properties. *)

\* "refresh once globally, and persist the rotated credential before release": while nobody holds
\* the lock the file never rests on a token the provider has consumed, so no refresh is refused.
RotatedIsStored ==
  /\ lock = Null => file.data.oauth \notin token.used
  /\ seen.refused = 0

\* However many calls in however many processes see a token near its expiry, the provider is asked
\* once for it.
RefreshOnce == token.used \subseteq token.soon

\* A change of one provider's credential keeps what was last written for another provider.
OtherKeySurvives == file.data.key = seen.key

\* A copy whose revision is the file's is the file's data: the cache never answers with old
\* credentials while the file looks unchanged to it.
CacheIsHonest == \A p \in Procs : cache[p].rev = file.rev => cache[p].data = file.data

Called(r) == req[r].pc # "none"
Returned(r) == req[r].pc = "done" /\ lock # r


-----------------------------------------------------------------------------
(* Proofs, for any number of processes, calls, expiries, changes and aborts.  *)
(* A call that has the lock has the file's data; the rest follows from what   *)
(* the calls of the other processes can have done to it meanwhile: nothing.   *)

ContentRec == [oauth : Nat, key : Nat]
Kinds == {"resolve", "login", "logout", "key"}
Pcs == {"none", "read", "reading", "wait", "refresh", "write", "unlock", "unlocked", "done"}
Request == [pc : Pcs, kind : Kinds \cup {""}, data : ContentRec, next : Nat, result : Nat, rev : Nat \cup {Null},
            why : {"", "locked", "aborted", "refused"}]
Reload == [pc : {"none", "wait", "locked", "released"}, readers : SUBSET Reqs, data : ContentRec]

TypeOK ==
  /\ file \in [data : ContentRec, rev : Nat]
  /\ lock \in {Null} \cup Reqs \cup Procs
  /\ cache \in [Procs -> [data : ContentRec, rev : Nat \cup {Null}]]
  /\ reload \in [Procs -> Reload]
  /\ req \in [Reqs -> Request]
  /\ token \in [issued : Nat, used : SUBSET Nat, soon : SUBSET Nat]
  /\ aborted \subseteq Reqs /\ count \in Nat
  /\ seen \in [key : Nat, refused : Nat]

\* A call between its lock and its unlock.
Holds(r) == req[r].pc \in {"refresh", "write", "unlock"}

\* Data with the revision it was read at.
IsCopy(rev, data) == rev # Null => rev <= file.rev /\ (rev = file.rev => data = file.data)

\* What a call knows of the lock, of the file and of the token it is going to refresh.
Agrees(r) ==
  /\ Holds(r) => lock = r /\ req[r].data = file.data
  /\ req[r].pc \in {"read", "reading", "refresh"} => req[r].kind = "resolve"
  /\ req[r].pc # "none" => req[r].kind \in Kinds
  /\ req[r].pc = "refresh" => req[r].data.oauth \in token.soon \ {0}
  /\ req[r].pc \in {"unlock", "unlocked"} => IsCopy(req[r].rev, req[r].data)
  /\ req[r].pc \notin {"unlock", "unlocked", "done"} => req[r].rev = Null

\* The readers of a reload are calls of its process that wait for it.
ReadersWait == \A p \in Procs : \A r \in reload[p].readers : req[r].pc = "reading" /\ ProcOf(r) = p

CachesAgree == \A p \in Procs : IsCopy(cache[p].rev, cache[p].data)

CredInv ==
  /\ TypeOK /\ (\A r \in Reqs : Agrees(r)) /\ ReadersWait /\ CachesAgree
  /\ RefreshOnce /\ OtherKeySurvives

\* Null is no number, process or call, and a call is made in a process.
Separate ==
  /\ Null \notin Nat \cup Reqs \cup Procs /\ Reqs \cap Procs = {}
  /\ \A r \in Reqs : ProcOf(r) \in Procs

\* A call agrees with the file as long as neither of them changes.
LEMMA StillAgrees ==
  ASSUME NEW s, Agrees(s), req'[s] = req[s], file' = file, token.soon \subseteq token'.soon,
         Holds(s) => lock' = s
  PROVE  Agrees(s)'
BY DEF Agrees, Holds, IsCopy

\* A step that leaves the file, the cache, the readers and the tokens alone.
LEMMA CallStep ==
  ASSUME CredInv, NEW r \in Reqs, NEW q \in Request, req' = [req EXCEPT ![r] = q],
         UNCHANGED <<file, cache, reload, token, aborted, count, seen>>, req[r].pc # "reading",
         lock' \in {Null} \cup Reqs \cup Procs, Agrees(r)',
         \A s \in Reqs \ {r} : Holds(s) => lock' = s
  PROVE  CredInv'
<1>1. req'[r] = q /\ \A s \in Reqs \ {r} : req'[s] = req[s]
  BY DEF CredInv, TypeOK
<1>2. TypeOK'
  BY DEF CredInv, TypeOK
<1>3. \A s \in Reqs : Agrees(s)'
  <2> SUFFICES ASSUME NEW s \in Reqs \ {r} PROVE Agrees(s)'
    OBVIOUS
  <2>1. Agrees(s) /\ req'[s] = req[s] /\ token.soon \subseteq token'.soon /\ (Holds(s) => lock' = s)
    BY <1>1 DEF CredInv
  <2>2. QED
    BY <2>1, StillAgrees
<1>4. ReadersWait'
  BY <1>1 DEF CredInv, ReadersWait, TypeOK, Reload
<1>5. CachesAgree' /\ RefreshOnce' /\ OtherKeySurvives'
  BY DEF CredInv, CachesAgree, IsCopy, RefreshOnce, OtherKeySurvives
<1>6. QED
  BY <1>2, <1>3, <1>4, <1>5 DEF CredInv

\* A call begins.
LEMMA StartStep ==
  ASSUME CredInv, NEW r \in Reqs, NEW kind \in Kinds, start(r, kind)
  PROVE  CredInv'
<1> DEFINE n == CASE kind = "login" -> token.issued + 1 [] kind = "key" -> count + 1 [] OTHER -> 0
           x == IF kind = "resolve" THEN "read" ELSE "wait"
           q == [req[r] EXCEPT !.kind = kind, !.pc = x, !.next = n]
<1>1. /\ token \in [issued : Nat, used : SUBSET Nat, soon : SUBSET Nat] /\ count \in Nat
      /\ req[r] \in Request /\ Agrees(r) /\ req[r].pc = "none"
  BY DEF CredInv, TypeOK, start
<1>2. n \in Nat /\ x \in Pcs
  BY <1>1 DEF Kinds, Pcs
<1>3. req' = [req EXCEPT ![r] = q]
  BY DEF start
<1> HIDE DEF n
<1>4. q \in Request /\ q.kind = kind /\ q.pc = x /\ q.rev = req[r].rev
  BY <1>1, <1>2 DEF Request
<1>5. /\ token' \in [issued : Nat, used : SUBSET Nat, soon : SUBSET Nat] /\ token'.used = token.used
      /\ token'.soon = token.soon /\ count' \in Nat
  BY <1>1 DEF start
<1>6. UNCHANGED <<file, lock, cache, reload, aborted, seen>>
  BY DEF start
<1> HIDE DEF q
<1>7. req'[r] = q /\ \A s \in Reqs \ {r} : req'[s] = req[s]
  BY <1>3 DEF CredInv, TypeOK
<1>8. TypeOK'
  BY <1>3, <1>4, <1>5, <1>6 DEF CredInv, TypeOK
<1>9. Agrees(r)'
  BY <1>1, <1>4, <1>7 DEF Agrees, Holds, Kinds
<1>10. ASSUME NEW s \in Reqs \ {r} PROVE Agrees(s)'
  <2>1. Agrees(s) /\ req'[s] = req[s] /\ (Holds(s) => lock' = s)
    BY <1>6, <1>7 DEF CredInv, Agrees
  <2>2. QED
    BY <1>5, <1>6, <2>1, StillAgrees
<1>11. ReadersWait'
  BY <1>1, <1>6, <1>7 DEF CredInv, ReadersWait, TypeOK, Reload
<1>12. CachesAgree' /\ RefreshOnce' /\ OtherKeySurvives'
  BY <1>5, <1>6 DEF CredInv, CachesAgree, IsCopy, RefreshOnce, OtherKeySurvives
<1>13. QED
  BY <1>8, <1>9, <1>10, <1>11, <1>12 DEF CredInv

\* A read answers from the cache, or joins the reload.
LEMMA ReadStep ==
  ASSUME CredInv, Separate, NEW r \in Reqs, read(r)
  PROVE  CredInv'
<1> DEFINE p == ProcOf(r)
<1>1. req[r] \in Request /\ Agrees(r) /\ req[r].pc = "read" /\ p \in Procs /\ cache[p].data.oauth \in Nat
  BY DEF CredInv, TypeOK, read, Separate, ContentRec
<1>2. UNCHANGED <<file, lock, cache, token, aborted, count, seen>>
  BY DEF read
<1>3. \A s \in Reqs \ {r} : Holds(s) => lock' = s
  BY <1>2 DEF CredInv, Agrees
<1>4. CASE cache[p].rev = file.rev
  <2> DEFINE q == Resolved(req[r], cache[p].data.oauth)
  <2>1. req' = [req EXCEPT ![r] = q] /\ UNCHANGED reload
    BY <1>4 DEF read
  <2>2. q \in Request /\ q.pc \in {"wait", "done"} /\ q.rev = req[r].rev /\ q.kind = req[r].kind
    BY <1>1 DEF Resolved, Request, Pcs
  <2> HIDE DEF q
  <2>3. req'[r] = q
    BY <2>1 DEF CredInv, TypeOK
  <2>4. Agrees(r)'
    BY <1>1, <2>2, <2>3 DEF Agrees, Holds, Kinds
  <2>5. lock' \in {Null} \cup Reqs \cup Procs
    BY <1>2 DEF CredInv, TypeOK
  <2>6. QED
    BY <1>1, <1>2, <1>3, <2>1, <2>2, <2>4, <2>5, CallStep
<1>5. CASE cache[p].rev # file.rev
  <2> DEFINE q == [req[r] EXCEPT !.pc = "reading"]
             l == [reload[p] EXCEPT !.readers = @ \cup {r}, !.pc = IF @ = "none" THEN "wait" ELSE @]
  <2>1. req' = [req EXCEPT ![r] = q]
    BY <1>5 DEF read
  <2>2. reload' = [reload EXCEPT ![p].readers = @ \cup {r}, ![p].pc = IF @ = "none" THEN "wait" ELSE @]
    BY <1>5 DEF read
  <2>3. reload[p] \in Reload /\ reload \in [Procs -> Reload]
    BY <1>1 DEF CredInv, TypeOK
  <2>4. /\ reload' \in [Procs -> Reload] /\ reload'[p].readers = reload[p].readers \cup {r}
        /\ \A o \in Procs \ {p} : reload'[o] = reload[o]
    BY <1>1, <2>2, <2>3 DEF Reload
  <2>5. q \in Request /\ q.pc = "reading" /\ q.rev = req[r].rev /\ q.kind = req[r].kind
    BY <1>1 DEF Request, Pcs
  <2> HIDE DEF q
  <2>6. req'[r] = q /\ \A s \in Reqs \ {r} : req'[s] = req[s]
    BY <2>1 DEF CredInv, TypeOK
  <2>7. TypeOK'
    BY <1>2, <2>1, <2>4, <2>5 DEF CredInv, TypeOK
  <2>8. Agrees(r)'
    BY <1>1, <2>5, <2>6 DEF Agrees, Holds
  <2>9. ASSUME NEW s \in Reqs \ {r} PROVE Agrees(s)'
    <3>1. Agrees(s) /\ token.soon \subseteq token'.soon
      BY <1>2 DEF CredInv
    <3>2. QED
      BY <1>2, <1>3, <2>6, <3>1, StillAgrees
  <2>10. ReadersWait'
    BY <1>1, <2>3, <2>4, <2>5, <2>6 DEF CredInv, ReadersWait, Reload
  <2>11. CachesAgree' /\ RefreshOnce' /\ OtherKeySurvives'
    BY <1>2 DEF CredInv, CachesAgree, IsCopy, RefreshOnce, OtherKeySurvives
  <2>12. QED
    BY <2>7, <2>8, <2>9, <2>10, <2>11 DEF CredInv
<1>6. QED
  BY <1>4, <1>5

\* The reload has the lock, and the cache has what it read.
LEMMA ReloadLockedStep ==
  ASSUME CredInv, Separate, NEW p \in Procs, reloadLocked(p)
  PROVE  CredInv'
<1> DEFINE d == file.data
<1>1. /\ lock = Null /\ lock' = p /\ UNCHANGED <<file, req, token, aborted, count, seen>>
      /\ cache' = [cache EXCEPT ![p] = [data |-> file.data, rev |-> file.rev]]
  BY DEF reloadLocked, Free
<1>2. reload' = [reload EXCEPT ![p].pc = "locked", ![p].data = d]
  BY DEF reloadLocked
<1>3. d \in ContentRec /\ file.rev \in Nat /\ reload \in [Procs -> Reload] /\ reload[p] \in Reload
  BY DEF CredInv, TypeOK
<1> HIDE DEF d
<1>4. reload' \in [Procs -> Reload] /\ \A o \in Procs : reload'[o].readers = reload[o].readers
  BY <1>2, <1>3 DEF Reload
<1>5. TypeOK'
  BY <1>1, <1>3, <1>4 DEF CredInv, TypeOK, d
<1>6. ASSUME NEW s \in Reqs PROVE Agrees(s)'
  <2>1. Agrees(s) /\ ~Holds(s)
    BY <1>1 DEF CredInv, Agrees, Separate
  <2>2. QED
    BY <1>1, <2>1, StillAgrees
<1>7. ReadersWait'
  BY <1>1, <1>4 DEF CredInv, ReadersWait
<1>8. CachesAgree'
  BY <1>1, <1>3 DEF CredInv, TypeOK, CachesAgree, IsCopy
<1>9. RefreshOnce' /\ OtherKeySurvives'
  BY <1>1 DEF CredInv, RefreshOnce, OtherKeySurvives
<1>10. QED
  BY <1>5, <1>6, <1>7, <1>8, <1>9 DEF CredInv

\* A reload's lock is released; no call held it.
LEMMA ReloadReleasedStep ==
  ASSUME CredInv, Separate, NEW p \in Procs, reloadReleased(p)
  PROVE  CredInv'
<1>1. lock = p /\ lock' = Null /\ UNCHANGED <<file, cache, req, token, aborted, count, seen>>
  BY DEF reloadReleased
<1>2. reload \in [Procs -> Reload]
  BY DEF CredInv, TypeOK
<1>3. reload' \in [Procs -> Reload] /\ \A o \in Procs : reload'[o].readers = reload[o].readers
  BY <1>2 DEF reloadReleased, Reload
<1>4. TypeOK'
  BY <1>1, <1>3 DEF CredInv, TypeOK
<1>5. ASSUME NEW s \in Reqs PROVE Agrees(s)'
  <2>1. Agrees(s) /\ ~Holds(s)
    BY <1>1 DEF CredInv, Agrees, Separate
  <2>2. QED
    BY <1>1, <2>1, StillAgrees
<1>6. ReadersWait'
  BY <1>1, <1>3 DEF CredInv, ReadersWait
<1>7. CachesAgree' /\ RefreshOnce' /\ OtherKeySurvives'
  BY <1>1 DEF CredInv, CachesAgree, IsCopy, RefreshOnce, OtherKeySurvives
<1>8. QED
  BY <1>4, <1>5, <1>6, <1>7 DEF CredInv

\* A reader goes on: it waits for the lock, or returns.
Onward(r, q) == q.pc \in {"wait", "done"} /\ q.rev = req[r].rev /\ q.kind = req[r].kind

\* A reload that is over sends its readers on, to wait for the lock or to return.
LEMMA ReadersMove ==
  ASSUME CredInv, Separate, NEW p \in Procs,
         reload' = [reload EXCEPT ![p] = NoReload],
         req' \in [Reqs -> Request],
         \A r \in Reqs \ reload[p].readers : req'[r] = req[r],
         \A r \in Reqs \cap reload[p].readers : Onward(r, req'[r]),
         UNCHANGED <<file, lock, cache, token, count, seen>>, aborted' \subseteq Reqs
  PROVE  CredInv'
<1>1. NoReload \in Reload
  BY DEF NoReload, Reload, NoData, ContentRec
<1>2. reload' \in [Procs -> Reload] /\ reload'[p].readers = {} /\ \A o \in Procs \ {p} : reload'[o] = reload[o]
  BY <1>1 DEF CredInv, TypeOK, NoReload
<1>3. TypeOK'
  BY <1>2 DEF CredInv, TypeOK
<1>4. ASSUME NEW s \in Reqs PROVE Agrees(s)'
  <2>1. Agrees(s)
    BY DEF CredInv
  <2>2. CASE s \in reload[p].readers
    <3>1. req[s].pc = "reading"
      BY <2>2 DEF CredInv, ReadersWait
    <3>2. QED
      BY <2>1, <2>2, <3>1 DEF Agrees, Holds, Onward
  <2>3. CASE s \notin reload[p].readers
    <3>1. req'[s] = req[s] /\ file' = file /\ token.soon \subseteq token'.soon /\ (Holds(s) => lock' = s)
      BY <2>1, <2>3 DEF Agrees
    <3>2. QED
      BY <2>1, <3>1, StillAgrees
  <2>4. QED
    BY <2>2, <2>3
<1>5. ReadersWait'
  <2> SUFFICES ASSUME NEW o \in Procs, NEW r \in reload'[o].readers
               PROVE  req'[r].pc = "reading" /\ ProcOf(r) = o
    BY DEF ReadersWait
  <2>1. o # p /\ r \in reload[o].readers
    BY <1>2
  <2>2. req[r].pc = "reading" /\ ProcOf(r) = o /\ r \in Reqs
    BY <2>1 DEF CredInv, ReadersWait, TypeOK, Reload
  <2>3. r \notin reload[p].readers
    BY <2>1, <2>2 DEF CredInv, ReadersWait
  <2>4. QED
    BY <2>2, <2>3
<1>6. CachesAgree' /\ RefreshOnce' /\ OtherKeySurvives'
  BY DEF CredInv, CachesAgree, IsCopy, RefreshOnce, OtherKeySurvives
<1>7. QED
  BY <1>3, <1>4, <1>5, <1>6 DEF CredInv

\* The readers of a reload share what it read, or its failure.
LEMMA ReloadEndsStep ==
  ASSUME CredInv, Separate, NEW p \in Procs, reloadResolved(p) \/ reloadFails(p)
  PROVE  CredInv'
<1> DEFINE t == reload[p].data.oauth
<1>1. t \in Nat /\ req \in [Reqs -> Request]
  BY DEF CredInv, TypeOK, Reload, ContentRec
<1>2. reload' = [reload EXCEPT ![p] = NoReload] /\ UNCHANGED <<file, lock, cache, token, aborted, count, seen>>
  BY DEF reloadResolved, reloadFails
<1>3. aborted' \subseteq Reqs
  BY <1>2 DEF CredInv, TypeOK
<1>4. CASE reloadResolved(p)
  <2>1. req' = [r \in Reqs |-> IF r \in reload[p].readers THEN Resolved(req[r], t) ELSE req[r]]
    BY <1>4 DEF reloadResolved, Told
  <2> HIDE DEF t
  <2>2. ASSUME NEW r \in Reqs
        PROVE  LET q == Resolved(req[r], t) IN q \in Request /\ Onward(r, q)
    <3>1. req[r] \in Request
      BY <1>1
    <3>2. QED
      BY <1>1, <3>1 DEF Resolved, Request, Pcs, Onward
  <2>3. /\ req' \in [Reqs -> Request]
        /\ \A r \in Reqs \ reload[p].readers : req'[r] = req[r]
        /\ \A r \in Reqs \cap reload[p].readers : Onward(r, req'[r])
    BY <1>1, <2>1, <2>2
  <2>4. QED
    BY <1>2, <1>3, <2>3, ReadersMove
<1>5. CASE reloadFails(p)
  <2> DEFINE f(r) == [req[r] EXCEPT !.pc = "done", !.why = "locked"]
  <2>1. req' = [r \in Reqs |-> IF r \in reload[p].readers THEN f(r) ELSE req[r]]
    BY <1>5 DEF reloadFails
  <2>2. ASSUME NEW r \in Reqs PROVE f(r) \in Request /\ Onward(r, f(r))
    <3>1. req[r] \in Request
      BY <1>1
    <3>2. QED
      BY <3>1 DEF Request, Pcs, Onward
  <2> HIDE DEF f
  <2>3. /\ req' \in [Reqs -> Request]
        /\ \A r \in Reqs \ reload[p].readers : req'[r] = req[r]
        /\ \A r \in Reqs \cap reload[p].readers : Onward(r, req'[r])
    BY <1>1, <2>1, <2>2
  <2>4. QED
    BY <1>2, <1>3, <2>3, ReadersMove
<1>6. QED
  BY <1>4, <1>5

\* A call has the lock, and reads the file.
LEMMA LockedStep ==
  ASSUME CredInv, Separate, NEW r \in Reqs, locked(r)
  PROVE  CredInv'
<1> DEFINE t == file.data.oauth
           k == [req[r] EXCEPT !.data = file.data]
           q == IF k.kind # "resolve" THEN [k EXCEPT !.pc = "write"]
                ELSE IF NeedsRefresh(t) THEN [k EXCEPT !.pc = "refresh"]
                ELSE [k EXCEPT !.pc = "unlock", !.result = t, !.rev = file.rev]
<1>1. /\ req[r] \in Request /\ Agrees(r) /\ req[r].pc = "wait" /\ lock = Null
      /\ file.data \in ContentRec /\ t \in Nat /\ file.rev \in Nat
  BY DEF CredInv, TypeOK, locked, Free, ContentRec
<1>2. lock' = r /\ UNCHANGED <<file, cache, reload, token, aborted, count, seen>>
  BY DEF locked
<1>3. req' = [req EXCEPT ![r] = q]
  BY DEF locked
<1>4. k \in Request /\ k.data = file.data /\ k.kind = req[r].kind /\ k.rev = Null
  BY <1>1 DEF Request, Agrees
<1> HIDE DEF k
<1>5. /\ q \in Request /\ q.data = file.data /\ q.kind = req[r].kind
      /\ q.pc \in {"write", "refresh", "unlock"}
      /\ q.pc = "refresh" => q.kind = "resolve" /\ t \in token.soon \ {0}
      /\ q.pc = "unlock" => q.rev = file.rev
      /\ q.pc # "unlock" => q.rev = Null
  BY <1>1, <1>4 DEF Request, Pcs, NeedsRefresh, expiresSoon
<1> HIDE DEF q
<1>6. req'[r] = q
  BY <1>3 DEF CredInv, TypeOK
<1>7. Agrees(r)'
  BY <1>1, <1>2, <1>5, <1>6 DEF Agrees, Holds, IsCopy
<1>8. \A s \in Reqs \ {r} : Holds(s) => lock' = s
  BY <1>1 DEF CredInv, Agrees, Separate
<1>9. lock' \in {Null} \cup Reqs \cup Procs
  BY <1>2
<1>10. QED
  BY <1>1, <1>2, <1>3, <1>5, <1>7, <1>8, <1>9, CallStep

\* A call does not get the lock.
LEMMA LockFailsStep ==
  ASSUME CredInv, NEW r \in Reqs, lockFails(r)
  PROVE  CredInv'
<1> DEFINE q == [req[r] EXCEPT !.pc = "done", !.why = "locked"]
<1>1. req[r] \in Request /\ req[r].pc = "wait" /\ lock \in {Null} \cup Reqs \cup Procs
  BY DEF CredInv, TypeOK, lockFails
<1>2. req' = [req EXCEPT ![r] = q] /\ UNCHANGED <<file, lock, cache, reload, token, aborted, count, seen>>
  BY DEF lockFails
<1>3. q \in Request /\ q.pc = "done" /\ q.kind = req[r].kind
  BY <1>1 DEF Request, Pcs
<1> HIDE DEF q
<1>4. req'[r] = q
  BY <1>2 DEF CredInv, TypeOK
<1>5. Agrees(r)'
  BY <1>1, <1>3, <1>4 DEF CredInv, Agrees, Holds
<1>6. \A s \in Reqs \ {r} : Holds(s) => lock' = s
  BY <1>2 DEF CredInv, Agrees
<1>7. QED
  BY <1>1, <1>2, <1>3, <1>5, <1>6, CallStep

\* The token presented is one whose expiry is near: it is the only one that becomes consumed.
LEMMA RefreshStep ==
  ASSUME CredInv, Separate, NEW r \in Reqs, refresh(r)
  PROVE  CredInv'
<1> DEFINE t == Presented(r)
           n == token.issued + 1
           a == [req[r] EXCEPT !.pc = "write", !.next = n]
           b == [req[r] EXCEPT !.pc = "unlock", !.why = "refused"]
<1>1. /\ req[r] \in Request /\ Agrees(r) /\ req[r].pc = "refresh" /\ t \in token.soon \ {0} /\ t \in Nat
      /\ token \in [issued : Nat, used : SUBSET Nat, soon : SUBSET Nat]
      /\ seen \in [key : Nat, refused : Nat]
  BY DEF CredInv, TypeOK, refresh, Presented, Agrees, Request, ContentRec
<1>2. UNCHANGED <<file, lock, cache, reload, aborted, count>>
  BY DEF refresh
<1>3. /\ req' = [req EXCEPT ![r] = a] \/ req' = [req EXCEPT ![r] = b]
      /\ token' = token \/ token' = [token EXCEPT !.issued = @ + 1, !.used = @ \cup {t}]
      /\ seen' = seen \/ seen' = [seen EXCEPT !.refused = @ + 1]
  BY DEF refresh
<1>4. n \in Nat
  BY <1>1
<1> HIDE DEF t, n
<1>5. a \in Request /\ a.pc = "write" /\ a.rev = req[r].rev /\ a.kind = req[r].kind /\ a.data = req[r].data
  BY <1>1, <1>4 DEF Request, Pcs
<1>6. b \in Request /\ b.pc = "unlock" /\ b.rev = req[r].rev /\ b.kind = req[r].kind /\ b.data = req[r].data
  BY <1>1 DEF Request, Pcs
<1>7. PICK q \in {a, b} : req' = [req EXCEPT ![r] = q]
  BY <1>3
<1>8. q \in Request /\ q.pc \in {"write", "unlock"} /\ q.rev = Null /\ q.kind = req[r].kind /\ q.data = req[r].data
  BY <1>1, <1>5, <1>6, <1>7 DEF Agrees
<1> HIDE DEF a, b
<1>9. /\ token' \in [issued : Nat, used : SUBSET Nat, soon : SUBSET Nat]
      /\ token'.soon = token.soon /\ token'.used \subseteq token.used \cup {t}
  <2>1. CASE token' = token
    BY <1>1, <2>1
  <2>2. CASE token' = [token EXCEPT !.issued = @ + 1, !.used = @ \cup {t}]
    <3> DEFINE u == token.used \cup {t}
               i == token.issued + 1
    <3>1. u \in SUBSET Nat /\ i \in Nat
      BY <1>1
    <3>2. token' = [token EXCEPT !.issued = i, !.used = u]
      BY <2>2
    <3>3. token' \in [issued : Nat, used : SUBSET Nat, soon : SUBSET Nat] /\ token'.soon = token.soon /\ token'.used = u
      <4> HIDE DEF u, i
      <4>1. QED
        BY <1>1, <3>1, <3>2
    <3>4. QED
      BY <3>3
  <2>3. QED
    BY <1>3, <2>1, <2>2
<1>10. seen' \in [key : Nat, refused : Nat] /\ seen'.key = seen.key
  BY <1>1, <1>3
<1>11. req'[r] = q /\ \A s \in Reqs \ {r} : req'[s] = req[s]
  BY <1>7 DEF CredInv, TypeOK
<1>12. TypeOK'
  BY <1>2, <1>7, <1>8, <1>9, <1>10 DEF CredInv, TypeOK
<1>13. Agrees(r)'
  BY <1>1, <1>2, <1>8, <1>11 DEF Agrees, Holds, IsCopy
<1>14. ASSUME NEW s \in Reqs \ {r} PROVE Agrees(s)'
  <2>1. Agrees(s) /\ (Holds(s) => lock' = s)
    BY <1>2 DEF CredInv, Agrees
  <2>2. QED
    BY <1>2, <1>9, <1>11, <2>1, StillAgrees
<1>15. ReadersWait'
  BY <1>1, <1>2, <1>11 DEF CredInv, ReadersWait, TypeOK, Reload
<1>16. CachesAgree' /\ OtherKeySurvives'
  BY <1>2, <1>10 DEF CredInv, CachesAgree, IsCopy, OtherKeySurvives
<1>17. RefreshOnce'
  BY <1>1, <1>9 DEF CredInv, RefreshOnce
<1>18. QED
  BY <1>12, <1>13, <1>14, <1>15, <1>16, <1>17 DEF CredInv

\* The file gets the changed credential beside the other one, which is still what it was under the
\* lock; copies with an older revision remain copies of what was.
LEMMA WriteStep ==
  ASSUME CredInv, Separate, NEW r \in Reqs, write(r)
  PROVE  CredInv'
<1>1. req[r] \in Request /\ Agrees(r) /\ req[r].pc = "write" /\ file \in [data : ContentRec, rev : Nat]
  BY DEF CredInv, TypeOK, write
<1>2. lock = r /\ req[r].data = file.data /\ req[r].rev = Null /\ UNCHANGED <<lock, cache, reload, token, aborted, count>>
  BY <1>1 DEF Agrees, Holds, write
<1>3. \A s \in Reqs \ {r} : ~Holds(s)
  BY <1>2 DEF CredInv, Agrees
<1>4. CASE r \in aborted
  <2> DEFINE q == [req[r] EXCEPT !.pc = "unlock", !.why = "aborted"]
  <2>1. req' = [req EXCEPT ![r] = q] /\ UNCHANGED <<file, seen>>
    BY <1>4 DEF write
  <2>2. q \in Request /\ q.pc = "unlock" /\ q.rev = Null /\ q.kind = req[r].kind /\ q.data = req[r].data
    BY <1>1, <1>2 DEF Request, Pcs
  <2> HIDE DEF q
  <2>3. req'[r] = q
    BY <2>1 DEF CredInv, TypeOK
  <2>4. Agrees(r)'
    BY <1>1, <1>2, <2>1, <2>2, <2>3 DEF Agrees, Holds, IsCopy
  <2>5. lock' \in {Null} \cup Reqs \cup Procs
    BY <1>2
  <2>6. QED
    BY <1>1, <1>2, <1>3, <2>1, <2>2, <2>4, <2>5, CallStep
<1>5. CASE r \notin aborted
  <2> DEFINE d == Merged(r)
             q == [req[r] EXCEPT !.pc = "unlock", !.data = d, !.result = req[r].next]
  <2>1. /\ file' = [data |-> d, rev |-> file.rev + 1]
        /\ req' = [req EXCEPT ![r] = q]
        /\ seen' = IF req[r].kind = "key" THEN [seen EXCEPT !.key = req[r].next] ELSE seen
    BY <1>5 DEF write
  <2>2. req[r].next \in Nat /\ file.data \in ContentRec /\ file.rev \in Nat
    BY <1>1 DEF Request
  <2>3. d \in ContentRec /\ d.key = IF req[r].kind = "key" THEN req[r].next ELSE file.data.key
    BY <1>2, <2>2 DEF Merged, Current, ContentRec
  <2> HIDE DEF d
  <2>4. q \in Request /\ q.pc = "unlock" /\ q.rev = Null /\ q.kind = req[r].kind /\ q.data = d
    BY <1>1, <1>2, <2>2, <2>3 DEF Request, Pcs
  <2> HIDE DEF q
  <2>5. req'[r] = q /\ \A s \in Reqs \ {r} : req'[s] = req[s]
    BY <2>1 DEF CredInv, TypeOK
  <2>6. file' \in [data : ContentRec, rev : Nat] /\ file'.data = d /\ file'.rev = file.rev + 1
    BY <2>1, <2>2, <2>3
  <2>7. seen \in [key : Nat, refused : Nat]
    BY DEF CredInv, TypeOK
  <2>8. seen' \in [key : Nat, refused : Nat] /\ seen'.key = IF req[r].kind = "key" THEN req[r].next ELSE seen.key
    BY <2>1, <2>2, <2>7
  <2>9. TypeOK'
    BY <1>2, <2>1, <2>4, <2>6, <2>8 DEF CredInv, TypeOK
  <2>10. \A rev \in Nat \cup {Null} : \A data : IsCopy(rev, data) => (rev # Null => rev <= file'.rev /\ rev # file'.rev)
    BY <2>2, <2>6 DEF IsCopy
  <2>11. Agrees(r)'
    BY <1>1, <1>2, <2>4, <2>5, <2>6 DEF Agrees, Holds, IsCopy
  <2>12. ASSUME NEW s \in Reqs \ {r} PROVE Agrees(s)'
    <3>1. Agrees(s) /\ ~Holds(s) /\ req'[s] = req[s] /\ req[s].rev \in Nat \cup {Null}
      BY <1>3, <2>5 DEF CredInv, TypeOK, Request
    <3>2. req[s].pc \in {"unlock", "unlocked"} => (IsCopy(req[s].rev, req[s].data))'
      BY <2>10, <3>1 DEF Agrees, IsCopy
    <3>3. QED
      BY <1>2, <3>1, <3>2 DEF Agrees, Holds
  <2>13. ReadersWait'
    BY <1>1, <1>2, <2>5 DEF CredInv, ReadersWait, TypeOK, Reload
  <2>14. CachesAgree'
    <3> SUFFICES ASSUME NEW p \in Procs PROVE (IsCopy(cache[p].rev, cache[p].data))'
      BY DEF CachesAgree
    <3>1. cache[p].rev \in Nat \cup {Null} /\ IsCopy(cache[p].rev, cache[p].data)
      BY DEF CredInv, TypeOK, CachesAgree
    <3>2. QED
      BY <1>2, <2>10, <3>1 DEF IsCopy
  <2>15. RefreshOnce' /\ OtherKeySurvives'
    BY <1>2, <2>3, <2>6, <2>8 DEF CredInv, RefreshOnce, OtherKeySurvives
  <2>16. QED
    BY <2>9, <2>11, <2>12, <2>13, <2>14, <2>15 DEF CredInv
<1>6. QED
  BY <1>4, <1>5

\* The lock is released, and what the call saw goes to the cache of its process.
LEMMA ReturnStep ==
  ASSUME CredInv, Separate, NEW r \in Reqs, unlock(r) \/ finish(r)
  PROVE  CredInv'
<1>1. req[r] \in Request /\ Agrees(r)
  BY DEF CredInv, TypeOK
<1>2. CASE unlock(r)
  <2> DEFINE q == [req[r] EXCEPT !.pc = "unlocked"]
  <2>1. /\ req' = [req EXCEPT ![r] = q] /\ lock' = Null
        /\ UNCHANGED <<file, cache, reload, token, aborted, count, seen>>
    BY <1>2 DEF unlock
  <2>2. q \in Request /\ q.pc = "unlocked" /\ q.rev = req[r].rev /\ q.kind = req[r].kind /\ q.data = req[r].data
    BY <1>1 DEF Request, Pcs
  <2> HIDE DEF q
  <2>3. req'[r] = q /\ req[r].pc = "unlock"
    BY <1>2, <2>1 DEF CredInv, TypeOK, unlock
  <2>4. Agrees(r)'
    BY <1>1, <2>1, <2>2, <2>3 DEF Agrees, Holds, IsCopy
  <2>5. \A s \in Reqs \ {r} : Holds(s) => lock' = s
    BY <1>1, <2>3 DEF CredInv, Agrees, Holds
  <2>6. QED
    BY <2>1, <2>2, <2>3, <2>4, <2>5, CallStep
<1>3. CASE finish(r)
  <2> DEFINE q == [req[r] EXCEPT !.pc = "done"]
             p == ProcOf(r)
             c == [data |-> req[r].data, rev |-> req[r].rev]
  <2>1. /\ req' = [req EXCEPT ![r] = q] /\ req[r].pc = "unlocked"
        /\ cache' = cache \/ cache' = [cache EXCEPT ![p] = c]
        /\ UNCHANGED <<file, lock, reload, token, aborted, count, seen>>
    BY <1>3 DEF finish, Revision
  <2>2. /\ q \in Request /\ q.pc = "done" /\ q.kind = req[r].kind /\ c \in [data : ContentRec, rev : Nat \cup {Null}]
        /\ IsCopy(c.rev, c.data)
    BY <1>1, <2>1 DEF Request, Pcs, Agrees
  <2> HIDE DEF q, c
  <2>3. req'[r] = q /\ \A s \in Reqs \ {r} : req'[s] = req[s]
    BY <2>1 DEF CredInv, TypeOK
  <2>4. /\ cache' \in [Procs -> [data : ContentRec, rev : Nat \cup {Null}]]
        /\ \A o \in Procs : cache'[o] = cache[o] \/ cache'[o] = c
    BY <2>1, <2>2 DEF CredInv, TypeOK
  <2>5. TypeOK'
    BY <2>1, <2>2, <2>4 DEF CredInv, TypeOK
  <2>6. Agrees(r)'
    BY <1>1, <2>1, <2>2, <2>3 DEF Agrees, Holds
  <2>7. ASSUME NEW s \in Reqs \ {r} PROVE Agrees(s)'
    <3>1. Agrees(s) /\ token.soon \subseteq token'.soon /\ (Holds(s) => lock' = s)
      BY <2>1 DEF CredInv, Agrees
    <3>2. QED
      BY <2>1, <2>3, <3>1, StillAgrees
  <2>8. ReadersWait'
    BY <2>1, <2>3 DEF CredInv, ReadersWait, TypeOK, Reload
  <2>9. CachesAgree'
    BY <2>1, <2>2, <2>4 DEF CredInv, CachesAgree, IsCopy
  <2>10. RefreshOnce' /\ OtherKeySurvives'
    BY <2>1 DEF CredInv, RefreshOnce, OtherKeySurvives
  <2>11. QED
    BY <2>5, <2>6, <2>7, <2>8, <2>9, <2>10 DEF CredInv
<1>4. QED
  BY <1>2, <1>3

\* A token comes close to its expiry.
LEMMA ExpireStep ==
  ASSUME CredInv, expire PROVE CredInv'
<1>1. token \in [issued : Nat, used : SUBSET Nat, soon : SUBSET Nat]
  BY DEF CredInv, TypeOK
<1>2. /\ token' \in [issued : Nat, used : SUBSET Nat, soon : SUBSET Nat]
      /\ token.soon \subseteq token'.soon /\ token'.used = token.used
  BY <1>1 DEF expire
<1>3. UNCHANGED <<file, lock, cache, reload, req, aborted, count, seen>>
  BY DEF expire
<1>4. TypeOK'
  BY <1>2, <1>3 DEF CredInv, TypeOK
<1>5. ASSUME NEW s \in Reqs PROVE Agrees(s)'
  <2>1. Agrees(s) /\ req'[s] = req[s] /\ (Holds(s) => lock' = s)
    BY <1>3 DEF CredInv, Agrees
  <2>2. QED
    BY <1>2, <1>3, <2>1, StillAgrees
<1>6. ReadersWait' /\ CachesAgree' /\ OtherKeySurvives'
  BY <1>3 DEF CredInv, ReadersWait, CachesAgree, IsCopy, OtherKeySurvives
<1>7. RefreshOnce'
  BY <1>2 DEF CredInv, RefreshOnce
<1>8. QED
  BY <1>4, <1>5, <1>6, <1>7 DEF CredInv

\* An abort ends a call that reads or waits, and the reload nobody else waits for; its readers are
\* no longer those of any reload.
LEMMA AbortStep ==
  ASSUME CredInv, Separate, NEW r \in Reqs, abort(r)
  PROVE  CredInv'
<1> DEFINE p == ProcOf(r)
           over == req[r].pc = "reading" /\ Abandoned(p, r)
           e(q) == [req[q] EXCEPT !.pc = "done", !.why = "aborted"]
           Ends(q) == \/ q = r /\ req[r].pc \in {"read", "reading", "wait"}
                      \/ over /\ q \in reload[p].readers
<1>1. /\ req \in [Reqs -> Request] /\ reload \in [Procs -> Reload] /\ p \in Procs
      /\ aborted' \subseteq Reqs /\ UNCHANGED <<file, lock, cache, token, count, seen>>
  BY DEF CredInv, TypeOK, abort, Separate
<1>2. \A q \in Reqs : e(q) \in Request /\ e(q).pc = "done" /\ e(q).kind = req[q].kind
  <2> SUFFICES ASSUME NEW q \in Reqs PROVE e(q) \in Request /\ e(q).pc = "done" /\ e(q).kind = req[q].kind
    OBVIOUS
  <2>1. req[q] \in Request
    BY <1>1
  <2>2. QED
    BY <2>1 DEF Request, Pcs
<1>3. req' = [q \in Reqs |-> IF Ends(q) THEN e(q) ELSE req[q]]
  BY DEF abort
<1>4. reload' = IF over THEN [reload EXCEPT ![p] = NoReload] ELSE [reload EXCEPT ![p].readers = @ \ {r}]
  BY DEF abort
<1> HIDE DEF e
<1>5. over => reload[p].readers = {r}
  BY DEF Abandoned
<1>6. \A q \in Reqs : Ends(q) => q = r /\ req[q].pc \in {"read", "reading", "wait"}
  BY <1>5
<1>7. \A q \in Reqs : req'[q] = req[q] \/ (q = r /\ req'[q].pc = "done" /\ req'[q] \in Request /\ req'[q].kind = req[q].kind /\ req[q].pc # "none")
  BY <1>2, <1>3, <1>6
<1>8. req[r].pc \in {"read", "reading", "wait"} => req'[r].pc = "done"
  BY <1>2, <1>3
<1>9. /\ reload' \in [Procs -> Reload] /\ reload'[p].readers \subseteq reload[p].readers \ {r}
      /\ \A o \in Procs \ {p} : reload'[o] = reload[o]
  <2>1. CASE over
    <3>1. NoReload \in Reload /\ NoReload.readers = {}
      BY DEF NoReload, Reload, NoData, ContentRec
    <3>2. reload' = [reload EXCEPT ![p] = NoReload]
      BY <1>4, <2>1
    <3>3. QED
      BY <1>1, <3>1, <3>2
  <2>2. CASE ~over
    <3>1. reload' = [reload EXCEPT ![p].readers = @ \ {r}] /\ reload[p] \in Reload
      BY <1>1, <1>4, <2>2
    <3>2. QED
      BY <1>1, <3>1 DEF Reload
  <2>3. QED
    BY <2>1, <2>2
<1> HIDE DEF over, Ends
<1>10. req' \in [Reqs -> Request]
  BY <1>1, <1>3, <1>7
<1>11. TypeOK'
  BY <1>1, <1>9, <1>10 DEF CredInv, TypeOK
<1>12. ASSUME NEW s \in Reqs PROVE Agrees(s)'
  <2>1. Agrees(s)
    BY DEF CredInv
  <2>2. CASE req'[s] = req[s]
    <3>1. token.soon \subseteq token'.soon /\ (Holds(s) => lock' = s)
      BY <1>1, <2>1 DEF Agrees
    <3>2. QED
      BY <1>1, <2>1, <2>2, <3>1, StillAgrees
  <2>3. CASE req'[s].pc = "done" /\ req'[s].kind = req[s].kind /\ req[s].pc # "none"
    BY <2>1, <2>3 DEF Agrees, Holds
  <2>4. QED
    BY <1>7, <2>2, <2>3
<1>13. ReadersWait'
  <2> SUFFICES ASSUME NEW o \in Procs, NEW s \in reload'[o].readers
               PROVE  req'[s].pc = "reading" /\ ProcOf(s) = o
    BY DEF ReadersWait
  <2>1. s \in reload[o].readers /\ s # r
    <3>1. CASE o = p
      BY <1>9, <3>1
    <3>2. CASE o # p
      <4>1. s \in reload[o].readers
        BY <1>9, <3>2
      <4>2. ProcOf(s) = o
        BY <4>1 DEF CredInv, ReadersWait
      <4>3. QED
        BY <3>2, <4>1, <4>2
    <3>3. QED
      BY <3>1, <3>2
  <2>2. req[s].pc = "reading" /\ ProcOf(s) = o /\ s \in Reqs
    BY <1>1, <2>1 DEF CredInv, ReadersWait, Reload
  <2>3. QED
    BY <1>7, <2>1, <2>2
<1>14. CachesAgree' /\ RefreshOnce' /\ OtherKeySurvives'
  BY <1>1 DEF CredInv, CachesAgree, IsCopy, RefreshOnce, OtherKeySurvives
<1>15. QED
  BY <1>11, <1>12, <1>13, <1>14 DEF CredInv

\* The file has the first token, and nobody has read anything.
LEMMA InitCredentials == ASSUME Separate, Init PROVE CredInv
<1>1. NoData \in ContentRec /\ NoReq \in Request /\ NoReload \in Reload
  BY DEF NoData, ContentRec, NoReq, Request, Pcs, NoReload, Reload
<1>2. TypeOK
  <2>1. file \in [data : ContentRec, rev : Nat]
    BY DEF Init, ContentRec
  <2>2. cache \in [Procs -> [data : ContentRec, rev : Nat \cup {Null}]]
    BY <2>1 DEF Init
  <2>3. reload \in [Procs -> Reload] /\ req \in [Reqs -> Request] /\ lock = Null
    BY <1>1 DEF Init
  <2>4. token \in [issued : Nat, used : SUBSET Nat, soon : SUBSET Nat] /\ seen \in [key : Nat, refused : Nat]
    BY DEF Init
  <2>5. QED
    BY <2>1, <2>2, <2>3, <2>4 DEF Init, TypeOK
<1>3. \A r \in Reqs : Agrees(r)
  BY DEF Init, NoReq, Agrees, Holds
<1>4. ReadersWait
  BY DEF Init, NoReload, ReadersWait
<1>5. CachesAgree
  BY DEF Init, CachesAgree, IsCopy
<1>6. RefreshOnce /\ OtherKeySurvives
  BY DEF Init, RefreshOnce, OtherKeySurvives
<1>7. QED
  BY <1>2, <1>3, <1>4, <1>5, <1>6 DEF CredInv

\* Every step keeps the invariant.
LEMMA CredStep == ASSUME CredInv, Separate, [Next]_vars PROVE CredInv'
<1>1. CASE UNCHANGED vars
  BY <1>1 DEF vars, CredInv, TypeOK, Agrees, Holds, IsCopy, ReadersWait, CachesAgree, RefreshOnce, OtherKeySurvives
<1>2. ASSUME NEW p \in Procs, reloadLocked(p) \/ reloadReleased(p) \/ reloadResolved(p) \/ reloadFails(p)
      PROVE  CredInv'
  BY <1>2, ReloadLockedStep, ReloadReleasedStep, ReloadEndsStep
<1>3. ASSUME NEW r \in Reqs, read(r) \/ locked(r) \/ lockFails(r) \/ refresh(r) \/ write(r) \/ unlock(r) \/ finish(r)
      PROVE  CredInv'
  BY <1>3, ReadStep, LockedStep, LockFailsStep, RefreshStep, WriteStep, ReturnStep
<1>4. ASSUME NEW r \in Reqs, abort(r) PROVE CredInv'
  BY <1>4, AbortStep
<1>5. ASSUME NEW r \in Reqs, NEW kind \in Kinds, start(r, kind) PROVE CredInv'
  BY <1>5, StartStep
<1>6. QED
  BY <1>1, <1>2, <1>3, <1>4, <1>5, ExpireStep DEF Next, Program, Kinds

\* The provider is asked once for a token near its expiry, whichever processes and calls see it; the
\* change of one provider's credential keeps that of another; and the cache answers with the file's
\* credentials whenever it takes its copy for current (auth-storage.ts, resolve.ts).
THEOREM RefreshedOnce == ASSUME Separate PROVE Spec => [](RefreshOnce /\ OtherKeySurvives /\ CacheIsHonest)
<1>1. Init => CredInv
  BY InitCredentials
<1>2. CredInv /\ [Next]_vars => CredInv'
  BY CredStep
<1>3. CredInv => RefreshOnce /\ OtherKeySurvives /\ CacheIsHonest
  <2> SUFFICES ASSUME CredInv, NEW p \in Procs, cache[p].rev = file.rev PROVE cache[p].data = file.data
    BY DEF CredInv, CacheIsHonest
  <2>1. file.rev \in Nat
    BY DEF CredInv, TypeOK
  <2>2. QED
    BY <2>1 DEF CredInv, CachesAgree, IsCopy, Separate
<1>4. QED
  BY <1>1, <1>2, <1>3, PTL DEF Spec

-----------------------------------------------------------------------------
(* While no call is aborted, the file rests on a consumed token only between  *)
(* the provider's answer and the write, under the lock.                      *)

\* A refresh that has its answer, and a call that is going to write a token.
Rotates(r) == req[r].kind = "resolve" /\ req[r].pc = "write"
Brings(r) == Rotates(r) \/ (req[r].kind = "login" /\ req[r].pc \in {"wait", "write"})

Tokens ==
  /\ token.used \subseteq 1..token.issued /\ file.data.oauth <= token.issued
  /\ \A r \in Reqs : Brings(r) => /\ req[r].next \in 1..token.issued /\ req[r].next \notin token.used
                                  /\ req[r].next # file.data.oauth
  /\ \A r, s \in Reqs : Brings(r) /\ Brings(s) /\ r # s => req[r].next # req[s].next
  /\ file.data.oauth \in token.used => \E r \in Reqs : Rotates(r)
  /\ seen.refused = 0

\* The tokens stay as they are when no call begins to bring one, and none ends to rotate one.
LEMMA TokensStay ==
  ASSUME Tokens, UNCHANGED <<file, seen>>, token'.used = token.used, token'.issued = token.issued,
         \A s \in Reqs : /\ Brings(s)' => Brings(s) /\ req'[s].next = req[s].next
                         /\ Rotates(s) => Rotates(s)'
  PROVE  Tokens'
BY DEF Tokens

\* A call that goes to another place brings what it brought before, and rotates nothing anew.
LEMMA OneMoves ==
  ASSUME CredInv, Tokens, UNCHANGED <<file, token, seen>>, NEW r \in Reqs, NEW q, req' = [req EXCEPT ![r] = q],
         q.kind = req[r].kind, q.next = req[r].next, req[r].pc # "write",
         q.pc \in {"reading", "refresh", "unlock", "unlocked", "done"} \/ (q.kind = "resolve" /\ q.pc = "wait")
           \/ (q.kind # "resolve" /\ q.pc = "write" /\ req[r].pc = "wait")
  PROVE  Tokens'
<1>1. req'[r] = q /\ \A s \in Reqs \ {r} : req'[s] = req[s]
  BY DEF CredInv, TypeOK
<1>2. ASSUME NEW s \in Reqs
      PROVE  (Brings(s)' => Brings(s) /\ req'[s].next = req[s].next) /\ (Rotates(s) => Rotates(s)')
  <2>1. CASE s = r
    BY <1>1, <2>1 DEF Brings, Rotates
  <2>2. CASE s # r
    BY <1>1, <2>2 DEF Brings, Rotates
  <2>3. QED
    BY <2>1, <2>2
<1>3. QED
  BY <1>2, TokensStay

\* A login's token is a new one.
LEMMA StartTokens ==
  ASSUME CredInv, Tokens, NEW r \in Reqs, NEW kind \in Kinds, start(r, kind)
  PROVE  Tokens'
<1> DEFINE n == CASE kind = "login" -> token.issued + 1 [] kind = "key" -> count + 1 [] OTHER -> 0
           x == IF kind = "resolve" THEN "read" ELSE "wait"
           q == [req[r] EXCEPT !.kind = kind, !.pc = x, !.next = n]
<1>1. /\ token \in [issued : Nat, used : SUBSET Nat, soon : SUBSET Nat] /\ file.data.oauth \in Nat
      /\ req[r] \in Request /\ req[r].pc = "none"
  BY DEF CredInv, TypeOK, ContentRec, start
<1>2. req' = [req EXCEPT ![r] = q] /\ UNCHANGED <<file, seen>>
  BY DEF start
<1>3. q.kind = kind /\ q.pc = x /\ q.next = n
  BY <1>1 DEF Request
<1>4. kind = "login" => n = token.issued + 1 /\ token'.issued = token.issued + 1
  BY <1>1 DEF start
<1>5. token'.used = token.used /\ token'.issued \in {token.issued, token.issued + 1} /\ token.issued \in Nat
  BY <1>1 DEF start
<1> HIDE DEF n, q
<1>6. req'[r] = q /\ \A s \in Reqs \ {r} : req'[s] = req[s]
  BY <1>2 DEF CredInv, TypeOK
<1>7. /\ Brings(r)' => kind = "login" /\ req'[r].next = token.issued + 1 /\ token'.issued = token.issued + 1
      /\ ~Rotates(r) /\ ~Rotates(r)'
  BY <1>1, <1>3, <1>4, <1>6 DEF Brings, Rotates, Kinds
<1>8. \A s \in Reqs \ {r} : (Brings(s)' <=> Brings(s)) /\ (Rotates(s)' <=> Rotates(s)) /\ req'[s].next = req[s].next
  BY <1>6 DEF Brings, Rotates
<1>9. \A i \in 1..token.issued : i \in 1..token'.issued /\ i # token.issued + 1
  BY <1>5
<1>10. token'.used \subseteq 1..token'.issued /\ file'.data.oauth <= token'.issued
  BY <1>1, <1>2, <1>5, <1>9 DEF Tokens
<1>11. ASSUME NEW s \in Reqs, Brings(s)'
       PROVE  req'[s].next \in 1..token'.issued /\ req'[s].next \notin token'.used /\ req'[s].next # file'.data.oauth
  <2>1. CASE s = r
    BY <1>1, <1>2, <1>5, <1>7, <1>9, <1>11, <2>1 DEF Tokens
  <2>2. CASE s # r
    BY <1>2, <1>5, <1>8, <1>9, <1>11, <2>2 DEF Tokens
  <2>3. QED
    BY <2>1, <2>2
<1>12. ASSUME NEW s \in Reqs, NEW u \in Reqs, Brings(s)', Brings(u)', s # u PROVE req'[s].next # req'[u].next
  BY <1>7, <1>8, <1>9, <1>12 DEF Tokens
<1>13. file'.data.oauth \in token'.used => \E s \in Reqs : Rotates(s)'
  BY <1>2, <1>5, <1>7, <1>8 DEF Tokens
<1>14. QED
  BY <1>2, <1>10, <1>11, <1>12, <1>13 DEF Tokens

\* The provider's answer: the token consumed is the file's, which nobody brings, and another refresh
\* that has its answer would hold the lock.
LEMMA RefreshTokens ==
  ASSUME CredInv, Separate, Tokens, NEW r \in Reqs, refresh(r)
  PROVE  Tokens'
<1> DEFINE t == Presented(r)
           n == token.issued + 1
<1>1. /\ req[r] \in Request /\ Agrees(r) /\ req[r].pc = "refresh" /\ req[r].kind = "resolve"
      /\ token \in [issued : Nat, used : SUBSET Nat, soon : SUBSET Nat]
      /\ file.data.oauth \in Nat
  BY DEF CredInv, TypeOK, refresh, Agrees, ContentRec
<1>2. t = file.data.oauth /\ t # 0 /\ lock = r /\ UNCHANGED file
  BY <1>1 DEF Presented, Agrees, Holds, refresh
<1>3. \A s \in Reqs : ~Rotates(s)
  BY <1>1, <1>2 DEF CredInv, Agrees, Holds, Rotates
<1>4. t \notin token.used
  BY <1>2, <1>3 DEF Tokens
<1>5. UNCHANGED seen
  BY <1>4 DEF refresh
<1>6. CASE token' = token /\ req' = [req EXCEPT ![r].pc = "unlock", ![r].why = "refused"]
  <2> DEFINE q == [req[r] EXCEPT !.pc = "unlock", !.why = "refused"]
  <2>1. req' = [req EXCEPT ![r] = q]
    BY <1>6
  <2>2. q.pc = "unlock" /\ q.kind = req[r].kind /\ q.next = req[r].next
    BY <1>1 DEF Request
  <2> HIDE DEF q
  <2>3. QED
    BY <1>1, <1>2, <1>5, <1>6, <2>1, <2>2, OneMoves
<1>7. CASE /\ token' = [token EXCEPT !.issued = @ + 1, !.used = @ \cup {t}]
           /\ req' = [req EXCEPT ![r].pc = "write", ![r].next = token.issued + 1]
  <2> DEFINE q == [req[r] EXCEPT !.pc = "write", !.next = n]
  <2>1. req' = [req EXCEPT ![r] = q]
    BY <1>7
  <2>2. n \in Nat
    BY <1>1
  <2>3. token'.issued = n /\ token'.used = token.used \cup {t}
    BY <1>1, <1>7
  <2>4. \A i \in 1..token.issued : i \in 1..n /\ i # n
    BY <1>1
  <2>5. t \in 1..token.issued /\ n \in 1..n
    BY <1>1, <1>2, <2>2 DEF Tokens
  <2> HIDE DEF n, t
  <2>6. q.pc = "write" /\ q.kind = "resolve" /\ q.next = n
    BY <1>1 DEF Request
  <2> HIDE DEF q
  <2>7. req'[r] = q /\ \A s \in Reqs \ {r} : req'[s] = req[s]
    BY <2>1 DEF CredInv, TypeOK
  <2>8. Rotates(r)'
    BY <2>6, <2>7 DEF Rotates
  <2>9. \A s \in Reqs \ {r} : (Brings(s)' <=> Brings(s)) /\ req'[s].next = req[s].next
    BY <2>7 DEF Brings, Rotates
  <2>10. n # t /\ n \notin token.used
    BY <2>4, <2>5 DEF Tokens
  <2>11. token'.used \subseteq 1..token'.issued /\ file'.data.oauth <= token'.issued
    BY <1>2, <2>2, <2>3, <2>4, <2>5 DEF Tokens
  <2>12. ASSUME NEW s \in Reqs, Brings(s)'
         PROVE  req'[s].next \in 1..token'.issued /\ req'[s].next \notin token'.used /\ req'[s].next # file'.data.oauth
    <3>1. CASE s = r
      BY <1>2, <2>3, <2>5, <2>6, <2>7, <2>10, <3>1
    <3>2. CASE s # r
      BY <1>2, <2>3, <2>4, <2>9, <2>12, <3>2 DEF Tokens
    <3>3. QED
      BY <3>1, <3>2
  <2>13. ASSUME NEW s \in Reqs, NEW u \in Reqs, Brings(s)', Brings(u)', s # u PROVE req'[s].next # req'[u].next
    <3>1. \A v \in Reqs \ {r} : Brings(v)' => req'[v].next # n
      BY <2>4, <2>9 DEF Tokens
    <3>2. req'[r].next = n
      BY <2>6, <2>7
    <3>3. CASE s = r \/ u = r
      BY <2>13, <3>1, <3>2, <3>3
    <3>4. CASE s # r /\ u # r
      BY <2>9, <2>13, <3>4 DEF Tokens
    <3>5. QED
      BY <3>3, <3>4
  <2>14. QED
    BY <1>5, <2>8, <2>11, <2>12, <2>13 DEF Tokens
<1>8. QED
  BY <1>4, <1>6, <1>7 DEF refresh

\* What is written is a token nobody has consumed; no other call has the answer to a refresh.
LEMMA WriteTokens ==
  ASSUME CredInv, Separate, Tokens, NEW r \in Reqs, write(r), r \notin aborted
  PROVE  Tokens'
<1> DEFINE d == Merged(r)
           q == [req[r] EXCEPT !.pc = "unlock", !.data = d, !.result = req[r].next]
<1>1. /\ req[r] \in Request /\ Agrees(r) /\ req[r].pc = "write" /\ file.data \in ContentRec
      /\ token \in [issued : Nat, used : SUBSET Nat, soon : SUBSET Nat] /\ seen \in [key : Nat, refused : Nat]
  BY DEF CredInv, TypeOK, write
<1>2. lock = r /\ req[r].data = file.data /\ UNCHANGED token
  BY <1>1 DEF Agrees, Holds, write
<1>3. /\ file' = [data |-> d, rev |-> file.rev + 1] /\ req' = [req EXCEPT ![r] = q]
      /\ seen' = seen \/ seen' = [seen EXCEPT !.key = req[r].next]
  BY DEF write
<1>4. /\ d.oauth \in {file.data.oauth, 0, req[r].next}
      /\ d.oauth = file.data.oauth => req[r].kind = "key" \/ d.oauth \in {0, req[r].next}
      /\ req[r].kind = "key" => d.oauth = file.data.oauth
      /\ req[r].kind # "key" => d.oauth = IF req[r].kind = "logout" THEN 0 ELSE req[r].next
  BY <1>1, <1>2 DEF Merged, Current, ContentRec
<1>5. q.pc = "unlock"
  BY <1>1 DEF Request
<1> HIDE DEF q, d
<1>6. req'[r] = q /\ \A s \in Reqs \ {r} : req'[s] = req[s]
  BY <1>3 DEF CredInv, TypeOK
<1>7. file'.data.oauth = d.oauth /\ seen'.refused = 0
  BY <1>1, <1>3 DEF Tokens
<1>8. /\ ~Brings(r)' /\ \A s \in Reqs \ {r} : (Brings(s)' <=> Brings(s)) /\ req'[s].next = req[s].next
      /\ \A s \in Reqs \ {r} : ~Rotates(s)
  BY <1>2, <1>5, <1>6 DEF Brings, Rotates, CredInv, Agrees, Holds
<1>9. req[r].kind \in {"login", "resolve"} => Brings(r)
  BY <1>1 DEF Brings, Rotates
<1>10. req[r].kind \in Kinds
  BY <1>1 DEF Agrees
<1>11. token'.used \subseteq 1..token'.issued /\ token.issued \in Nat /\ 0 \notin 1..token.issued
  BY <1>1, <1>2 DEF Tokens
<1>12. req[r].kind = "key" => file.data.oauth \notin token.used
  BY <1>8 DEF Tokens, Rotates
<1>13. /\ d.oauth <= token.issued /\ d.oauth \notin token.used
       /\ \A s \in Reqs \ {r} : Brings(s) => req[s].next # d.oauth
  <2>1. CASE req[r].kind = "key"
    <3>1. d.oauth = file.data.oauth /\ file.data.oauth \notin token.used
      BY <1>4, <1>12, <2>1
    <3>2. QED
      BY <3>1 DEF Tokens
  <2>2. CASE req[r].kind = "logout"
    <3>1. d.oauth = 0
      BY <1>4, <2>2
    <3>2. QED
      BY <1>2, <1>11, <3>1 DEF Tokens
  <2>3. CASE req[r].kind \in {"login", "resolve"}
    <3>1. d.oauth = req[r].next /\ Brings(r)
      BY <1>4, <1>9, <2>3
    <3>2. QED
      BY <1>11, <3>1 DEF Tokens
  <2>4. QED
    BY <1>10, <2>1, <2>2, <2>3 DEF Kinds
<1>14. \A s \in Reqs : Brings(s)' => s # r /\ Brings(s) /\ req'[s].next = req[s].next
  BY <1>8
<1>15. QED
  BY <1>2, <1>7, <1>11, <1>13, <1>14 DEF Tokens

\* The other steps bring no token and consume none.
LEMMA OtherTokens ==
  ASSUME CredInv, Separate, Tokens, Program \/ expire, \A r \in Reqs : ~refresh(r) /\ ~write(r)
  PROVE  Tokens'
<1>1. ASSUME NEW p \in Procs, reloadLocked(p) \/ reloadReleased(p) PROVE Tokens'
  <2>1. UNCHANGED <<file, req, token, seen>>
    BY <1>1 DEF reloadLocked, reloadReleased
  <2>2. QED
    BY <2>1, TokensStay DEF Brings, Rotates
<1>2. ASSUME NEW p \in Procs, reloadResolved(p) \/ reloadFails(p) PROVE Tokens'
  <2>1. UNCHANGED <<file, token, seen>>
    BY <1>2 DEF reloadResolved, reloadFails
  <2>2. ASSUME NEW s \in Reqs PROVE req'[s] = req[s] \/ (~Brings(s)' /\ ~Rotates(s))
    <3>1. CASE s \in reload[p].readers
      <4>1. req[s].pc = "reading" /\ req[s].kind = "resolve" /\ req[s] \in Request
        BY <3>1 DEF CredInv, TypeOK, ReadersWait, Agrees
      <4>2. CASE reloadResolved(p)
        <5>1. req'[s] = Resolved(req[s], reload[p].data.oauth)
          BY <3>1, <4>2 DEF reloadResolved, Told
        <5>2. Resolved(req[s], reload[p].data.oauth).pc \in {"wait", "done"} /\ Resolved(req[s], reload[p].data.oauth).kind = "resolve"
          BY <4>1 DEF Resolved, Request
        <5>3. QED
          BY <4>1, <5>1, <5>2 DEF Brings, Rotates
      <4>3. CASE reloadFails(p)
        <5>1. req'[s] = [req[s] EXCEPT !.pc = "done", !.why = "locked"]
          BY <3>1, <4>3 DEF reloadFails
        <5>2. req'[s].pc = "done"
          BY <4>1, <5>1 DEF Request
        <5>3. QED
          BY <4>1, <5>2 DEF Brings, Rotates
      <4>4. QED
        BY <1>2, <4>2, <4>3
    <3>2. CASE s \notin reload[p].readers
      BY <1>2, <3>2 DEF reloadResolved, reloadFails, Told
    <3>3. QED
      BY <3>1, <3>2
  <2>3. \A s \in Reqs : /\ Brings(s)' => Brings(s) /\ req'[s].next = req[s].next
                        /\ Rotates(s) => Rotates(s)'
    BY <2>2 DEF Brings, Rotates
  <2>4. QED
    BY <2>1, <2>3, TokensStay
<1>3. ASSUME NEW r \in Reqs, read(r) PROVE Tokens'
  <2> DEFINE p == ProcOf(r)
             a == Resolved(req[r], cache[p].data.oauth)
             b == [req[r] EXCEPT !.pc = "reading"]
  <2>1. req' = [req EXCEPT ![r] = a] \/ req' = [req EXCEPT ![r] = b]
    BY <1>3 DEF read
  <2>2. req[r] \in Request /\ req[r].pc = "read" /\ req[r].kind = "resolve" /\ UNCHANGED <<file, token, seen>>
    BY <1>3 DEF CredInv, TypeOK, Agrees, read
  <2>3. /\ a.pc \in {"wait", "done"} /\ a.kind = "resolve" /\ a.next = req[r].next
        /\ b.pc = "reading" /\ b.kind = "resolve" /\ b.next = req[r].next
    BY <2>2 DEF Resolved, Request
  <2> HIDE DEF a, b
  <2>4. QED
    BY <2>1, <2>2, <2>3, OneMoves
<1>4. ASSUME NEW r \in Reqs, locked(r) PROVE Tokens'
  <2> DEFINE t == file.data.oauth
             k == [req[r] EXCEPT !.data = file.data]
             q == IF k.kind # "resolve" THEN [k EXCEPT !.pc = "write"]
                  ELSE IF NeedsRefresh(t) THEN [k EXCEPT !.pc = "refresh"]
                  ELSE [k EXCEPT !.pc = "unlock", !.result = t, !.rev = file.rev]
  <2>1. req[r] \in Request /\ req[r].pc = "wait" /\ file.data \in ContentRec
    BY <1>4 DEF CredInv, TypeOK, locked
  <2>2. req' = [req EXCEPT ![r] = q] /\ UNCHANGED <<file, token, seen>>
    BY <1>4 DEF locked
  <2>3. k \in Request /\ k.kind = req[r].kind /\ k.next = req[r].next
    BY <2>1 DEF Request
  <2> HIDE DEF k
  <2>4. /\ q.kind = req[r].kind /\ q.next = req[r].next
        /\ q.pc \in {"refresh", "unlock"} \/ (q.kind # "resolve" /\ q.pc = "write")
    BY <2>3 DEF Request
  <2> HIDE DEF q
  <2>5. QED
    BY <2>1, <2>2, <2>4, OneMoves
<1>5. ASSUME NEW r \in Reqs, lockFails(r) \/ unlock(r) \/ finish(r) PROVE Tokens'
  <2> DEFINE a == [req[r] EXCEPT !.pc = "done", !.why = "locked"]
             b == [req[r] EXCEPT !.pc = "unlocked"]
             c == [req[r] EXCEPT !.pc = "done"]
  <2>1. PICK q \in {a, b, c} : req' = [req EXCEPT ![r] = q]
    BY <1>5 DEF lockFails, unlock, finish
  <2>2. req[r] \in Request /\ req[r].pc # "write" /\ UNCHANGED <<file, token, seen>>
    BY <1>5 DEF CredInv, TypeOK, lockFails, unlock, finish
  <2>3. q.pc \in {"unlocked", "done"} /\ q.kind = req[r].kind /\ q.next = req[r].next
    BY <2>2 DEF Request
  <2> HIDE DEF a, b, c
  <2>4. QED
    BY <2>1, <2>2, <2>3, OneMoves
<1>6. ASSUME expire PROVE Tokens'
  <2>1. UNCHANGED <<file, req, seen>> /\ token \in [issued : Nat, used : SUBSET Nat, soon : SUBSET Nat]
    BY <1>6 DEF expire, CredInv, TypeOK
  <2>2. token'.used = token.used /\ token'.issued = token.issued
    BY <1>6, <2>1 DEF expire
  <2>3. QED
    BY <2>1, <2>2, TokensStay DEF Brings, Rotates
<1>7. QED
  BY <1>1, <1>2, <1>3, <1>4, <1>5, <1>6 DEF Program

\* The invariant, together with the tokens while no call is aborted.
TokenInv == CredInv /\ (aborted = {} => Tokens)

\* Every step keeps the tokens, until a call is aborted.
LEMMA TokenStep == ASSUME TokenInv, Separate, [Next]_vars PROVE TokenInv'
<1>1. CredInv'
  BY CredStep DEF TokenInv
<1> SUFFICES ASSUME aborted' = {} PROVE Tokens'
  BY <1>1 DEF TokenInv
<1>2. CASE UNCHANGED vars
  BY <1>2, TokensStay DEF vars, TokenInv, Brings, Rotates
<1>3. CASE Next
  <2>1. \A r \in Reqs : ~abort(r)
    BY DEF abort
  <2>2. aborted = {}
    BY <1>3, <2>1 DEF Next, Program, reloadLocked, reloadReleased, reloadResolved, reloadFails, read, locked,
                      lockFails, refresh, write, unlock, finish, expire, start
  <2>3. CredInv /\ Tokens
    BY <2>2 DEF TokenInv
  <2>4. ASSUME NEW r \in Reqs, refresh(r) PROVE Tokens'
    BY <2>3, <2>4, RefreshTokens
  <2>5. ASSUME NEW r \in Reqs, write(r) PROVE Tokens'
    BY <2>2, <2>3, <2>5, WriteTokens
  <2>6. ASSUME NEW r \in Reqs, NEW kind \in Kinds, start(r, kind) PROVE Tokens'
    BY <2>3, <2>6, StartTokens
  <2>7. ASSUME Program \/ expire PROVE Tokens'
    BY <2>3, <2>4, <2>5, <2>7, OtherTokens
  <2>8. QED
    BY <1>3, <2>1, <2>6, <2>7 DEF Next, Kinds
<1>4. QED
  BY <1>2, <1>3

\* "refresh once globally, and persist the rotated credential before release": until a call is
\* aborted, the file that nobody has locked never rests on a token the provider has consumed, and
\* no refresh is refused because another one has consumed its token (auth-storage.ts, resolve.ts).
THEOREM RotatedStored == ASSUME Separate PROVE Spec => [](aborted = {} => RotatedIsStored)
<1>1. Init => TokenInv
  <2> SUFFICES ASSUME Init PROVE Tokens
    BY InitCredentials DEF TokenInv
  <2>1. \A r \in Reqs : req[r].pc = "none"
    BY DEF Init, NoReq
  <2>2. QED
    BY <2>1 DEF Init, Tokens, Brings, Rotates
<1>2. TokenInv /\ [Next]_vars => TokenInv'
  BY TokenStep
<1>3. TokenInv => (aborted = {} => RotatedIsStored)
  <2> SUFFICES ASSUME CredInv, Tokens, lock = Null PROVE file.data.oauth \notin token.used
    BY DEF TokenInv, RotatedIsStored, Tokens
  <2>1. \A r \in Reqs : ~Rotates(r)
    BY DEF CredInv, Agrees, Holds, Rotates, Separate
  <2>2. QED
    BY <2>1 DEF Tokens
<1>4. QED
  BY <1>1, <1>2, <1>3, PTL DEF Spec
=============================================================================
