--------------------------- MODULE ArtistMetaProofs ---------------------------
(***************************************************************************)
(* Proofs about module ArtistMeta, for any names, keys, callers, queue     *)
(* capacity and number of faults.                                          *)
(***************************************************************************)
EXTENDS ArtistMeta, TLAPS

(* name_key maps every name to a key.                                      *)
LEMMA KeyType == \A n \in Names : Key(n) \in Keys
  BY ArtistMetaAssumption DEF Key

(* Facts offers Booleans only, so that every row built of it is a row.     *)
LEMMA FactsType == \A n \in Names : \A f \in Facts[Key(n)] : f \in BOOLEAN
  BY ArtistMetaAssumption DEF Key

(* The bounds are natural numbers.                                         *)
LEMMA BoundsType ==
    MaxFaults \in Nat /\ MaxEnqueue \in Nat \ {0} /\ QueueCap \in Nat \ {0}
  BY ArtistMetaAssumption

Typed == TypeOK /\ Consistent

(* The end of a lookup, with whatever it did to storage.                   *)
LEMMA FinishTyped ==
    ASSUME Typed, Finish
    PROVE  /\ in_flight' \subseteq Keys /\ worker' = "recv"
           /\ job' = NoName /\ found' = NoRow
  BY DEF Typed, TypeOK, Finish

(* Storing a row keeps both stores well typed.                             *)
LEMMA WriteTyped ==
    ASSUME TypeOK, NEW k \in Keys, NEW row \in Row, NEW failed \in BOOLEAN,
           write_stored(k, row, failed)
    PROVE  /\ db' \in [Keys -> Row \cup {NoRow}]
           /\ cache' \in [Keys -> Row \cup {NoRow}]
  BY DEF TypeOK, write_stored

(* What a resolution finds is a row.                                       *)
LEMMA EntryTyped ==
    ASSUME job \in Names, NEW aliases \in BOOLEAN, Entry(aliases)
    PROVE  found' \in Row
  BY FactsType DEF Entry, Row

(* A fault keeps the count within its bound.                               *)
LEMMA FaultTyped ==
    ASSUME TypeOK, NEW bad \in BOOLEAN, Fault(bad)
    PROVE  faults' \in 0..MaxFaults
  BY BoundsType DEF TypeOK, Fault

(* The process starts well typed: idle worker, empty channel, no claim.    *)
LEMMA TypedInit == Init => Typed
<1> SUFFICES ASSUME Init PROVE Typed
  OBVIOUS
<1>1. queue \in Seq(Names) /\ Len(queue) = 0
  BY DEF Init
<1> QED
  BY <1>1, BoundsType DEF Init, Typed, TypeOK, Consistent, Offering, Busy

(* Every handler, worker step and fault keeps Typed.                       *)
LEMMA TypedStep == Typed /\ [Next]_vars => Typed'
<1> SUFFICES ASSUME Typed, [Next]_vars PROVE Typed'
  OBVIOUS
<1> USE BoundsType, KeyType DEF Typed, claims, task, storage, callers, Callers
<1>1. ASSUME NEW c \in Callers, NEW failed \in BOOLEAN, Read(c, failed)
      PROVE  Typed'
  <2>1. \A n \in Asks[c] : n \in Names
    BY ArtistMetaAssumption
  <2>2. PICK missing \in SUBSET Names :
          /\ todo' = [todo EXCEPT ![c] = missing]
          /\ pc' = [pc EXCEPT ![c] = IF missing = {} THEN "idle" ELSE "offering"]
    BY <1>1, <2>1 DEF Read
  <2> QED
    BY <1>1, <2>2, FaultTyped DEF Read, QueryFails, TypeOK, Consistent, Offering
<1>2. ASSUME NEW c \in Callers, NEW n \in Names, Claim(c, n)
      PROVE  Typed'
  <2>1. CASE Key(n) \in in_flight
    <3>1. enqueued' \in [Callers -> 0..MaxEnqueue - 1]
      BY <1>2, <2>1 DEF Claim, TypeOK
    <3>2. /\ worker' = (IF worker = "none" THEN "recv" ELSE worker) /\ todo' = [todo EXCEPT ![c] = todo[c] \ {n}]
          /\ offer' = [offer EXCEPT ![c] = NoName]
          /\ pc' = [pc EXCEPT ![c] = IF todo[c] \ {n} = {} THEN "idle" ELSE "offering"]
          /\ UNCHANGED <<in_flight, queue, job, found, storage, faults>>
      BY <1>2, <2>1 DEF Claim, GoOn, ensure_worker
    <3>3. TypeOK'
      BY <3>1, <3>2 DEF TypeOK, Busy
    <3>4. Consistent'
      BY <3>2 DEF TypeOK, Consistent, Offering, Busy
    <3> QED
      BY <3>3, <3>4
  <2>2. CASE Key(n) \notin in_flight
    BY <1>2, <2>2 DEF Claim, ensure_worker, TypeOK, Consistent, Offering, Busy
  <2> QED
    BY <1>2, <2>1, <2>2 DEF Claim
<1>3. ASSUME NEW c \in Callers, Send(c)
      PROVE  Typed'
  BY <1>3 DEF Send, GoOn, TypeOK, Consistent, Offering
<1>4. ASSUME NEW c \in Callers, Refuse(c)
      PROVE  Typed'
  BY <1>4 DEF Refuse, TypeOK, Consistent, Offering
<1>5. ASSUME NEW c \in Callers, Release(c)
      PROVE  Typed'
  BY <1>5 DEF Release, GoOn, TypeOK, Consistent, Offering
<1>6. CASE Recv
  BY <1>6 DEF Recv, At, GoTo, TypeOK, Consistent, Offering, Busy
<1>7. ASSUME NEW b \in BOOLEAN, Tier1(b)
      PROVE  Typed'
  BY <1>7 DEF Tier1, At, GoTo, TypeOK, Consistent, Offering, Busy
<1>8. ASSUME NEW b \in BOOLEAN, StoreFound(b)
      PROVE  Typed'
  BY <1>8, FaultTyped, WriteTyped, FinishTyped DEF StoreFound, QueryFails, At, TypeOK, Consistent, Offering, Busy
<1>9. ASSUME NEW b \in BOOLEAN, MissRead(b)
      PROVE  Typed'
  BY <1>9, FaultTyped, FinishTyped DEF MissRead, QueryFails, At, GoTo, TypeOK, Consistent, Offering, Busy
<1>10. ASSUME NEW b \in BOOLEAN, StoreMiss(b)
       PROVE  Typed'
  <2>1. MissRow \in Row
    BY DEF MissRow, Row
  <2> QED
    BY <1>10, <2>1, FaultTyped, WriteTyped, FinishTyped
       DEF StoreMiss, QueryFails, At, TypeOK, Consistent, Offering, Busy
<1>11. ASSUME NEW r \in Results, Lookup(r)
       PROVE  Typed'
  <2>1. CASE r = "ok"
    BY <1>11, <2>1, FaultTyped, EntryTyped
       DEF Lookup, At, GoTo, TypeOK, Consistent, Offering, Busy
  <2>2. CASE r = "notfound"
    BY <1>11, <2>2, FaultTyped DEF Lookup, At, GoTo, TypeOK, Consistent, Offering, Busy
  <2>3. CASE r = "transient"
    BY <1>11, <2>3, FaultTyped, FinishTyped DEF Lookup, At, TypeOK, Consistent, Offering, Busy
  <2> QED
    BY <1>11, <2>1, <2>2, <2>3 DEF Results
<1>12. ASSUME NEW r \in Results, NEW hit \in Hits, NEW place \in {"alias", "missread"},
              worker \in Busy, SearchStep(r, hit, place)
       PROVE  Typed'
  <2>1. CASE r = "transient"
    BY <1>12, <2>1, FaultTyped, FinishTyped DEF SearchStep, TypeOK, Consistent, Offering, Busy
  <2>2. CASE r = "ok" /\ hit = "hit"
    BY <1>12, <2>2, FaultTyped, EntryTyped
       DEF SearchStep, GoTo, TypeOK, Consistent, Offering, Busy
  <2>3. CASE r # "transient" /\ ~(r = "ok" /\ hit = "hit")
    BY <1>12, <2>3, FaultTyped
       DEF SearchStep, Results, Hits, GoTo, TypeOK, Consistent, Offering, Busy
  <2> QED
    BY <2>1, <2>2, <2>3
<1>13. ASSUME NEW r \in Results, NEW hit \in Hits, Search(r, hit) \/ AliasSearch(r, hit)
       PROVE  Typed'
  BY <1>12, <1>13 DEF Search, AliasSearch, At, Busy
<1>14. ASSUME NEW r \in Results, Detail(r)
       PROVE  Typed'
  BY <1>14, FaultTyped DEF Detail, Results, At, GoTo, TypeOK, Consistent, Offering, Busy, Row
<1>15. CASE Died
  BY <1>15 DEF Died, At, GoTo, TypeOK, Consistent, Offering, Busy
<1>16. CASE Panic
  BY <1>16, FaultTyped DEF Panic, GoTo, TypeOK, Consistent, Offering, Busy
<1>17. ASSUME NEW k \in Keys, Age(k)
       PROVE  Typed'
  <2>1. db[k] # NoRow => [db[k] EXCEPT !.old = TRUE] \in Row
    BY DEF TypeOK, Row
  <2>2. /\ db' \in [Keys -> Row \cup {NoRow}]
        /\ cache' \in [Keys -> Row \cup {NoRow}]
    BY <1>17, <2>1 DEF Age, TypeOK
  <2> QED
    BY <1>17, <2>2 DEF Age, TypeOK, Consistent, Offering
<1>18. ASSUME NEW keeps \in BOOLEAN, Restart(keeps)
       PROVE  Typed'
  <2>1. cache' \in [Keys -> Row \cup {NoRow}]
    BY <1>18 DEF Restart, TypeOK
  <2>2. queue' \in Seq(Names) /\ Len(queue') = 0
    BY <1>18 DEF Restart
  <2>3. pc' \in [Callers -> {"idle"}] /\ offer' \in [Callers -> {NoName}]
    BY <1>18 DEF Restart
  <2>4. enqueued' \in [Callers -> 0..MaxEnqueue - 1] /\ todo' \in [Callers -> SUBSET Names]
    BY <1>18 DEF Restart
  <2>5. TypeOK'
    <3>1. /\ pc' \in [Callers -> {"idle", "offering", "claimed", "refused"}]
          /\ offer' \in [Callers -> Names \cup {NoName}]
      BY <1>18 DEF Restart
    <3>2. Len(queue') <= QueueCap
      BY <2>2
    <3>3. faults' \in 0..MaxFaults
      BY <1>18, FaultTyped DEF Restart
    <3> QED
      BY <1>18, <2>1, <2>2, <2>4, <3>1, <3>2, <3>3 DEF Restart, TypeOK
  <2>6. Consistent'
    BY <1>18, <2>3 DEF Restart, Consistent, Offering, Busy
  <2> QED
    BY <2>5, <2>6
<1>19. CASE UNCHANGED vars
  BY <1>19 DEF vars, TypeOK, Consistent, Offering
<1> QED
  BY <1>1, <1>2, <1>3, <1>4, <1>5, <1>6, <1>7, <1>8, <1>9, <1>10, <1>11, <1>12, <1>13, <1>14,
     <1>15, <1>16, <1>17, <1>18, <1>19 DEF Next, CallerStep, WorkerStep

(* Every variable keeps its type, and a busy worker, a found row and a     *)
(* claimed offer are what the next step needs them to be.                  *)
THEOREM TypeCorrect == Spec => []TypeOK
<1>1. Typed => TypeOK
  BY DEF Typed
<1> QED
  BY <1>1, TypedInit, TypedStep, PTL DEF Spec
-----------------------------------------------------------------------------
Held == ClaimHasHolder /\ OneHolderPerKey

(* The holders of claims and the claims are as they were.                  *)
SameCallers ==
    /\ Offering' = Offering
    /\ \A c \in Offering : offer'[c] = offer[c]

(* A step that moves no claim from hand to hand.                           *)
LEMMA QuietStep ==
    ASSUME Held, in_flight' = in_flight, queue' = queue, SameCallers,
           (worker' \in Busy) <=> (worker \in Busy),
           worker \in Busy => job' = job
    PROVE  Held'
<1>1. ClaimHasHolder'
  BY DEF Held, ClaimHasHolder, SameCallers, Key
<1>2. OneHolderPerKey'
  BY DEF Held, OneHolderPerKey, SameCallers, Key
<1> QED
  BY <1>1, <1>2 DEF Held

(* The claim guard is dropped: the worker's key and no other is released.  *)
LEMMA DropStep ==
    ASSUME Held, worker \in Busy, worker' \notin Busy,
           in_flight' = in_flight \ {Key(job)}, queue' = queue, SameCallers
    PROVE  Held'
<1>1. ClaimHasHolder'
  BY DEF Held, ClaimHasHolder, SameCallers, Key
<1>2. OneHolderPerKey'
  BY DEF Held, OneHolderPerKey, SameCallers, Key
<1> QED
  BY <1>1, <1>2 DEF Held

(* try_claim adds the one claim of its key, and its caller is the holder.  *)
LEMMA ClaimStep ==
    ASSUME Typed, Held, NEW c \in Callers, NEW n \in Names, Claim(c, n)
    PROVE  Held'
<1>0. c \notin Offering /\ ((worker' \in Busy) <=> (worker \in Busy))
  BY DEF Claim, Offering, ensure_worker, Busy
<1>1. CASE Key(n) \in in_flight
  <2>1. SameCallers
    BY <1>0, <1>1 DEF Claim, GoOn, Typed, TypeOK, SameCallers, Offering
  <2> QED
    BY <1>0, <1>1, <2>1, QuietStep DEF Claim
<1>2. CASE Key(n) \notin in_flight
  <2>1. /\ Offering' = Offering \cup {c} /\ offer'[c] = n
        /\ \A d \in Offering : offer'[d] = offer[d]
    BY <1>0, <1>2 DEF Claim, Typed, TypeOK, Offering
  <2>2. in_flight' = in_flight \cup {Key(n)} /\ queue' = queue /\ job' = job
    BY <1>2 DEF Claim
  <2>3. ClaimHasHolder'
    BY <1>0, <2>1, <2>2 DEF Held, ClaimHasHolder, Key
  <2>4. OneHolderPerKey'
    BY <1>0, <1>2, <2>1, <2>2 DEF Held, OneHolderPerKey, Key
  <2> QED
    BY <2>3, <2>4 DEF Held
<1> QED
  BY <1>1, <1>2

(* The send moves the claim into the channel, or, if the channel is full,  *)
(* releases it.                                                            *)
LEMMA SendStep ==
    ASSUME Typed, Held, NEW c \in Callers, Send(c)
    PROVE  Held'
<1>1. c \in Offering /\ offer[c] \in Names
  BY DEF Send, Offering, Typed, Consistent
<1>2. /\ Offering' = Offering \ {c}
      /\ \A d \in Offering : d # c => offer'[d] = offer[d]
  BY DEF Send, GoOn, Typed, TypeOK, Offering
<1>3. in_flight' = in_flight /\ worker' = worker /\ job' = job
  BY DEF Send, task
<1>4. /\ Len(queue') = Len(queue) + 1
      /\ DOMAIN queue = 1..Len(queue) /\ DOMAIN queue' = 1..Len(queue')
      /\ \A i \in 1..Len(queue) : queue'[i] = queue[i]
      /\ queue'[Len(queue) + 1] = offer[c]
      /\ Len(queue) \in Nat
  BY <1>1 DEF Send, Typed, TypeOK
<1>5. ClaimHasHolder'
  <2> SUFFICES ASSUME NEW k \in in_flight
               PROVE  \/ \E i \in DOMAIN queue' : Key(queue'[i]) = k
                      \/ worker \in Busy /\ Key(job) = k
                      \/ \E d \in Offering' : Key(offer'[d]) = k
    BY <1>3 DEF ClaimHasHolder, Key
  <2>1. CASE k = Key(offer[c])
    BY <1>4, <2>1
  <2>2. CASE \E i \in DOMAIN queue : Key(queue[i]) = k
    BY <1>4, <2>2
  <2>3. CASE worker \in Busy /\ Key(job) = k
    BY <2>3
  <2>4. CASE \E d \in Offering \ {c} : Key(offer[d]) = k
    BY <1>2, <2>4
  <2> QED
    BY <2>1, <2>2, <2>3, <2>4 DEF Held, ClaimHasHolder
<1>6. OneHolderPerKey'
  <2>1. \A i \in DOMAIN queue' : i = Len(queue) + 1 \/ i \in DOMAIN queue
    BY <1>4
  <2>2. \A i, j \in DOMAIN queue' : Key(queue'[i]) = Key(queue'[j]) => i = j
    BY <1>1, <1>4, <2>1 DEF Held, OneHolderPerKey
  <2>3. \A i \in DOMAIN queue' : Key(queue'[i]) \in in_flight'
    BY <1>1, <1>3, <1>4, <2>1 DEF Held, OneHolderPerKey
  <2>4. /\ \A d, e \in Offering' : Key(offer'[d]) = Key(offer'[e]) => d = e
        /\ \A d \in Offering' : Key(offer'[d]) \in in_flight'
    BY <1>2, <1>3 DEF Held, OneHolderPerKey
  <2>5. \A d \in Offering', i \in DOMAIN queue' : Key(offer'[d]) # Key(queue'[i])
    BY <1>1, <1>2, <1>4, <2>1 DEF Held, OneHolderPerKey
  <2>6. worker' \in Busy =>
          /\ Key(job') \in in_flight'
          /\ \A i \in DOMAIN queue' : Key(queue'[i]) # Key(job')
          /\ \A d \in Offering' : Key(offer'[d]) # Key(job')
    BY <1>1, <1>2, <1>3, <1>4, <2>1 DEF Held, OneHolderPerKey
  <2> QED
    BY <2>2, <2>3, <2>4, <2>5, <2>6 DEF OneHolderPerKey, Key
<1> QED
  BY <1>5, <1>6 DEF Held

(* Dropping the claim of a caller frees its key, which nobody else holds.  *)
LEMMA ReleaseStep ==
    ASSUME Typed, Held, NEW c \in Callers, Release(c)
    PROVE  Held'
<1>1. c \in Offering
  BY DEF Release, Offering
<1>2. /\ Offering' = Offering \ {c}
      /\ \A d \in Offering : d # c => offer'[d] = offer[d]
  BY DEF Release, GoOn, Typed, TypeOK, Offering
<1>3. /\ in_flight' = in_flight \ {Key(offer[c])} /\ queue' = queue
      /\ worker' = worker /\ job' = job
  BY DEF Release, task
<1>4. ClaimHasHolder'
  BY <1>1, <1>2, <1>3 DEF Held, ClaimHasHolder, Key
<1>5. OneHolderPerKey'
  BY <1>1, <1>2, <1>3 DEF Held, OneHolderPerKey, Key
<1> QED
  BY <1>4, <1>5 DEF Held

(* recv moves the head's claim from the channel to the worker.             *)
LEMMA RecvStep ==
    ASSUME Typed, Held, Recv
    PROVE  Held'
<1>1. /\ worker \notin Busy /\ worker' \in Busy /\ job' = queue[1]
      /\ in_flight' = in_flight /\ pc' = pc /\ offer' = offer
  BY DEF Recv, At, GoTo, Busy, callers
<1>2. /\ Len(queue) \in Nat /\ Len(queue) >= 1 /\ Len(queue') = Len(queue) - 1
      /\ DOMAIN queue = 1..Len(queue) /\ DOMAIN queue' = 1..Len(queue')
      /\ \A i \in DOMAIN queue' : queue'[i] = queue[i + 1]
  BY DEF Recv, Typed, TypeOK
<1>3. 1 \in DOMAIN queue /\ \A i \in DOMAIN queue' : i + 1 \in DOMAIN queue /\ i + 1 # 1
  BY <1>2
<1>4. \A i \in DOMAIN queue : i = 1 \/ (i - 1 \in DOMAIN queue' /\ queue'[i - 1] = queue[i])
  BY <1>2
<1>5. Offering' = Offering
  BY <1>1 DEF Offering
<1>6. ClaimHasHolder'
  <2> SUFFICES ASSUME NEW k \in in_flight
               PROVE  \/ \E i \in DOMAIN queue' : Key(queue'[i]) = k
                      \/ Key(queue[1]) = k
                      \/ \E d \in Offering : Key(offer[d]) = k
    BY <1>1, <1>5 DEF ClaimHasHolder, Key
  <2> QED
    BY <1>1, <1>4 DEF Held, ClaimHasHolder
<1>7. OneHolderPerKey'
  <2>1. \A i, j \in DOMAIN queue' : Key(queue'[i]) = Key(queue'[j]) => i = j
    <3> SUFFICES ASSUME NEW i \in DOMAIN queue', NEW j \in DOMAIN queue',
                        Key(queue'[i]) = Key(queue'[j])
                 PROVE  i = j
      OBVIOUS
    <3>1. i + 1 = j + 1
      BY <1>2, <1>3 DEF Held, OneHolderPerKey
    <3> QED
      BY <1>2, <3>1
  <2>2. \A i \in DOMAIN queue' : Key(queue'[i]) \in in_flight /\ Key(queue'[i]) # Key(queue[1])
    BY <1>2, <1>3 DEF Held, OneHolderPerKey
  <2>3. \A d \in Offering, i \in DOMAIN queue' : Key(offer[d]) # Key(queue'[i])
    BY <1>2, <1>3 DEF Held, OneHolderPerKey
  <2>4. Key(queue[1]) \in in_flight /\ \A d \in Offering : Key(offer[d]) # Key(queue[1])
    BY <1>3 DEF Held, OneHolderPerKey
  <2> QED
    BY <1>1, <1>5, <2>1, <2>2, <2>3, <2>4 DEF Held, OneHolderPerKey, Key
<1> QED
  BY <1>6, <1>7 DEF Held

(* At the start there are no claims and no holders.                        *)
LEMMA HeldInit == Init => Held
<1> SUFFICES ASSUME Init PROVE Held
  OBVIOUS
<1>1. Offering = {} /\ in_flight = {} /\ DOMAIN queue = {} /\ worker \notin Busy
  BY DEF Init, Offering, Busy
<1> QED
  BY <1>1 DEF Held, ClaimHasHolder, OneHolderPerKey

(* Every step of the system keeps claims and holders in step.              *)
LEMMA HeldStep == Typed /\ Held /\ [Next]_vars => Held'
<1> SUFFICES ASSUME Typed, Held, [Next]_vars PROVE Held'
  OBVIOUS
<1> USE DEF claims, task, storage, callers
<1>1. ASSUME UNCHANGED callers
      PROVE  SameCallers
  BY <1>1 DEF SameCallers, Offering
<1>2. ASSUME NEW c \in Callers, NEW failed \in BOOLEAN, Read(c, failed)
      PROVE  Held'
  <2>1. SameCallers
    BY <1>2 DEF Read, SameCallers, Offering, Typed, TypeOK
  <2> QED
    BY <1>2, <2>1, QuietStep DEF Read
<1>3. ASSUME NEW c \in Callers, Refuse(c)
      PROVE  Held'
  <2>1. SameCallers
    BY <1>3 DEF Refuse, SameCallers, Offering, Typed, TypeOK
  <2> QED
    BY <1>3, <2>1, QuietStep DEF Refuse
<1>4. ASSUME NEW c \in Callers, CallerStep(c)
      PROVE  Held'
  BY <1>3, <1>4, ClaimStep, SendStep, ReleaseStep DEF CallerStep
<1>5. ASSUME worker \in Busy, Finish, UNCHANGED queue, UNCHANGED callers
      PROVE  Held'
  BY <1>1, <1>5, DropStep DEF Finish, Busy
<1>6. ASSUME worker \in Busy, worker' \in Busy, UNCHANGED <<in_flight, queue, job, callers>>
      PROVE  Held'
  BY <1>1, <1>6, QuietStep
<1>7. ASSUME NEW b \in BOOLEAN, Tier1(b) \/ StoreFound(b) \/ MissRead(b) \/ StoreMiss(b)
      PROVE  Held'
  BY <1>5, <1>6, <1>7 DEF Tier1, StoreFound, MissRead, StoreMiss, At, GoTo, Busy
<1>8. ASSUME NEW r \in Results, Lookup(r) \/ Detail(r)
      PROVE  Held'
  BY <1>5, <1>6, <1>8 DEF Lookup, Detail, Results, At, GoTo, Busy
<1>9. ASSUME NEW r \in Results, NEW hit \in Hits, Search(r, hit) \/ AliasSearch(r, hit)
      PROVE  Held'
  BY <1>5, <1>6, <1>9 DEF Search, AliasSearch, SearchStep, At, GoTo, Busy
<1>10. CASE Died
  BY <1>1, <1>10, QuietStep DEF Died, At, GoTo, Busy
<1>11. CASE Panic
  BY <1>1, <1>11, DropStep DEF Panic, GoTo, Busy
<1>12. ASSUME NEW k \in Keys, Age(k)
       PROVE  Held'
  BY <1>1, <1>12, QuietStep DEF Age
<1>13. ASSUME NEW keeps \in BOOLEAN, Restart(keeps)
       PROVE  Held'
  <2>1. Offering' = {} /\ in_flight' = {} /\ DOMAIN queue' = {} /\ worker' \notin Busy
    BY <1>13 DEF Restart, Offering, Busy
  <2> QED
    BY <2>1 DEF Held, ClaimHasHolder, OneHolderPerKey
<1>14. CASE UNCHANGED vars
  BY <1>1, <1>14, QuietStep DEF vars
<1> QED
  BY <1>2, <1>4, <1>7, <1>8, <1>9, <1>10, <1>11, <1>12, <1>13, <1>14, RecvStep
     DEF Next, WorkerStep

(* The inductive invariant of the claims, whatever the interleaving of     *)
(* requests, discoveries, the worker, its death and restarts.              *)
THEOREM CustodyInvariant == Spec => []Custody
<1>1. Typed /\ Held <=> Custody
  BY DEF Typed, Held, Custody
<1> QED
  BY <1>1, TypedInit, TypedStep, HeldInit, HeldStep, PTL DEF Spec

(* No claim is ever left without somebody who will use or release it.      *)
THEOREM ClaimNeverStranded == Spec => []ClaimHasHolder
<1>1. Custody => ClaimHasHolder
  BY DEF Custody
<1> QED
  BY <1>1, CustodyInvariant, PTL

(* No key is queued twice, queued while it is resolved, or in two callers' *)
(* hands.                                                                  *)
THEOREM NoKeyTwice == Spec => []OneHolderPerKey
<1>1. Custody => OneHolderPerKey
  BY DEF Custody
<1> QED
  BY <1>1, CustodyInvariant, PTL
-----------------------------------------------------------------------------
(* The abstract specification's active set.                                *)
Active == IF worker \in Busy THEN {Key(job)} ELSE {}

(* A lookup that ends, or dies, is an End of its key.                      *)
LEMMA DropRefines ==
    ASSUME Typed, Held, worker \in Busy, worker' \notin Busy,
           in_flight' = in_flight \ {Key(job)}
    PROVE  SF!Next
<1>1. Key(job) \in in_flight /\ Key(job) \in Keys
  BY KeyType DEF Held, OneHolderPerKey, Typed, Consistent
<1>2. SF!End(Key(job))
  BY <1>1 DEF SF!End
<1> QED
  BY <1>1, <1>2 DEF SF!Next

(* Every step claims, starts or ends one key, restarts, or stutters.       *)
LEMMA StepRefines == Typed /\ Held /\ [Next]_vars => [SF!Next]_<<in_flight, Active>>
<1> SUFFICES ASSUME Typed, Held, [Next]_vars,
                    ~ UNCHANGED <<in_flight, Active>>
             PROVE  SF!Next
  BY DEF Active
<1> USE DEF claims, task, storage, callers
<1>1. ASSUME NEW c \in Callers, NEW n \in Names, Claim(c, n)
      PROVE  SF!Next
  <2>1. Active' = Active /\ Key(n) \in Keys
    BY <1>1, KeyType DEF Claim, ensure_worker, Active, Busy, Key
  <2>2. SF!Claim(Key(n))
    BY <1>1, <2>1 DEF Claim, SF!Claim, Active
  <2> QED
    BY <2>1, <2>2 DEF SF!Next
<1>2. ASSUME NEW c \in Callers, Release(c)
      PROVE  SF!Next
  <2>1. c \in Offering /\ offer[c] \in Names
    BY <1>2 DEF Release, Offering, Typed, Consistent
  <2>2. Key(offer[c]) \in in_flight /\ Key(offer[c]) \notin Active /\ Key(offer[c]) \in Keys
    BY <2>1, KeyType DEF Held, OneHolderPerKey, Active
  <2>3. in_flight' = in_flight \ {Key(offer[c])} /\ Active' = Active
    BY <1>2 DEF Release, Active, Key
  <2>4. SF!End(Key(offer[c]))
    BY <2>2, <2>3 DEF SF!End, Active
  <2> QED
    BY <2>2, <2>4 DEF SF!Next
<1>3. ASSUME NEW c \in Callers, Send(c) \/ Refuse(c)
      PROVE  FALSE
  BY <1>3 DEF Send, Refuse, Active, Key
<1>4. ASSUME NEW c \in Callers, NEW failed \in BOOLEAN, Read(c, failed)
      PROVE  FALSE
  BY <1>4 DEF Read, Active, Key
<1>5. CASE Recv
  <2>1. /\ worker \notin Busy /\ worker' \in Busy /\ in_flight' = in_flight
        /\ job' = queue[1] /\ 1 \in DOMAIN queue /\ queue[1] \in Names
    BY <1>5 DEF Recv, At, GoTo, Busy, Typed, TypeOK
  <2>2. Key(queue[1]) \in in_flight /\ Key(queue[1]) \in Keys
    BY <2>1, KeyType DEF Held, OneHolderPerKey
  <2>3. SF!Start(Key(queue[1]))
    BY <2>1, <2>2 DEF SF!Start, Key
  <2> QED
    BY <2>2, <2>3 DEF SF!Next
<1>6. ASSUME worker \in Busy, Finish
      PROVE  SF!Next
  BY <1>6, DropRefines DEF Finish, Busy
<1>7. ASSUME worker \in Busy, worker' \in Busy, UNCHANGED <<in_flight, job>>
      PROVE  FALSE
  BY <1>7 DEF Active, Key
<1>8. ASSUME NEW b \in BOOLEAN, Tier1(b) \/ StoreFound(b) \/ MissRead(b) \/ StoreMiss(b)
      PROVE  SF!Next
  BY <1>6, <1>7, <1>8 DEF Tier1, StoreFound, MissRead, StoreMiss, At, GoTo, Busy
<1>9. ASSUME NEW r \in Results, Lookup(r) \/ Detail(r)
      PROVE  SF!Next
  BY <1>6, <1>7, <1>9 DEF Lookup, Detail, Results, At, GoTo, Busy
<1>10. ASSUME NEW r \in Results, NEW hit \in Hits, Search(r, hit) \/ AliasSearch(r, hit)
       PROVE  SF!Next
  BY <1>6, <1>7, <1>10 DEF Search, AliasSearch, SearchStep, At, GoTo, Busy
<1>11. CASE Died
  BY <1>11 DEF Died, At, GoTo, Busy, Active, Key
<1>12. CASE Panic
  BY <1>12, DropRefines DEF Panic, GoTo, Busy
<1>13. ASSUME NEW k \in Keys, Age(k)
       PROVE  FALSE
  BY <1>13 DEF Age, Active, Key
<1>14. ASSUME NEW keeps \in BOOLEAN, Restart(keeps)
       PROVE  SF!Next
  BY <1>14 DEF Restart, SF!Next, SF!Restart, Busy
<1>15. CASE UNCHANGED vars
  BY <1>15 DEF vars, Active, Key
<1> QED
  BY <1>1, <1>2, <1>3, <1>4, <1>5, <1>8, <1>9, <1>10, <1>11, <1>12, <1>13, <1>14, <1>15
     DEF Next, CallerStep, WorkerStep

(* The service implements the promise of module SingleFlight: one lookup   *)
(* at a time, only of a claimed key, which stays claimed until it is over, *)
(* and no claim of a key that has one.                                     *)
THEOREM RefinesSingleFlight == Spec => ImplementsSingleFlight
<1>1. Init => SF!Init
  BY DEF Init, SF!Init, Busy
<1>2. Typed /\ Held /\ [Next]_vars => [SF!Next]_<<in_flight, IF worker \in Busy THEN {Key(job)} ELSE {}>>
  BY StepRefines DEF Active
<1> QED
  BY <1>1, <1>2, TypedInit, TypedStep, HeldInit, HeldStep, PTL
     DEF Spec, ImplementsSingleFlight, SF!Spec
-----------------------------------------------------------------------------
(* A failed MusicBrainz call other than the alias lookup of a hit ends the *)
(* resolution: nothing is stored for it.                                   *)
THEOREM FailedCallStoresNothing == Spec => FailureStoresNothing
<1>1. ASSUME Typed, [Next]_vars, worker \in {"lookup", "search", "alias"},
             worker' \in Busy, worker' # worker
      PROVE  faults' = faults
  <2> USE <1>1 DEF claims, task, storage, callers
  <2>1. ASSUME NEW c \in Callers, CallerStep(c)
        PROVE  FALSE
    BY <2>1 DEF CallerStep, Claim, Send, Refuse, Release, ensure_worker
  <2>2. ASSUME Finish
        PROVE  FALSE
    BY <2>2 DEF Finish, Busy
  <2>3. ASSUME NEW r \in Results, Lookup(r)
        PROVE  faults' = faults
    BY <2>2, <2>3 DEF Lookup, Results, Fault
  <2>4. ASSUME NEW r \in Results, NEW hit \in Hits, Search(r, hit) \/ AliasSearch(r, hit)
        PROVE  faults' = faults
    BY <2>2, <2>4 DEF Search, AliasSearch, SearchStep, Fault
  <2>5. ASSUME \/ Recv \/ Died \/ Panic \/ UNCHANGED vars
               \/ \E b \in BOOLEAN : Tier1(b) \/ StoreFound(b) \/ MissRead(b) \/ StoreMiss(b)
               \/ \E r \in Results : Detail(r)
               \/ \E c \in Callers, failed \in BOOLEAN : Read(c, failed)
               \/ \E k \in Keys : Age(k)
               \/ \E keeps \in BOOLEAN : Restart(keeps)
        PROVE  FALSE
    BY <2>5 DEF Recv, Died, Panic, vars, Tier1, StoreFound, MissRead, StoreMiss, Detail, Read,
                Age, Restart, At, GoTo, Busy
  <2> QED
    BY <2>1, <2>3, <2>4, <2>5 DEF Next, WorkerStep
<1>2. Typed /\ [Next]_vars =>
        [ /\ worker \in {"lookup", "search", "alias"}
          /\ worker' \in Busy /\ worker' # worker
          => faults' = faults ]_vars
  BY <1>1
<1> QED
  BY <1>2, TypedInit, TypedStep, PTL DEF Spec, FailureStoresNothing
-----------------------------------------------------------------------------
(* When queries do not fail, the row that the worker read before it stores *)
(* a miss is still the stored one, because nobody else writes; and what it *)
(* found has an mbid.                                                      *)
MissUnseen == worker = "storemiss" => ~HasMbid(read_stored(FALSE)[Key(job)])
FoundHasMbid == worker \in {"detail", "store"} => HasMbid(found)
Sighted == MissUnseen /\ FoundHasMbid

MbidKept == \A k \in Keys : HasMbid(db[k]) => HasMbid(db'[k])

(* The absence of a row is not a row.                                      *)
LEMMA NoRowIsNoRow == NoRow \notin Row
  BY ArtistMetaAssumption

(* Without database faults, what the worker is about to store for a miss   *)
(* never forgets a stored mbid.                                            *)
LEMMA SightedStep ==
    ASSUME ~(HasDb /\ QueriesFail), Typed, Sighted, [Next]_vars
    PROVE  Sighted' /\ MbidKept
<1> USE DEF claims, task, storage, callers
<1>0. /\ \A failed \in BOOLEAN : QueryFails(failed) => read_stored(failed) = read_stored(FALSE)
      /\ \A failed \in BOOLEAN : QueryFails(failed) => ~failed
  BY ArtistMetaAssumption DEF QueryFails, read_stored
<1>1. ASSUME worker' \notin {"storemiss", "detail", "store"}, UNCHANGED db
      PROVE  Sighted' /\ MbidKept
  BY <1>1 DEF Sighted, MissUnseen, FoundHasMbid, MbidKept
<1>2. ASSUME worker' = worker \/ worker' = "recv", job' = job \/ worker # "storemiss",
             found' = found \/ worker \notin {"detail", "store"}, UNCHANGED storage
      PROVE  Sighted' /\ MbidKept
  BY <1>2 DEF Sighted, MissUnseen, FoundHasMbid, MbidKept, HasMbid, read_stored, Key
<1>3. ASSUME NEW c \in Callers, NEW failed \in BOOLEAN, Read(c, failed)
      PROVE  Sighted' /\ MbidKept
  BY <1>2, <1>3 DEF Read
<1>4. ASSUME NEW c \in Callers, CallerStep(c)
      PROVE  Sighted' /\ MbidKept
  BY <1>2, <1>4 DEF CallerStep, Claim, Send, Refuse, Release, ensure_worker
<1>5. ASSUME job \in Names, NEW aliases \in BOOLEAN, Entry(aliases)
      PROVE  HasMbid(found')
  <2>1. found' \in Row
    BY <1>5, EntryTyped
  <2>2. found'.mbid
    BY <1>5 DEF Entry
  <2> QED
    BY <2>1, <2>2, NoRowIsNoRow DEF HasMbid
<1>6. ASSUME worker' \in {"detail", "store"}, HasMbid(found'), UNCHANGED db
      PROVE  Sighted' /\ MbidKept
  BY <1>6 DEF Sighted, MissUnseen, FoundHasMbid, MbidKept
<1>7. ASSUME NEW r \in Results, Lookup(r)
      PROVE  Sighted' /\ MbidKept
  <2>1. CASE r = "ok"
    <3>1. worker' = "store" /\ Entry(TRUE) /\ job \in Names /\ UNCHANGED db
      BY <1>7, <2>1 DEF Lookup, At, GoTo, Typed, Consistent, Busy
    <3> QED
      BY <1>5, <1>6, <3>1
  <2>2. CASE r # "ok"
    BY <1>1, <1>7, <2>2 DEF Lookup, Results, Finish, GoTo
  <2> QED
    BY <2>1, <2>2
<1>8. ASSUME NEW r \in Results, NEW hit \in Hits, NEW place \in {"alias", "missread"},
             worker \in Busy, SearchStep(r, hit, place)
      PROVE  Sighted' /\ MbidKept
  <2>1. CASE r = "ok" /\ hit = "hit"
    <3>1. worker' = "detail" /\ Entry(FALSE) /\ job \in Names /\ UNCHANGED db
      BY <1>8, <2>1 DEF SearchStep, GoTo, Typed, Consistent
    <3> QED
      BY <1>5, <1>6, <3>1
  <2>2. CASE ~(r = "ok" /\ hit = "hit")
    BY <1>1, <1>8, <2>2 DEF SearchStep, Results, Hits, Finish, GoTo
  <2> QED
    BY <2>1, <2>2
<1>9. ASSUME NEW r \in Results, NEW hit \in Hits, Search(r, hit) \/ AliasSearch(r, hit)
      PROVE  Sighted' /\ MbidKept
  BY <1>8, <1>9 DEF Search, AliasSearch, At, Busy
<1>10. ASSUME NEW r \in Results, Detail(r)
       PROVE  Sighted' /\ MbidKept
  <2>1. found \in Row /\ HasMbid(found) /\ worker' = "store" /\ UNCHANGED db
    BY <1>10 DEF Detail, At, GoTo, Typed, Consistent, Sighted, FoundHasMbid
  <2>2. found' \in Row /\ found'.mbid = found.mbid
    BY <1>10, <2>1 DEF Detail, Results, Row
  <2>3. HasMbid(found')
    BY <2>1, <2>2, NoRowIsNoRow DEF HasMbid
  <2> QED
    BY <1>6, <2>1, <2>3
<1>11. CASE Recv \/ Died \/ Panic
  BY <1>1, <1>11 DEF Recv, Died, Panic, GoTo
<1>12. ASSUME NEW b \in BOOLEAN, Tier1(b)
       PROVE  Sighted' /\ MbidKept
  BY <1>1, <1>12 DEF Tier1, GoTo
<1>13. ASSUME NEW b \in BOOLEAN, StoreFound(b)
       PROVE  Sighted' /\ MbidKept
  <2>1. worker' = "recv" /\ HasMbid(found)
    BY <1>13 DEF StoreFound, Finish, At, Sighted, FoundHasMbid
  <2>2. MbidKept
    BY <1>13, <2>1 DEF StoreFound, write_stored, MbidKept, Typed, TypeOK
  <2> QED
    BY <2>1, <2>2 DEF Sighted, MissUnseen, FoundHasMbid
<1>14. ASSUME NEW b \in BOOLEAN, MissRead(b)
       PROVE  Sighted' /\ MbidKept
  <2>1. /\ job' = job /\ worker' = "storemiss" => ~HasMbid(read_stored(FALSE)[Key(job)])
        /\ UNCHANGED storage /\ worker' \in {"recv", "storemiss"}
        /\ worker' = "storemiss" => job' = job
    BY <1>0, <1>14 DEF MissRead, HasMbid, Finish, GoTo
  <2> QED
    BY <2>1 DEF Sighted, MissUnseen, FoundHasMbid, MbidKept, read_stored, Key, HasMbid
<1>15. ASSUME NEW b \in BOOLEAN, StoreMiss(b)
       PROVE  Sighted' /\ MbidKept
  <2>1. worker' = "recv" /\ ~HasMbid(read_stored(FALSE)[Key(job)]) /\ ~b
    BY <1>0, <1>15 DEF StoreMiss, Finish, At, Sighted, MissUnseen
  <2>2. MbidKept
    BY <1>15, <2>1 DEF StoreMiss, write_stored, read_stored, MbidKept, Typed, TypeOK
  <2> QED
    BY <2>1, <2>2 DEF Sighted, MissUnseen, FoundHasMbid
<1>16. ASSUME NEW k \in Keys, Age(k)
       PROVE  Sighted' /\ MbidKept
  <2>1. UNCHANGED <<worker, job, found>>
    BY <1>16 DEF Age
  <2>2. ASSUME NEW j \in Keys
        PROVE  HasMbid(db'[j]) <=> HasMbid(db[j])
    <3>1. CASE UNCHANGED db
      BY <3>1
    <3>2. CASE db[k] # NoRow /\ db' = [db EXCEPT ![k].old = TRUE]
      <4>1. db \in [Keys -> Row \cup {NoRow}]
        BY DEF Typed, TypeOK
      <4>2. CASE j = k
        <5>1. db[k] \in Row
          BY <3>2, <4>1
        <5>2. db'[k] = [db[k] EXCEPT !.old = TRUE]
          BY <3>2, <4>1
        <5>3. db'[k] \in Row /\ db'[k].mbid = db[k].mbid
          BY <5>1, <5>2 DEF Row
        <5> QED
          BY <4>2, <5>1, <5>3, NoRowIsNoRow DEF HasMbid
      <4>3. CASE j # k
        BY <3>2, <4>1, <4>3
      <4> QED
        BY <4>2, <4>3
    <3> QED
      BY <1>16, <3>1, <3>2 DEF Age
  <2>3. ASSUME NEW j \in Keys, HasMbid(cache'[j])
        PROVE  HasMbid(cache[j])
    BY <1>16, <2>3 DEF Age, HasMbid, Typed, TypeOK
  <2>4. worker = "storemiss" => Key(job) \in Keys
    BY KeyType DEF Typed, Consistent, Busy
  <2> QED
    BY <2>1, <2>2, <2>3, <2>4 DEF Sighted, MissUnseen, FoundHasMbid, MbidKept, read_stored, Key
<1>17. ASSUME NEW keeps \in BOOLEAN, Restart(keeps)
       PROVE  Sighted' /\ MbidKept
  BY <1>1, <1>17 DEF Restart
<1>18. CASE UNCHANGED vars
  BY <1>2, <1>18 DEF vars
<1> QED
  BY <1>3, <1>4, <1>7, <1>9, <1>10, <1>11, <1>12, <1>13, <1>14, <1>15, <1>16, <1>17, <1>18
     DEF Next, WorkerStep

(* A miss never overwrites a stored mbid, as long as no database query     *)
(* fails.  (When one does, it can: see the run artist_meta_flaky_db.)      *)
THEOREM MbidKeptWithReliableDb ==
    ASSUME ~(HasDb /\ QueriesFail)
    PROVE  Spec => MbidNeverErased
<1>1. Init => Sighted
  BY DEF Init, Sighted, MissUnseen, FoundHasMbid
<1>2. Typed /\ Sighted /\ [Next]_vars
        => Sighted' /\ [\A k \in Keys : HasMbid(db[k]) => HasMbid(db'[k])]_db
  BY SightedStep DEF MbidKept
<1> QED
  BY <1>1, <1>2, TypedInit, TypedStep, PTL DEF Spec, MbidNeverErased
=============================================================================
