------------------------------ MODULE ArtistMeta ------------------------------
(***************************************************************************)
(* The artist metadata service of backend/src/artist_meta.rs: requests     *)
(* answer from storage and hand every missing name to one background       *)
(* worker through a set of claims and a bounded channel; the worker asks   *)
(* MusicBrainz and stores what it learned.                                 *)
(*                                                                         *)
(* A step is what the code does between two points where another task can  *)
(* observe it: a lock, a channel operation or an await.  Two kinds of      *)
(* caller offer names: Pollers are requests of GET /api/artist-meta, and   *)
(* Vetoes are discovery requests running the alias-split veto              *)
(* (pipeline/split_veto.rs).                                               *)
(***************************************************************************)
EXTENDS Naturals, Sequences, FiniteSets

CONSTANTS
    Names,       \* display names, as clients and the pipeline spell them
    Keys,        \* normalized storage keys
    NameKey,     \* name_key: several spellings may share a key
    Facts,       \* for each key, whether an entry MusicBrainz has for it holds any fact
    Pollers,     \* concurrent metadata requests
    Vetoes,      \* concurrent discovery requests in the alias-split veto
    Asks,        \* the names each of these keeps asking about
    QueueCap,    \* capacity of the channel to the worker
    MaxEnqueue,  \* names one discovery request may hand to the worker
    HasDb,       \* whether DATABASE_URL is set
    QueriesFail, \* whether a database query may fail
    MaxFaults,   \* bound: failed calls, worker panics and restarts of a behaviour
    NoRow,       \* no stored row for a key
    NoName       \* no name

(* A stored row, reduced to what the code branches on: it has an mbid, its *)
(* entry has any fact in it, its aliases were fetched, and it was fetched  *)
(* 30 days ago or more (MISS_RETRY).                                       *)
Row == [mbid : BOOLEAN, facts : BOOLEAN, aliases : BOOLEAN, old : BOOLEAN]

ASSUME ArtistMetaAssumption ==
    /\ NameKey \in [Names -> Keys]
    /\ Facts \in [Keys -> (SUBSET BOOLEAN) \ {{}}]
    /\ Asks \in [Pollers \cup Vetoes -> SUBSET Names]
    /\ Pollers \cap Vetoes = {}
    /\ QueueCap \in Nat \ {0}
    /\ MaxEnqueue \in Nat \ {0}
    /\ MaxFaults \in Nat
    /\ HasDb \in BOOLEAN /\ QueriesFail \in BOOLEAN
    /\ NoRow \notin Row
    /\ NoName \notin Names

VARIABLES
    in_flight,  \* claimed keys
    queue,      \* names sent to the worker and not yet received
    worker,     \* where the worker task is, or "none"
    job,        \* the name it is resolving
    found,      \* the row it is about to store
    db,         \* table artist_meta
    cache,      \* the CacheStore's artist_meta entries
    pc,         \* where each caller is
    todo,       \* names a caller has still to offer
    offer,      \* the name a caller has claimed and not yet sent
    enqueued,   \* names a discovery request has handed over
    faults      \* faults so far

claims == <<in_flight, queue>>
task == <<worker, job, found>>
storage == <<db, cache>>
callers == <<pc, todo, offer, enqueued>>
vars == <<claims, task, storage, callers, faults>>

Callers == Pollers \cup Vetoes
Busy == {"tier1", "lookup", "search", "alias", "detail", "store", "missread", "storemiss"}
Key(n) == NameKey[n]

TypeOK ==
    /\ in_flight \subseteq Keys
    /\ queue \in Seq(Names) /\ Len(queue) <= QueueCap
    /\ worker \in Busy \cup {"none", "recv", "dying"}
    /\ job \in Names \cup {NoName}
    /\ found \in Row \cup {NoRow}
    /\ db \in [Keys -> Row \cup {NoRow}]
    /\ cache \in [Keys -> Row \cup {NoRow}]
    /\ pc \in [Callers -> {"idle", "offering", "claimed", "refused"}]
    /\ todo \in [Callers -> SUBSET Names]
    /\ offer \in [Callers -> Names \cup {NoName}]
    /\ enqueued \in [Callers -> 0..MaxEnqueue - 1]
    /\ faults \in 0..MaxFaults

Init ==
    /\ in_flight = {} /\ queue = <<>>
    /\ worker = "none" /\ job = NoName /\ found = NoRow
    /\ db = [k \in Keys |-> NoRow] /\ cache = [k \in Keys |-> NoRow]
    /\ pc = [c \in Callers |-> "idle"]
    /\ todo = [c \in Callers |-> {}]
    /\ offer = [c \in Callers |-> NoName]
    /\ enqueued = [c \in Callers |-> 0]
    /\ faults = 0

(* One thing went wrong, if bad: a call, a query, a task or the process.   *)
Fault(bad) ==
    /\ bad => faults < MaxFaults
    /\ faults' = IF bad THEN faults + 1 ELSE faults
-----------------------------------------------------------------------------
(* Storage.  Postgres when configured; the cache without it, or when the   *)
(* query fails.                                                            *)
read_stored(failed) == IF HasDb /\ ~failed THEN db ELSE cache

write_stored(k, row, failed) ==
    IF HasDb /\ ~failed
    THEN db' = [db EXCEPT ![k] = row] /\ UNCHANGED cache
    ELSE cache' = [cache EXCEPT ![k] = row] /\ UNCHANGED db

QueryFails(failed) == (failed => HasDb /\ QueriesFail) /\ Fault(failed)

is_stale_miss(row) == ~row.facts /\ row.old

(* The name is pending for a poll: no row, or a miss old enough to retry.  *)
Pending(row) == row = NoRow \/ is_stale_miss(row)

(* The alias-split veto wants the name resolved (split_veto.rs,            *)
(* needs_queue): like a poll, but a row with an mbid only for its aliases. *)
needs_queue(row) ==
    \/ row = NoRow
    \/ IF row.mbid THEN ~row.aliases ELSE is_stale_miss(row)

Wants(c, row) == IF c \in Pollers THEN Pending(row) ELSE needs_queue(row)
-----------------------------------------------------------------------------
(* Callers: snapshot and enqueue_background.                               *)

(* A caller reads the stored rows of the names it asks about; then, with   *)
(* no further await, it offers the missing ones.                           *)
Read(c, failed) ==
    /\ pc[c] = "idle"
    /\ QueryFails(failed)
    /\ LET rows == read_stored(failed)
           missing == {n \in Asks[c] : Wants(c, rows[Key(n)])}
       IN  /\ todo' = [todo EXCEPT ![c] = missing]
           /\ pc' = [pc EXCEPT ![c] = IF missing = {} THEN "idle" ELSE "offering"]
    /\ UNCHANGED <<claims, task, storage, offer, enqueued>>

(* The caller is done with name n; it goes on with left.                   *)
GoOn(c, left) ==
    /\ todo' = [todo EXCEPT ![c] = left]
    /\ offer' = [offer EXCEPT ![c] = NoName]
    /\ pc' = [pc EXCEPT ![c] = IF left = {} THEN "idle" ELSE "offering"]

(* ensure_worker: spawn the task on first use and when it has exited.      *)
ensure_worker == worker' = IF worker = "none" THEN "recv" ELSE worker

(* Not the code: the worker is only looked after when a claim succeeds.    *)
Mut_ClaimNoRespawn(c, n) ==
    /\ pc[c] = "offering" /\ n \in todo[c]
    /\ IF Key(n) \in in_flight
       THEN /\ GoOn(c, todo[c] \ {n})
            /\ enqueued' = IF todo[c] = {n} THEN [enqueued EXCEPT ![c] = 0] ELSE enqueued
            /\ UNCHANGED <<in_flight, worker>>
       ELSE /\ in_flight' = in_flight \cup {Key(n)}
            /\ ensure_worker
            /\ offer' = [offer EXCEPT ![c] = n]
            /\ pc' = [pc EXCEPT ![c] = "claimed"]
            /\ UNCHANGED <<todo, enqueued>>
    /\ UNCHANGED <<queue, job, found, storage, faults>>

(* Not the code: a claim that does not look whether the key is taken.      *)
Mut_ClaimBlind(c, n) ==
    /\ pc[c] = "offering" /\ n \in todo[c]
    /\ ensure_worker
    /\ in_flight' = in_flight \cup {Key(n)}
    /\ offer' = [offer EXCEPT ![c] = n]
    /\ pc' = [pc EXCEPT ![c] = "claimed"]
    /\ UNCHANGED <<queue, job, found, storage, todo, enqueued, faults>>

(* ensure_worker, then claim: the key is reserved unless it already is.    *)
Claim(c, n) ==
    /\ pc[c] = "offering" /\ n \in todo[c]
    /\ ensure_worker
    /\ IF Key(n) \in in_flight
       THEN /\ GoOn(c, todo[c] \ {n})
            /\ enqueued' = IF todo[c] = {n} THEN [enqueued EXCEPT ![c] = 0] ELSE enqueued
            /\ UNCHANGED in_flight
       ELSE /\ in_flight' = in_flight \cup {Key(n)}
            /\ offer' = [offer EXCEPT ![c] = n]
            /\ pc' = [pc EXCEPT ![c] = "claimed"]
            /\ UNCHANGED <<todo, enqueued>>
    /\ UNCHANGED <<queue, job, found, storage, faults>>

(* Not the code: an unbounded channel.                                     *)
Mut_SendUnbounded(c) ==
    /\ pc[c] = "claimed"
    /\ queue' = Append(queue, offer[c])
    /\ GoOn(c, todo[c] \ {offer[c]})
    /\ UNCHANGED <<in_flight, task, storage, enqueued, faults>>

(* try_send found room.  A discovery request stops at MaxEnqueue.          *)
Send(c) ==
    /\ pc[c] = "claimed" /\ Len(queue) < QueueCap
    /\ queue' = Append(queue, offer[c])
    /\ LET sent == IF c \in Vetoes THEN enqueued[c] + 1 ELSE 0
           left == IF c \in Vetoes /\ sent = MaxEnqueue THEN {} ELSE todo[c] \ {offer[c]}
       IN  /\ GoOn(c, left)
           /\ enqueued' = [enqueued EXCEPT ![c] = IF left = {} THEN 0 ELSE sent]
    /\ UNCHANGED <<in_flight, task, storage, faults>>

(* try_send found the channel full.                                        *)
Refuse(c) ==
    /\ pc[c] = "claimed" /\ Len(queue) = QueueCap
    /\ pc' = [pc EXCEPT ![c] = "refused"]
    /\ UNCHANGED <<claims, task, storage, todo, offer, enqueued, faults>>

(* Not the code: a refused name keeps its claim.                           *)
Mut_ReleaseForgotten(c) ==
    /\ pc[c] = "refused"
    /\ GoOn(c, todo[c] \ {offer[c]})
    /\ enqueued' = IF todo[c] \ {offer[c]} = {} THEN [enqueued EXCEPT ![c] = 0] ELSE enqueued
    /\ UNCHANGED <<claims, task, storage, faults>>

(* The caller gives its claim back; the name stays pending.                *)
Release(c) ==
    /\ pc[c] = "refused"
    /\ in_flight' = in_flight \ {Key(offer[c])}
    /\ LET left == todo[c] \ {offer[c]}
       IN  /\ GoOn(c, left)
           /\ enqueued' = IF left = {} THEN [enqueued EXCEPT ![c] = 0] ELSE enqueued
    /\ UNCHANGED <<queue, task, storage, faults>>
-----------------------------------------------------------------------------
(* The worker.                                                             *)

(* The claim guard is dropped: the key is free and the worker waits for    *)
(* the next name.                                                          *)
Finish ==
    /\ in_flight' = in_flight \ {Key(job)}
    /\ worker' = "recv" /\ job' = NoName /\ found' = NoRow

At(place) == worker = place
GoTo(place) == worker' = place

(* Not the code: the claim is released as soon as the name is received.    *)
Mut_RecvReleases ==
    /\ At("recv") /\ queue # <<>>
    /\ job' = Head(queue) /\ queue' = Tail(queue)
    /\ in_flight' = in_flight \ {Key(Head(queue))}
    /\ GoTo("tier1")
    /\ UNCHANGED <<found, storage, callers, faults>>

Recv ==
    /\ At("recv") /\ queue # <<>>
    /\ job' = Head(queue) /\ queue' = Tail(queue)
    /\ GoTo("tier1")
    /\ UNCHANGED <<in_flight, found, storage, callers, faults>>

(* Last.fm's mbid for the name; an error counts as none.                   *)
Tier1(hasMbid) ==
    /\ At("tier1")
    /\ GoTo(IF hasMbid THEN "lookup" ELSE "search")
    /\ UNCHANGED <<claims, job, found, storage, callers, faults>>

(* What one low-priority MusicBrainz call can come back with; "transient"  *)
(* stands for MbError::Transient and MbError::Starved.                     *)
Results == {"ok", "notfound", "transient"}

(* Outcome::Found, as the row the worker will store.                       *)
Entry(aliases) ==
    \E f \in Facts[Key(job)] :
        found' = [mbid |-> TRUE, facts |-> f, aliases |-> aliases, old |-> FALSE]
MissRow == [mbid |-> FALSE, facts |-> FALSE, aliases |-> FALSE, old |-> FALSE]

(* Not the code: an mbid unknown to MusicBrainz ends the resolution.       *)
Mut_LookupGivesUp(r) ==
    /\ At("lookup") /\ Fault(r = "transient")
    /\ IF r = "ok" THEN GoTo("store") /\ Entry(TRUE) /\ UNCHANGED <<in_flight, job>>
                   ELSE Finish
    /\ UNCHANGED <<queue, storage, callers>>

(* The lookup of Last.fm's mbid, with its aliases.  An mbid unknown to     *)
(* MusicBrainz falls through to the search.                                *)
Lookup(r) ==
    /\ At("lookup") /\ Fault(r = "transient")
    /\ CASE r = "ok" -> /\ GoTo("store") /\ Entry(TRUE)
                        /\ UNCHANGED <<in_flight, job>>
         [] r = "notfound" -> GoTo("search") /\ UNCHANGED <<in_flight, job, found>>
         [] r = "transient" -> Finish
    /\ UNCHANGED <<queue, storage, callers>>

(* What a search that got an answer contains: an acceptable hit, a hit     *)
(* without an id, or nothing acceptable.                                   *)
Hits == {"hit", "anonymous", "none"}

(* Not the code: a failed search counts as one that found nothing.         *)
Mut_SearchFailsOpen(r, hit, otherwise) ==
    /\ Fault(r = "transient")
    /\ GoTo(IF r # "ok" \/ hit = "none" THEN otherwise
            ELSE IF hit = "anonymous" THEN "missread" ELSE "detail")
    /\ IF r = "ok" /\ hit = "hit" THEN Entry(FALSE) ELSE found' = NoRow
    /\ UNCHANGED <<in_flight, job, queue, storage, callers>>

(* One search: search_hit and what resolve does with its result.  Nothing  *)
(* found goes on to the place given.                                       *)
SearchStep(r, hit, otherwise) ==
    /\ Fault(r = "transient")
    /\ IF r = "transient"
       THEN Finish
       ELSE /\ GoTo(IF r = "notfound" \/ hit = "none" THEN otherwise
                    ELSE IF hit = "anonymous" THEN "missread" ELSE "detail")
            /\ IF r = "ok" /\ hit = "hit" THEN Entry(FALSE) ELSE found' = NoRow
            /\ UNCHANGED <<in_flight, job>>
    /\ UNCHANGED <<queue, storage, callers>>

Search(r, hit) == At("search") /\ SearchStep(r, hit, "alias")
AliasSearch(r, hit) == At("alias") /\ SearchStep(r, hit, "missread")

(* The second lookup, for the hit's aliases; any failure leaves them       *)
(* unknown and keeps the hit.                                              *)
Detail(r) ==
    /\ At("detail") /\ Fault(r = "transient")
    /\ found' = [found EXCEPT !.aliases = (r = "ok")]
    /\ GoTo("store")
    /\ UNCHANGED <<claims, job, storage, callers>>

StoreFound(failed) ==
    /\ At("store") /\ QueryFails(failed)
    /\ write_stored(Key(job), found, failed)
    /\ Finish
    /\ UNCHANGED <<queue, callers>>

(* Not the code: a miss is stored whatever the row holds.                  *)
Mut_MissOverwrites(failed) ==
    /\ At("missread") /\ QueryFails(failed) /\ GoTo("storemiss")
    /\ UNCHANGED <<in_flight, job, found, queue, storage, callers>>

(* A miss never overwrites an mbid that the worker can see.                *)
MissRead(failed) ==
    /\ At("missread") /\ QueryFails(failed)
    /\ LET have == read_stored(failed)[Key(job)]
       IN  IF have # NoRow /\ have.mbid
           THEN Finish
           ELSE GoTo("storemiss") /\ UNCHANGED <<in_flight, job, found>>
    /\ UNCHANGED <<queue, storage, callers>>

StoreMiss(failed) ==
    /\ At("storemiss") /\ QueryFails(failed)
    /\ write_stored(Key(job), MissRow, failed)
    /\ Finish
    /\ UNCHANGED <<queue, callers>>

(* A panic while resolving unwinds: the guard releases the claim first...  *)
Panic ==
    /\ worker \in Busy /\ Fault(TRUE)
    /\ in_flight' = in_flight \ {Key(job)}
    /\ GoTo("dying") /\ job' = NoName /\ found' = NoRow
    /\ UNCHANGED <<queue, storage, callers>>

(* ... and only then does is_finished answer true.                         *)
Died ==
    /\ At("dying") /\ GoTo("none")
    /\ UNCHANGED <<claims, job, found, storage, callers, faults>>
-----------------------------------------------------------------------------
(* Environment: time and the process.                                      *)

(* A row turns 30 days old; a cache entry of that age expires.             *)
Age(k) ==
    \/ /\ db[k] # NoRow /\ ~db[k].old
       /\ db' = [db EXCEPT ![k].old = TRUE]
       /\ UNCHANGED <<claims, task, cache, callers, faults>>
    \/ /\ cache[k] # NoRow
       /\ cache' = [cache EXCEPT ![k] = NoRow]
       /\ UNCHANGED <<claims, task, db, callers, faults>>

(* The process restarts; Postgres keeps its rows, and so does Redis.       *)
Restart(keepsCache) ==
    /\ Fault(TRUE)
    /\ in_flight' = {} /\ queue' = <<>>
    /\ worker' = "none" /\ job' = NoName /\ found' = NoRow
    /\ cache' = IF keepsCache THEN cache ELSE [k \in Keys |-> NoRow]
    /\ pc' = [c \in Callers |-> "idle"]
    /\ todo' = [c \in Callers |-> {}]
    /\ offer' = [c \in Callers |-> NoName]
    /\ enqueued' = [c \in Callers |-> 0]
    /\ UNCHANGED db
-----------------------------------------------------------------------------
CallerStep(c) ==
    \/ \E n \in Names : Claim(c, n)
    \/ Send(c)
    \/ Refuse(c)
    \/ Release(c)

WorkerStep ==
    \/ Recv
    \/ \E b \in BOOLEAN : Tier1(b) \/ StoreFound(b) \/ MissRead(b) \/ StoreMiss(b)
    \/ \E r \in Results :
          \/ Lookup(r)
          \/ \E hit \in Hits : Search(r, hit) \/ AliasSearch(r, hit)
          \/ Detail(r)
    \/ Died

Next ==
    \/ \E c \in Callers, failed \in BOOLEAN : Read(c, failed)
    \/ \E c \in Callers : CallerStep(c)
    \/ WorkerStep
    \/ Panic
    \/ \E k \in Keys : Age(k)
    \/ \E keeps \in BOOLEAN : Restart(keeps)

Spec == Init /\ [][Next]_vars

(* What must go on: a request runs to its end once it has read; the worker *)
(* task is scheduled and every call it makes returns; a client polls again *)
(* while it shows the names.  Discoveries, faults and the passing of 30    *)
(* days may happen or not.                                                 *)
Fairness ==
    /\ \A c \in Callers : WF_vars(CallerStep(c))
    /\ WF_vars(WorkerStep)
    /\ \A c \in Pollers : WF_vars(\E failed \in BOOLEAN : Read(c, failed))

FairSpec == Spec /\ Fairness
-----------------------------------------------------------------------------
(* Properties.                                                             *)

(* The callers that hold a claim they have not passed on.                  *)
Offering == {c \in Callers : pc[c] \in {"claimed", "refused"}}

(* A claimed key is in somebody's hands: its name is in the channel, with  *)
(* the worker, or with a caller between claim and try_send.  A claim that  *)
(* nobody holds would leave the name pending forever ("a panic or cancel   *)
(* cannot leave a name pending forever", artist_meta.rs:33-34).            *)
ClaimHasHolder ==
    \A k \in in_flight :
        \/ \E i \in DOMAIN queue : Key(queue[i]) = k
        \/ worker \in Busy /\ Key(job) = k
        \/ \E c \in Offering : Key(offer[c]) = k

(* A key is never in two hands, whatever spellings its names have and      *)
(* however requests, a dying worker and its successor interleave; and      *)
(* whoever has it has it claimed.                                          *)
OneHolderPerKey ==
    /\ \A i, j \in DOMAIN queue : Key(queue[i]) = Key(queue[j]) => i = j
    /\ \A i \in DOMAIN queue : Key(queue[i]) \in in_flight
    /\ \A c, d \in Offering : Key(offer[c]) = Key(offer[d]) => c = d
    /\ \A c \in Offering : Key(offer[c]) \in in_flight
    /\ \A c \in Offering, i \in DOMAIN queue : Key(offer[c]) # Key(queue[i])
    /\ worker \in Busy =>
          /\ Key(job) \in in_flight
          /\ \A i \in DOMAIN queue : Key(queue[i]) # Key(job)
          /\ \A c \in Offering : Key(offer[c]) # Key(job)

(* A busy worker has a name, a hit on its way to storage is a row, and a   *)
(* caller holding a claim has its name.                                    *)
Consistent ==
    /\ worker \in Busy => job \in Names
    /\ worker \in {"detail", "store"} => found \in Row
    /\ \A c \in Offering : offer[c] \in Names

(* The inductive invariant of the claims.                                  *)
Custody == TypeOK /\ Consistent /\ ClaimHasHolder /\ OneHolderPerKey

(* The service implements the promise of module SingleFlight.              *)
SF == INSTANCE SingleFlight WITH
          claimed <- in_flight,
          active <- IF worker \in Busy THEN {Key(job)} ELSE {}
ImplementsSingleFlight == SF!Spec

(* A MusicBrainz call that failed never moves a resolution on towards an   *)
(* answer: "Transient failures (MB 5xx/503, transport, starvation by blend *)
(* traffic) are never stored" (artist_meta.rs:23-24).  The exception is    *)
(* the alias lookup of a hit, which is stored without them.  Last.fm's     *)
(* mbid (Tier1) is no MusicBrainz call: its error counts as none.          *)
FailureStoresNothing ==
    [][ /\ worker \in {"lookup", "search", "alias"}
        /\ worker' \in Busy /\ worker' # worker
        => faults' = faults ]_vars

HasMbid(row) == row # NoRow /\ row.mbid

(* A row with an mbid keeps one: "never overwrite real data with" a miss   *)
(* (artist_meta.rs:470-471).                                               *)
MbidNeverErased ==
    [][\A k \in Keys : HasMbid(db[k]) => HasMbid(db'[k])]_db

(* Every claim on a name that is pending and still polled is released, and *)
(* so the name can be offered again: also when the worker died on it or on *)
(* one before it, or the channel was full.                                 *)
Polled == UNION {Asks[c] : c \in Pollers}
Stored(k) == read_stored(FALSE)[k]
PolledClaimReleased ==
    \A n \in Polled :
        (Key(n) \in in_flight /\ Pending(Stored(Key(n)))) ~>
            (Key(n) \notin in_flight \/ ~Pending(Stored(Key(n))))

(* A name that clients keep polling is answered once failures stop, if the *)
(* channel has room for it in the end: somebody who offers its key is      *)
(* refused only so many times.  Nothing in the code sees to that; "a full  *)
(* queue drops the name" (artist_meta.rs:28-29), each time if another one  *)
(* is always first.  An exception is a row with an mbid, no facts and an   *)
(* age of 30 days: a miss does not touch it.                               *)
Refused(n) == \E c \in Callers : pc[c] = "refused" /\ Key(offer[c]) = Key(n)
PolledNameSettles ==
    \A n \in Polled :
        <>[]~Refused(n) =>
            (Pending(Stored(Key(n))) ~>
                (~Pending(Stored(Key(n))) \/ HasMbid(Stored(Key(n)))))
=============================================================================
