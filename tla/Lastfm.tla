------------------------------- MODULE Lastfm -------------------------------
(***************************************************************************)
(* The Last.fm client (backend/src/lastfm.rs): a pool of API keys that     *)
(* requests take in turn, keys that users contribute while requests run    *)
(* and that a file keeps over restarts (contribute_key_handler in          *)
(* handlers.rs), retries, and the cache of artist pages.                   *)
(*                                                                         *)
(* Synchronous code runs on one of Workers threads; the threads interleave *)
(* at every atomic operation and lock.  The clock counts bench times: a    *)
(* bench that was started at t ends when the clock is at t + 1.            *)
(***************************************************************************)
EXTENDS Integers, Sequences, FiniteSets, SequencesExt

CONSTANTS
    Owner,          \* the keys of the environment; the first is the primary
    Posts,          \* POSTs of a contributed key
    Offers,         \* the keys that a post may bring
    Calls,          \* requests
    Fetcher,        \* the method of a request
    Asks,           \* the pages it may ask for
    Items,
    Workers,        \* threads of the runtime
    MaxAttempts,    \* MAX_REQUEST_ATTEMPTS
    Cap,            \* AUDIT_CACHE_CAP
    Lap,            \* bound: a common multiple of the pool's sizes (the code's counter wraps at 2^64)
    MaxTime,        \* bound: clock
    MaxFaults,      \* bound: crashes and failed writes
    NoKey, NoItem

VARIABLES
    pool,           \* keys: the rotation
    until,          \* benched_until of every key
    cursor,         \* the shared cursor, modulo Lap
    contributed,    \* contributed: what the file should hold
    file,           \* the lines of the store file
    post,           \* how far a post is
    kept,           \* history: keys that the file has held since it was last torn
    call,           \* how far a request is
    cache,          \* audit_cache: items that are in it
    races,          \* history: stores that overlapped with another one
    clock, faults, up

poolVars == <<pool, until, cursor>>
storeVars == <<contributed, file, post, kept>>
cacheVars == <<cache, races>>
vars == <<poolVars, storeVars, call, cacheVars, clock, faults, up>>

Keys == ToSet(Owner) \cup UNION {Offers[p] : p \in Posts}
Fetchers == {"chart", "page", "public_page", "mbid", "session"}

ASSUME LastfmAssumption ==
    /\ Owner \in Seq(Keys) \ {<< >>} /\ Cardinality(ToSet(Owner)) = Len(Owner) /\ NoKey \notin Keys
    /\ Fetcher \in [Calls -> Fetchers] /\ Asks \in [Calls -> SUBSET Items] /\ NoItem \notin Items
    /\ Workers \in Nat \ {0} /\ MaxAttempts \in Nat \ {0} /\ Cap \in Nat \ {0}
    /\ IsFiniteSet(Keys) /\ Lap \in Nat \ {0} /\ \A n \in 1..Cardinality(Keys) : Lap % n = 0
    /\ MaxTime \in Nat /\ MaxFaults \in Nat

Idle == [st |-> "idle", attempt |-> 0, item |-> NoItem, key |-> NoKey, left |-> 0, at |-> 0,
         raced |-> FALSE, victim |-> NoItem]
Become(c, st) == call' = [call EXCEPT ![c] = [Idle EXCEPT !.st = st]]

Picking == {c \in Calls : call[c].st = "pick"}
Storing == {c \in Calls : call[c].st = "store"}
Writing == {p \in Posts : post[p].st = "emptied"}
\* Calls in synchronous code occupy a thread.
Busy == Cardinality(Picking \cup Storing)

Init ==
    /\ pool = Owner /\ until = [k \in Keys |-> 0] /\ cursor = 0
    /\ contributed = << >> /\ file = << >> /\ post = [p \in Posts |-> [st |-> "new", key |-> NoKey]] /\ kept = {}
    /\ call = [c \in Calls |-> Idle]
    /\ cache = {} /\ races = 0 /\ clock = 0 /\ faults = 0 /\ up = TRUE

-----------------------------------------------------------------------------
(* Contributed keys.                                                       *)

Advance(p, st) == post' = [post EXCEPT ![p].st = st]

\* Not the code: a key is contributed again.
Mut_AddTwice(p) ==
    /\ up /\ post[p].st = "new" /\ Picking = {}
    /\ \E k \in Offers[p] : /\ post' = [post EXCEPT ![p] = [st |-> "pooled", key |-> k]]
                            /\ pool' = Append(pool, k)
    /\ UNCHANGED <<until, cursor, contributed, file, kept, call, cacheVars, clock, faults, up>>

\* contribute_key_handler and add_key: a key that has passed the probe joins
\* the pool under its write lock, so that no scan is under way.
add_key(p) ==
    /\ up /\ post[p].st = "new" /\ Picking = {}
    /\ \E k \in Offers[p] :
          IF k \in ToSet(pool) THEN Advance(p, "duplicate") /\ UNCHANGED pool
          ELSE /\ post' = [post EXCEPT ![p] = [st |-> "pooled", key |-> k]]
               /\ pool' = Append(pool, k)
    /\ UNCHANGED <<until, cursor, contributed, file, kept, call, cacheVars, clock, faults, up>>

\* persist, with the lock of the list held: fs::write empties the file and
\* then fills it.  Either may fail, which is only logged.
Truncate(p) ==
    /\ up /\ post[p].st = "pooled" /\ Writing = {}
    /\ contributed' = Append(contributed, post[p].key)
    /\ \/ file' = << >> /\ Advance(p, "emptied") /\ UNCHANGED faults
       \/ faults < MaxFaults /\ faults' = faults + 1 /\ Advance(p, "thanked") /\ UNCHANGED file
    /\ UNCHANGED <<poolVars, kept, call, cacheVars, clock, up>>

\* Not the code: only the new key is written.
Mut_WriteNewOnly(p) ==
    /\ up /\ post[p].st = "emptied"
    /\ Advance(p, "thanked")
    /\ file' = <<post[p].key>> /\ kept' = kept \cup {post[p].key}
    /\ UNCHANGED <<poolVars, contributed, call, cacheVars, clock, faults, up>>

persist(p) ==
    /\ up /\ post[p].st = "emptied"
    /\ Advance(p, "thanked")
    /\ \/ /\ file' = contributed /\ kept' = kept \cup ToSet(contributed)
          /\ UNCHANGED faults
       \/ /\ faults < MaxFaults /\ faults' = faults + 1
          /\ kept' = {} /\ UNCHANGED file
    /\ UNCHANGED <<poolVars, contributed, call, cacheVars, clock, up>>

Crash ==
    /\ up /\ faults < MaxFaults
    /\ faults' = faults + 1 /\ up' = FALSE
    /\ kept' = IF \E p \in Posts : post[p].st = "emptied" THEN {} ELSE kept
    /\ post' = [p \in Posts |-> IF post[p].st \in {"pooled", "emptied"}
                                THEN [post[p] EXCEPT !.st = "gone"] ELSE post[p]]
    /\ pool' = << >> /\ contributed' = << >> /\ cursor' = 0
    /\ until' = [k \in Keys |-> 0]
    /\ cache' = {} /\ races' = 0
    /\ call' = [c \in Calls |-> Idle] /\ clock' = 0
    /\ UNCHANGED file

\* The keys of s without the owner's, each once and in their order.
Loaded(s) == {t \in SetToSeqs(ToSet(s) \ ToSet(Owner)) :
                 \A i, j \in DOMAIN t : i < j =>
                     \E m \in DOMAIN s : s[m] = t[i] /\ \A n \in 1..m : s[n] # t[j]}

\* with_keys: the owner's keys first, then the lines of the file.
with_keys ==
    /\ ~up /\ up' = TRUE
    /\ contributed' \in Loaded(file)
    /\ pool' = Owner \o contributed'
    /\ UNCHANGED <<until, cursor, file, post, kept, call, cacheVars, clock, faults>>

-----------------------------------------------------------------------------
(* Requests.                                                               *)

\* fetch_artist_info answers from its cache; an entry may be too old.
CacheHit(c) ==
    /\ up /\ call[c].st = "idle" /\ Fetcher[c] = "page" /\ Asks[c] \cap cache # {}
    /\ Become(c, "done")
    /\ UNCHANGED <<poolVars, storeVars, cacheVars, clock, faults, up>>

\* pick_key takes the pool's read lock and the time.
StartPick(c, attempt, item) ==
    /\ Busy < Workers
    /\ call' = [call EXCEPT ![c] = [Idle EXCEPT !.st = "pick", !.attempt = attempt, !.item = item,
                                                !.left = Len(pool), !.at = clock]]
    /\ UNCHANGED <<poolVars, storeVars, cacheVars, clock, faults, up>>

FirstAttempt(c) == up /\ call[c].st = "idle" /\ \E i \in Asks[c] : StartPick(c, 0, i)
NextAttempt(c) == up /\ call[c].st = "retry" /\ StartPick(c, call[c].attempt, call[c].item)

CursorKey == pool[(cursor % Len(pool)) + 1]
Benched(c, k) == until[k] > call[c].at

\* Not the code: a key that is benched ends the scan.
Mut_TakeBenched(c) ==
    /\ up /\ call[c].st = "pick"
    /\ cursor' = (cursor + 1) % Lap
    /\ call' = [d \in Calls |->
           IF d = c THEN [call[c] EXCEPT !.st = "sent", !.key = CursorKey, !.left = 0, !.at = 0, !.raced = FALSE]
           ELSE IF d \in Picking THEN [call[d] EXCEPT !.raced = TRUE] ELSE call[d]]
    /\ UNCHANGED <<pool, until, storeVars, cacheVars, clock, faults, up>>

\* One fetch_add of the cursor and a look at the key it gives.  The key is
\* taken unless it is benched, and after a whole round in any case.
pick_key(c) ==
    /\ up /\ call[c].st = "pick"
    /\ cursor' = (cursor + 1) % Lap
    /\ call' = [d \in Calls |->
           IF d = c
           THEN IF call[c].left > 0 /\ Benched(c, CursorKey)
                THEN [call[c] EXCEPT !.left = @ - 1]
                ELSE [call[c] EXCEPT !.st = "sent", !.key = CursorKey, !.left = 0, !.at = 0, !.raced = FALSE]
           ELSE IF d \in Picking THEN [call[d] EXCEPT !.raced = TRUE] ELSE call[d]]
    /\ UNCHANGED <<pool, until, storeVars, cacheVars, clock, faults, up>>

\* Not the code: one attempt too many.
Mut_OneMore(c) ==
    LET n == call[c].attempt + 1
    IN  call' = [call EXCEPT ![c] = IF n <= MaxAttempts
                                    THEN [Idle EXCEPT !.st = "retry", !.attempt = n, !.item = call[c].item]
                                    ELSE [Idle EXCEPT !.st = "transient"]]

\* After a failure that may pass: back off, or give up.
BackOff(c) ==
    LET n == call[c].attempt + 1
    IN  call' = [call EXCEPT ![c] = IF n < MaxAttempts
                                    THEN [Idle EXCEPT !.st = "retry", !.attempt = n, !.item = call[c].item]
                                    ELSE [Idle EXCEPT !.st = "transient"]]

\* What the fetch methods make of a body: an error body that no retry can
\* help is "user not found" for a chart, nothing for an mbid or the public
\* page of an artist, and an error for the others.
Outcome(f, body) ==
    CASE body = "ok" \/ f = "mbid" \/ (body = "code6" /\ f = "public_page") -> "done"
      [] body = "code6" /\ f = "chart" -> "no_user"
      [] OTHER -> "permanent"

\* get_session_at signs its parameters with the primary key: Last.fm answers
\* error 13 when the request carries another one.
Primary == Owner[1]
Bodies(c) == IF Fetcher[c] = "session" /\ call[c].key # Primary THEN {"code13"}
             ELSE {"code6", "error"} \cup (IF Fetcher[c] = "page" THEN {} ELSE {"ok"})

\* get_with_retry: one attempt is answered.
Answered(c) ==
    /\ up /\ call[c].st = "sent"
    /\ \E body \in Bodies(c) : Become(c, Outcome(Fetcher[c], body))
    /\ UNCHANGED <<poolVars, storeVars, cacheVars, clock, faults, up>>

\* A 4xx without an error body.
Rejected(c) ==
    /\ up /\ call[c].st = "sent"
    /\ Become(c, "permanent")
    /\ UNCHANGED <<poolVars, storeVars, cacheVars, clock, faults, up>>

\* Error 29: the key sits out.
RateLimited(c) ==
    /\ up /\ call[c].st = "sent"
    /\ until' = [until EXCEPT ![call[c].key] = clock + 1]
    /\ BackOff(c)
    /\ UNCHANGED <<pool, cursor, storeVars, cacheVars, clock, faults, up>>

\* Errors 8, 11 and 16, a 5xx, a failed connection or a broken body.
FailedForNow(c) ==
    /\ up /\ call[c].st = "sent"
    /\ BackOff(c)
    /\ UNCHANGED <<poolVars, storeVars, cacheVars, clock, faults, up>>

\* Not the code: the cap is noticed one entry too late.
Mut_CapOff(c) ==
    /\ up /\ call[c].st = "sent" /\ Fetcher[c] = "page" /\ Busy < Workers
    /\ \E v \in IF Cardinality(cache) > Cap THEN cache ELSE {NoItem} :
          call' = [call EXCEPT ![c].st = "store", ![c].key = NoKey, ![c].attempt = 0, ![c].victim = v]
    /\ UNCHANGED <<poolVars, storeVars, cacheVars, clock, faults, up>>

\* A page has come: fetch_artist_info hands it to remember_artist_info, which
\* reads the length and picks a victim.
CheckCap(c) ==
    /\ up /\ call[c].st = "sent" /\ Fetcher[c] = "page" /\ Busy < Workers
    /\ \E v \in IF Cardinality(cache) >= Cap THEN cache ELSE {NoItem} :
          call' = [call EXCEPT ![c].st = "store", ![c].key = NoKey, ![c].attempt = 0, ![c].victim = v]
    /\ UNCHANGED <<poolVars, storeVars, cacheVars, clock, faults, up>>

\* Not the code: the iterator that found the victim still holds the shard
\* that the removal wants.
Mut_EvictBlocks(c) == FALSE /\ c \in Calls /\ UNCHANGED vars

\* The victim is removed.
Evict(c) ==
    /\ up /\ call[c].st = "store" /\ call[c].victim # NoItem
    /\ cache' = cache \ {call[c].victim}
    /\ call' = [call EXCEPT ![c].victim = NoItem]
    /\ UNCHANGED <<poolVars, storeVars, races, clock, faults, up>>

\* The entry is inserted.
remember_artist_info(c) ==
    /\ up /\ call[c].st = "store" /\ call[c].victim = NoItem
    /\ cache' = cache \cup {call[c].item}
    /\ races' = IF Storing = {c} THEN races ELSE races + 1
    /\ Become(c, "done")
    /\ UNCHANGED <<poolVars, storeVars, clock, faults, up>>

\* Time matters while a key is benched.
Tick ==
    /\ clock < MaxTime /\ \E k \in Keys : until[k] > clock /\ clock' = clock + 1
    /\ UNCHANGED <<poolVars, storeVars, call, cacheVars, faults, up>>

PostStep(p) == add_key(p) \/ Truncate(p) \/ persist(p)
CallStep(c) == CacheHit(c) \/ FirstAttempt(c) \/ NextAttempt(c) \/ pick_key(c) \/ Answered(c) \/ Rejected(c)
               \/ RateLimited(c) \/ FailedForNow(c) \/ CheckCap(c) \/ Evict(c)
               \/ remember_artist_info(c)

Next == (\E p \in Posts : PostStep(p)) \/ (\E c \in Calls : CallStep(c))
        \/ Crash \/ with_keys \/ Tick

Spec == Init /\ [][Next]_vars

\* Threads are scheduled, Last.fm answers or the client's timeout does, and
\* back-offs end.
FairSpec == Spec /\ \A c \in Calls : WF_vars(CallStep(c) /\ call[c].st # "idle")

-----------------------------------------------------------------------------
(* The types of the variables.                                             *)
States == {"idle", "pick", "sent", "retry", "store", "done", "no_user",
           "permanent", "transient"}
TypeOK ==
    /\ pool \in Seq(Keys) /\ contributed \in Seq(Keys) /\ file \in Seq(Keys) /\ kept \subseteq Keys
    /\ until \in [Keys -> Nat] /\ cursor \in 0..(Lap - 1)
    /\ post \in [Posts -> [key : Keys \cup {NoKey}, st : {"new", "duplicate", "pooled", "emptied",
                                                        "thanked", "gone"}]]
    /\ call \in [Calls -> [st : States, attempt : 0..(MaxAttempts - 1), key : Keys \cup {NoKey},
                           item : Items \cup {NoItem}, left : Nat, at : Nat, raced : BOOLEAN, victim : Items \cup {NoItem}]]
    /\ cache \subseteq Items /\ races \in Nat /\ clock \in Nat /\ faults \in Nat /\ up \in BOOLEAN

NoRepeats(s) == Cardinality(ToSet(s)) = Len(s)

(* Every key is in the rotation once, and the rotation is the owner's keys *)
(* and the contributed ones, but for a key whose POST is between the two   *)
(* locks of add_key: so the file that is written from the list never lacks *)
(* a key for long and never brings one back twice.                         *)
PoolMatchesList ==
    up => /\ NoRepeats(pool)
          /\ ToSet(pool) = ToSet(Owner) \cup ToSet(contributed)
                           \cup {post[p].key : p \in {q \in Posts : post[q].st = "pooled"}}
          /\ NoRepeats(contributed) /\ ToSet(contributed) \cap ToSet(Owner) = {}

(* A contributed key that has reached the file stays in it and in the      *)
(* rotation, over restarts and over other contributions, unless a later    *)
(* write is torn between emptying the file and filling it.                 *)
ContributionsSurvive ==
    up => /\ kept \subseteq ToSet(pool)
          /\ (\A p \in Posts : post[p].st # "emptied") => kept \subseteq ToSet(file)

(* A request uses a benched key only when all keys of the pool are benched *)
(* or another scan moved the shared cursor during its own scan.            *)
BenchedOnlyIfNeeded ==
    [][\A c \in Calls :
           call[c].st = "pick" /\ call'[c].st = "sent" /\ until[call'[c].key] > call[c].at
               => call[c].raced \/ \A k \in ToSet(pool) : until[k] > call[c].at]_vars

(* The page cache exceeds its cap only by what overlapping stores add.     *)
CacheGrowsByRacesOnly == Cardinality(cache) <= Cap + races

(* Every request ends, whatever Last.fm answers; a crash ends it as well.  *)
RequestEnds ==
    \A c \in Calls : call[c].st # "idle" ~>
        call[c].st \in {"done", "no_user", "permanent", "transient", "idle"}

(* "the methods themselves never need to know about the pool"              *)
(* (lastfm.rs:297): a login is never answered with a bad signature,        *)
(* whichever key the rotation gives its request.                           *)
SignedRequestKeepsItsKey ==
    \A c \in Calls : call[c].st = "sent" /\ Fetcher[c] = "session" => call[c].key = Primary
=============================================================================
