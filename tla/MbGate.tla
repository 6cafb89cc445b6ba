-------------------------------- MODULE MbGate --------------------------------
(***************************************************************************)
(* The MusicBrainz gate of backend/src/listenbrainz.rs.  Blend callers     *)
(* (resolve_mbid, one per seed of a discovery with ListenBrainz) and one   *)
(* low-priority caller (the worker of module ArtistMeta) share mb_sem, a   *)
(* semaphore of one permit, and mb_pacer, at most one request per          *)
(* interval.  A blend caller announces itself in mb_blend_waiting before   *)
(* it queues; the low-priority caller only tries for the permit while that *)
(* count is zero.  A blend caller may be cancelled at every await.         *)
(***************************************************************************)
EXTENDS Integers, Sequences, FiniteSets

CONSTANTS
    Blend,     \* concurrent blend callers
    Names,     \* the names they resolve
    Known,     \* names that Last.fm or a MusicBrainz search knows an id for
    Interval,  \* MB_MIN_INTERVAL, in ticks
    MaxWait,   \* max_wait (STARVE_BUDGET), in ticks
    MaxFaults, \* bound: failed calls of a behaviour
    Low,       \* the low-priority caller
    Nobody,    \* nobody has the permit
    NoName     \* a caller without a request

ASSUME MbGateAssumption ==
    /\ IsFiniteSet(Blend)
    /\ Known \subseteq Names
    /\ Interval \in Nat /\ MaxWait \in Nat /\ MaxFaults \in Nat
    /\ Low \notin Blend /\ Nobody \notin Blend /\ Low # Nobody
    /\ NoName \notin Names

VARIABLES
    permit,     \* mb_sem: who has the permit
    queue,      \* mb_sem: blend callers waiting for it, first come first served
    waiting,    \* mb_blend_waiting
    since,      \* ticks since the pacer let a request go, at most Interval
    pc,         \* where each blend caller is
    asks,       \* the name it resolves
    answer,     \* the id it found: "id" or "none"
    low,        \* where the low-priority caller is
    left,       \* ticks it has left to wait
    cache,      \* lb:mbid entries: "absent", "id", or the negative "none"
    overtaken,  \* history: low-priority calls each blend caller had to wait for
    faults      \* failed calls so far

sem == <<permit, queue>>
blend == <<pc, asks, answer>>
lowpri == <<low, left>>
vars == <<sem, waiting, since, blend, lowpri, cache, overtaken, faults>>

Paced == {"pacing", "calling"}
Places == {"idle", "tier1", "announcing", "announced", "queued", "put", "dropping"} \cup Paced
LowPlaces == {"idle", "poll", "try", "late", "asleep", "awake"} \cup Paced

TypeOK ==
    /\ permit \in Blend \cup {Low, Nobody}
    /\ queue \in Seq(Blend)
    /\ waiting \in Nat
    /\ since \in 0..Interval
    /\ pc \in [Blend -> Places]
    /\ asks \in [Blend -> Names \cup {NoName}]
    /\ answer \in [Blend -> {"id", "none"}]
    /\ low \in LowPlaces
    /\ left \in 0..MaxWait
    /\ cache \in [Names -> {"absent", "id", "none"}]
    /\ overtaken \in [Blend -> Nat]
    /\ faults \in 0..MaxFaults

Init ==
    /\ permit = Nobody /\ queue = <<>> /\ waiting = 0
    /\ since = Interval
    /\ pc = [b \in Blend |-> "idle"]
    /\ asks = [b \in Blend |-> NoName]
    /\ answer = [b \in Blend |-> "none"]
    /\ low = "idle" /\ left = MaxWait
    /\ cache = [n \in Names |-> "absent"]
    /\ overtaken = [b \in Blend |-> 0]
    /\ faults = 0

Fault(bad) ==
    /\ bad => faults < MaxFaults
    /\ faults' = IF bad THEN faults + 1 ELSE faults

At(b, place) == pc[b] = place
GoTo(b, place) == pc' = [pc EXCEPT ![b] = place]
-----------------------------------------------------------------------------
(* tokio's Semaphore: a released permit goes to the first waiter.          *)
release ==
    IF queue = <<>> THEN permit' = Nobody /\ UNCHANGED queue
                    ELSE permit' = Head(queue) /\ queue' = Tail(queue)

(* Caller b is no longer interested: it leaves the queue, or gives back    *)
(* the permit it was handed.                                               *)
Without(q, b) ==
    LET i == CHOOSE j \in DOMAIN q : q[j] = b
    IN  [j \in 1..Len(q) - 1 |-> IF j < i THEN q[j] ELSE q[j + 1]]

Drop(b) ==
    IF permit = b
    THEN release
    ELSE /\ queue' = IF \E j \in DOMAIN queue : queue[j] = b THEN Without(queue, b) ELSE queue
         /\ UNCHANGED permit

(* The pacer lets the holder of the permit go.                             *)
wait == since = Interval /\ since' = 0
-----------------------------------------------------------------------------
(* Blend callers.                                                          *)

(* resolve_mbid starts with the cache, whose entries answer for either     *)
(* outcome.                                                                *)
Ask(b, n) ==
    /\ At(b, "idle") /\ cache[n] = "absent"
    /\ asks' = [asks EXCEPT ![b] = n]
    /\ GoTo(b, "tier1")
    /\ UNCHANGED <<sem, waiting, since, answer, lowpri, cache, overtaken, faults>>

(* Last.fm's mbid; a failed call counts as none.                           *)
Tier1(b, found, failed) ==
    /\ At(b, "tier1")
    /\ found => asks[b] \in Known /\ ~failed
    /\ Fault(failed)
    /\ answer' = [answer EXCEPT ![b] = IF found THEN "id" ELSE "none"]
    /\ GoTo(b, IF found THEN "put" ELSE "announcing")
    /\ UNCHANGED <<sem, waiting, since, asks, lowpri, cache, overtaken>>

(* Not the code: the caller queues for the permit without announcing it.   *)
Mut_Unannounced(b) ==
    /\ At(b, "announcing")
    /\ overtaken' = [overtaken EXCEPT ![b] = IF permit = Low THEN 1 ELSE 0]
    /\ GoTo(b, "announced")
    /\ UNCHANGED <<sem, waiting, since, asks, answer, lowpri, cache, faults>>

(* WaitingGuard::new.                                                      *)
Announce(b) ==
    /\ At(b, "announcing")
    /\ waiting' = waiting + 1
    /\ overtaken' = [overtaken EXCEPT ![b] = IF permit = Low THEN 1 ELSE 0]
    /\ GoTo(b, "announced")
    /\ UNCHANGED <<sem, since, asks, answer, lowpri, cache, faults>>

(* mb_sem.acquire(): the permit at once, or a place in the queue.          *)
Acquire(b) ==
    /\ At(b, "announced")
    /\ IF permit = Nobody THEN permit' = b /\ UNCHANGED queue
                          ELSE queue' = Append(queue, b) /\ UNCHANGED permit
    /\ GoTo(b, "queued")
    /\ UNCHANGED <<waiting, since, asks, answer, lowpri, cache, overtaken, faults>>

(* The acquire has returned and the guard is dropped.                      *)
Granted(b) ==
    /\ At(b, "queued") /\ permit = b
    /\ waiting' = waiting - 1
    /\ overtaken' = [overtaken EXCEPT ![b] = 0]
    /\ GoTo(b, "pacing")
    /\ UNCHANGED <<sem, since, asks, answer, lowpri, cache, faults>>

Pace(b) ==
    /\ At(b, "pacing") /\ wait
    /\ GoTo(b, "calling")
    /\ UNCHANGED <<sem, waiting, asks, answer, lowpri, cache, overtaken, faults>>

(* Not the code: the permit stays taken when the call has failed.          *)
Mut_AnswerKeepsPermit(b, failed) ==
    /\ At(b, "calling") /\ Fault(failed)
    /\ answer' = [answer EXCEPT ![b] =
                      IF asks[b] \in Known /\ ~failed THEN "id" ELSE "none"]
    /\ IF failed THEN UNCHANGED sem ELSE release
    /\ GoTo(b, "put")
    /\ UNCHANGED <<waiting, since, asks, lowpri, cache, overtaken>>

(* The search returned; a failed one counts as one that found nothing.     *)
Answer(b, failed) ==
    /\ At(b, "calling") /\ Fault(failed)
    /\ answer' = [answer EXCEPT ![b] =
                      IF asks[b] \in Known /\ ~failed THEN "id" ELSE "none"]
    /\ release
    /\ GoTo(b, "put")
    /\ UNCHANGED <<waiting, since, asks, lowpri, cache, overtaken>>

(* The outcome is cached, whatever it is.                                  *)
Put(b) ==
    /\ At(b, "put")
    /\ cache' = [cache EXCEPT ![asks[b]] = answer[b]]
    /\ asks' = [asks EXCEPT ![b] = NoName]
    /\ answer' = [answer EXCEPT ![b] = "none"]
    /\ GoTo(b, "idle")
    /\ UNCHANGED <<sem, waiting, since, lowpri, overtaken, faults>>

(* Registered with mb_blend_waiting.                                       *)
Registered(b) == pc[b] \in {"announced", "queued", "dropping"}

(* Not the code: no guard; a cancelled caller takes its count with it.     *)
Mut_CancelLeaks(b) ==
    /\ ~At(b, "idle") /\ ~At(b, "dropping")
    /\ Drop(b)
    /\ overtaken' = [overtaken EXCEPT ![b] = 0]
    /\ asks' = [asks EXCEPT ![b] = NoName]
    /\ answer' = [answer EXCEPT ![b] = "none"]
    /\ GoTo(b, "idle")
    /\ UNCHANGED <<waiting, since, lowpri, cache, faults>>

(* Not the code: a caller that leaves the queue always adds a permit.      *)
Mut_CancelAddsPermit(b) ==
    /\ ~At(b, "idle") /\ ~At(b, "dropping")
    /\ IF At(b, "queued") THEN release ELSE Drop(b)
    /\ overtaken' = [overtaken EXCEPT ![b] = 0]
    /\ asks' = [asks EXCEPT ![b] = NoName]
    /\ answer' = [answer EXCEPT ![b] = "none"]
    /\ GoTo(b, IF Registered(b) THEN "dropping" ELSE "idle")
    /\ UNCHANGED <<waiting, since, lowpri, cache, faults>>

(* The future is dropped: budget, disconnect or request timeout.  First    *)
(* its place in the queue or its permit goes...                            *)
Cancel(b) ==
    /\ ~At(b, "idle") /\ ~At(b, "dropping")
    /\ Drop(b)
    /\ overtaken' = [overtaken EXCEPT ![b] = 0]
    /\ asks' = [asks EXCEPT ![b] = NoName]
    /\ answer' = [answer EXCEPT ![b] = "none"]
    /\ GoTo(b, IF Registered(b) THEN "dropping" ELSE "idle")
    /\ UNCHANGED <<waiting, since, lowpri, cache, faults>>

(* ... and then the guard.                                                 *)
Dropped(b) ==
    /\ At(b, "dropping")
    /\ waiting' = waiting - 1
    /\ GoTo(b, "idle")
    /\ UNCHANGED <<sem, since, asks, answer, lowpri, cache, overtaken, faults>>
-----------------------------------------------------------------------------
(* The low-priority caller: mb_get_low_priority.                           *)

LowStart ==
    /\ low = "idle"
    /\ low' = "poll" /\ left' = MaxWait
    /\ UNCHANGED <<sem, waiting, since, blend, cache, overtaken, faults>>

(* Not the code: the count is not looked at.                               *)
Mut_LowIgnoresBlend ==
    /\ low = "poll"
    /\ low' = "try"
    /\ UNCHANGED <<sem, waiting, since, blend, left, cache, overtaken, faults>>

LowLoad ==
    /\ low = "poll"
    /\ low' = IF waiting = 0 THEN "try" ELSE "late"
    /\ UNCHANGED <<sem, waiting, since, blend, left, cache, overtaken, faults>>

(* Each registered blend caller now waits for this call too.               *)
LowTry ==
    /\ low = "try"
    /\ IF permit = Nobody
       THEN /\ permit' = Low /\ low' = "pacing"
            /\ overtaken' =
                 [b \in Blend |-> IF pc[b] \in {"announced", "queued"} THEN overtaken[b] + 1
                                                                     ELSE overtaken[b]]
       ELSE low' = "late" /\ UNCHANGED <<permit, overtaken>>
    /\ UNCHANGED <<queue, waiting, since, blend, left, cache, faults>>

(* Not the code: the budget starts again with every poll.                  *)
Mut_LowLateRearms ==
    /\ low = "late"
    /\ low' = "asleep" /\ left' = MaxWait
    /\ UNCHANGED <<sem, waiting, since, blend, cache, overtaken, faults>>

(* The wait budget is used up: Starved; or another 150 ms.                 *)
LowLate ==
    /\ low = "late"
    /\ low' = IF left = 0 THEN "idle" ELSE "asleep"
    /\ UNCHANGED <<sem, waiting, since, blend, left, cache, overtaken, faults>>

LowWake ==
    /\ low = "awake"
    /\ low' = "poll"
    /\ UNCHANGED <<sem, waiting, since, blend, left, cache, overtaken, faults>>

LowPace ==
    /\ low = "pacing" /\ wait
    /\ low' = "calling"
    /\ UNCHANGED <<sem, waiting, blend, left, cache, overtaken, faults>>

(* Whatever came back, the permit is released.                             *)
LowAnswer ==
    /\ low = "calling"
    /\ release
    /\ low' = "idle"
    /\ UNCHANGED <<waiting, since, blend, left, cache, overtaken, faults>>
-----------------------------------------------------------------------------
Less(t) == IF t = 0 THEN 0 ELSE t - 1

Tick ==
    /\ since' = IF since = Interval THEN Interval ELSE since + 1
    /\ left' = IF low = "idle" THEN left ELSE Less(left)
    /\ low' = IF low = "asleep" THEN "awake" ELSE low
    /\ UNCHANGED <<sem, waiting, blend, cache, overtaken, faults>>

(* LB_CACHE_TTL has passed.                                                *)
Expire(n) ==
    /\ cache[n] # "absent"
    /\ cache' = [cache EXCEPT ![n] = "absent"]
    /\ UNCHANGED <<sem, waiting, since, blend, lowpri, overtaken, faults>>

BlendStep(b) ==
    \/ \E found, failed \in BOOLEAN : Tier1(b, found, failed)
    \/ Announce(b)
    \/ Acquire(b)
    \/ Granted(b)
    \/ Pace(b)
    \/ \E failed \in BOOLEAN : Answer(b, failed)
    \/ Put(b)
    \/ Dropped(b)

LowStep == LowLoad \/ LowTry \/ LowLate \/ LowWake \/ LowPace \/ LowAnswer

Next ==
    \/ \E b \in Blend : (\E n \in Names : Ask(b, n)) \/ BlendStep(b) \/ Cancel(b)
    \/ LowStart \/ LowStep
    \/ Tick
    \/ \E n \in Names : Expire(n)

Spec == Init /\ [][Next]_vars

(* Time passes, tasks are scheduled and every call returns (the HTTP       *)
(* client has a timeout of 10 s).  Calls start, and are cancelled, freely. *)
Fairness ==
    /\ \A b \in Blend : WF_vars(BlendStep(b))
    /\ WF_vars(LowStep)
    /\ WF_vars(Tick)

FairSpec == Spec /\ Fairness
-----------------------------------------------------------------------------
(* Properties.                                                             *)

(* mb_blend_waiting counts the blend callers between announcing and        *)
(* getting the permit, however they are cancelled: a leaked count would    *)
(* "starve low-priority callers forever" (listenbrainz.rs:302-305).        *)
WaitingExact == waiting = Cardinality({b \in Blend : Registered(b)})

(* Whoever paces or calls has the permit, whoever has it is on the way to  *)
(* a call, and whoever is queued is waiting for it, once: MusicBrainz sees *)
(* one caller at a time, and no permit is lost with a cancelled caller.    *)
PermitExact ==
    /\ \A b \in Blend : pc[b] \in Paced => permit = b
    /\ \A b \in Blend : permit = b => pc[b] \in Paced \cup {"queued"}
    /\ low \in Paced <=> permit = Low
    /\ permit = Nobody => queue = <<>>
    /\ \A i, j \in DOMAIN queue : queue[i] = queue[j] => i = j
    /\ \A b \in Blend : (\E i \in DOMAIN queue : queue[i] = b) <=> pc[b] = "queued" /\ permit # b

(* "A blend lookup arriving while a low-priority call holds the permit     *)
(* waits at most one paced call" (listenbrainz.rs:346-347): from its       *)
(* announcement on, a blend caller waits for one low-priority call at      *)
(* most, also when that one had read a zero count just before.             *)
BlendOvertakenOnce == \A b \in Blend : overtaken[b] <= 1

(* A negative entry is a definitive miss (listenbrainz.rs:30-31: "hits AND *)
(* definitive misses"): it never stands for a name that can be resolved.   *)
NegativeIsDefinitive == \A n \in Names : cache[n] = "none" => n \notin Known

(* A queued blend caller gets the permit, unless it is cancelled.          *)
BlendServed == \A b \in Blend : pc[b] = "queued" ~> pc[b] # "queued"

(* A low-priority call ends, by an answer or by giving up when blend       *)
(* callers keep it out.                                                    *)
LowCallEnds == low # "idle" ~> low = "idle"
=============================================================================
