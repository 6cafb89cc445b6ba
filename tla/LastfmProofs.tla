---------------------------- MODULE LastfmProofs ----------------------------
(***************************************************************************)
(* Proofs about module Lastfm, for any keys, posts, requests, pages, cap   *)
(* and number of threads.                                                  *)
(***************************************************************************)
EXTENDS Lastfm, FiniteSetTheorems, SequenceTheorems, TLAPS

CallRecords ==
    [st : States, attempt : 0..(MaxAttempts - 1), key : Keys \cup {NoKey},
     item : Items \cup {NoItem}, left : Nat, at : Nat, raced : BOOLEAN, victim : Items \cup {NoItem}]

\* The requests that are about a page.
Under == {"pick", "sent", "retry", "store"}

PoolTyped ==
    /\ pool \in Seq(Keys) /\ until \in [Keys -> Nat] /\ cursor \in 0..(Lap - 1)
    /\ up \in BOOLEAN /\ (up => pool # << >>)

StoreTyped ==
    /\ contributed \in Seq(Keys) /\ file \in Seq(Keys) /\ kept \subseteq Keys
    /\ post \in [Posts -> [key : Keys \cup {NoKey}, st : {"new", "duplicate", "pooled", "emptied",
                                                        "thanked", "gone"}]]
    /\ \A p \in Posts : post[p].st \in {"pooled", "emptied"} => post[p].key \in Keys

CallsTyped ==
    /\ call \in [Calls -> CallRecords]
    /\ \A c \in Calls : /\ call[c].st \in Under => call[c].item \in Items
                        /\ call[c].st \in Under => up

CacheTyped == cache \subseteq Items /\ races \in Nat

CountsTyped == clock \in Nat /\ faults \in Nat

Typed == PoolTyped /\ StoreTyped /\ CallsTyped /\ CacheTyped /\ CountsTyped

-----------------------------------------------------------------------------
(* Facts about the constants, and about the helpers on sequences.          *)

(* The types hold when all the parts do.                                   *)
LEMMA TypedTypeOK == Typed => TypeOK
  BY DEF Typed, PoolTyped, StoreTyped, CallsTyped, CacheTyped, CountsTyped, TypeOK, CallRecords

(* What the module assumes, with the sets of keys and numbers spelled out. *)
LEMMA ConstantsType ==
    /\ Owner \in Seq(Keys) /\ Owner # << >> /\ NoKey \notin Keys /\ NoItem \notin Items
    /\ \A p \in Posts : Offers[p] \subseteq Keys
    /\ \A c \in Calls : Asks[c] \subseteq Items
    /\ MaxAttempts \in Nat \ {0} /\ Cap \in Nat \ {0} /\ Lap \in Nat \ {0}
    /\ MaxTime \in Nat /\ MaxFaults \in Nat
<1>1. \A p \in Posts : Offers[p] \subseteq Keys
  BY DEF Keys
<1>2. \A c \in Calls : Asks[c] \subseteq Items
  BY LastfmAssumption DEF LastfmAssumption
<1> QED
  BY <1>1, <1>2, LastfmAssumption DEF LastfmAssumption

(* A remainder is below the divisor.                                       *)
LEMMA ModType ==
    ASSUME NEW n \in Nat, NEW m \in Nat \ {0}
    PROVE  n % m \in 0..(m - 1)
  OBVIOUS

(* The elements of a sequence with one more.                               *)
LEMMA AppendElements ==
    ASSUME NEW S, NEW s \in Seq(S), NEW e \in S
    PROVE  ToSet(Append(s, e)) = ToSet(s) \cup {e}
<1> DEFINE t == Append(s, e)
<1>1. /\ t \in Seq(S) /\ Len(t) = Len(s) + 1 /\ Len(s) \in Nat
      /\ DOMAIN t = 1..(Len(s) + 1) /\ DOMAIN s = 1..Len(s)
      /\ t[Len(s) + 1] = e /\ \A i \in 1..Len(s) : t[i] = s[i]
  OBVIOUS
<1>2. ASSUME NEW x \in ToSet(t) PROVE x \in ToSet(s) \cup {e}
  <2>1. PICK i \in DOMAIN t : x = t[i]
    BY <1>2 DEF ToSet
  <2> QED
    BY <1>1, <2>1 DEF ToSet
<1>3. ASSUME NEW x \in ToSet(s) PROVE x \in ToSet(t)
  <2>1. PICK i \in DOMAIN s : x = s[i]
    BY <1>3 DEF ToSet
  <2>2. i \in DOMAIN t /\ t[i] = x
    BY <1>1, <2>1
  <2> QED
    BY <2>2 DEF ToSet
<1>4. Len(s) + 1 \in DOMAIN t
  BY <1>1
<1>5. e \in ToSet(t)
  BY <1>1, <1>4 DEF ToSet
<1> QED
  BY <1>2, <1>3, <1>5

(* The elements of two sequences in a row.                                 *)
LEMMA ConcatElements ==
    ASSUME NEW S, NEW s \in Seq(S), NEW t \in Seq(S)
    PROVE  ToSet(s \o t) = ToSet(s) \cup ToSet(t)
<1> DEFINE u == s \o t
<1>1. /\ Len(s) \in Nat /\ Len(t) \in Nat /\ DOMAIN u = 1..(Len(s) + Len(t))
      /\ DOMAIN s = 1..Len(s) /\ DOMAIN t = 1..Len(t)
      /\ \A i \in 1..Len(s) : u[i] = s[i]
      /\ \A i \in 1..Len(t) : u[Len(s) + i] = t[i]
  OBVIOUS
<1>2. ASSUME NEW x \in ToSet(u) PROVE x \in ToSet(s) \cup ToSet(t)
  <2>1. PICK i \in DOMAIN u : x = u[i]
    BY <1>2 DEF ToSet
  <2>2. CASE i <= Len(s)
    BY <1>1, <2>1, <2>2 DEF ToSet
  <2>3. CASE i > Len(s)
    <3>1. i - Len(s) \in DOMAIN t /\ u[Len(s) + (i - Len(s))] = t[i - Len(s)] /\ Len(s) + (i - Len(s)) = i
      BY <1>1, <2>1, <2>3
    <3> QED
      BY <2>1, <3>1 DEF ToSet
  <2> QED
    BY <1>1, <2>1, <2>2, <2>3
<1>3. ASSUME NEW x \in ToSet(s) PROVE x \in ToSet(u)
  <2>1. PICK i \in DOMAIN s : x = s[i]
    BY <1>3 DEF ToSet
  <2>2. i \in DOMAIN u /\ u[i] = x
    BY <1>1, <2>1
  <2> QED
    BY <2>2 DEF ToSet
<1>4. ASSUME NEW x \in ToSet(t) PROVE x \in ToSet(u)
  <2>1. PICK i \in DOMAIN t : x = t[i]
    BY <1>4 DEF ToSet
  <2>2. Len(s) + i \in DOMAIN u /\ u[Len(s) + i] = x
    BY <1>1, <2>1
  <2> QED
    BY <2>2 DEF ToSet
<1> QED
  BY <1>2, <1>3, <1>4

\* NoRepeats, said of the positions.
Distinct(s) == \A i, j \in DOMAIN s : s[i] = s[j] => i = j

(* A sequence has no repeats when different positions differ.              *)
LEMMA DistinctNoRepeats ==
    ASSUME NEW S, NEW s \in Seq(S)
    PROVE  NoRepeats(s) <=> Distinct(s)
<1>1. Len(s) \in Nat /\ DOMAIN s = 1..Len(s) /\ s \in [1..Len(s) -> ToSet(s)]
  BY DEF ToSet
<1>2. IsFiniteSet(1..Len(s)) /\ Cardinality(1..Len(s)) = Len(s)
  BY <1>1, FS_Interval
<1>3. s \in Surjection(1..Len(s), ToSet(s))
  BY <1>1 DEF ToSet, Surjection
<1>4. Cardinality(ToSet(s)) = Cardinality(1..Len(s)) <=> s \in Injection(1..Len(s), ToSet(s))
  BY <1>2, <1>3, FS_Surjection
<1>5. s \in Injection(1..Len(s), ToSet(s)) <=> Distinct(s)
  BY <1>1 DEF Injection, IsInjective, Distinct
<1> QED
  BY <1>2, <1>4, <1>5 DEF NoRepeats

(* One more element that is not there yet makes no repeat.                 *)
LEMMA AppendDistinct ==
    ASSUME NEW S, NEW s \in Seq(S), NEW e \in S, Distinct(s), e \notin ToSet(s)
    PROVE  Distinct(Append(s, e))
<1> DEFINE t == Append(s, e)
<1>1. /\ Len(s) \in Nat /\ DOMAIN t = 1..(Len(s) + 1) /\ DOMAIN s = 1..Len(s)
      /\ t[Len(s) + 1] = e /\ \A i \in 1..Len(s) : t[i] = s[i]
  OBVIOUS
<1>2. \A i \in 1..Len(s) : t[i] # e
  BY <1>1 DEF ToSet
<1> QED
  BY <1>1, <1>2 DEF Distinct

(* Neither do two sequences in a row that have no element in common.       *)
LEMMA ConcatDistinct ==
    ASSUME NEW S, NEW s \in Seq(S), NEW t \in Seq(S), Distinct(s), Distinct(t),
           ToSet(s) \cap ToSet(t) = {}
    PROVE  Distinct(s \o t)
<1> DEFINE u == s \o t
<1>1. /\ Len(s) \in Nat /\ Len(t) \in Nat /\ DOMAIN u = 1..(Len(s) + Len(t))
      /\ DOMAIN s = 1..Len(s) /\ DOMAIN t = 1..Len(t)
      /\ \A i \in 1..Len(s) : u[i] = s[i]
      /\ \A i \in DOMAIN u : i > Len(s) => i - Len(s) \in DOMAIN t /\ u[i] = t[i - Len(s)]
  OBVIOUS
<1>2. ASSUME NEW i \in DOMAIN u, NEW j \in DOMAIN u, i <= Len(s), j > Len(s)
      PROVE  u[i] # u[j]
  <2>1. u[i] \in ToSet(s) /\ u[j] \in ToSet(t)
    BY <1>1, <1>2 DEF ToSet
  <2> QED
    BY <2>1
<1>3. ASSUME NEW i \in DOMAIN u, NEW j \in DOMAIN u, u[i] = u[j]
      PROVE  i = j
  <2>1. CASE i <= Len(s) /\ j <= Len(s)
    BY <1>1, <1>3, <2>1 DEF Distinct
  <2>2. CASE i > Len(s) /\ j > Len(s)
    <3>1. i - Len(s) = j - Len(s)
      BY <1>1, <1>3, <2>2 DEF Distinct
    <3> QED
      BY <1>1, <3>1
  <2> QED
    BY <1>1, <1>2, <1>3, <2>1, <2>2
<1> QED
  BY <1>3 DEF Distinct

(* What is read from the file has its keys, but the owner's, once each.    *)
LEMMA LoadedElements ==
    ASSUME NEW s \in Seq(Keys), NEW t \in Loaded(s)
    PROVE  /\ t \in Seq(Keys) /\ Distinct(t)
           /\ ToSet(t) = ToSet(s) \ ToSet(Owner)
<1> DEFINE S == ToSet(s) \ ToSet(Owner)
           n == Cardinality(S)
<1>1. /\ t \in [1..n -> S] /\ \A i, j \in 1..n : i # j => t[i] # t[j]
  BY DEF Loaded, SetToSeqs
<1>2. Len(s) \in Nat /\ s \in Surjection(1..Len(s), ToSet(s))
  BY DEF ToSet, Surjection
<1>3. IsFiniteSet(1..Len(s))
  BY <1>2, FS_Interval
<1>4. IsFiniteSet(ToSet(s))
  BY <1>2, <1>3, FS_Surjection
<1>5. IsFiniteSet(S)
  BY <1>4, FS_Difference
<1>6. n \in Nat
  BY <1>5, FS_CardinalityType
<1>7. t \in Injection(1..n, S)
  BY <1>1 DEF Injection, IsInjective
<1>8. IsFiniteSet(1..n) /\ Cardinality(1..n) = n
  BY <1>6, FS_Interval
<1>9. t \in Surjection(1..n, S)
  BY <1>5, <1>7, <1>8, FS_Injection
<1>10. S \subseteq Keys
  BY DEF ToSet
<1> HIDE DEF S, n
<1>11. t \in Seq(Keys) /\ DOMAIN t = 1..n
  BY <1>1, <1>6, <1>10
<1>12. ToSet(t) = S
  <2>1. \A x \in ToSet(t) : x \in S
    BY <1>1, <1>11 DEF ToSet
  <2>2. \A x \in S : \E i \in 1..n : t[i] = x
    BY <1>9 DEF Surjection
  <2>3. \A x \in S : x \in ToSet(t)
    BY <2>2, <1>11 DEF ToSet
  <2> QED
    BY <2>1, <2>3
<1>13. Distinct(t)
  BY <1>1, <1>11 DEF Distinct
<1> QED
  BY <1>11, <1>12, <1>13 DEF S
-----------------------------------------------------------------------------
(* Type correctness.                                                       *)

(* The initial states, and every restart of a request.                     *)
LEMMA IdleTyped ==
    /\ Idle \in CallRecords
    /\ \A st \in States : [Idle EXCEPT !.st = st] \in CallRecords
    /\ \A st \in States, n \in 0..(MaxAttempts - 1), i \in Items \cup {NoItem} :
          [Idle EXCEPT !.st = st, !.attempt = n, !.item = i] \in CallRecords
<1>1. 0 \in 0..(MaxAttempts - 1) /\ "idle" \in States
  BY ConstantsType DEF States
<1>2. Idle \in CallRecords
  BY <1>1 DEF Idle, CallRecords
<1> QED
  BY <1>2 DEF CallRecords

(* A request that ends or waits for an answer of its own.                  *)
LEMMA BecomeTyped ==
    ASSUME CallsTyped, UNCHANGED up, NEW c \in Calls, NEW st \in States \ Under, Become(c, st)
    PROVE  CallsTyped'
<1>1. [Idle EXCEPT !.st = st] \in CallRecords
  BY IdleTyped
<1>2. call' \in [Calls -> CallRecords]
  BY <1>1 DEF CallsTyped, Become
<1>3. \A d \in Calls : call'[d].st \in Under => call'[d] = call[d]
  BY DEF CallsTyped, Become, Idle
<1> QED
  BY <1>2, <1>3 DEF CallsTyped

(* A scan that begins keeps the page and the count of attempts.            *)
LEMMA StartPickTyped ==
    ASSUME Typed, up, NEW c \in Calls, NEW n \in 0..(MaxAttempts - 1), NEW i \in Items,
           StartPick(c, n, i)
    PROVE  CallsTyped'
<1> DEFINE r == [Idle EXCEPT !.st = "pick", !.attempt = n, !.item = i, !.left = Len(pool), !.at = clock]
<1>1. r \in CallRecords /\ r.item = i
  <2>1. "pick" \in States /\ Len(pool) \in Nat /\ clock \in Nat
    BY DEF Typed, PoolTyped, CountsTyped, States
  <2> QED
    BY <2>1, IdleTyped DEF CallRecords
<1>2. call' = [call EXCEPT ![c] = r] /\ UNCHANGED up
  BY DEF StartPick
<1> HIDE DEF r
<1> QED
  BY <1>1, <1>2 DEF Typed, CallsTyped

(* After a failure a request tries again, at most MaxAttempts times.       *)
LEMMA BackOffTyped ==
    ASSUME CallsTyped, UNCHANGED up, NEW c \in Calls, call[c].st = "sent", BackOff(c)
    PROVE  CallsTyped'
<1> DEFINE n == call[c].attempt + 1
           r == IF n < MaxAttempts
                THEN [Idle EXCEPT !.st = "retry", !.attempt = n, !.item = call[c].item]
                ELSE [Idle EXCEPT !.st = "transient"]
<1>1. call[c] \in CallRecords /\ call[c].item \in Items /\ up
  BY DEF CallsTyped, Under
<1>2. n \in Nat \ {0}
  BY <1>1, ConstantsType DEF CallRecords
<1>3. r \in CallRecords /\ (r.st \in Under => r.item = call[c].item)
  <2>1. CASE n < MaxAttempts
    <3>1. n \in 0..(MaxAttempts - 1)
      BY <1>2, <2>1, ConstantsType
    <3>2. r = [Idle EXCEPT !.st = "retry", !.attempt = n, !.item = call[c].item]
      BY <2>1
    <3>3. "retry" \in States
      BY DEF States
    <3> HIDE DEF n
    <3>4. r \in CallRecords
      BY <1>1, <3>1, <3>2, <3>3, IdleTyped
    <3>5. r.item = call[c].item
      BY <3>2 DEF Idle
    <3> QED
      BY <3>4, <3>5
  <2>2. CASE ~(n < MaxAttempts)
    BY <2>2, IdleTyped DEF Idle, Under, States
  <2> QED
    BY <2>1, <2>2
<1>4. call' = [call EXCEPT ![c] = r]
  BY DEF BackOff
<1> HIDE DEF n, r
<1> QED
  BY <1>1, <1>3, <1>4 DEF CallsTyped

(* A post that moves on with its key.                                      *)
LEMMA AdvanceTyped ==
    ASSUME StoreTyped, NEW p \in Posts, post[p].st \in {"new", "pooled", "emptied"},
           NEW st \in {"duplicate", "emptied", "thanked"},
           st = "emptied" => post[p].st = "pooled",
           Advance(p, st), UNCHANGED <<contributed, file, kept>>
    PROVE  StoreTyped'
  BY DEF StoreTyped, Advance

LEMMA TypedInit == Init => Typed
<1> SUFFICES ASSUME Init PROVE Typed
  OBVIOUS
<1>1. PoolTyped
  BY ConstantsType DEF Init, PoolTyped
<1>2. StoreTyped
  BY DEF Init, StoreTyped
<1>3. CallsTyped
  BY IdleTyped DEF Init, CallsTyped, Idle, Under
<1> QED
  BY <1>1, <1>2, <1>3 DEF Init, Typed, CacheTyped, CountsTyped

(* What a step of one component leaves alone.                              *)
LEMMA CallsKept ==
    ASSUME CallsTyped, UNCHANGED <<call, up>>
    PROVE  CallsTyped'
  BY DEF CallsTyped

LEMMA PoolKept ==
    ASSUME PoolTyped, UNCHANGED <<poolVars, up>>
    PROVE  PoolTyped'
  BY DEF PoolTyped, poolVars

LEMMA StoreKept ==
    ASSUME StoreTyped, UNCHANGED storeVars
    PROVE  StoreTyped'
  BY DEF StoreTyped, storeVars

LEMMA CacheKept ==
    ASSUME CacheTyped, UNCHANGED cacheVars
    PROVE  CacheTyped'
  BY DEF CacheTyped, cacheVars

(* A post that becomes part of the rotation.                               *)
LEMMA TypedAddKey == ASSUME Typed, NEW p \in Posts, add_key(p) PROVE Typed'
<1>1. UNCHANGED <<until, cursor, contributed, file, kept, call, cacheVars, clock, faults, up>> /\ up
      /\ post[p].st = "new"
  BY DEF add_key
<1>2. PICK k \in Offers[p] :
          IF k \in ToSet(pool) THEN Advance(p, "duplicate") /\ UNCHANGED pool
          ELSE /\ post' = [post EXCEPT ![p] = [st |-> "pooled", key |-> k]]
               /\ pool' = Append(pool, k)
  BY DEF add_key
<1>3. k \in Keys
  BY ConstantsType
<1>4. PoolTyped' /\ StoreTyped'
  <2>1. CASE k \in ToSet(pool)
    <3>1. StoreTyped'
      BY <1>1, <1>2, <2>1, AdvanceTyped DEF Typed
    <3> QED
      BY <1>1, <1>2, <2>1, <3>1 DEF Typed, PoolTyped
  <2>2. CASE k \notin ToSet(pool)
    <3>1. pool' = Append(pool, k)
      BY <1>2, <2>2
    <3>2. pool' \in Seq(Keys) /\ pool' # << >>
      BY <1>3, <3>1, AppendProperties DEF Typed, PoolTyped
    <3>3. post' = [post EXCEPT ![p] = [st |-> "pooled", key |-> k]]
      BY <1>2, <2>2
    <3>4. StoreTyped'
      BY <1>1, <1>3, <3>3 DEF Typed, StoreTyped
    <3> QED
      BY <1>1, <3>2, <3>4 DEF Typed, PoolTyped
  <2> QED
    BY <2>1, <2>2
<1> QED
  BY <1>1, <1>4, CallsKept, CacheKept DEF Typed, CountsTyped

(* A post on its way into the list and the file.                           *)
LEMMA TypedStore ==
    ASSUME Typed, NEW p \in Posts, Truncate(p) \/ persist(p)
    PROVE  Typed'
<1>1. CASE Truncate(p)
  <2>1. /\ post[p].st = "pooled" /\ contributed' = Append(contributed, post[p].key) /\ UNCHANGED kept
        /\ \/ file' = << >> /\ Advance(p, "emptied") /\ UNCHANGED faults
           \/ faults' = faults + 1 /\ Advance(p, "thanked") /\ UNCHANGED file
    BY <1>1 DEF Truncate
  <2>2. post[p].key \in Keys
    BY <2>1 DEF Typed, StoreTyped
  <2>3. contributed' \in Seq(Keys)
    BY <2>1, <2>2, AppendProperties DEF Typed, StoreTyped
  <2>4. file' \in Seq(Keys) /\ faults' \in Nat
    <3>1. << >> \in Seq(Keys)
      OBVIOUS
    <3> QED
      <4>1. CASE file' = << >> /\ Advance(p, "emptied") /\ UNCHANGED faults
        BY <3>1, <4>1 DEF Typed, CountsTyped
      <4>2. CASE faults' = faults + 1 /\ Advance(p, "thanked") /\ UNCHANGED file
        BY <4>2 DEF Typed, StoreTyped, CountsTyped
      <4> QED
        BY <2>1, <4>1, <4>2
  <2>5. \E st \in {"emptied", "thanked"} : post' = [post EXCEPT ![p].st = st]
    BY <2>1 DEF Advance
  <2>6. StoreTyped
    BY DEF Typed
  <2>7. StoreTyped'
    BY <2>1, <2>2, <2>3, <2>4, <2>5, <2>6 DEF StoreTyped
  <2> QED
    BY <1>1, <2>4, <2>7, PoolKept, CallsKept, CacheKept DEF Typed, CountsTyped, Truncate
<1>2. CASE persist(p)
  <2>1. ToSet(contributed) \subseteq Keys
    BY DEF ToSet, Typed, StoreTyped
  <2>2. StoreTyped'
    BY <1>2, <2>1 DEF persist, Advance, Typed, StoreTyped
  <2>3. faults' \in Nat
    BY <1>2 DEF persist, Typed, CountsTyped
  <2> QED
    BY <1>2, <2>2, <2>3, PoolKept, CallsKept, CacheKept DEF Typed, CountsTyped, persist
<1> QED
  BY <1>1, <1>2

(* The process ends and begins again.                                      *)
LEMMA TypedRestart == ASSUME Typed, Crash \/ with_keys PROVE Typed'
<1>1. CASE Crash
  <2>1. PoolTyped'
    <3>1. pool' = << >> /\ cursor' = 0 /\ up' = FALSE /\ until' = [k \in Keys |-> 0]
      BY <1>1 DEF Crash
    <3>2. << >> \in Seq(Keys) /\ 0 \in 0..(Lap - 1)
      BY ConstantsType
    <3> QED
      BY <3>1, <3>2 DEF PoolTyped
  <2>2. StoreTyped'
    BY <1>1 DEF Crash, Typed, StoreTyped
  <2>3. CallsTyped'
    BY <1>1, IdleTyped DEF Crash, CallsTyped, Idle, Under
  <2> QED
    BY <1>1, <2>1, <2>2, <2>3 DEF Crash, Typed, CacheTyped, CountsTyped
<1>2. CASE with_keys
  <2>1. /\ contributed' \in Loaded(file) /\ pool' = Owner \o contributed' /\ up' = TRUE /\ ~up
        /\ UNCHANGED <<until, cursor, file, post, kept, call>>
    BY <1>2 DEF with_keys
  <2>2. contributed' \in Seq(Keys)
    BY <2>1, LoadedElements DEF Typed, StoreTyped
  <2>3. pool' \in Seq(Keys) /\ pool' # << >>
    BY <2>1, <2>2, ConstantsType, ConcatProperties, ConcatEqualIffEmpty
  <2>4. PoolTyped'
    BY <2>1, <2>3 DEF Typed, PoolTyped
  <2>5. StoreTyped'
    BY <2>1, <2>2 DEF Typed, StoreTyped
  <2>6. CallsTyped'
    BY <2>1 DEF Typed, CallsTyped
  <2> QED
    BY <1>2, <2>4, <2>5, <2>6, CacheKept DEF with_keys, Typed, CountsTyped
<1> QED
  BY <1>1, <1>2

(* A request that takes a key.                                             *)
LEMMA TypedPick ==
    ASSUME Typed, NEW c \in Calls, FirstAttempt(c) \/ NextAttempt(c) \/ pick_key(c)
    PROVE  Typed'
<1>1. CASE FirstAttempt(c)
  <2>1. PICK i \in Asks[c] : up /\ StartPick(c, 0, i)
    BY <1>1 DEF FirstAttempt
  <2>2. i \in Items /\ 0 \in 0..(MaxAttempts - 1)
    BY ConstantsType
  <2> QED
    BY <2>1, <2>2, StartPickTyped, PoolKept, StoreKept, CacheKept DEF StartPick, Typed, CountsTyped
<1>2. CASE NextAttempt(c)
  <2>1. up /\ call[c].st = "retry" /\ StartPick(c, call[c].attempt, call[c].item)
    BY <1>2 DEF NextAttempt
  <2>2. call[c].item \in Items /\ call[c].attempt \in 0..(MaxAttempts - 1)
    BY <2>1 DEF Typed, CallsTyped, Under, CallRecords
  <2> QED
    BY <2>1, <2>2, StartPickTyped, PoolKept, StoreKept, CacheKept DEF StartPick, Typed, CountsTyped
<1>3. CASE pick_key(c)
  <2>1. /\ up /\ call[c].st = "pick" /\ cursor' = (cursor + 1) % Lap
        /\ UNCHANGED <<pool, until, storeVars, cacheVars, clock, faults, up>>
    BY <1>3 DEF pick_key
  <2>2. cursor' \in 0..(Lap - 1)
    BY <2>1, ModType, ConstantsType DEF Typed, PoolTyped
  <2>3. CursorKey \in Keys
    <3>1. Len(pool) \in Nat \ {0} /\ cursor \in Nat
      BY <2>1, ConstantsType DEF Typed, PoolTyped
    <3>2. cursor % Len(pool) \in 0..(Len(pool) - 1)
      BY <3>1, ModType
    <3>3. (cursor % Len(pool)) + 1 \in 1..Len(pool)
      BY <3>1, <3>2
    <3> QED
      BY <3>3 DEF CursorKey, Typed, PoolTyped
  <2>4. call[c] \in CallRecords
    BY DEF Typed, CallsTyped
  <2>5. call' \in [Calls -> CallRecords]
    <3> SUFFICES ASSUME NEW d \in Calls PROVE call'[d] \in CallRecords
      BY <1>3 DEF pick_key
    <3>1. call[d] \in CallRecords
      BY DEF Typed, CallsTyped
    <3>2. CASE d = c
      <4>1. CASE call[c].left > 0 /\ Benched(c, CursorKey)
        <5>1. call'[c] = [call[c] EXCEPT !.left = @ - 1]
          BY <1>3, <4>1 DEF pick_key
        <5>2. call[c].left - 1 \in Nat
          BY <2>4, <4>1 DEF CallRecords
        <5> QED
          BY <2>4, <3>2, <5>1, <5>2 DEF CallRecords
      <4>2. CASE ~(call[c].left > 0 /\ Benched(c, CursorKey))
        <5>1. call'[c] = [call[c] EXCEPT !.st = "sent", !.key = CursorKey, !.left = 0, !.at = 0, !.raced = FALSE]
          BY <1>3, <4>2 DEF pick_key
        <5> QED
          <6>1. "sent" \in States /\ CursorKey \in Keys \cup {NoKey}
            BY <2>3 DEF States
          <6>2. call'[c] \in CallRecords
            <7>1. /\ call'[c].st \in States /\ call'[c].attempt = call[c].attempt
                  /\ call'[c].key \in Keys \cup {NoKey} /\ call'[c].item = call[c].item
                  /\ call'[c].left = 0 /\ call'[c].at = 0 /\ call'[c].victim = call[c].victim
              BY <2>4, <5>1, <6>1 DEF CallRecords
            <7>2. call'[c].raced = FALSE
              BY <2>4, <5>1 DEF CallRecords
            <7>3. call'[c] = [st |-> call'[c].st, attempt |-> call'[c].attempt, key |-> call'[c].key,
                              item |-> call'[c].item, left |-> call'[c].left, at |-> call'[c].at,
                              raced |-> call'[c].raced, victim |-> call'[c].victim]
              BY <2>4, <5>1 DEF CallRecords
            <7>4. /\ call[c].attempt \in 0..(MaxAttempts - 1) /\ call[c].item \in Items \cup {NoItem}
                  /\ call[c].victim \in Items \cup {NoItem} /\ call'[c].left \in Nat
                  /\ call'[c].at \in Nat
              BY <2>4, <7>1 DEF CallRecords
            <7>5. call'[c].raced \in BOOLEAN
              BY <7>2
            <7> QED
              BY <7>1, <7>3, <7>4, <7>5 DEF CallRecords
          <6> QED
            BY <3>2, <6>2
      <4> QED
        BY <4>1, <4>2
    <3>3. CASE d # c
      BY <1>3, <3>1, <3>3 DEF pick_key, CallRecords
    <3> QED
      BY <3>2, <3>3
  <2>6. \A d \in Calls : call'[d].item = call[d].item /\ (call'[d].st \in Under <=> call[d].st \in Under)
    BY <1>3, <2>1, <2>4 DEF pick_key, Typed, CallsTyped, CallRecords, Under
  <2>7. CallsTyped'
    BY <2>1, <2>5, <2>6 DEF Typed, CallsTyped
  <2>8. PoolTyped'
    BY <2>1, <2>2 DEF Typed, PoolTyped
  <2> QED
    BY <2>1, <2>7, <2>8, StoreKept, CacheKept DEF Typed, CountsTyped
<1> QED
  BY <1>1, <1>2, <1>3

(* A request that is answered.                                             *)
LEMMA TypedAnswer ==
    ASSUME Typed, NEW c \in Calls,
           CacheHit(c) \/ Answered(c) \/ Rejected(c) \/ RateLimited(c) \/ FailedForNow(c)
    PROVE  Typed'
<1>1. /\ UNCHANGED <<storeVars, cacheVars, clock, faults, up, pool, cursor>>
  BY DEF CacheHit, Answered, Rejected, RateLimited, FailedForNow, poolVars
<1>2. StoreTyped' /\ CacheTyped' /\ CountsTyped'
  BY <1>1, StoreKept, CacheKept DEF Typed, CountsTyped
<1>3. PoolTyped'
  BY <1>1 DEF CacheHit, Answered, Rejected, RateLimited, FailedForNow, poolVars, Typed, PoolTyped, CountsTyped
<1>4. \A f \in Fetchers, body \in {"ok", "code6", "code13", "error"} : Outcome(f, body) \in States \ Under
  BY DEF Outcome, States, Under
<1>5. CallsTyped'
  <2>1. CASE CacheHit(c) \/ Answered(c) \/ Rejected(c)
    <3>1. \E st \in States \ Under : Become(c, st)
      BY <1>4, <2>1, LastfmAssumption
         DEF CacheHit, Answered, Rejected, Bodies, States, Under, LastfmAssumption
    <3> QED
      BY <1>1, <3>1, BecomeTyped DEF Typed
  <2>2. CASE RateLimited(c) \/ FailedForNow(c)
    BY <1>1, <2>2, BackOffTyped DEF RateLimited, FailedForNow, Typed
  <2> QED
    BY <2>1, <2>2
<1> QED
  BY <1>2, <1>3, <1>5 DEF Typed

(* A page that is put into the cache.                                      *)
LEMMA TypedCache ==
    ASSUME Typed, NEW c \in Calls, CheckCap(c) \/ Evict(c) \/ remember_artist_info(c)
    PROVE  Typed'
<1>1. UNCHANGED <<poolVars, storeVars, clock, faults, up>>
  BY DEF CheckCap, Evict, remember_artist_info
<1>2. PoolTyped' /\ StoreTyped' /\ CountsTyped'
  BY <1>1, PoolKept, StoreKept DEF Typed, CountsTyped
<1>3. call[c] \in CallRecords /\ call[c].item \in Items /\ up
  BY DEF CheckCap, Evict, remember_artist_info, Typed, CallsTyped, Under
<1>4. CASE CheckCap(c)
  <2>1. PICK v \in IF Cardinality(cache) >= Cap THEN cache ELSE {NoItem} :
            call' = [call EXCEPT ![c].st = "store", ![c].key = NoKey, ![c].attempt = 0, ![c].victim = v]
    BY <1>4 DEF CheckCap
  <2>2. v \in Items \cup {NoItem} /\ 0 \in 0..(MaxAttempts - 1)
    BY ConstantsType DEF Typed, CacheTyped
  <2>3. call' \in [Calls -> CallRecords]
    BY <1>3, <2>1, <2>2 DEF Typed, CallsTyped, CallRecords, States
  <2>4. \A d \in Calls : call'[d].item = call[d].item /\ (d # c => call'[d] = call[d])
    BY <2>1 DEF Typed, CallsTyped, CallRecords
  <2>5. CallsTyped'
    BY <1>1, <1>3, <2>3, <2>4 DEF Typed, CallsTyped
  <2> QED
    BY <1>2, <1>4, <2>5, CacheKept DEF CheckCap, Typed
<1>5. CASE Evict(c)
  <2>1. call' = [call EXCEPT ![c].victim = NoItem] /\ cache' = cache \ {call[c].victim} /\ UNCHANGED races
    BY <1>5 DEF Evict
  <2>2. CallsTyped'
    BY <1>1, <2>1 DEF Typed, CallsTyped, CallRecords
  <2> QED
    BY <1>2, <2>1, <2>2 DEF Typed, CacheTyped
<1>6. CASE remember_artist_info(c)
  <2>1. CallsTyped'
    BY <1>1, <1>6, BecomeTyped DEF remember_artist_info, Typed, States, Under
  <2>2. CacheTyped'
    BY <1>3, <1>6 DEF remember_artist_info, Typed, CacheTyped
  <2> QED
    BY <1>2, <2>1, <2>2 DEF Typed
<1> QED
  BY <1>4, <1>5, <1>6

LEMMA TypedTick == ASSUME Typed, Tick PROVE Typed'
  BY PoolKept, StoreKept, CallsKept, CacheKept DEF Tick, Typed, CountsTyped

(* Every step keeps the types.                                             *)
LEMMA TypedStep == Typed /\ [Next]_vars => Typed'
<1> SUFFICES ASSUME Typed, [Next]_vars PROVE Typed'
  OBVIOUS
<1>1. ASSUME NEW p \in Posts, PostStep(p) PROVE Typed'
  BY <1>1, TypedAddKey, TypedStore DEF PostStep
<1>2. ASSUME NEW c \in Calls, CallStep(c) PROVE Typed'
  BY <1>2, TypedPick, TypedAnswer, TypedCache DEF CallStep
<1>3. ASSUME UNCHANGED vars PROVE Typed'
  BY <1>3, PoolKept, StoreKept, CallsKept, CacheKept DEF vars, Typed, CountsTyped, poolVars
<1> QED
  BY <1>1, <1>2, <1>3, TypedRestart, TypedTick DEF Next

(* The parts of the type invariant always hold.                            *)
THEOREM AlwaysTyped == Spec => []Typed
  BY TypedInit, TypedStep, PTL DEF Spec

(* Every variable keeps its type; in particular there is a key to take     *)
(* whenever the program runs, and a request never exceeds its attempts.    *)
THEOREM TypeCorrect == Spec => []TypeOK
  BY AlwaysTyped, TypedTypeOK, PTL
-----------------------------------------------------------------------------
(* The rotation and the list of contributed keys.                          *)

\* Posts whose key is in the rotation and not yet in the list.
Pooled == {q \in Posts : post[q].st = "pooled"}
PooledKeys == {post[q].key : q \in Pooled}

(* The inductive form of PoolMatchesList: the owner's keys, the list and   *)
(* the posts in between have no key in common, and a process that is down  *)
(* has no posts in between.                                                *)
Apart ==
    /\ up => /\ Distinct(pool) /\ Distinct(contributed)
             /\ ToSet(pool) = ToSet(Owner) \cup ToSet(contributed) \cup PooledKeys
             /\ ToSet(contributed) \cap ToSet(Owner) = {}
             /\ PooledKeys \cap (ToSet(Owner) \cup ToSet(contributed)) = {}
             /\ \A p, q \in Pooled : post[p].key = post[q].key => p = q
    /\ ~up => Pooled = {} /\ Writing = {}

LEMMA ApartMatches == Typed /\ Apart => PoolMatchesList
  BY DistinctNoRepeats DEF Typed, PoolTyped, StoreTyped, Apart, PoolMatchesList, PooledKeys, Pooled

(* The owner's keys are different and the list is empty at first.          *)
LEMMA OwnerDistinct ==
    /\ Distinct(Owner) /\ Owner \in Seq(Keys)
    /\ Distinct(<< >>) /\ ToSet(<< >>) = {}
<1>1. NoRepeats(Owner)
  BY LastfmAssumption DEF LastfmAssumption, NoRepeats
<1> QED
  BY <1>1, ConstantsType, DistinctNoRepeats DEF Distinct, ToSet

LEMMA ApartInit == Init => Apart
<1> SUFFICES ASSUME Init PROVE Apart
  OBVIOUS
<1>1. Pooled = {} /\ PooledKeys = {}
  BY DEF Init, Pooled, PooledKeys
<1> QED
  BY <1>1, OwnerDistinct DEF Init, Apart

(* A step that leaves the keys and the posts alone.                        *)
LEMMA ApartKept == ASSUME Apart, UNCHANGED <<pool, contributed, post, up>> PROVE Apart'
  BY DEF Apart, PooledKeys, Pooled, Writing

(* A key joins the rotation only if it is not there.                       *)
LEMMA ApartAddKey == ASSUME Typed, Apart, NEW p \in Posts, add_key(p) PROVE Apart'
<1>1. UNCHANGED <<contributed, up>> /\ up /\ post[p].st = "new"
  BY DEF add_key
<1>2. PICK k \in Offers[p] :
          IF k \in ToSet(pool) THEN Advance(p, "duplicate") /\ UNCHANGED pool
          ELSE /\ post' = [post EXCEPT ![p] = [st |-> "pooled", key |-> k]]
               /\ pool' = Append(pool, k)
  BY DEF add_key
<1>3. k \in Keys
  BY ConstantsType
<1>4. CASE k \in ToSet(pool)
  <2>1. Advance(p, "duplicate") /\ UNCHANGED pool
    BY <1>2, <1>4
  <2>2. Pooled' = Pooled /\ \A q \in Pooled : post'[q].key = post[q].key
    BY <1>1, <2>1 DEF Advance, Pooled, Typed, StoreTyped
  <2>3. PooledKeys' = PooledKeys
    BY <2>2 DEF PooledKeys
  <2> QED
    BY <1>1, <2>1, <2>2, <2>3 DEF Apart
<1>5. CASE k \notin ToSet(pool)
  <2>1. /\ post' = [post EXCEPT ![p] = [st |-> "pooled", key |-> k]]
        /\ pool' = Append(pool, k)
    BY <1>2, <1>5
  <2>2. /\ Pooled' = Pooled \cup {p} /\ p \notin Pooled /\ post'[p].key = k
        /\ \A q \in Pooled : post'[q].key = post[q].key
    BY <1>1, <2>1 DEF Pooled, Typed, StoreTyped
  <2>3. PooledKeys' = PooledKeys \cup {k}
    BY <2>2 DEF PooledKeys
  <2>4. ToSet(pool') = ToSet(pool) \cup {k} /\ Distinct(pool')
    BY <1>1, <1>3, <1>5, <2>1, AppendElements, AppendDistinct DEF Apart, Typed, PoolTyped
  <2>5. k \notin ToSet(Owner) \cup ToSet(contributed) \cup PooledKeys
    BY <1>1, <1>5 DEF Apart
  <2>6. \A q, r \in Pooled' : post'[q].key = post'[r].key => q = r
    BY <1>1, <2>2, <2>5 DEF Apart, PooledKeys
  <2> QED
    BY <1>1, <2>3, <2>4, <2>5, <2>6 DEF Apart
<1> QED
  BY <1>4, <1>5

(* The list takes the key over from the post.                              *)
LEMMA ApartTruncate == ASSUME Typed, Apart, NEW p \in Posts, Truncate(p) PROVE Apart'
<1>1. /\ post[p].st = "pooled" /\ contributed' = Append(contributed, post[p].key)
      /\ UNCHANGED <<pool, up>> /\ up
  BY DEF Truncate, poolVars
<1>2. Advance(p, "emptied") \/ Advance(p, "thanked")
  BY DEF Truncate
<1> DEFINE k == post[p].key
<1>3. /\ Pooled' = Pooled \ {p} /\ p \in Pooled
      /\ \A q \in Pooled : post'[q].key = post[q].key
  BY <1>1, <1>2 DEF Advance, Pooled, Typed, StoreTyped
<1>4. k \in Keys /\ k \in PooledKeys /\ k \notin ToSet(Owner) \cup ToSet(contributed)
  BY <1>1, <1>3 DEF Typed, StoreTyped, PooledKeys, Apart
<1>5. PooledKeys' = PooledKeys \ {k}
  BY <1>1, <1>3 DEF PooledKeys, Apart
<1>6. ToSet(contributed') = ToSet(contributed) \cup {k} /\ Distinct(contributed')
  BY <1>1, <1>4, AppendElements, AppendDistinct DEF Apart, Typed, StoreTyped
<1>7. \A q, r \in Pooled' : post'[q].key = post'[r].key => q = r
  BY <1>1, <1>3 DEF Apart
<1> QED
  BY <1>1, <1>4, <1>5, <1>6, <1>7 DEF Apart

(* Filling the file does not touch the keys in memory.                     *)
LEMMA ApartPersist == ASSUME Typed, Apart, NEW p \in Posts, persist(p) PROVE Apart'
<1>1. post[p].st = "emptied" /\ up /\ UNCHANGED <<pool, contributed, up>> /\ Advance(p, "thanked")
  BY DEF persist, poolVars
<1>2. Pooled' = Pooled /\ \A q \in Pooled : post'[q].key = post[q].key
  BY <1>1 DEF Advance, Pooled, Typed, StoreTyped
<1>3. PooledKeys' = PooledKeys
  BY <1>2 DEF PooledKeys
<1> QED
  BY <1>1, <1>2, <1>3 DEF Apart

(* A restart begins with the owner's keys and what the file holds besides. *)
LEMMA ApartRestart == ASSUME Typed, Apart, Crash \/ with_keys PROVE Apart'
<1>1. CASE Crash
  <2>1. \A q \in Posts : post'[q].st \notin {"pooled", "emptied"}
    BY <1>1 DEF Crash, Typed, StoreTyped
  <2> QED
    BY <1>1, <2>1 DEF Crash, Apart, Pooled, Writing
<1>2. CASE with_keys
  <2>1. /\ contributed' \in Loaded(file) /\ pool' = Owner \o contributed' /\ up' = TRUE /\ ~up
        /\ UNCHANGED post
    BY <1>2 DEF with_keys
  <2>2. /\ contributed' \in Seq(Keys) /\ Distinct(contributed')
        /\ ToSet(contributed') = ToSet(file) \ ToSet(Owner)
    BY <2>1, LoadedElements DEF Typed, StoreTyped
  <2>3. Pooled' = {} /\ PooledKeys' = {}
    BY <2>1 DEF Apart, Pooled, PooledKeys
  <2>4. ToSet(pool') = ToSet(Owner) \cup ToSet(contributed')
    BY <2>1, <2>2, OwnerDistinct, ConcatElements
  <2>5. ToSet(Owner) \cap ToSet(contributed') = {}
    BY <2>2
  <2>6. Distinct(pool')
    BY <2>1, <2>2, <2>5, OwnerDistinct, ConcatDistinct
  <2> QED
    BY <2>1, <2>2, <2>3, <2>4, <2>5, <2>6 DEF Apart
<1> QED
  BY <1>1, <1>2

LEMMA ApartStep == Typed /\ Apart /\ [Next]_vars => Apart'
<1> SUFFICES ASSUME Typed, Apart, [Next]_vars PROVE Apart'
  OBVIOUS
<1>1. ASSUME NEW p \in Posts, PostStep(p) PROVE Apart'
  BY <1>1, ApartAddKey, ApartTruncate, ApartPersist DEF PostStep
<1>2. ASSUME NEW c \in Calls, CallStep(c) PROVE Apart'
  BY <1>2, ApartKept
     DEF CallStep, CacheHit, FirstAttempt, NextAttempt, StartPick, pick_key, Answered, Rejected,
         RateLimited, FailedForNow, CheckCap, Evict, remember_artist_info, poolVars, storeVars
<1>3. ASSUME Tick \/ UNCHANGED vars PROVE Apart'
  BY <1>3, ApartKept DEF Tick, vars, poolVars, storeVars
<1> QED
  BY <1>1, <1>2, <1>3, ApartRestart DEF Next

(* The owner's keys, the list and the posts in between are always apart.   *)
THEOREM KeysStayApart == Spec => []Apart
<1>1. Typed /\ Apart /\ [Next]_vars /\ Typed' => Apart'
  BY ApartStep
<1> QED
  BY <1>1, ApartInit, AlwaysTyped, PTL DEF Spec

(* Whatever is contributed, in whatever order and over whatever restarts:  *)
(* no key is in the rotation twice, and the list that the file is written  *)
(* from is the rotation without the owner's keys (add_key, with_keys).     *)
THEOREM RotationMatchesList == Spec => []PoolMatchesList
  BY KeysStayApart, AlwaysTyped, ApartMatches, PTL
-----------------------------------------------------------------------------
(* Contributed keys in the file.                                           *)

(* The inductive form of ContributionsSurvive: one post at most is between *)
(* emptying and filling, and it alone can keep the file from holding what  *)
(* it has held.                                                            *)
Held ==
    /\ \A p, q \in Writing : p = q
    /\ kept \cap ToSet(Owner) = {}
    /\ up => kept \subseteq ToSet(contributed)
    /\ Writing = {} => kept \subseteq ToSet(file)

LEMMA HeldSurvives == Apart /\ Held => ContributionsSurvive
  BY DEF Apart, Held, ContributionsSurvive, Writing

LEMMA HeldInit == Init => Held
  BY DEF Init, Held, Writing

LEMMA HeldKept == ASSUME Held, UNCHANGED <<storeVars, up>> PROVE Held'
  BY DEF Held, storeVars, Writing

LEMMA HeldStore ==
    ASSUME Typed, Apart, Held, NEW p \in Posts, PostStep(p)
    PROVE  Held'
<1>1. CASE add_key(p)
  <2>1. Writing' = Writing
    BY <1>1 DEF add_key, Advance, Writing, Typed, StoreTyped
  <2> QED
    BY <1>1, <2>1 DEF add_key, Held
<1>2. CASE Truncate(p)
  <2>1. /\ post[p].st = "pooled" /\ contributed' = Append(contributed, post[p].key)
        /\ UNCHANGED <<kept, up>> /\ Writing = {}
    BY <1>2 DEF Truncate
  <2>2. ToSet(contributed') = ToSet(contributed) \cup {post[p].key}
    BY <2>1, AppendElements DEF Typed, StoreTyped
  <2>3. \/ Writing' = {p}
        \/ Writing' = {} /\ UNCHANGED file
    BY <1>2, <2>1 DEF Truncate, Advance, Writing, Typed, StoreTyped
  <2> QED
    BY <2>1, <2>2, <2>3 DEF Held
<1>3. CASE persist(p)
  <2>1. post[p].st = "emptied" /\ up /\ UNCHANGED <<contributed, up>> /\ Advance(p, "thanked")
    BY <1>3 DEF persist
  <2>2. Writing' = {}
    BY <2>1 DEF Held, Writing, Advance, Typed, StoreTyped
  <2>3. \/ file' = contributed /\ kept' = kept \cup ToSet(contributed)
        \/ kept' = {}
    BY <1>3 DEF persist
  <2> QED
    BY <2>1, <2>2, <2>3 DEF Held, Apart
<1> QED
  BY <1>1, <1>2, <1>3 DEF PostStep

LEMMA HeldRestart == ASSUME Typed, Apart, Held, Crash \/ with_keys PROVE Held'
<1>1. CASE Crash
  <2>1. /\ kept' = IF Writing # {} THEN {} ELSE kept
        /\ UNCHANGED file /\ up' = FALSE
    BY <1>1 DEF Crash, Writing
  <2>2. Writing' = {}
    BY <1>1 DEF Crash, Writing, Typed, StoreTyped
  <2> QED
    BY <2>1, <2>2 DEF Held
<1>2. CASE with_keys
  <2>1. contributed' \in Loaded(file) /\ ~up /\ UNCHANGED <<file, post, kept>>
    BY <1>2 DEF with_keys
  <2>2. ToSet(contributed') = ToSet(file) \ ToSet(Owner)
    BY <2>1, LoadedElements DEF Typed, StoreTyped
  <2>3. Writing' = Writing /\ Writing = {}
    BY <2>1 DEF Writing, Apart
  <2> QED
    BY <2>1, <2>2, <2>3 DEF Held
<1> QED
  BY <1>1, <1>2

LEMMA HeldStep == Typed /\ Apart /\ Held /\ [Next]_vars => Held'
<1> SUFFICES ASSUME Typed, Apart, Held, [Next]_vars PROVE Held'
  OBVIOUS
<1>1. ASSUME NEW c \in Calls, CallStep(c) PROVE Held'
  BY <1>1, HeldKept
     DEF CallStep, CacheHit, FirstAttempt, NextAttempt, StartPick, pick_key, Answered, Rejected,
         RateLimited, FailedForNow, CheckCap, Evict, remember_artist_info
<1>2. ASSUME Tick \/ UNCHANGED vars PROVE Held'
  BY <1>2, HeldKept DEF Tick, vars
<1> QED
  BY <1>1, <1>2, HeldStore, HeldRestart DEF Next

(* A key that the file has held is not lost by later contributions, failed *)
(* writes or restarts; only a write that is torn between emptying and      *)
(* filling the file can lose it (persist, with_keys).                      *)
THEOREM ContributionsKept == Spec => []ContributionsSurvive
<1>1. Typed /\ Apart /\ Held /\ [Next]_vars => Held'
  BY HeldStep
<1>2. Spec => []Held
  BY <1>1, HeldInit, KeysStayApart, AlwaysTyped, PTL DEF Spec
<1> QED
  BY <1>2, HeldSurvives, KeysStayApart, PTL
-----------------------------------------------------------------------------
(* The cap of the cache.                                                   *)

\* Pages that a store has picked and is about to remove.
Doomed == {call[c].victim : c \in Storing} \ {NoItem}

(* The inductive form of CacheGrowsByRacesOnly: while a page is being      *)
(* stored there is room for one, but for the pages that are to go.         *)
Room ==
    /\ IsFiniteSet(cache)
    /\ Cardinality(cache) <= Cap + races
    /\ Storing # {} => Cardinality(cache \ Doomed) < Cap + races

LEMMA RoomInit == Init => Room
  BY FS_EmptySet, ConstantsType DEF Init, Room, Storing, Idle

LEMMA RoomKept ==
    ASSUME Room, UNCHANGED cacheVars, Storing' = Storing, \A c \in Storing : call'[c] = call[c]
    PROVE  Room'
<1>1. Doomed' = Doomed
  BY DEF Doomed
<1> QED
  BY <1>1 DEF Room, cacheVars

LEMMA RoomStore ==
    ASSUME Typed, Room, NEW c \in Calls, CheckCap(c) \/ Evict(c) \/ remember_artist_info(c)
    PROVE  Room'
<1>1. cache \subseteq Items /\ races \in Nat /\ NoItem \notin cache /\ Cap \in Nat \ {0}
      /\ call \in [Calls -> CallRecords]
  BY ConstantsType DEF Typed, CacheTyped, CallsTyped
<1>2. IsFiniteSet(cache) /\ Cardinality(cache) \in Nat
  BY FS_CardinalityType DEF Room
<1>3. CASE CheckCap(c)
  <2>1. PICK v \in IF Cardinality(cache) >= Cap THEN cache ELSE {NoItem} :
            call' = [call EXCEPT ![c].st = "store", ![c].key = NoKey, ![c].attempt = 0, ![c].victim = v]
    BY <1>3 DEF CheckCap
  <2>2. call[c].st = "sent" /\ UNCHANGED <<cache, races>>
    BY <1>3 DEF CheckCap, cacheVars
  <2>3. call'[c].st = "store" /\ call'[c].victim = v /\ \A d \in Calls \ {c} : call'[d] = call[d]
    BY <1>1, <2>1 DEF CallRecords
  <2>4. Storing' = Storing \cup {c} /\ c \notin Storing
    BY <2>2, <2>3 DEF Storing
  <2>5. Doomed' = (Doomed \cup {v}) \ {NoItem}
    <3>1. \A d \in Storing : d # c /\ call'[d] = call[d]
      BY <2>3, <2>4 DEF Storing
    <3>2. {call'[d].victim : d \in Storing'} = {call[d].victim : d \in Storing} \cup {v}
      BY <2>3, <2>4, <3>1
    <3> QED
      BY <3>2 DEF Doomed
  <2>6. Cardinality(cache \ Doomed') < Cap + races
    <3>1. CASE Cardinality(cache) >= Cap
      <4>1. v \in cache /\ v \in Doomed'
        BY <1>1, <2>5, <3>1
      <4>2. IsFiniteSet(cache \ {v}) /\ Cardinality(cache \ {v}) = Cardinality(cache) - 1
        BY <1>2, <4>1, FS_RemoveElement
      <4>3. cache \ Doomed' \in SUBSET (cache \ {v})
        BY <4>1
      <4>4. Cardinality(cache \ Doomed') <= Cardinality(cache \ {v}) /\ IsFiniteSet(cache \ Doomed')
        BY <4>2, <4>3, FS_Subset
      <4>5. Cardinality(cache \ Doomed') \in Nat
        BY <4>4, FS_CardinalityType
      <4> QED
        BY <1>1, <1>2, <4>2, <4>4, <4>5 DEF Room
    <3>2. CASE ~(Cardinality(cache) >= Cap)
      <4>1. Cardinality(cache \ Doomed') <= Cardinality(cache) /\ IsFiniteSet(cache \ Doomed')
        BY <1>2, FS_Subset
      <4>2. Cardinality(cache \ Doomed') \in Nat
        BY <4>1, FS_CardinalityType
      <4> QED
        BY <1>1, <1>2, <3>2, <4>1, <4>2
    <3> QED
      BY <3>1, <3>2
  <2> QED
    BY <2>2, <2>6 DEF Room
<1>4. CASE Evict(c)
  <2>1. /\ call[c].st = "store" /\ call[c].victim # NoItem
        /\ cache' = cache \ {call[c].victim} /\ call' = [call EXCEPT ![c].victim = NoItem]
        /\ UNCHANGED races
    BY <1>4 DEF Evict
  <2> DEFINE v == call[c].victim
  <2>2. call'[c].st = "store" /\ call'[c].victim = NoItem /\ \A d \in Calls \ {c} : call'[d] = call[d]
    BY <1>1, <2>1 DEF CallRecords
  <2>3. Storing' = Storing /\ c \in Storing
    BY <2>1, <2>2 DEF Storing
  <2>4. Doomed = Doomed' \cup {v}
    BY <2>1, <2>2, <2>3 DEF Doomed
  <2>5. cache' \ Doomed' = cache \ Doomed
    BY <2>1, <2>4
  <2>6. IsFiniteSet(cache') /\ Cardinality(cache') <= Cardinality(cache) /\ Cardinality(cache') \in Nat
    BY <1>2, <2>1, FS_Subset, FS_CardinalityType
  <2> QED
    BY <1>1, <1>2, <2>1, <2>3, <2>5, <2>6 DEF Room
<1>5. CASE remember_artist_info(c)
  <2>1. /\ call[c].st = "store" /\ call[c].victim = NoItem
        /\ cache' = cache \cup {call[c].item}
        /\ races' = IF Storing = {c} THEN races ELSE races + 1
        /\ call' = [call EXCEPT ![c] = [Idle EXCEPT !.st = "done"]]
    BY <1>5 DEF remember_artist_info, Become
  <2> DEFINE i == call[c].item
  <2>2. call'[c].st = "done" /\ \A d \in Calls \ {c} : call'[d] = call[d]
    BY <1>1, <2>1 DEF Idle
  <2>3. Storing' = Storing \ {c} /\ c \in Storing
    BY <2>1, <2>2 DEF Storing
  <2>4. Doomed' = Doomed
    BY <2>1, <2>2, <2>3 DEF Doomed
  <2>5. IsFiniteSet(cache') /\ Cardinality(cache') <= Cardinality(cache) + 1 /\ Cardinality(cache') \in Nat
    <3>1. IsFiniteSet(cache') /\ Cardinality(cache') = IF i \in cache THEN Cardinality(cache) ELSE Cardinality(cache) + 1
      BY <1>2, <2>1, FS_AddElement
    <3> QED
      BY <1>2, <3>1
  <2>6. IsFiniteSet(cache \ Doomed) /\ Cardinality(cache \ Doomed) \in Nat
        /\ Cardinality(cache \ Doomed) < Cap + races
    BY <1>2, <2>3, FS_Subset, FS_CardinalityType DEF Room
  <2>7. CASE Storing = {c}
    <3>1. Doomed = {}
      BY <2>1, <2>7 DEF Doomed
    <3>2. Cardinality(cache) < Cap + races
      BY <2>6, <3>1
    <3>3. Storing' = {} /\ races' = races
      BY <2>1, <2>3, <2>7
    <3> QED
      BY <1>1, <1>2, <2>5, <3>2, <3>3 DEF Room
  <2>8. CASE Storing # {c}
    <3>1. cache' \ Doomed' \in SUBSET ((cache \ Doomed) \cup {i})
      BY <2>1, <2>4
    <3>2. IsFiniteSet((cache \ Doomed) \cup {i})
          /\ Cardinality((cache \ Doomed) \cup {i}) <= Cardinality(cache \ Doomed) + 1
      <4>1. IsFiniteSet((cache \ Doomed) \cup {i})
            /\ Cardinality((cache \ Doomed) \cup {i}) = IF i \in cache \ Doomed THEN Cardinality(cache \ Doomed)
                                                       ELSE Cardinality(cache \ Doomed) + 1
        BY <2>6, FS_AddElement
      <4> QED
        BY <2>6, <4>1
    <3>3. Cardinality((cache \ Doomed) \cup {i}) \in Nat
      BY <3>2, FS_CardinalityType
    <3>4. IsFiniteSet(cache' \ Doomed')
          /\ Cardinality(cache' \ Doomed') <= Cardinality((cache \ Doomed) \cup {i})
      BY <3>1, <3>2, FS_Subset
    <3>5. Cardinality(cache' \ Doomed') \in Nat
      BY <3>4, FS_CardinalityType
    <3>6. Cardinality(cache' \ Doomed') < Cap + races + 1
      BY <1>1, <2>6, <3>2, <3>3, <3>4, <3>5
    <3> QED
      BY <1>1, <1>2, <2>1, <2>5, <2>8, <3>6 DEF Room
  <2> QED
    BY <2>7, <2>8
<1> QED
  BY <1>3, <1>4, <1>5

(* A request that is not storing, before and after its step.               *)
LEMMA RoomElsewhere ==
    ASSUME Typed, Room, UNCHANGED cacheVars, NEW c \in Calls, call[c].st # "store",
           DOMAIN call' = Calls, call'[c].st # "store",
           \A d \in Calls \ {c} : call'[d].st = call[d].st /\ (call[d].st = "store" => call'[d] = call[d])
    PROVE  Room'
<1>1. Storing' = Storing /\ \A d \in Storing : call'[d] = call[d]
  BY DEF Storing
<1> QED
  BY <1>1, RoomKept

LEMMA RoomCall ==
    ASSUME Typed, Room, NEW c \in Calls, CallStep(c)
    PROVE  Room'
<1>1. call \in [Calls -> CallRecords] /\ call[c] \in CallRecords
  BY DEF Typed, CallsTyped
<1>2. ASSUME NEW st \in States \ {"store"}, Become(c, st), UNCHANGED cacheVars, call[c].st # "store"
      PROVE  Room'
  BY <1>1, <1>2, RoomElsewhere DEF Become, Idle
<1>3. ASSUME NEW n, NEW i, StartPick(c, n, i), call[c].st # "store"
      PROVE  Room'
  BY <1>1, <1>3, RoomElsewhere DEF StartPick, Idle
<1>4. ASSUME BackOff(c), UNCHANGED cacheVars, call[c].st # "store"
      PROVE  Room'
  BY <1>1, <1>4, RoomElsewhere DEF BackOff, Idle
<1>5. CASE CacheHit(c) \/ Rejected(c)
  BY <1>2, <1>5 DEF CacheHit, Rejected, States
<1>6. CASE Answered(c)
  BY <1>2, <1>6 DEF Answered, Outcome, States
<1>7. CASE FirstAttempt(c) \/ NextAttempt(c)
  BY <1>3, <1>7 DEF FirstAttempt, NextAttempt
<1>8. CASE RateLimited(c) \/ FailedForNow(c)
  BY <1>4, <1>8 DEF RateLimited, FailedForNow
<1>9. CASE pick_key(c)
  <2>1. call[c].st = "pick" /\ UNCHANGED cacheVars /\ DOMAIN call' = Calls
    BY <1>9 DEF pick_key
  <2>2. call'[c].st \in {"pick", "sent"}
    BY <1>1, <1>9, <2>1 DEF pick_key, CallRecords
  <2>3. \A d \in Calls \ {c} : /\ call'[d].st = call[d].st
                               /\ call[d].st = "store" => call'[d] = call[d]
    BY <1>1, <1>9 DEF pick_key, Picking, CallRecords
  <2> QED
    BY <2>1, <2>2, <2>3, RoomElsewhere
<1> QED
  BY <1>5, <1>6, <1>7, <1>8, <1>9, RoomStore DEF CallStep

LEMMA RoomStep == Typed /\ Room /\ [Next]_vars => Room'
<1> SUFFICES ASSUME Typed, Room, [Next]_vars PROVE Room'
  OBVIOUS
<1>1. ASSUME UNCHANGED <<call, cacheVars>> PROVE Room'
  BY <1>1, RoomKept DEF Storing
<1>2. CASE Crash
  BY <1>2, FS_EmptySet, ConstantsType DEF Crash, Room, Storing, Idle
<1>3. ASSUME NEW p \in Posts, PostStep(p) PROVE Room'
  BY <1>1, <1>3 DEF PostStep, add_key, Truncate, persist
<1>4. ASSUME with_keys \/ Tick \/ UNCHANGED vars PROVE Room'
  BY <1>1, <1>4 DEF with_keys, Tick, vars
<1> QED
  BY <1>2, <1>3, <1>4, RoomCall DEF Next

(* However many requests store pages at once, the cache exceeds its cap by *)
(* no more than the number of stores that met another one                  *)
(* (remember_artist_info).                                                 *)
THEOREM CacheBounded == Spec => []CacheGrowsByRacesOnly
<1>1. Room => CacheGrowsByRacesOnly
  BY DEF Room, CacheGrowsByRacesOnly
<1>2. Typed /\ Room /\ [Next]_vars => Room'
  BY RoomStep
<1> QED
  BY <1>1, <1>2, RoomInit, AlwaysTyped, PTL DEF Spec
-----------------------------------------------------------------------------
(* The scan for a key.                                                     *)

(* The remainder of a multiple and a rest.                                 *)
LEMMA Remainder ==
    ASSUME NEW m \in Nat \ {0}, NEW q \in Nat, NEW r \in 0..(m - 1)
    PROVE  (m * q + r) % m = r
  OBVIOUS

(* Quotient and remainder.                                                 *)
LEMMA Division ==
    ASSUME NEW n \in Nat, NEW m \in Nat \ {0}
    PROVE  \E q \in Nat, r \in 0..(m - 1) : n = m * q + r /\ r = n % m
<1> DEFINE q == n \div m
<1>1. q \in Int /\ m * q <= n /\ m * q > n - m
  OBVIOUS
<1> HIDE DEF q
<1>2. CASE q < 0
  <2>1. m * q <= 0 - m
    BY <1>1, <1>2
  <2> QED
    BY <1>1, <2>1
<1>3. CASE q >= 0
  <2> DEFINE r == n - m * q
  <2>1. q \in Nat /\ r \in 0..(m - 1) /\ n = m * q + r
    BY <1>1, <1>3
  <2> HIDE DEF r
  <2>2. (m * q + r) % m = r
    BY <2>1, Remainder
  <2>3. r = n % m
    BY <2>1, <2>2, Zenon
  <2> QED
    BY <2>1, <2>3, Zenon
<1> QED
  BY <1>1, <1>2, <1>3

(* The remainder of the next number.                                       *)
LEMMA NextRemainder ==
    ASSUME NEW n \in Nat, NEW m \in Nat \ {0}
    PROVE  (n + 1) % m = IF n % m = m - 1 THEN 0 ELSE (n % m) + 1
<1>1. PICK q \in Nat, r \in 0..(m - 1) : n = m * q + r /\ r = n % m
  BY Division
<1>2. CASE r = m - 1
  <2>1. n + 1 = m * (q + 1) + 0 /\ q + 1 \in Nat
    BY <1>1, <1>2
  <2>2. (m * (q + 1) + 0) % m = 0
    OBVIOUS
  <2> QED
    BY <1>1, <1>2, <2>1, <2>2, Zenon
<1>3. CASE r # m - 1
  <2>1. n + 1 = m * q + (r + 1) /\ r + 1 \in 0..(m - 1)
    BY <1>1, <1>3
  <2>2. (m * q + (r + 1)) % m = r + 1
    BY <2>1, Remainder, Zenon
  <2> QED
    BY <1>1, <1>3, <2>1, <2>2, Zenon
<1> QED
  BY <1>2, <1>3

\* Where the cursor stands in the pool.
Here == cursor % Len(pool)

(* One step of the cursor, also over its end, is one step in the pool.     *)
LEMMA CursorStep ==
    ASSUME Typed, Apart, up, UNCHANGED pool, cursor' = (cursor + 1) % Lap
    PROVE  /\ Len(pool) \in Nat \ {0} /\ Here \in 0..(Len(pool) - 1)
           /\ Here' = IF Here = Len(pool) - 1 THEN 0 ELSE Here + 1
<1> DEFINE m == Len(pool)
<1>1. m \in Nat \ {0} /\ cursor \in 0..(Lap - 1) /\ Lap \in Nat \ {0}
  BY ConstantsType DEF Typed, PoolTyped
<1>2. Lap % m = 0
  <2>1. Cardinality(ToSet(pool)) = m
    BY DistinctNoRepeats DEF Apart, NoRepeats, Typed, PoolTyped
  <2>2. IsFiniteSet(Keys) /\ \A n \in 1..Cardinality(Keys) : Lap % n = 0
    BY LastfmAssumption DEF LastfmAssumption
  <2>3. ToSet(pool) \in SUBSET Keys
    BY DEF ToSet, Typed, PoolTyped
  <2>4. m <= Cardinality(Keys) /\ Cardinality(Keys) \in Nat
    BY <2>1, <2>2, <2>3, FS_Subset, FS_CardinalityType
  <2> QED
    BY <1>1, <2>2, <2>4
<1>3. Here = cursor % m /\ Here' = cursor' % m
  BY DEF Here
<1> HIDE DEF m
<1>4. Here \in 0..(m - 1)
  <2>1. cursor \in Nat
    BY <1>1
  <2>2. cursor % m \in 0..(m - 1)
    BY <1>1, <2>1, ModType
  <2> QED
    BY <1>3, <2>2
<1>5. (cursor + 1) % m = IF Here = m - 1 THEN 0 ELSE Here + 1
  <2>1. cursor \in Nat
    BY <1>1
  <2>2. (cursor + 1) % m = IF cursor % m = m - 1 THEN 0 ELSE (cursor % m) + 1
    BY <1>1, <2>1, NextRemainder
  <2> QED
    BY <1>3, <2>2
<1>6. CASE cursor + 1 < Lap
  <2>1. cursor' = cursor + 1
    BY <1>1, <1>6
  <2> QED
    BY <1>1, <1>3, <1>4, <1>5, <1>6, <2>1 DEF m
<1>7. CASE cursor + 1 = Lap
  <2>1. cursor' = 0 /\ 0 % m = 0
    BY <1>1, <1>7
  <2>2. Here = m - 1
    BY <1>1, <1>2, <1>4, <1>5, <1>7
  <2> QED
    BY <1>1, <1>3, <1>4, <2>1, <2>2 DEF m
<1> QED
  BY <1>1, <1>6, <1>7

\* The key that the cursor gave i steps ago.
Back(r, i, m) == IF i <= r THEN r - i ELSE r - i + m
Ago(i) == pool[Back(Here, i, Len(pool)) + 1]

(* The inductive form of BenchedOnlyIfNeeded: a scan that no other one has *)
(* disturbed has met nothing but benched keys so far.                      *)
Scanned ==
    \A c \in Picking :
        /\ call[c].at <= clock /\ call[c].left <= Len(pool)
        /\ ~call[c].raced => \A i \in 1..(Len(pool) - call[c].left) : until[Ago(i)] > call[c].at

LEMMA ScannedInit == Init => Scanned
  BY DEF Init, Scanned, Picking, Idle

(* A step after which the scans that were under way are where they were.   *)
LEMMA ScannedKept ==
    ASSUME Typed, Scanned, UNCHANGED <<pool, cursor>>, until' \in [Keys -> Nat], clock' \in Nat, clock' >= clock,
           \A c \in Picking' : c \in Picking /\ call'[c] = call[c],
           \A k \in Keys : until'[k] = until[k] \/ until'[k] > clock
    PROVE  Scanned'
<1> SUFFICES ASSUME NEW c \in Picking'
             PROVE  /\ call'[c].at <= clock' /\ call'[c].left <= Len(pool')
                    /\ ~call'[c].raced => \A i \in 1..(Len(pool') - call'[c].left) : until'[Ago(i)'] > call'[c].at
  BY DEF Scanned
<1>1. c \in Picking /\ call'[c] = call[c] /\ up /\ call[c] \in CallRecords
  BY DEF Picking, Typed, CallsTyped, Under
<1>2. /\ Len(pool) \in Nat \ {0} /\ cursor \in Nat /\ clock \in Nat
      /\ call[c].at \in Nat /\ call[c].left \in Nat /\ until \in [Keys -> Nat]
  <2>1. pool \in Seq(Keys) /\ pool # << >> /\ cursor \in Nat /\ clock \in Nat /\ until \in [Keys -> Nat]
    BY <1>1, ConstantsType DEF Typed, PoolTyped, CountsTyped
  <2>2. call[c].at \in Nat /\ call[c].left \in Nat
    BY <1>1 DEF CallRecords
  <2>3. Len(pool) \in Nat \ {0}
    BY <2>1
  <2> QED
    BY <2>1, <2>2, <2>3
<1>3. call[c].at <= clock /\ call[c].left <= Len(pool)
  BY <1>1 DEF Scanned
<1>4. ASSUME ~call[c].raced, NEW i \in 1..(Len(pool) - call[c].left)
      PROVE  until'[Ago(i)] > call[c].at
  <2>1. Here \in 0..(Len(pool) - 1)
    BY <1>2, ModType DEF Here
  <2>2. Back(Here, i, Len(pool)) + 1 \in 1..Len(pool)
    BY <1>2, <1>4, <2>1 DEF Back
  <2>3. Ago(i) \in Keys
    BY <2>2 DEF Ago, Typed, PoolTyped
  <2>4. until[Ago(i)] > call[c].at
    BY <1>1, <1>4 DEF Scanned
  <2>5. until'[Ago(i)] = until[Ago(i)] \/ until'[Ago(i)] > clock
    BY <2>3
  <2>6. CASE until'[Ago(i)] = until[Ago(i)]
    BY <2>4, <2>6
  <2>7. CASE until'[Ago(i)] > clock
    BY <1>2, <1>3, <2>3, <2>7
  <2> QED
    BY <2>5, <2>6, <2>7
<1>5. \A i : Ago(i)' = Ago(i)
  BY DEF Ago, Here
<1> QED
  BY <1>1, <1>2, <1>3, <1>4, <1>5

(* One look of a scan at a key.                                            *)
LEMMA ScannedPick ==
    ASSUME Typed, Apart, Scanned, NEW c \in Calls, pick_key(c)
    PROVE  Scanned'
<1>1. /\ up /\ call[c].st = "pick" /\ cursor' = (cursor + 1) % Lap
      /\ UNCHANGED <<pool, until, clock>>
  BY DEF pick_key
<1>2. call \in [Calls -> CallRecords] /\ clock \in Nat
  BY DEF Typed, CallsTyped, CountsTyped
<1>3. ASSUME NEW d \in Picking', d # c
      PROVE  /\ d \in Picking /\ call'[d].raced = TRUE
             /\ call'[d].at = call[d].at /\ call'[d].left = call[d].left
  <2>1. d \in Calls /\ call'[d].st = "pick"
    BY DEF Picking
  <2>2. call'[d] = IF d \in Picking THEN [call[d] EXCEPT !.raced = TRUE] ELSE call[d]
    BY <1>3, <2>1 DEF pick_key
  <2>3. d \in Picking
    BY <2>1, <2>2 DEF Picking
  <2> QED
    BY <1>2, <2>1, <2>2, <2>3 DEF CallRecords
<1>4. ASSUME NEW d \in Picking', d # c
      PROVE  /\ call'[d].at <= clock' /\ call'[d].left <= Len(pool')
             /\ ~call'[d].raced => \A i \in 1..(Len(pool') - call'[d].left) : until'[Ago(i)'] > call'[d].at
  BY <1>1, <1>3, <1>4 DEF Scanned
<1>5. ASSUME c \in Picking'
      PROVE  /\ call'[c].at <= clock' /\ call'[c].left <= Len(pool')
             /\ ~call'[c].raced => \A i \in 1..(Len(pool') - call'[c].left) : until'[Ago(i)'] > call'[c].at
  <2> DEFINE m == Len(pool)
             n == call[c].left
  <2>1. /\ n > 0 /\ Benched(c, CursorKey)
        /\ call'[c] = [call[c] EXCEPT !.left = @ - 1]
    <3>1. CASE n > 0 /\ Benched(c, CursorKey)
      BY <3>1 DEF pick_key
    <3>2. CASE ~(n > 0 /\ Benched(c, CursorKey))
      <4>1. call'[c].st = "sent"
        BY <1>2, <3>2 DEF pick_key, CallRecords
      <4> QED
        BY <1>5, <4>1 DEF Picking
    <3> QED
      BY <3>1, <3>2
  <2>2. /\ call'[c].left = n - 1 /\ call'[c].at = call[c].at /\ call'[c].raced = call[c].raced
        /\ n \in Nat
    BY <1>2, <2>1 DEF CallRecords
  <2>3. c \in Picking
    BY <1>1 DEF Picking
  <2>4. /\ m \in Nat \ {0} /\ Here \in 0..(m - 1)
        /\ Here' = IF Here = m - 1 THEN 0 ELSE Here + 1
    BY <1>1, CursorStep
  <2>5. ASSUME ~call[c].raced, NEW i \in 1..(m - (n - 1))
        PROVE  until[Ago(i)'] > call[c].at
    <3>1. CASE i = 1
      <4>1. Back(Here', i, m) = Here
        BY <2>4, <3>1 DEF Back
      <4>2. Ago(i)' = CursorKey
        BY <1>1, <4>1 DEF Ago, CursorKey, Here
      <4> QED
        BY <2>1, <4>2 DEF Benched
    <3>2. CASE i # 1
      <4>1. i - 1 \in 1..(m - n)
        BY <2>2, <2>4, <2>5, <3>2
      <4>2. n <= m
        BY <2>3 DEF Scanned
      <4>3. Back(Here', i, m) = Back(Here, i - 1, m)
        BY <2>1, <2>2, <2>4, <2>5, <3>2, <4>2 DEF Back
      <4>4. Ago(i)' = Ago(i - 1)
        BY <1>1, <4>3 DEF Ago
      <4> QED
        BY <2>3, <2>5, <4>1, <4>4 DEF Scanned
    <3> QED
      BY <3>1, <3>2
  <2>6. call[c].at <= clock /\ n <= m
    BY <2>3 DEF Scanned
  <2> QED
    BY <1>1, <1>2, <2>2, <2>4, <2>5, <2>6
<1> QED
  BY <1>4, <1>5 DEF Scanned

LEMMA ScannedCall ==
    ASSUME Typed, Apart, Scanned, NEW c \in Calls, CallStep(c)
    PROVE  Scanned'
<1>1. call \in [Calls -> CallRecords] /\ clock \in Nat /\ until \in [Keys -> Nat]
  BY DEF Typed, CallsTyped, CountsTyped, PoolTyped
<1>2. ASSUME \A d \in Calls \ {c} : call'[d] = call[d], DOMAIN call' = Calls, call'[c].st # "pick",
             UNCHANGED <<pool, cursor, clock>>, until' \in [Keys -> Nat],
             \A k \in Keys : until'[k] = until[k] \/ until'[k] > clock
      PROVE  Scanned'
  <2>1. \A d \in Picking' : d \in Picking /\ call'[d] = call[d]
    BY <1>2 DEF Picking
  <2> QED
    BY <1>1, <1>2, <2>1, ScannedKept
<1>3. ASSUME NEW n, NEW i, up, call[c].st # "pick", StartPick(c, n, i)
      PROVE  Scanned'
  <2>1. /\ call' = [call EXCEPT ![c] = [Idle EXCEPT !.st = "pick", !.attempt = n, !.item = i,
                                                   !.left = Len(pool), !.at = clock]]
        /\ UNCHANGED <<pool, until, cursor, clock>>
    BY <1>3 DEF StartPick, poolVars
  <2>2. call'[c].left = Len(pool) /\ call'[c].at = clock /\ \A d \in Calls \ {c} : call'[d] = call[d]
    BY <1>1, <2>1 DEF Idle
  <2>3. ASSUME NEW d \in Picking', d # c
        PROVE  /\ call'[d].at <= clock' /\ call'[d].left <= Len(pool')
               /\ ~call'[d].raced => \A j \in 1..(Len(pool') - call'[d].left) : until'[Ago(j)'] > call'[d].at
    <3>1. d \in Picking /\ call'[d] = call[d]
      BY <2>2, <2>3 DEF Picking
    <3>2. \A j : Ago(j)' = Ago(j)
      BY <2>1 DEF Ago, Here
    <3> QED
      BY <2>1, <3>1, <3>2 DEF Scanned
  <2>4. Len(pool) \in Nat /\ 1..(Len(pool) - Len(pool)) = {}
    BY DEF Typed, PoolTyped
  <2> QED
    BY <1>1, <2>1, <2>2, <2>3, <2>4 DEF Scanned
<1>4. CASE FirstAttempt(c) \/ NextAttempt(c)
  BY <1>3, <1>4 DEF FirstAttempt, NextAttempt
<1>5. ASSUME NEW st \in States \ {"pick"}, Become(c, st), UNCHANGED <<poolVars, clock>>
      PROVE  Scanned'
  <2>1. call'[c].st = st /\ \A d \in Calls \ {c} : call'[d] = call[d]
    BY <1>1, <1>5 DEF Become, Idle
  <2> QED
    BY <1>1, <1>2, <1>5, <2>1 DEF Become, poolVars
<1>6. CASE CacheHit(c) \/ Rejected(c) \/ remember_artist_info(c)
  BY <1>5, <1>6 DEF CacheHit, Rejected, remember_artist_info, States
<1>7. CASE Answered(c)
  BY <1>5, <1>7 DEF Answered, Outcome, States
<1>8. CASE RateLimited(c) \/ FailedForNow(c)
  <2>1. call'[c].st # "pick" /\ \A d \in Calls \ {c} : call'[d] = call[d]
    BY <1>1, <1>8 DEF RateLimited, FailedForNow, BackOff, Idle
  <2>2. until' \in [Keys -> Nat] /\ \A k \in Keys : until'[k] = until[k] \/ until'[k] > clock
    BY <1>1, <1>8 DEF RateLimited, FailedForNow, poolVars
  <2>3. DOMAIN call' = Calls /\ UNCHANGED <<pool, cursor, clock>>
    BY <1>1, <1>8 DEF RateLimited, FailedForNow, poolVars, BackOff
  <2> QED
    BY <1>2, <2>1, <2>2, <2>3
<1>9. CASE CheckCap(c) \/ Evict(c)
  <2>1. call'[c].st = "store" /\ \A d \in Calls \ {c} : call'[d] = call[d]
    BY <1>1, <1>9 DEF CheckCap, Evict, CallRecords
  <2>2. DOMAIN call' = Calls /\ UNCHANGED <<pool, until, cursor, clock>>
    BY <1>1, <1>9 DEF CheckCap, Evict, poolVars
  <2> QED
    BY <1>1, <1>2, <2>1, <2>2
<1> QED
  BY <1>4, <1>6, <1>7, <1>8, <1>9, ScannedPick DEF CallStep

LEMMA ScannedStep == Typed /\ Apart /\ Scanned /\ [Next]_vars => Scanned'
<1> SUFFICES ASSUME Typed, Apart, Scanned, [Next]_vars PROVE Scanned'
  OBVIOUS
<1>1. ASSUME Picking' = {} PROVE Scanned'
  BY <1>1 DEF Scanned
<1>2. ASSUME UNCHANGED <<poolVars, call>>, clock' \in Nat, clock' >= clock PROVE Scanned'
  <2>1. \A c \in Picking' : c \in Picking /\ call'[c] = call[c]
    BY <1>2 DEF Picking
  <2> QED
    BY <1>2, <2>1, ScannedKept DEF poolVars, Typed, PoolTyped
<1>3. CASE Crash
  BY <1>1, <1>3 DEF Crash, Picking, Idle
<1>4. CASE with_keys
  BY <1>1, <1>4 DEF with_keys, Picking, Typed, CallsTyped, Under
<1>5. ASSUME NEW p \in Posts, PostStep(p) PROVE Scanned'
  <2>1. CASE add_key(p)
    BY <1>1, <2>1 DEF add_key, Picking
  <2>2. CASE Truncate(p) \/ persist(p)
    BY <1>2, <2>2 DEF Truncate, persist, Typed, CountsTyped
  <2> QED
    BY <1>5, <2>1, <2>2 DEF PostStep
<1>6. CASE Tick \/ UNCHANGED vars
  BY <1>2, <1>6 DEF Tick, vars, Typed, CountsTyped
<1> QED
  BY <1>3, <1>4, <1>5, <1>6, ScannedCall DEF Next

(* A scan that takes a benched key has seen the whole pool, unless another *)
(* scan moved the cursor meanwhile.                                        *)
LEMMA WholeRound ==
    ASSUME Typed, Apart, Scanned, NEW c \in Calls, pick_key(c),
           call'[c].st = "sent", until[call'[c].key] > call[c].at, ~call[c].raced,
           NEW k \in ToSet(pool)
    PROVE  until[k] > call[c].at
<1> DEFINE m == Len(pool)
<1>1. /\ up /\ call[c].st = "pick" /\ cursor' = (cursor + 1) % Lap /\ UNCHANGED pool
      /\ call[c] \in CallRecords /\ c \in Picking
  BY DEF pick_key, Typed, CallsTyped, Picking
<1>2. m \in Nat \ {0} /\ Here \in 0..(m - 1)
  BY <1>1, CursorStep
<1>3. ~(call[c].left > 0 /\ Benched(c, CursorKey))
  <2>1. ASSUME call[c].left > 0 /\ Benched(c, CursorKey) PROVE FALSE
    BY <1>1, <2>1 DEF pick_key, CallRecords
  <2> QED
    BY <2>1
<1>4. call'[c].key = CursorKey
  BY <1>1, <1>3 DEF pick_key, CallRecords
<1>5. call[c].left = 0
  BY <1>1, <1>3, <1>4 DEF Benched, CallRecords
<1>6. PICK j \in 1..m : k = pool[j]
  BY DEF ToSet, Typed, PoolTyped
<1>7. \E i \in 1..m : Back(Here, i, m) = j - 1
  <2>1. CASE j - 1 < Here
    <3>1. Here - (j - 1) \in 1..m /\ Back(Here, Here - (j - 1), m) = j - 1
      BY <1>2, <2>1 DEF Back
    <3> QED
      BY <3>1
  <2>2. CASE j - 1 >= Here
    <3>1. Here - (j - 1) + m \in 1..m /\ Back(Here, Here - (j - 1) + m, m) = j - 1
      BY <1>2, <2>2 DEF Back
    <3> QED
      BY <3>1
  <2> QED
    BY <1>2, <2>1, <2>2
<1>8. PICK i \in 1..m : Back(Here, i, m) = j - 1
  BY <1>7
<1>9. Ago(i) = k
  BY <1>2, <1>6, <1>8 DEF Ago
<1> QED
  BY <1>1, <1>2, <1>5, <1>9 DEF Scanned

(* A request goes out with a key that is benched only if every key of the  *)
(* pool is, or if concurrent scans share out the cursor's steps            *)
(* (pick_key).                                                             *)
THEOREM BenchRespected == Spec => BenchedOnlyIfNeeded
<1> DEFINE Needed(c) ==
               call[c].st = "pick" /\ call'[c].st = "sent" /\ until[call'[c].key] > call[c].at
                   => call[c].raced \/ \A k \in ToSet(pool) : until[k] > call[c].at
<1>1. ASSUME Typed, Apart, Scanned, [Next]_vars, NEW c \in Calls PROVE Needed(c)
  <2>1. ASSUME call[c].st = "pick", call'[c].st = "sent" PROVE pick_key(c)
    <3>1. call \in [Calls -> CallRecords]
      BY <1>1 DEF Typed, CallsTyped
    <3>2. ASSUME NEW d \in Calls, CallStep(d) PROVE d = c /\ pick_key(c)
      <4>1. CASE d = c
        BY <2>1, <3>2, <4>1
           DEF CallStep, CacheHit, FirstAttempt, NextAttempt, Answered, Rejected, RateLimited,
               FailedForNow, CheckCap, Evict, remember_artist_info
      <4>2. CASE d # c
        <5>1. call'[c].st = call[c].st
          BY <3>1, <3>2, <4>2
             DEF CallStep, CacheHit, FirstAttempt, NextAttempt, StartPick, Become, BackOff, pick_key,
                 Answered, Rejected, RateLimited, FailedForNow, CheckCap, Evict, remember_artist_info,
                 CallRecords
        <5> QED
          BY <2>1, <5>1
      <4> QED
        BY <4>1, <4>2
    <3>3. ASSUME UNCHANGED call PROVE FALSE
      BY <2>1, <3>3
    <3>4. CASE Crash
      BY <2>1, <3>4 DEF Crash, Idle
    <3> QED
      BY <1>1, <3>2, <3>3, <3>4 DEF Next, PostStep, add_key, Truncate, persist, with_keys, Tick, vars
  <2> QED
    BY <1>1, <2>1, WholeRound
<1>2. Typed /\ Apart /\ Scanned /\ [Next]_vars => [\A c \in Calls : Needed(c)]_vars
  BY <1>1
<1>3. Typed /\ Apart /\ Scanned /\ [Next]_vars => Scanned'
  BY ScannedStep
<1>4. Spec => []Scanned
  BY <1>3, ScannedInit, KeysStayApart, AlwaysTyped, PTL DEF Spec
<1> QED
  BY <1>2, <1>4, KeysStayApart, AlwaysTyped, PTL DEF Spec, BenchedOnlyIfNeeded
=============================================================================
