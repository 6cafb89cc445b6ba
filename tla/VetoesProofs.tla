---------------------------- MODULE VetoesProofs ----------------------------
(***************************************************************************)
(* Proofs about module Vetoes, for any discoveries, names, pages, window,  *)
(* permits and cooldowns.                                                  *)
(***************************************************************************)
EXTENDS Vetoes, RankingProofs

(* What the module assumes of its numbers and sets.                        *)
LEMMA ConstantsType ==
    /\ IsFiniteSet(Discoveries) /\ IsFiniteSet(Names)
    /\ Permits \in Nat \ {0} /\ PagePermits \in Nat \ {0} /\ MaxCalls \in Nat \ {0}
    /\ Window \in Nat \ {0} /\ MaxTime \in Nat /\ MaxFails \in Nat
    /\ Cooldowns \subseteq Nat \ {0}
    /\ \A d \in Discoveries : Ranked[d] \in Seq(Names)
  BY VetoesAssumption DEF VetoesAssumption

(* A set of numbers that is not empty has a least one.                     *)
LEMMA MinExists ==
    ASSUME NEW S \in SUBSET Nat, S # {}
    PROVE  Min(S) \in S /\ \A y \in S : Min(S) <= y
<1> DEFINE R == {ss \in Nat \X Nat : ss[1] < ss[2]}
<1>1. IsWellFoundedOn(R, Nat)
  BY NatLessThanWellFounded DEF OpToRel
<1>2. PICK x \in S : \A y \in S : ~(<<y, x>> \in R)
  <2> HIDE DEF R
  <2> QED
    BY <1>1, WFMin
<1>3. \A y \in S : x <= y
  <2> SUFFICES ASSUME NEW y \in S, y < x PROVE FALSE
    OBVIOUS
  <2>1. <<y, x>> \in Nat \X Nat /\ <<y, x>>[1] < <<y, x>>[2]
    OBVIOUS
  <2>2. <<y, x>> \in R
    BY <2>1
  <2> QED
    BY <1>2, <2>2
<1> QED
  BY <1>3 DEF Min

(* Whoever a veto looks at is a candidate, and has a name.                 *)
LEMMA TargetsAreCandidates ==
    ASSUME NEW d \in Discoveries
    PROVE  /\ FanTargets[d] \subseteq Candidates[d] /\ CollabTargets[d] \subseteq Candidates[d]
           /\ AliasTargets[d] \subseteq Candidates[d] /\ Candidates[d] \subseteq Names
<1>1. FanTargets[d] \subseteq Candidates[d]
  BY DEF FanTargets, FirstOf, Candidates, ToSet
<1>2. CollabTargets[d] \subseteq Candidates[d]
  BY DEF CollabTargets, FirstOf, Candidates, ToSet
<1>3. AliasTargets[d] \subseteq Candidates[d]
  BY DEF AliasTargets, FirstOf, Candidates, ToSet
<1>4. Candidates[d] \subseteq Names
  <2>1. Ranked[d] \in Seq(Names)
    BY ConstantsType
  <2> QED
    BY <2>1 DEF Candidates, ToSet
<1> QED
  BY <1>1, <1>2, <1>3, <1>4

(* take_slot forgets the oldest calls only, and only old ones.             *)
LEMMA RecentCalls ==
    ASSUME NEW T, calls \in Seq(T)
    PROVE  \E k \in 0..Len(calls) :
              /\ Recent \in Seq(T) /\ Len(Recent) = Len(calls) - k
              /\ \A i \in 1..(Len(calls) - k) : Recent[i] = calls[k + i]
              /\ \A i \in 1..k : ~(clock - calls[i] < Window)
<1> DEFINE young == {i \in DOMAIN calls : clock - calls[i] < Window}
<1>1. Len(calls) \in Nat /\ DOMAIN calls = 1..Len(calls)
  OBVIOUS
<1>2. young \subseteq 1..Len(calls) /\ \A i \in (1..Len(calls)) \ young : ~(clock - calls[i] < Window)
  BY <1>1
<1>3. Recent = IF young = {} THEN << >> ELSE SubSeq(calls, Min(young), Len(calls))
  BY DEF Recent
<1> HIDE DEF young
<1>4. CASE young = {}
  <2>1. Recent = << >>
    BY <1>3, <1>4
  <2>2. \A i \in 1..Len(calls) : ~(clock - calls[i] < Window)
    BY <1>2, <1>4
  <2>3. Recent \in Seq(T) /\ Len(Recent) = Len(calls) - Len(calls)
    BY <1>1, <2>1
  <2>4. Len(calls) \in 0..Len(calls) /\ 1..(Len(calls) - Len(calls)) = {}
    BY <1>1
  <2> QED
    BY <2>2, <2>3, <2>4
<1>5. CASE young # {}
  <2> DEFINE m == Min(young)
  <2>1. Recent = SubSeq(calls, m, Len(calls))
    BY <1>3, <1>5
  <2>2. m \in young /\ \A i \in young : m <= i
    <3>1. young \in SUBSET Nat
      BY <1>1, <1>2
    <3> QED
      BY <1>5, <3>1, MinExists
  <2> HIDE DEF m
  <2>3. m \in 1..Len(calls)
    BY <1>2, <2>2
  <2>4. \A i \in 1..(m - 1) : ~(clock - calls[i] < Window)
    <3> SUFFICES ASSUME NEW i \in 1..(m - 1) PROVE ~(clock - calls[i] < Window)
      OBVIOUS
    <3>1. i \in 1..Len(calls) /\ i \notin young
      BY <1>1, <2>2, <2>3
    <3> QED
      BY <1>2, <3>1
  <2>5. \A i \in m..Len(calls) : calls[i] \in T
    BY <1>1, <2>3
  <2>6. /\ Recent \in Seq(T) /\ Len(Recent) = Len(calls) - m + 1
        /\ \A i \in 1..(Len(calls) - m + 1) : Recent[i] = calls[m + i - 1]
    BY <1>1, <2>1, <2>3, <2>5, SubSeqProperties
  <2>7. /\ m - 1 \in 0..Len(calls) /\ Len(Recent) = Len(calls) - (m - 1)
        /\ \A i \in 1..(Len(calls) - (m - 1)) : Recent[i] = calls[(m - 1) + i]
    <3>1. /\ m - 1 \in 0..Len(calls) /\ Len(calls) - m + 1 = Len(calls) - (m - 1)
          /\ \A i \in 1..(Len(calls) - (m - 1)) : m + i - 1 = (m - 1) + i
      BY <1>1, <2>3
    <3>2. \A i \in 1..(Len(calls) - (m - 1)) : Recent[i] = calls[(m - 1) + i]
      <4> SUFFICES ASSUME NEW i \in 1..(Len(calls) - (m - 1)) PROVE Recent[i] = calls[(m - 1) + i]
        OBVIOUS
      <4>1. i \in 1..(Len(calls) - m + 1) /\ m + i - 1 = (m - 1) + i
        BY <3>1
      <4>2. Recent[i] = calls[m + i - 1]
        BY <2>6, <4>1
      <4> QED
        BY <4>1, <4>2
    <3>3. Len(Recent) = Len(calls) - (m - 1)
      BY <2>6, <3>1
    <3> QED
      BY <3>1, <3>2, <3>3
  <2> QED
    BY <2>4, <2>6, <2>7
<1> QED
  BY <1>4, <1>5
-----------------------------------------------------------------------------
(* Type correctness.                                                       *)

LookStates == {"start", "waits", "permitted", "sent", "known", "unknown"}

CallsTyped ==
    /\ calls \in Seq(0..MaxTime) /\ Len(calls) <= MaxCalls /\ sent \in Seq(0..MaxTime)
    /\ clock \in 0..MaxTime /\ cooldown \in Nat /\ late \in Nat /\ fails \in 0..MaxFails

LookTyped ==
    /\ fansKnown \subseteq Names /\ DOMAIN look = Discoveries
    /\ \A d \in Discoveries : look[d] \in [FanTargets[d] -> LookStates]

PagesTyped ==
    /\ pageKnown \subseteq PageKeys
    /\ memo \in [Discoveries -> [PageKeys -> {"absent", "loading", "resolved", "failed"}]]
    /\ rows \in [Discoveries -> {"unread", "read", "unreadable"}]

StageTyped ==
    /\ open \in [Discoveries -> SUBSET {"deezer", "split", "stage"}]
    /\ DOMAIN spoilt = Discoveries
    /\ \A d \in Discoveries : spoilt[d] \subseteq Arms \X Candidates[d]

Typed == CallsTyped /\ LookTyped /\ PagesTyped /\ StageTyped

\* Holders that are yet to take a slot.
Ready == {x \in Holders : look[x[1]][x[2]] = "permitted"}

LEMMA HoldersFinite == IsFiniteSet(Holders) /\ Holders \subseteq Discoveries \X Names
<1>1. Holders \subseteq Discoveries \X Names
  BY TargetsAreCandidates DEF Holders
<1>2. IsFiniteSet(Discoveries \X Names)
  BY ConstantsType, FS_Product
<1> QED
  BY <1>1, <1>2, FS_Subset

LEMMA TypedInit == Init => Typed
<1> SUFFICES ASSUME Init PROVE Typed
  OBVIOUS
<1>1. CallsTyped
  BY ConstantsType DEF Init, CallsTyped
<1>2. LookTyped
  BY DEF Init, LookTyped, LookStates
<1>3. PagesTyped
  BY DEF Init, PagesTyped
<1>4. StageTyped
  BY DEF Init, StageTyped
<1> QED
  BY <1>1, <1>2, <1>3, <1>4 DEF Typed

(* A failure leaves candidates undecided.                                  *)
LEMMA SpoilTyped ==
    ASSUME StageTyped, UNCHANGED open, NEW d \in Discoveries, NEW more \in SUBSET (Arms \X Candidates[d]),
           spoilt' = [spoilt EXCEPT ![d] = @ \cup more]
    PROVE  StageTyped'
  BY DEF StageTyped

(* A lookup of a candidate moves on.                                       *)
LEMMA MoveTyped ==
    ASSUME LookTyped, NEW d \in Discoveries, NEW n \in FanTargets[d], NEW st \in LookStates,
           Move(d, n, st), fansKnown' \in {fansKnown, fansKnown \cup {n}}
    PROVE  LookTyped'
<1>1. n \in Names
  BY TargetsAreCandidates
<1>2. \A e \in Discoveries : look'[e] \in [FanTargets[e] -> LookStates]
  BY DEF LookTyped, Move
<1> QED
  BY <1>1, <1>2 DEF LookTyped, Move

LEMMA CallsKept ==
    ASSUME CallsTyped, UNCHANGED <<calls, sent, clock, cooldown, late, fails>>
    PROVE  CallsTyped'
  BY DEF CallsTyped

LEMMA LookKept == ASSUME LookTyped, UNCHANGED <<fansKnown, look>> PROVE LookTyped'
  BY DEF LookTyped

LEMMA PagesKept == ASSUME PagesTyped, UNCHANGED splitVars PROVE PagesTyped'
  BY DEF PagesTyped, splitVars

LEMMA StageKept == ASSUME StageTyped, UNCHANGED <<open, spoilt>> PROVE StageTyped'
  BY DEF StageTyped

(* The lookups of a candidate at Deezer.                                   *)
LEMMA TypedLook ==
    ASSUME Typed, NEW d \in Discoveries, NEW n \in FanTargets[d],
           FanCached(d, n) \/ Permitted(d, n) \/ take_slot(d, n) \/ FanAnswer(d, n) \/ FanFails(d, n)
    PROVE  Typed'
<1>1. UNCHANGED splitVars /\ UNCHANGED <<open, clock>>
  BY DEF FanCached, Permitted, take_slot, FanAnswer, FanFails
<1>2. PagesTyped'
  BY <1>1, PagesKept DEF Typed
<1>3. LookTyped'
  <2>1. \E st \in LookStates : Move(d, n, st)
    BY DEF FanCached, Permitted, take_slot, FanAnswer, FanFails, LookStates
  <2>2. fansKnown' \in {fansKnown, fansKnown \cup {n}}
    BY DEF FanCached, Permitted, take_slot, FanAnswer, FanFails
  <2> QED
    BY <2>1, <2>2, MoveTyped DEF Typed
<1>4. StageTyped'
  <2>1. {"deezer"} \X {n} \in SUBSET (Arms \X Candidates[d])
    BY TargetsAreCandidates DEF Arms
  <2>2. UNCHANGED spoilt \/ Spoil(d, "deezer", {n})
    BY DEF FanCached, Permitted, take_slot, FanAnswer, FanFails
  <2>3. StageTyped /\ UNCHANGED open
    BY <1>1 DEF Typed
  <2>4. CASE UNCHANGED spoilt
    BY <2>3, <2>4, StageKept
  <2>5. CASE Spoil(d, "deezer", {n})
    <3>1. spoilt' = [spoilt EXCEPT ![d] = @ \cup ({"deezer"} \X {n})]
      BY <2>5 DEF Spoil
    <3> QED
      BY <2>1, <2>3, <3>1, SpoilTyped
  <2> QED
    BY <2>2, <2>4, <2>5
<1>5. CallsTyped'
  <2>1. CASE FanCached(d, n) \/ Permitted(d, n) \/ FanAnswer(d, n)
    BY <2>1, CallsKept DEF FanCached, Permitted, FanAnswer, Typed
  <2>2. CASE FanFails(d, n)
    <3>1. fails < MaxFails /\ fails' = fails + 1 /\ UNCHANGED <<calls, sent, clock>>
      BY <2>2 DEF FanFails
    <3>2. cooldown' \in Nat /\ late' \in Nat
      BY <2>2, ConstantsType DEF FanFails, Typed, CallsTyped
    <3> QED
      BY <3>1, <3>2, ConstantsType DEF Typed, CallsTyped
  <2>3. CASE take_slot(d, n)
    <3>1. Recent \in Seq(0..MaxTime) /\ Len(Recent) <= MaxCalls
      BY RecentCalls, ConstantsType DEF Typed, CallsTyped
    <3>2. CASE Len(Recent) >= MaxCalls
      BY <2>3, <3>1, <3>2 DEF take_slot, Typed, CallsTyped
    <3>3. CASE ~(Len(Recent) >= MaxCalls)
      <4>1. calls' = Append(Recent, clock) /\ sent' = Append(sent, clock)
        BY <2>3, <3>3 DEF take_slot
      <4>2. /\ calls' \in Seq(0..MaxTime) /\ Len(calls') = Len(Recent) + 1
            /\ sent' \in Seq(0..MaxTime)
        BY <3>1, <4>1, AppendProperties DEF Typed, CallsTyped
      <4>3. late' \in Nat /\ UNCHANGED <<cooldown, fails>>
        BY <2>3, <3>3 DEF take_slot, Typed, CallsTyped
      <4> QED
        BY <1>1, <3>1, <3>3, <4>2, <4>3, ConstantsType DEF Typed, CallsTyped
    <3> QED
      BY <3>2, <3>3
  <2> QED
    BY <2>1, <2>2, <2>3
<1> QED
  BY <1>2, <1>3, <1>4, <1>5 DEF Typed

(* The lookups of pages and of the stored aliases.                         *)
LEMMA TypedPages ==
    ASSUME Typed, NEW d \in Discoveries,
           read_stored(d) \/ \E k \in PageKeys : page(d, k) \/ PageAnswer(d, k) \/ PageFails(d, k)
    PROVE  Typed'
<1>1. UNCHANGED <<fansKnown, look, calls, sent, clock, cooldown, late, open>>
  BY DEF read_stored, page, PageAnswer, PageFails, deezerVars
<1>2. LookTyped'
  BY <1>1, LookKept DEF Typed
<1>3. CallsTyped'
  <2>1. fails' \in 0..MaxFails
    <3>1. UNCHANGED fails \/ (fails < MaxFails /\ fails' = fails + 1)
      BY DEF read_stored, page, PageAnswer, PageFails
    <3>2. fails \in 0..MaxFails
      BY DEF Typed, CallsTyped
    <3> QED
      BY <3>1, <3>2, ConstantsType
  <2> QED
    BY <1>1, <2>1 DEF Typed, CallsTyped
<1>4. PagesTyped'
  <2>1. CASE read_stored(d)
    BY <2>1 DEF read_stored, Typed, PagesTyped
  <2>2. ASSUME NEW k \in PageKeys, page(d, k) \/ PageAnswer(d, k) \/ PageFails(d, k)
        PROVE  PagesTyped'
    BY <2>2 DEF page, PageAnswer, PageFails, Remember, Typed, PagesTyped
  <2> QED
    BY <2>1, <2>2
<1>5. StageTyped'
  <2>1. UNCHANGED spoilt \/ \E more \in SUBSET (Arms \X Candidates[d]) : spoilt' = [spoilt EXCEPT ![d] = @ \cup more]
    <3>1. {"alias"} \X AliasTargets[d] \in SUBSET (Arms \X Candidates[d])
      BY TargetsAreCandidates DEF Arms
    <3>2. \A keys : Lacking(d, keys) \in SUBSET (Arms \X Candidates[d])
      BY TargetsAreCandidates DEF Lacking, Arms
    <3> QED
      BY <3>1, <3>2 DEF read_stored, page, PageAnswer, PageFails, Spoil
  <2> QED
    BY <1>1, <2>1, SpoilTyped, StageKept DEF Typed
<1> QED
  BY <1>2, <1>3, <1>4, <1>5 DEF Typed

(* The ends of the arms and of the stage.                                  *)
LEMMA TypedEnds ==
    ASSUME Typed, NEW d \in Discoveries,
           DeezerEnds(d) \/ DeezerBudget(d) \/ SplitEnds(d) \/ SplitBudget(d) \/ apply_vetoes(d)
    PROVE  Typed'
<1>1. UNCHANGED <<deezerVars, splitVars, clock, fails>>
  BY DEF DeezerEnds, DeezerBudget, SplitEnds, SplitBudget, apply_vetoes
<1>2. CallsTyped' /\ LookTyped' /\ PagesTyped'
  BY <1>1, CallsKept, LookKept, PagesKept DEF Typed, deezerVars
<1>3. \E arm : open' = [open EXCEPT ![d] = @ \ {arm}]
  BY DEF DeezerEnds, DeezerBudget, SplitEnds, SplitBudget, apply_vetoes, Close
<1>4. open' \in [Discoveries -> SUBSET {"deezer", "split", "stage"}]
  BY <1>3 DEF Typed, StageTyped
<1>5. UNCHANGED spoilt \/ \E more \in SUBSET (Arms \X Candidates[d]) : spoilt' = [spoilt EXCEPT ![d] = @ \cup more]
  <2>1. {"deezer"} \X Undecided(d) \in SUBSET (Arms \X Candidates[d])
    BY TargetsAreCandidates DEF Arms, Undecided
  <2>2. \A keys : Lacking(d, keys) \in SUBSET (Arms \X Candidates[d])
    BY TargetsAreCandidates DEF Lacking, Arms
  <2>3. {"collab", "alias"} \X Candidates[d] \in SUBSET (Arms \X Candidates[d])
    BY DEF Arms
  <2>4. CASE SplitBudget(d)
    BY <2>2, <2>3, <2>4 DEF SplitBudget
  <2> QED
    BY <2>1, <2>4 DEF DeezerEnds, DeezerBudget, SplitEnds, apply_vetoes, Spoil
<1>6. StageTyped'
  BY <1>4, <1>5 DEF Typed, StageTyped
<1> QED
  BY <1>2, <1>6 DEF Typed

LEMMA TypedStep == Typed /\ [Next]_vars => Typed'
<1> SUFFICES ASSUME Typed, [Next]_vars PROVE Typed'
  OBVIOUS
<1>1. ASSUME NEW d \in Discoveries, Step(d) PROVE Typed'
  BY <1>1, TypedLook, TypedPages, TypedEnds DEF Step
<1>2. CASE Tick
  <2>1. clock' \in 0..MaxTime
    BY <1>2, ConstantsType DEF Tick, Typed, CallsTyped
  <2> QED
    BY <1>2, <2>1, LookKept, PagesKept, StageKept DEF Tick, Typed, CallsTyped, deezerVars
<1>3. CASE UNCHANGED vars
  BY <1>3, CallsKept, LookKept, PagesKept, StageKept DEF vars, deezerVars, Typed
<1> QED
  BY <1>1, <1>2, <1>3 DEF Next

(* The parts of the type invariant always hold.                            *)
THEOREM AlwaysTyped == Spec => []Typed
  BY TypedInit, TypedStep, PTL DEF Spec
-----------------------------------------------------------------------------
(* The window of the calls to Deezer.                                      *)

(* The inductive form of WindowHolds: what take_slot remembers is the end  *)
(* of what was sent, and what it has forgotten is a window old.            *)
Windowed ==
    /\ Len(calls) <= Len(sent)
    /\ \A i \in 1..Len(calls) : calls[i] = sent[(Len(sent) - Len(calls)) + i]
    /\ \A i \in 1..(Len(sent) - Len(calls)) : clock - sent[i] >= Window
    /\ WindowHolds

LEMMA WindowedInit == Init => Windowed
  BY ConstantsType DEF Init, Windowed, WindowHolds

LEMMA WindowedKept ==
    ASSUME Typed, Windowed, UNCHANGED <<calls, sent>>, clock' \in Nat, clock' >= clock
    PROVE  Windowed'
<1>1. /\ Len(sent) \in Nat /\ Len(calls) \in Nat /\ clock \in Nat /\ Window \in Nat
      /\ \A i \in 1..Len(sent) : sent[i] \in Nat
  BY ConstantsType DEF Typed, CallsTyped
<1>2. \A i \in 1..(Len(sent) - Len(calls)) : clock' - sent[i] >= Window
  <2> SUFFICES ASSUME NEW i \in 1..(Len(sent) - Len(calls)) PROVE clock' - sent[i] >= Window
    OBVIOUS
  <2>1. sent[i] \in Nat
    BY <1>1
  <2>2. clock - sent[i] >= Window
    BY DEF Windowed
  <2> QED
    BY <1>1, <2>1, <2>2
<1> QED
  BY <1>2 DEF Windowed, WindowHolds

LEMMA WindowedSlot ==
    ASSUME Typed, Windowed, NEW d \in Discoveries, NEW n \in FanTargets[d], take_slot(d, n)
    PROVE  Windowed'
<1> DEFINE m == Len(calls)
           s == Len(sent)
           r == Len(Recent)
<1>1. /\ s \in Nat /\ m \in Nat /\ m <= s /\ clock \in 0..MaxTime /\ Window \in Nat /\ MaxCalls \in Nat \ {0}
      /\ DOMAIN sent = 1..s /\ \A i \in 1..s : sent[i] \in Nat
      /\ sent \in Seq(0..MaxTime) /\ UNCHANGED clock
  BY ConstantsType DEF Typed, CallsTyped, Windowed, take_slot
<1>2. PICK k \in 0..m :
          /\ Recent \in Seq(0..MaxTime) /\ r = m - k
          /\ \A i \in 1..(m - k) : Recent[i] = calls[k + i]
          /\ \A i \in 1..k : ~(clock - calls[i] < Window)
  BY RecentCalls DEF Typed, CallsTyped
<1>3. \A i \in 1..r : Recent[i] = sent[(s - r) + i]
  <2> SUFFICES ASSUME NEW i \in 1..r PROVE Recent[i] = sent[(s - r) + i]
    OBVIOUS
  <2>1. Recent[i] = calls[k + i] /\ k + i \in 1..m
    BY <1>1, <1>2
  <2>2. calls[k + i] = sent[(s - m) + (k + i)] /\ (s - m) + (k + i) = (s - r) + i
    <3>1. \A j \in 1..m : calls[j] = sent[(s - m) + j]
      BY DEF Windowed
    <3>2. (s - m) + (k + i) = (s - r) + i
      BY <1>1, <1>2
    <3> QED
      BY <2>1, <3>1, <3>2
  <2> QED
    BY <2>1, <2>2
<1>4. \A i \in 1..(s - r) : clock - sent[i] >= Window
  <2> SUFFICES ASSUME NEW i \in 1..(s - r) PROVE clock - sent[i] >= Window
    OBVIOUS
  <2>1. CASE i <= s - m
    BY <1>1, <2>1 DEF Windowed
  <2>2. CASE i > s - m
    <3>1. i - (s - m) \in 1..k
      BY <1>1, <1>2, <2>2
    <3>2. i - (s - m) \in 1..m /\ (s - m) + (i - (s - m)) = i
      BY <1>1, <1>2, <3>1
    <3>3. calls[i - (s - m)] = sent[i]
      BY <3>2 DEF Windowed
    <3>4. ~(clock - sent[i] < Window)
      BY <1>2, <3>1, <3>3
    <3>5. sent[i] \in Nat
      BY <1>1, <1>2
    <3> QED
      BY <1>1, <3>4, <3>5
  <2> QED
    BY <1>1, <1>2, <2>1, <2>2
<1>5. r \in Nat /\ r <= s
  BY <1>1, <1>2
<1>6. CASE r >= MaxCalls
  <2>1. calls' = Recent /\ sent' = sent
    BY <1>6 DEF take_slot
  <2> QED
    BY <1>1, <1>3, <1>4, <1>5, <2>1 DEF Windowed, WindowHolds
<1>7. CASE ~(r >= MaxCalls)
  <2>1. calls' = Append(Recent, clock) /\ sent' = Append(sent, clock)
    BY <1>7 DEF take_slot
  <2> HIDE DEF m, s, r
  <2>2. /\ Len(sent') = s + 1 /\ sent'[s + 1] = clock /\ \A i \in 1..s : sent'[i] = sent[i]
        /\ DOMAIN sent' = 1..(s + 1)
    BY <1>1, <2>1 DEF s
  <2>3. /\ Len(calls') = r + 1 /\ calls'[r + 1] = clock /\ \A i \in 1..r : calls'[i] = Recent[i]
    <3>1. Recent \in Seq(0..MaxTime) /\ clock \in 0..MaxTime /\ Len(Recent) = r
      BY <1>1, <1>2 DEF r
    <3>2. /\ Len(calls') = Len(Recent) + 1 /\ calls'[Len(Recent) + 1] = clock
          /\ \A i \in 1..Len(Recent) : calls'[i] = Recent[i]
      BY <2>1, <3>1, AppendProperties
    <3> QED
      BY <3>1, <3>2
  <2>4. \A i \in 1..(r + 1) : calls'[i] = sent'[((s + 1) - (r + 1)) + i]
    <3> SUFFICES ASSUME NEW i \in 1..(r + 1) PROVE calls'[i] = sent'[((s + 1) - (r + 1)) + i]
      OBVIOUS
    <3>1. CASE i = r + 1
      BY <1>1, <1>5, <2>2, <2>3, <3>1
    <3>2. CASE i # r + 1
      <4>1. i \in 1..r /\ (s - r) + i \in 1..s /\ ((s + 1) - (r + 1)) + i = (s - r) + i
        BY <1>1, <1>5, <3>2
      <4> QED
        BY <1>3, <2>2, <2>3, <4>1
    <3> QED
      BY <3>1, <3>2
  <2>5. \A i \in 1..((s + 1) - (r + 1)) : clock' - sent'[i] >= Window
    BY <1>1, <1>4, <1>5, <2>2
  <2>6. WindowHolds'
    <3> SUFFICES ASSUME NEW i \in 1..(s + 1), i + MaxCalls \in 1..(s + 1)
                 PROVE  sent'[i + MaxCalls] - sent'[i] >= Window
      BY <2>2 DEF WindowHolds
    <3>1. CASE i + MaxCalls = s + 1
      <4>1. i \in 1..(s - r) /\ i \in 1..s
        BY <1>1, <1>5, <1>7, <3>1
      <4> QED
        BY <1>4, <2>2, <3>1, <4>1
    <3>2. CASE i + MaxCalls # s + 1
      <4>1. i \in 1..s /\ i + MaxCalls \in 1..s
        BY <1>1, <3>2
      <4>2. sent[i + MaxCalls] - sent[i] >= Window
        BY <1>1, <4>1 DEF Windowed, WindowHolds
      <4> QED
        BY <2>2, <4>1, <4>2
    <3> QED
      BY <3>1, <3>2
  <2>7. Len(calls') <= Len(sent')
    BY <1>1, <1>5, <2>2, <2>3
  <2> QED
    BY <2>2, <2>3, <2>4, <2>5, <2>6, <2>7 DEF Windowed
<1> QED
  BY <1>6, <1>7

LEMMA WindowedStep == Typed /\ Windowed /\ [Next]_vars => Windowed'
<1> SUFFICES ASSUME Typed, Windowed, [Next]_vars PROVE Windowed'
  OBVIOUS
<1>1. ASSUME UNCHANGED <<calls, sent, clock>> PROVE Windowed'
  BY <1>1, WindowedKept DEF Typed, CallsTyped
<1>2. ASSUME NEW d \in Discoveries, Step(d) PROVE Windowed'
  BY <1>1, <1>2, WindowedSlot
     DEF Step, FanCached, Permitted, FanAnswer, FanFails, read_stored, page, PageAnswer, PageFails,
         DeezerEnds, DeezerBudget, SplitEnds, SplitBudget, apply_vetoes, deezerVars
<1>3. CASE Tick
  BY <1>3, WindowedKept DEF Tick, deezerVars, Typed, CallsTyped
<1>4. CASE UNCHANGED vars
  BY <1>1, <1>4 DEF vars, deezerVars
<1> QED
  BY <1>2, <1>3, <1>4 DEF Next

(* However many discoveries look for fans at once: no window, wherever it  *)
(* begins, holds more than MaxCalls calls to Deezer (take_slot).           *)
THEOREM DeezerWindow == Spec => []WindowHolds
<1>1. Typed /\ Windowed /\ [Next]_vars => Windowed'
  BY WindowedStep
<1>2. Windowed => WindowHolds
  BY DEF Windowed
<1> QED
  BY <1>1, <1>2, WindowedInit, AlwaysTyped, PTL DEF Spec
-----------------------------------------------------------------------------
(* The permits and the cooldown.                                           *)

(* The inductive form of QuietInCooldown: while a cooldown runs, whoever   *)
(* may still call is one of the other holders of a permit.                 *)
Quiet ==
    /\ Cardinality(Holders) <= Permits
    /\ late < Permits
    /\ InCooldown => late + Cardinality(Ready) < Permits

(* The lookups that wait for an answer of their own have no permit.        *)
LEMMA QuietInit == Init => Quiet
<1> SUFFICES ASSUME Init PROVE Quiet
  OBVIOUS
<1>1. Holders = {}
  BY TargetsAreCandidates DEF Init, Holders
<1>2. Ready = {}
  BY <1>1 DEF Ready
<1> QED
  BY <1>1, <1>2, FS_EmptySet, ConstantsType DEF Init, Quiet

(* Sizes of the two sets, as numbers.                                      *)
LEMMA Sizes ==
    /\ Cardinality(Holders) \in Nat /\ IsFiniteSet(Holders)
    /\ Cardinality(Ready) \in Nat /\ IsFiniteSet(Ready) /\ Cardinality(Ready) <= Cardinality(Holders)
<1>1. Ready \in SUBSET Holders
  BY DEF Ready
<1> QED
  BY <1>1, HoldersFinite, FS_Subset, FS_CardinalityType

(* A step by which nobody gets a permit and no cooldown begins.            *)
LEMMA QuietFewer ==
    ASSUME Typed, Quiet, Holders' \subseteq Holders, Ready' \subseteq Ready,
           UNCHANGED <<late, cooldown>>, clock' \in Nat, clock' >= clock
    PROVE  Quiet'
<1>1. Cardinality(Holders') <= Cardinality(Holders) /\ Cardinality(Ready') <= Cardinality(Ready)
      /\ Cardinality(Holders') \in Nat /\ Cardinality(Ready') \in Nat
  BY Sizes, FS_Subset, FS_CardinalityType
<1>2. InCooldown' => InCooldown
  BY DEF InCooldown, Typed, CallsTyped
<1> QED
  BY <1>1, <1>2, Sizes, ConstantsType DEF Quiet, Typed, CallsTyped

(* How a lookup's move changes the two sets.                               *)
LEMMA MoveHolders ==
    ASSUME Typed, NEW d \in Discoveries, NEW n \in FanTargets[d], NEW st \in LookStates,
           Running(d, "deezer"), Move(d, n, st), UNCHANGED open
    PROVE  /\ Holders' = IF st \in {"permitted", "sent"} THEN Holders \cup {<<d, n>>} ELSE Holders \ {<<d, n>>}
           /\ Ready' = IF st = "permitted" THEN Ready \cup {<<d, n>>} ELSE Ready \ {<<d, n>>}
<1> DEFINE All == UNION {{e} \X FanTargets[e] : e \in Discoveries}
<1>1. \A x \in All : x[1] \in Discoveries /\ x[2] \in FanTargets[x[1]] /\ x = <<x[1], x[2]>>
  OBVIOUS
<1>2. <<d, n>> \in All /\ <<d, n>>[1] = d /\ <<d, n>>[2] = n
  OBVIOUS
<1>3. look'[d][n] = st /\ \A x \in All : x # <<d, n>> => look'[x[1]][x[2]] = look[x[1]][x[2]]
  BY <1>1 DEF Move, Typed, LookTyped
<1>4. \A x \in All : Running(x[1], "deezer")' <=> Running(x[1], "deezer")
  BY DEF Running
<1>5. /\ Holders = {x \in All : Running(x[1], "deezer") /\ look[x[1]][x[2]] \in {"permitted", "sent"}}
      /\ Holders' = {x \in All : Running(x[1], "deezer")' /\ look'[x[1]][x[2]] \in {"permitted", "sent"}}
  BY DEF Holders
<1>6. /\ Ready = {x \in Holders : look[x[1]][x[2]] = "permitted"}
      /\ Ready' = {x \in Holders' : look'[x[1]][x[2]] = "permitted"}
  BY DEF Ready
<1> HIDE DEF All
<1>7. Holders' = IF st \in {"permitted", "sent"} THEN Holders \cup {<<d, n>>} ELSE Holders \ {<<d, n>>}
  BY <1>2, <1>3, <1>4, <1>5
<1>8. Ready' = IF st = "permitted" THEN Ready \cup {<<d, n>>} ELSE Ready \ {<<d, n>>}
  BY <1>2, <1>3, <1>4, <1>5, <1>6
<1> QED
  BY <1>7, <1>8

LEMMA QuietLook ==
    ASSUME Typed, Quiet, NEW d \in Discoveries, NEW n \in FanTargets[d],
           FanCached(d, n) \/ Permitted(d, n) \/ take_slot(d, n) \/ FanAnswer(d, n) \/ FanFails(d, n)
    PROVE  Quiet'
<1> DEFINE x == <<d, n>>
<1>1. /\ Running(d, "deezer") /\ UNCHANGED <<open, clock>> /\ x \in Discoveries \X Names
      /\ d = x[1] /\ n = x[2]
  BY TargetsAreCandidates DEF FanCached, Permitted, take_slot, FanAnswer, FanFails
<1>2. x \in Holders <=> look[d][n] \in {"permitted", "sent"}
  BY <1>1 DEF Holders
<1>3. x \in Ready <=> look[d][n] = "permitted"
  BY <1>1, <1>2 DEF Ready
<1>4. /\ clock \in Nat /\ cooldown \in Nat /\ late \in Nat /\ Permits \in Nat \ {0}
      /\ Cardinality(Holders) \in Nat /\ Cardinality(Ready) \in Nat
      /\ IsFiniteSet(Holders) /\ IsFiniteSet(Ready) /\ Cardinality(Ready) <= Cardinality(Holders)
  BY ConstantsType, Sizes DEF Typed, CallsTyped
<1>5. ASSUME NEW st \in LookStates \ {"permitted", "sent"}, Move(d, n, st), UNCHANGED <<cooldown, late>>
      PROVE  Quiet'
  <2>1. Holders' = Holders \ {x} /\ Ready' = Ready \ {x}
    BY <1>1, <1>5, MoveHolders
  <2> QED
    BY <1>1, <1>4, <1>5, <2>1, QuietFewer
<1>6. ASSUME Move(d, n, "waits"), UNCHANGED <<cooldown, late>> PROVE Quiet'
  BY <1>5, <1>6 DEF LookStates
<1>7. CASE FanCached(d, n)
  BY <1>5, <1>7 DEF FanCached, LookStates
<1>8. CASE Permitted(d, n)
  <2>1. CASE InCooldown
    BY <1>5, <1>8, <2>1 DEF Permitted, LookStates
  <2>2. CASE ~InCooldown
    <3>1. Move(d, n, "permitted") /\ UNCHANGED <<cooldown, late>> /\ Cardinality(Holders) < Permits
      BY <1>8, <2>2 DEF Permitted
    <3>2. Holders' = Holders \cup {x}
      BY <1>1, <3>1, MoveHolders DEF LookStates
    <3>3. Cardinality(Holders') <= Cardinality(Holders) + 1 /\ Cardinality(Holders') \in Nat
      <4>1. Cardinality(Holders \cup {x}) = IF x \in Holders THEN Cardinality(Holders) ELSE Cardinality(Holders) + 1
        BY <1>4, FS_AddElement
      <4> QED
        BY <1>4, <3>2, <4>1
    <3>4. ~InCooldown'
      BY <1>1, <2>2, <3>1 DEF InCooldown
    <3> QED
      BY <1>4, <3>1, <3>3, <3>4 DEF Quiet
  <2> QED
    BY <2>1, <2>2
<1>9. CASE FanAnswer(d, n)
  BY <1>5, <1>9 DEF FanAnswer, LookStates
<1>10. CASE take_slot(d, n)
  <2>1. look[d][n] = "permitted"
    BY <1>10 DEF take_slot
  <2>2. CASE Len(Recent) >= MaxCalls
    BY <1>5, <1>10, <2>2 DEF take_slot, LookStates
  <2>3. CASE ~(Len(Recent) >= MaxCalls)
    <3>1. Move(d, n, "sent") /\ UNCHANGED cooldown /\ late' = IF InCooldown THEN late + 1 ELSE late
      BY <1>10, <2>3 DEF take_slot
    <3>2. Holders' = Holders \cup {x} /\ Ready' = Ready \ {x}
      BY <1>1, <3>1, MoveHolders DEF LookStates
    <3>3. Holders' = Holders
      BY <1>2, <2>1, <3>2
    <3>4. Cardinality(Ready') = Cardinality(Ready) - 1
      BY <1>3, <1>4, <2>1, <3>2, FS_RemoveElement
    <3>5. InCooldown' <=> InCooldown
      BY <1>1, <3>1 DEF InCooldown
    <3> QED
      <4>1. CASE InCooldown
        <5>1. late + Cardinality(Ready) < Permits /\ late' = late + 1
          BY <3>1, <4>1 DEF Quiet
        <5>2. Cardinality(Ready') \in Nat
          BY <1>4, <3>2, FS_RemoveElement, FS_CardinalityType
        <5> QED
          BY <1>4, <3>3, <3>4, <5>1, <5>2 DEF Quiet
      <4>2. CASE ~InCooldown
        BY <3>1, <3>3, <3>5, <4>2 DEF Quiet
      <4> QED
        BY <4>1, <4>2
  <2> QED
    BY <2>2, <2>3
<1>11. CASE FanFails(d, n)
  <2>1. look[d][n] = "sent" /\ Move(d, n, "unknown")
    BY <1>11 DEF FanFails
  <2>2. CASE UNCHANGED <<cooldown, late>>
    BY <1>5, <2>1, <2>2 DEF LookStates
  <2>3. CASE late' = 0
    <3>1. Holders' = Holders \ {x} /\ Ready' = Ready \ {x}
      BY <1>1, <2>1, MoveHolders DEF LookStates
    <3>2. x \in Holders
      BY <1>2, <2>1
    <3>3. Cardinality(Holders') = Cardinality(Holders) - 1 /\ IsFiniteSet(Holders')
      BY <1>4, <3>1, <3>2, FS_RemoveElement
    <3>4. Ready' \in SUBSET Holders'
      BY DEF Ready
    <3>5. Cardinality(Ready') <= Cardinality(Holders') /\ Cardinality(Ready') \in Nat
      BY <3>3, <3>4, FS_Subset, FS_CardinalityType
    <3> QED
      BY <1>4, <2>3, <3>3, <3>5 DEF Quiet
  <2> QED
    BY <1>11, <2>2, <2>3 DEF FanFails
<1> QED
  BY <1>7, <1>8, <1>9, <1>10, <1>11

LEMMA QuietStep == Typed /\ Quiet /\ [Next]_vars => Quiet'
<1> SUFFICES ASSUME Typed, Quiet, [Next]_vars PROVE Quiet'
  OBVIOUS
<1>1. ASSUME UNCHANGED <<look, late, cooldown>>, clock' \in Nat, clock' >= clock,
             \A d \in Discoveries : open'[d] \subseteq open[d]
      PROVE  Quiet'
  <2>1. \A d \in Discoveries : Running(d, "deezer")' => Running(d, "deezer")
    BY <1>1 DEF Running
  <2>2. Holders' \subseteq Holders
    BY <1>1, <2>1 DEF Holders
  <2>3. Ready' \subseteq Ready
    BY <1>1, <2>2 DEF Ready
  <2> QED
    BY <1>1, <2>2, <2>3, QuietFewer
<1>2. ASSUME NEW d \in Discoveries,
             read_stored(d) \/ \E k \in PageKeys : page(d, k) \/ PageAnswer(d, k) \/ PageFails(d, k)
      PROVE  Quiet'
  <2>1. UNCHANGED <<look, late, cooldown, clock, open>>
    BY <1>2 DEF read_stored, page, PageAnswer, PageFails, deezerVars
  <2> QED
    BY <1>1, <2>1 DEF Typed, CallsTyped
<1>3. ASSUME NEW d \in Discoveries,
             DeezerEnds(d) \/ DeezerBudget(d) \/ SplitEnds(d) \/ SplitBudget(d) \/ apply_vetoes(d)
      PROVE  Quiet'
  <2>1. UNCHANGED <<look, late, cooldown, clock>> /\ \E arm : open' = [open EXCEPT ![d] = @ \ {arm}]
    BY <1>3 DEF DeezerEnds, DeezerBudget, SplitEnds, SplitBudget, apply_vetoes, Close, deezerVars
  <2>2. \A e \in Discoveries : open'[e] \subseteq open[e]
    BY <2>1 DEF Typed, StageTyped
  <2> QED
    BY <1>1, <2>1, <2>2 DEF Typed, CallsTyped
<1>4. CASE Tick \/ UNCHANGED vars
  <2>1. UNCHANGED <<look, late, cooldown, open>> /\ clock' \in Nat /\ clock' >= clock
    BY <1>4 DEF Tick, vars, deezerVars, Typed, CallsTyped
  <2> QED
    BY <1>1, <2>1
<1>5. ASSUME NEW d \in Discoveries, Step(d) PROVE Quiet'
  BY <1>2, <1>3, <1>5, QuietLook DEF Step
<1> QED
  BY <1>4, <1>5 DEF Next

(* The permits and the cooldown, for any number of discoveries.            *)
THEOREM AlwaysQuiet == Spec => []Quiet
  BY QuietInit, QuietStep, AlwaysTyped, PTL DEF Spec

(* Once a cooldown begins, fewer calls than there are permits may still go *)
(* out: those of the other holders, that had looked at it before           *)
(* (fan_count, start_cooldown).                                            *)
THEOREM CooldownQuiets == Spec => []QuietInCooldown
<1>1. Quiet => QuietInCooldown
  BY DEF Quiet, QuietInCooldown
<1> QED
  BY <1>1, AlwaysQuiet, PTL

(* Every variable of the veto stage keeps its type, and Deezer's permits   *)
(* are never overdrawn.                                                    *)
THEOREM TypeCorrect == Spec => []TypeOK
<1>1. Typed /\ Quiet => TypeOK
  BY DEF Typed, CallsTyped, LookTyped, LookStates, PagesTyped, StageTyped, Quiet, TypeOK
<1> QED
  BY <1>1, AlwaysTyped, AlwaysQuiet, PTL
-----------------------------------------------------------------------------
(* Nobody is dropped wrongly, and nobody escapes but by a failure of his   *)
(* own lookups.                                                            *)

FansDecided(d) ==
    \A n \in FanTargets[d] :
        look[d][n] = "unknown" \/ ("deezer" \notin open[d] /\ look[d][n] # "known")
            => <<"deezer", n>> \in spoilt[d]

PagesDecided(d) == \A k \in PageKeys : memo[d][k] = "failed" => Lacking(d, {k}) \subseteq spoilt[d]

RowsDecided(d) == rows[d] = "unreadable" => {"alias"} \X AliasTargets[d] \subseteq spoilt[d]

SplitDecided(d) ==
    "split" \notin open[d] =>
        IF rows[d] = "unread" THEN {"collab", "alias"} \X Candidates[d] \subseteq spoilt[d]
        ELSE \A k \in Wanted(d) : memo[d][k] = "resolved" \/ Lacking(d, {k}) \subseteq spoilt[d]

ListDecided(d) ==
    "stage" \notin open[d] =>
        open[d] = {} /\ kept[d] = Without(Ranked[d], FanVetoed(d) \cup SplitHits(d))

Decided(d) ==
    FansDecided(d) /\ PagesDecided(d) /\ RowsDecided(d) /\ SplitDecided(d) /\ ListDecided(d)

AllDecided == DOMAIN kept = Discoveries /\ \A d \in Discoveries : Decided(d)

(* The pages of a finite set of keys are finitely many.                    *)
LEMMA PagesFinite ==
    ASSUME NEW keys, IsFiniteSet(keys)
    PROVE  IsFiniteSet(PagesOf(keys))
<1> DEFINE found == {l \in keys : Page[l] # NoPage}
<1>1. IsFiniteSet(found)
  BY FS_Subset
<1> DEFINE f == [k \in found |-> Page[k]]
           pages == PagesOf(keys)
<1>2. /\ DOMAIN f = found /\ \A k \in found : f[k] \in pages
      /\ \A p \in pages : \E k \in found : f[k] = p
  BY DEF PagesOf
<1> HIDE DEF found, f, pages
<1>3. IsFiniteSet(pages)
  BY <1>1, <1>2, ValuesFinite
<1> QED
  BY <1>3 DEF pages

LEMMA AliasPagesFinite ==
    ASSUME NEW n \in Names
    PROVE  IsFiniteSet(AliasPages[n]) /\ AliasPages[n] \subseteq PageKeys
           /\ MemberPages[n] \subseteq PageKeys
<1> DEFINE others == Aliases[n] \ {n}
<1>1. IsFiniteSet(others)
  <2>1. others \in SUBSET Names
    BY VetoesAssumption DEF VetoesAssumption
  <2> HIDE DEF others
  <2> QED
    BY <2>1, ConstantsType, FS_Subset
<1> DEFINE f == [a \in others |-> <<a, FALSE>>]
           keys == AliasPages[n]
<1>2. /\ DOMAIN f = others /\ \A a \in others : f[a] \in keys
      /\ \A k \in keys : \E a \in others : f[a] = k
  BY DEF AliasPages
<1>3. IsFiniteSet(keys)
  <2> HIDE DEF others, f, keys
  <2> QED
    BY <1>1, <1>2, ValuesFinite
<1>4. AliasPages[n] \subseteq PageKeys /\ MemberPages[n] \subseteq PageKeys
  BY DEF PageKeys
<1> QED
  BY <1>3, <1>4

(* With more pages a verdict is no milder.                                 *)
LEMMA AliasMore ==
    ASSUME NEW n \in Names, NEW K, NEW L, K \subseteq L, IsFiniteSet(L), L \subseteq PageKeys,
           AliasVeto(n, PagesOf(K))
    PROVE  AliasVeto(n, PagesOf(L))
<1> DEFINE few == {p \in PagesOf(K) : Same(n, p)}
           many == {p \in PagesOf(L) : Same(n, p)}
           g == [p \in many |-> p.listeners]
           h == [p \in few |-> p.listeners]
<1>1. few \subseteq many
  BY DEF PagesOf
<1>2. IsFiniteSet(many) /\ \A p \in many : p.listeners \in Nat
  <2>1. many \in SUBSET PagesOf(L)
    OBVIOUS
  <2>2. \A p \in PagesOf(L) : p.listeners \in Nat
    BY VetoesAssumption DEF VetoesAssumption, PagesOf
  <2> HIDE DEF many
  <2> QED
    BY <2>1, <2>2, PagesFinite, FS_Subset
<1>3. few # {} /\ SumOf(h) + Own[n].listeners >= Ceiling
  BY DEF AliasVeto
<1>4. Own[n].listeners \in Nat /\ Ceiling \in Nat
  BY VetoesAssumption DEF VetoesAssumption
<1> HIDE DEF few, many
<1>5. Counts(g) /\ DOMAIN h \subseteq DOMAIN g /\ \A p \in DOMAIN h : h[p] = g[p]
  BY <1>1, <1>2 DEF Counts
<1> HIDE DEF g, h
<1>6. SumOf(h) <= SumOf(g) /\ SumOf(h) \in Nat /\ SumOf(g) \in Nat
  BY <1>5, SumOfSome
<1>7. many # {} /\ SumOf(g) + Own[n].listeners >= Ceiling
  BY <1>1, <1>3, <1>4, <1>6
<1> QED
  BY <1>7 DEF AliasVeto, many, g

LEMMA CollabMore ==
    ASSUME NEW n, NEW K, NEW L, K \subseteq L, CollabVeto(n, PagesOf(K))
    PROVE  CollabVeto(n, PagesOf(L))
  BY DEF CollabVeto, PagesOf

(* What is resolved is a part of what was asked for.                       *)
LEMMA HitsAreMainstream ==
    ASSUME NEW d \in Discoveries
    PROVE  FanVetoed(d) \cup SplitHits(d) \subseteq UNION {Mainstream(d, arm) : arm \in Arms}
<1>1. FanVetoed(d) \subseteq Mainstream(d, "deezer")
  BY DEF FanVetoed, Mainstream
<1>2. ASSUME NEW n \in SplitHits(d) PROVE n \in Mainstream(d, "collab") \/ n \in Mainstream(d, "alias")
  <2>1. CASE n \in CollabTargets[d] /\ CollabVeto(n, PagesOf(Resolved(d, MemberPages[n])))
    <3>1. Resolved(d, MemberPages[n]) \subseteq MemberPages[n]
      BY DEF Resolved
    <3>2. CollabVeto(n, PagesOf(MemberPages[n]))
      BY <2>1, <3>1, CollabMore
    <3> QED
      BY <2>1, <3>2 DEF Mainstream
  <2>2. CASE n \in AliasTargets[d] /\ AliasVeto(n, PagesOf(Resolved(d, AliasPages[n])))
    <3>1. Resolved(d, AliasPages[n]) \subseteq AliasPages[n]
      BY DEF Resolved
    <3>2. n \in Names
      BY <2>2, TargetsAreCandidates
    <3>3. AliasVeto(n, PagesOf(AliasPages[n]))
      BY <2>2, <3>1, <3>2, AliasPagesFinite, AliasMore
    <3> QED
      BY <2>2, <3>3 DEF Mainstream
  <2> QED
    BY <2>1, <2>2 DEF SplitHits
<1> QED
  BY <1>1, <1>2 DEF Arms

(* Whose pages all came gets the verdict of all his pages.                 *)
LEMMA AllResolved ==
    ASSUME NEW d \in Discoveries, NEW keys, \A k \in keys : memo[d][k] = "resolved"
    PROVE  Settled(d, keys) /\ Resolved(d, keys) = keys
  BY DEF Settled, Resolved

(* Whoever an arm would have dropped was dropped, or left undecided by a   *)
(* failure of his own.                                                     *)
LEMMA MainstreamIsHit ==
    ASSUME Typed, NEW d \in Discoveries, Decided(d), open[d] = {},
           NEW arm \in Arms, NEW n \in Mainstream(d, arm)
    PROVE  <<arm, n>> \in spoilt[d] \/ n \in FanVetoed(d) \cup SplitHits(d)
<1>1. CASE arm = "deezer"
  BY <1>1 DEF Decided, FansDecided, Mainstream, FanVetoed
<1>2. CASE arm = "collab"
  <2>1. n \in CollabTargets[d] /\ CollabVeto(n, PagesOf(MemberPages[n])) /\ n \in Candidates[d]
    BY <1>2, TargetsAreCandidates DEF Mainstream
  <2>2. CASE rows[d] = "unread"
    BY <1>2, <2>1, <2>2 DEF Decided, SplitDecided
  <2>3. CASE rows[d] # "unread" /\ \A k \in MemberPages[n] : memo[d][k] = "resolved"
    BY <2>1, <2>3, AllResolved DEF SplitHits
  <2>4. CASE rows[d] # "unread" /\ \E k \in MemberPages[n] : memo[d][k] # "resolved"
    <3>1. PICK k \in MemberPages[n] : memo[d][k] # "resolved"
      BY <2>4
    <3>2. k \in Wanted(d)
      BY <2>1, <2>4 DEF Wanted, AllMembers
    <3>3. Lacking(d, {k}) \subseteq spoilt[d]
      BY <2>4, <3>1, <3>2 DEF Decided, SplitDecided
    <3>4. <<"collab", n>> \in Lacking(d, {k})
      BY <2>1 DEF Lacking
    <3> QED
      BY <1>2, <3>3, <3>4
  <2> QED
    BY <2>2, <2>3, <2>4
<1>3. CASE arm = "alias"
  <2>1. n \in AliasTargets[d] /\ AliasVeto(n, PagesOf(AliasPages[n])) /\ n \in Candidates[d]
    BY <1>3, TargetsAreCandidates DEF Mainstream
  <2>2. CASE rows[d] = "unread"
    BY <1>3, <2>1, <2>2 DEF Decided, SplitDecided
  <2>3. CASE rows[d] = "unreadable"
    BY <1>3, <2>1, <2>3 DEF Decided, RowsDecided
  <2>4. CASE rows[d] = "read" /\ \A k \in AliasPages[n] : memo[d][k] = "resolved"
    BY <2>1, <2>4, AllResolved DEF SplitHits
  <2>5. CASE rows[d] = "read" /\ \E k \in AliasPages[n] : memo[d][k] # "resolved"
    <3>1. PICK k \in AliasPages[n] : memo[d][k] # "resolved"
      BY <2>5
    <3>2. k \in Wanted(d)
      <4>1. k \in AllAliases(d)
        BY <2>1, <3>1 DEF AllAliases
      <4> QED
        BY <2>5, <4>1 DEF Wanted
    <3>3. Lacking(d, {k}) \subseteq spoilt[d]
      BY <2>5, <3>1, <3>2 DEF Decided, SplitDecided
    <3>4. <<"alias", n>> \in Lacking(d, {k})
      BY <2>1 DEF Lacking
    <3> QED
      BY <1>3, <3>3, <3>4
  <2>6. rows[d] \in {"unread", "read", "unreadable"}
    BY DEF Typed, PagesTyped
  <2> QED
    BY <2>2, <2>3, <2>4, <2>5, <2>6
<1> QED
  BY <1>1, <1>2, <1>3 DEF Arms

LEMMA DecidedExact == Typed /\ AllDecided => VetoesExact
<1> SUFFICES ASSUME Typed, AllDecided, NEW d \in Discoveries, open[d] = {}
             PROVE  LET dropped == Candidates[d] \ ToSet(kept[d])
                    IN  /\ dropped \subseteq UNION {Mainstream(d, arm) : arm \in Arms}
                        /\ \A arm \in Arms : \A n \in Mainstream(d, arm) :
                              <<arm, n>> \in spoilt[d] \/ n \in dropped
  BY DEF VetoesExact
<1> DEFINE no == FanVetoed(d) \cup SplitHits(d)
           dropped == Candidates[d] \ ToSet(kept[d])
<1>1. Decided(d) /\ kept[d] = Without(Ranked[d], no)
  BY DEF AllDecided, Decided, ListDecided
<1>2. Ranked[d] \in Seq(Names)
  BY ConstantsType
<1>3. no \subseteq Candidates[d]
  BY TargetsAreCandidates DEF FanVetoed, SplitHits
<1> HIDE DEF no
<1>4. dropped = no
  <2>1. Candidates[d] = {Ranked[d][i] : i \in DOMAIN Ranked[d]}
    BY DEF Candidates, ToSet
  <2>2. ToSet(kept[d]) = {kept[d][k] : k \in DOMAIN kept[d]}
    BY DEF ToSet
  <2>3. /\ \A k \in DOMAIN kept[d] : kept[d][k] \notin no
        /\ \A i \in DOMAIN Ranked[d] : Ranked[d][i] \notin no => \E k \in DOMAIN kept[d] : kept[d][k] = Ranked[d][i]
    BY <1>1, <1>2, WithoutIsVector
  <2> QED
    BY <1>3, <2>1, <2>2, <2>3
<1>5. dropped \subseteq UNION {Mainstream(d, arm) : arm \in Arms}
  BY <1>4, HitsAreMainstream DEF no
<1>6. ASSUME NEW arm \in Arms, NEW n \in Mainstream(d, arm)
      PROVE  <<arm, n>> \in spoilt[d] \/ n \in dropped
  BY <1>1, <1>4, MainstreamIsHit DEF no
<1> QED
  BY <1>5, <1>6

-----------------------------------------------------------------------------
(* Each step keeps it so.                                                  *)

(* A discovery that a step leaves alone.                                   *)
LEMMA DecidedKept ==
    ASSUME NEW d, Decided(d), look'[d] = look[d], memo'[d] = memo[d], rows'[d] = rows[d],
           open'[d] = open[d], kept'[d] = kept[d], spoilt'[d] = spoilt[d]
    PROVE  Decided(d)'
<1>1. Wanted(d)' = Wanted(d)
  BY DEF Wanted
<1>2. FanVetoed(d)' = FanVetoed(d)
  BY DEF FanVetoed
<1>3. SplitHits(d)' = SplitHits(d)
  BY DEF SplitHits, Settled, Resolved
<1> QED
  BY <1>1, <1>2, <1>3 DEF Decided, FansDecided, PagesDecided, RowsDecided, SplitDecided, ListDecided

(* The other discoveries are left alone by what a discovery does.          *)
LEMMA OthersKept ==
    ASSUME Typed, AllDecided, NEW d \in Discoveries, Step(d), NEW c \in Discoveries, c # d
    PROVE  Decided(c)'
<1> DEFINE same(f, g) == DOMAIN f = Discoveries => f[c] = g[c]
<1>1. /\ DOMAIN look = Discoveries /\ DOMAIN memo = Discoveries /\ DOMAIN rows = Discoveries
      /\ DOMAIN open = Discoveries /\ DOMAIN kept = Discoveries /\ DOMAIN spoilt = Discoveries
  BY DEF Typed, LookTyped, PagesTyped, StageTyped, AllDecided
<1>2. /\ look'[c] = look[c] /\ memo'[c] = memo[c] /\ rows'[c] = rows[c]
      /\ open'[c] = open[c] /\ kept'[c] = kept[c] /\ spoilt'[c] = spoilt[c]
  <2>1. CASE \E n \in FanTargets[d] : FanCached(d, n) \/ Permitted(d, n) \/ take_slot(d, n) \/ FanAnswer(d, n)
                                         \/ FanFails(d, n)
    BY <1>1, <2>1 DEF FanCached, Permitted, take_slot, FanAnswer, FanFails, Move, Spoil, splitVars
  <2>2. CASE \E k \in PageKeys : page(d, k) \/ PageAnswer(d, k) \/ PageFails(d, k)
    BY <1>1, <2>2 DEF page, PageAnswer, PageFails, Remember, deezerVars
  <2>3. CASE read_stored(d)
    BY <1>1, <2>3 DEF read_stored, Spoil, deezerVars
  <2>4. CASE DeezerEnds(d) \/ DeezerBudget(d) \/ SplitEnds(d) \/ SplitBudget(d) \/ apply_vetoes(d)
    BY <1>1, <2>4 DEF DeezerEnds, DeezerBudget, SplitEnds, SplitBudget, apply_vetoes, Close, Spoil,
       deezerVars, splitVars
  <2> QED
    BY <2>1, <2>2, <2>3, <2>4 DEF Step
<1> QED
  BY <1>2, DecidedKept DEF AllDecided

(* A lookup at Deezer that ends without an answer leaves its candidate     *)
(* undecided.                                                              *)
LEMMA LookDecided ==
    ASSUME Typed, AllDecided, NEW d \in Discoveries, NEW n \in FanTargets[d],
           FanCached(d, n) \/ Permitted(d, n) \/ take_slot(d, n) \/ FanAnswer(d, n) \/ FanFails(d, n)
    PROVE  Decided(d)'
<1>1. /\ DOMAIN look = Discoveries /\ DOMAIN look[d] = FanTargets[d] /\ DOMAIN spoilt = Discoveries
      /\ "deezer" \in open[d] /\ Decided(d)
  BY DEF Typed, LookTyped, StageTyped, AllDecided, FanCached, Permitted, take_slot, FanAnswer, FanFails,
     Running
<1>2. UNCHANGED <<memo, rows, open, kept>>
  BY DEF FanCached, Permitted, take_slot, FanAnswer, FanFails, splitVars
<1>3. /\ spoilt[d] \subseteq spoilt'[d]
      /\ \A m \in FanTargets[d] : look'[d][m] = look[d][m] \/ look'[d][m] # "unknown" \/ <<"deezer", m>> \in spoilt'[d]
  BY <1>1 DEF FanCached, Permitted, take_slot, FanAnswer, FanFails, Move, Spoil
<1>4. Wanted(d)' = Wanted(d)
  BY <1>2 DEF Wanted
<1>5. FansDecided(d)'
  BY <1>1, <1>2, <1>3 DEF Decided, FansDecided
<1>6. PagesDecided(d)' /\ RowsDecided(d)'
  BY <1>1, <1>2, <1>3 DEF Decided, PagesDecided, RowsDecided
<1>7. SplitDecided(d)'
  BY <1>1, <1>2, <1>3, <1>4 DEF Decided, SplitDecided
<1>8. ListDecided(d)'
  BY <1>1, <1>2 DEF Decided, ListDecided
<1> QED
  BY <1>5, <1>6, <1>7, <1>8 DEF Decided

(* A page that does not come leaves those undecided who asked for it.      *)
LEMMA PageDecided ==
    ASSUME Typed, AllDecided, NEW d \in Discoveries,
           read_stored(d) \/ \E k \in PageKeys : page(d, k) \/ PageAnswer(d, k) \/ PageFails(d, k)
    PROVE  Decided(d)'
<1>1. /\ DOMAIN memo = Discoveries /\ DOMAIN memo[d] = PageKeys /\ DOMAIN rows = Discoveries
      /\ DOMAIN spoilt = Discoveries /\ "split" \in open[d] /\ Decided(d)
  BY DEF Typed, PagesTyped, StageTyped, AllDecided, read_stored, page, PageAnswer, PageFails, Running
<1>2. UNCHANGED <<look, open, kept>>
  BY DEF read_stored, page, PageAnswer, PageFails, deezerVars
<1>3. /\ spoilt[d] \subseteq spoilt'[d]
      /\ \A k \in PageKeys : memo'[d][k] = memo[d][k] \/ memo'[d][k] # "failed" \/ Lacking(d, {k}) \subseteq spoilt'[d]
      /\ rows'[d] = rows[d] \/ rows'[d] # "unreadable" \/ {"alias"} \X AliasTargets[d] \subseteq spoilt'[d]
  <2>1. CASE read_stored(d)
    BY <1>1, <2>1 DEF read_stored, Spoil
  <2>2. CASE \E k \in PageKeys : page(d, k) \/ PageAnswer(d, k)
    BY <1>1, <2>2 DEF page, PageAnswer, Remember
  <2>3. ASSUME NEW k \in PageKeys, PageFails(d, k)
        PROVE  /\ spoilt[d] \subseteq spoilt'[d] /\ rows'[d] = rows[d]
               /\ \A l \in PageKeys : memo'[d][l] = memo[d][l] \/ Lacking(d, {l}) \subseteq spoilt'[d]
    BY <1>1, <2>3 DEF PageFails, Remember
  <2> QED
    BY <2>1, <2>2, <2>3
<1>4. FansDecided(d)'
  BY <1>1, <1>2, <1>3 DEF Decided, FansDecided
<1>5. PagesDecided(d)' /\ RowsDecided(d)'
  BY <1>1, <1>3 DEF Decided, PagesDecided, RowsDecided
<1>6. SplitDecided(d)' /\ ListDecided(d)'
  BY <1>1, <1>2 DEF Decided, SplitDecided, ListDecided
<1> QED
  BY <1>4, <1>5, <1>6 DEF Decided

(* An arm that ends has decided, or leaves undecided what it waited for;   *)
(* the stage drops what the two arms vetoed.                               *)
LEMMA EndDecided ==
    ASSUME Typed, AllDecided, NEW d \in Discoveries,
           DeezerEnds(d) \/ DeezerBudget(d) \/ SplitEnds(d) \/ SplitBudget(d) \/ apply_vetoes(d)
    PROVE  Decided(d)'
<1>1. /\ open \in [Discoveries -> SUBSET {"deezer", "split", "stage"}]
      /\ DOMAIN spoilt = Discoveries /\ DOMAIN kept = Discoveries /\ Decided(d)
      /\ memo[d] \in [PageKeys -> {"absent", "loading", "resolved", "failed"}]
  BY DEF Typed, StageTyped, PagesTyped, AllDecided
<1>2. UNCHANGED <<look, memo, rows>>
  BY DEF DeezerEnds, DeezerBudget, SplitEnds, SplitBudget, apply_vetoes, deezerVars, splitVars
<1>3. spoilt[d] \subseteq spoilt'[d] /\ open'[d] \subseteq open[d]
  <2>1. \E arm : open' = [open EXCEPT ![d] = @ \ {arm}]
    BY DEF DeezerEnds, DeezerBudget, SplitEnds, SplitBudget, apply_vetoes, Close
  <2>2. spoilt' = spoilt \/ \E more : spoilt' = [spoilt EXCEPT ![d] = @ \cup more]
    BY DEF DeezerEnds, DeezerBudget, SplitEnds, SplitBudget, apply_vetoes, Spoil
  <2> QED
    BY <1>1, <2>1, <2>2
<1>4. Wanted(d)' = Wanted(d) /\ FanVetoed(d)' = FanVetoed(d) /\ SplitHits(d)' = SplitHits(d)
  BY <1>2 DEF Wanted, FanVetoed, SplitHits, Settled, Resolved
<1>5. PagesDecided(d)' /\ RowsDecided(d)'
  BY <1>1, <1>2, <1>3 DEF Decided, PagesDecided, RowsDecided
<1>6. CASE DeezerEnds(d) \/ DeezerBudget(d)
  <2>1. open'[d] = open[d] \ {"deezer"} /\ UNCHANGED kept /\ "deezer" \in open[d]
    BY <1>1, <1>6 DEF DeezerEnds, DeezerBudget, Close, Running
  <2>2. \A n \in FanTargets[d] : look[d][n] \in {"known", "unknown"} \/ <<"deezer", n>> \in spoilt'[d]
    BY <1>1, <1>6 DEF DeezerEnds, DeezerBudget, Undecided, Spoil
  <2>3. FansDecided(d)'
    BY <1>1, <1>2, <1>3, <2>2 DEF Decided, FansDecided
  <2>4. SplitDecided(d)'
    BY <1>1, <1>2, <1>3, <1>4, <2>1 DEF Decided, SplitDecided
  <2>5. ListDecided(d)'
    BY <1>1, <2>1 DEF Decided, ListDecided
  <2> QED
    BY <1>5, <2>3, <2>4, <2>5 DEF Decided
<1>7. CASE SplitEnds(d) \/ SplitBudget(d)
  <2>1. open'[d] = open[d] \ {"split"} /\ UNCHANGED kept /\ "split" \in open[d]
    BY <1>1, <1>7 DEF SplitEnds, SplitBudget, Close, Running
  <2>2. FansDecided(d)'
    BY <1>1, <1>2, <1>3, <2>1 DEF Decided, FansDecided
  <2>3. Wanted(d) \subseteq PageKeys
    <3>1. \A n \in Candidates[d] : MemberPages[n] \subseteq PageKeys /\ AliasPages[n] \subseteq PageKeys
      BY TargetsAreCandidates, AliasPagesFinite
    <3>2. \A k \in Wanted(d) : \E n \in Candidates[d] : k \in MemberPages[n] \/ k \in AliasPages[n]
      <4>1. Wanted(d) \subseteq AllMembers(d) \cup AllAliases(d)
        BY DEF Wanted
      <4>2. ASSUME NEW k \in AllMembers(d) PROVE \E n \in Candidates[d] : k \in MemberPages[n]
        BY TargetsAreCandidates DEF AllMembers
      <4>3. ASSUME NEW k \in AllAliases(d) PROVE \E n \in Candidates[d] : k \in AliasPages[n]
        BY TargetsAreCandidates DEF AllAliases
      <4> QED
        BY <4>1, <4>2, <4>3
    <3> QED
      BY <3>1, <3>2
  <2>4. SplitDecided(d)'
    <3>1. CASE SplitEnds(d)
      BY <1>1, <1>2, <1>3, <1>4, <2>3, <3>1 DEF SplitEnds, Settled, Decided, PagesDecided, SplitDecided
    <3>2. CASE SplitBudget(d) /\ rows[d] = "unread"
      BY <1>1, <1>2, <3>2 DEF SplitBudget, SplitDecided
    <3>3. CASE SplitBudget(d) /\ rows[d] # "unread"
      <4>1. ASSUME NEW k \in Wanted(d), memo[d][k] # "resolved" PROVE Lacking(d, {k}) \subseteq spoilt'[d]
        <5>1. CASE memo[d][k] = "failed"
          BY <1>1, <1>3, <2>3, <5>1 DEF Decided, PagesDecided
        <5>2. CASE memo[d][k] # "failed"
          <6> DEFINE keys == {l \in Wanted(d) : ~Settled(d, {l})}
          <6>1. k \in keys
            BY <4>1, <5>2 DEF Settled
          <6>2. Lacking(d, keys) \subseteq spoilt'[d]
            BY <1>1, <3>3 DEF SplitBudget
          <6> HIDE DEF keys
          <6>3. Lacking(d, {k}) \subseteq Lacking(d, keys)
            BY <6>1 DEF Lacking
          <6> QED
            BY <6>2, <6>3
        <5> QED
          BY <5>1, <5>2
      <4> QED
        BY <1>2, <1>4, <3>3, <4>1 DEF SplitDecided
    <3> QED
      BY <1>7, <3>1, <3>2, <3>3
  <2>5. ListDecided(d)'
    BY <1>1, <2>1 DEF Decided, ListDecided
  <2> QED
    BY <1>5, <2>2, <2>4, <2>5 DEF Decided
<1>8. CASE apply_vetoes(d)
  <2>1. /\ open[d] = {"stage"} /\ open'[d] = {} /\ spoilt' = spoilt
        /\ kept'[d] = Without(Ranked[d], FanVetoed(d) \cup SplitHits(d))
    BY <1>1, <1>8 DEF apply_vetoes, Close
  <2>2. FansDecided(d)' /\ SplitDecided(d)'
    BY <1>1, <1>2, <1>4, <2>1 DEF Decided, FansDecided, SplitDecided
  <2>3. ListDecided(d)'
    BY <1>4, <2>1 DEF ListDecided
  <2> QED
    BY <1>5, <2>2, <2>3 DEF Decided
<1> QED
  BY <1>6, <1>7, <1>8

LEMMA DecidedStep == Typed /\ AllDecided /\ [Next]_vars => AllDecided'
<1> SUFFICES ASSUME Typed, AllDecided, [Next]_vars PROVE AllDecided'
  OBVIOUS
<1>1. ASSUME UNCHANGED <<look, memo, rows, open, kept, spoilt>> PROVE AllDecided'
  BY <1>1, DecidedKept DEF AllDecided
<1>2. ASSUME NEW d \in Discoveries, Step(d) PROVE AllDecided'
  <2>1. Decided(d)'
    BY <1>2, LookDecided, PageDecided, EndDecided DEF Step
  <2>2. DOMAIN kept' = Discoveries
    <3>1. kept' = kept \/ \E list : kept' = [kept EXCEPT ![d] = list]
      BY <1>2 DEF Step, FanCached, Permitted, take_slot, FanAnswer, FanFails, page, PageAnswer, PageFails,
         read_stored, DeezerEnds, DeezerBudget, SplitEnds, SplitBudget, apply_vetoes
    <3> QED
      BY <3>1 DEF AllDecided
  <2> QED
    BY <1>2, <2>1, <2>2, OthersKept DEF AllDecided
<1>3. CASE Tick
  BY <1>1, <1>3 DEF Tick, deezerVars, splitVars
<1>4. CASE UNCHANGED vars
  BY <1>1, <1>4 DEF vars, deezerVars, splitVars
<1> QED
  BY <1>2, <1>3, <1>4 DEF Next

(* Failing open is exact, for any number of discoveries, candidates and    *)
(* pages and any order of answers, failures and deadlines: whoever is      *)
(* dropped would be dropped by complete answers, and whoever escapes an    *)
(* arm does so by a failure of his own lookups.                            *)
THEOREM FailingOpenIsExact == Spec => []VetoesExact
<1>1. Init => AllDecided
  <2> SUFFICES ASSUME Init, NEW d \in Discoveries PROVE Decided(d)
    BY DEF Init, AllDecided
  <2>1. /\ \A n \in FanTargets[d] : look[d][n] = "start"
        /\ \A k \in PageKeys : memo[d][k] = "absent"
        /\ rows[d] = "unread" /\ open[d] = {"deezer", "split", "stage"}
    BY DEF Init
  <2> QED
    BY <2>1 DEF Decided, FansDecided, PagesDecided, RowsDecided, SplitDecided, ListDecided
<1> QED
  BY <1>1, AlwaysTyped, DecidedStep, DecidedExact, PTL DEF Spec
=============================================================================
