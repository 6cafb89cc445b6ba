-------------------------- MODULE DiscoveryProofs --------------------------
(***************************************************************************)
(* What a run of the artist pipeline leaves behind, for all answers,       *)
(* whoever refuses or fails, in whatever order they come and wherever the  *)
(* budget ends: the pool of the two arms, the types, what the reply offers *)
(* and wastes, and that the order of the answers does not matter to it.    *)
(***************************************************************************)
EXTENDS Discovery, RankingProofs

Before == {"charts", "user_info", "seed_info", "tag_top"}
After == {"profile", "pages", "vetoes", "done"}

(* The inductive form of PoolExact: nothing is pushed before the arms      *)
(* start, and while they run the pool is exact for the seeds that have     *)
(* answered.                                                               *)
Pool ==
    /\ stage \in Before => lf = {} /\ lb = {} /\ lbGot = {} /\ lbPending = {}
    /\ stage = "similar" => /\ source = "listenbrainz" => pending = {}
                            /\ pending \subseteq DOMAIN weights
                            /\ lf = RefLf(DOMAIN weights \ pending)
                            /\ lb = RefLb
    /\ PoolExact

LEMMA PoolInit == Init => Pool
  BY DEF Init, Pool, Before, PoolExact

(* Steps that leave the arms alone, before they start and after they end.  *)
LEMMA PoolBefore ==
    ASSUME Pool, stage \in Before, UNCHANGED <<armVars, setting>>, stage' \in Before \cup {"failed"}
    PROVE  Pool'
  BY DEF Pool, PoolExact, Before, armVars

LEMMA PoolAfter ==
    ASSUME Pool, stage \in After, UNCHANGED <<armVars, setting, weights>>,
           stage' \in After \cup {"failed"}
    PROVE  Pool'
<1>1. lf = RefLf(DOMAIN weights) /\ lb = RefLb
  BY DEF Pool, PoolExact, After
<1>2. lf' = RefLf(DOMAIN weights)' /\ lb' = RefLb'
  BY <1>1 DEF RefLf, RefLb, armVars, setting
<1> QED
  BY <1>2 DEF Pool, PoolExact, Before, After

LEMMA PoolFails == ASSUME stage' = "failed" PROVE Pool'
  BY DEF Pool, PoolExact, Before

(* The arms start with nothing pushed and every seed asked.                *)
LEMMA PoolStarts == ASSUME Pool, StartArms PROVE Pool'
<1>1. lf = {} /\ lb = {} /\ lbGot = {}
  BY DEF Pool, StartArms, Before
<1>2. /\ stage' = "similar" /\ UNCHANGED <<source, weights, lf, lb, lbGot>>
      /\ pending' = IF source = "listenbrainz" THEN {} ELSE DOMAIN weights
  BY DEF StartArms, Send, setting, seedVars
<1>3. RefLf(DOMAIN weights \ pending)' = {} /\ RefLb' = {}
  BY <1>1, <1>2 DEF RefLf, RefLb
<1> QED
  BY <1>1, <1>2, <1>3 DEF Pool, PoolExact, Before

(* An answer of Last.fm moves its seed from the pending to the pool.       *)
LEMMA PoolSimilar == ASSUME Pool, NEW s \in Names, SimilarAnswer(s) PROVE Pool'
<1>1. /\ stage = "similar" /\ s \in pending /\ s \in DOMAIN weights /\ source # "listenbrainz"
      /\ pending \subseteq DOMAIN weights
      /\ lf = RefLf(DOMAIN weights \ pending) /\ lb = RefLb
  BY DEF Pool, SimilarAnswer
<1>2. /\ stage' = "similar" /\ pending' = pending \ {s}
      /\ UNCHANGED <<source, weights, lb, lbGot>>
  BY <1>1 DEF SimilarAnswer, Send, setting, seedVars
<1>3. lf' = IF <<"similar", s>> \in Refused THEN lf ELSE lf \cup Pushes(s, Similar[s])
  BY <1>1 DEF SimilarAnswer
<1> DEFINE asked(P) == {t \in DOMAIN weights \ P : <<"similar", t>> \notin Refused}
<1>4. asked(pending \ {s}) =
          IF <<"similar", s>> \in Refused THEN asked(pending) ELSE asked(pending) \cup {s}
  BY <1>1
<1>5. /\ RefLf(DOMAIN weights \ pending) = UNION {Pushes(t, Similar[t]) : t \in asked(pending)}
      /\ RefLf(DOMAIN weights \ pending)' = UNION {Pushes(t, Similar[t]) : t \in asked(pending \ {s})}
  BY <1>1, <1>2 DEF RefLf
<1> HIDE DEF asked
<1>6. lf' = RefLf(DOMAIN weights \ pending)'
  BY <1>1, <1>3, <1>4, <1>5
<1>7. lb' = RefLb'
  BY <1>1, <1>2 DEF RefLb
<1> QED
  BY <1>1, <1>2, <1>6, <1>7 DEF Pool, PoolExact, Before

(* An answer of ListenBrainz, or its end, leaves the other arm alone.      *)
LEMMA PoolListenBrainz ==
    ASSUME Pool, stage = "similar", UNCHANGED <<setting, stage, pending, weights, lf>>,
           lb' = RefLb'
    PROVE  Pool'
<1>1. lf = RefLf(DOMAIN weights \ pending)
  BY DEF Pool
<1>2. lf' = RefLf(DOMAIN weights \ pending)'
  BY <1>1 DEF RefLf, setting
<1> QED
  BY <1>2 DEF Pool, PoolExact, Before, setting

LEMMA PoolLb == ASSUME Pool, NEW s \in Names, LbAnswer(s) PROVE Pool'
<1>1. stage = "similar" /\ lb = RefLb /\ UNCHANGED <<setting, stage, pending, weights, lf>>
  BY DEF Pool, LbAnswer, seedVars
<1>2. \/ lb' = lb \cup Pushes(s, LbSimilar[s]) /\ lbGot' = lbGot \cup {s}
      \/ UNCHANGED <<lb, lbGot>>
  BY DEF LbAnswer
<1>3. lb' = RefLb'
  BY <1>1, <1>2 DEF RefLb
<1> QED
  BY <1>1, <1>3, PoolListenBrainz

LEMMA PoolBudget == ASSUME Pool, LbBudgetEnds PROVE Pool'
<1>1. /\ stage = "similar" /\ lb = RefLb /\ UNCHANGED <<setting, stage, pending, weights, lf>>
      /\ UNCHANGED <<lb, lbGot>>
  BY DEF Pool, LbBudgetEnds, seedVars
<1>2. lb' = RefLb'
  BY <1>1 DEF RefLb
<1> QED
  BY <1>1, <1>2, PoolListenBrainz

(* When both arms are done, every seed has answered or was refused.        *)
LEMMA PoolDone == ASSUME Pool, ArmsDone PROVE Pool'
<1>1. /\ stage' = "profile" /\ lf = RefLf(DOMAIN weights) /\ lb = RefLb
      /\ UNCHANGED <<source, weights, lf, lb, lbGot>>
  BY DEF Pool, ArmsDone, Send, setting, seedVars, armVars
<1>2. lf' = RefLf(DOMAIN weights)' /\ lb' = RefLb'
  BY <1>1 DEF RefLf, RefLb
<1> QED
  BY <1>1, <1>2 DEF Pool, PoolExact, Before

LEMMA PoolStep == ASSUME Pool, [Next]_vars PROVE Pool'
<1>1. CASE UNCHANGED vars
  BY <1>1 DEF vars, Pool, PoolExact, RefLf, RefLb, setting, seedVars, armVars
<1>2. CASE SeedStep
  <2>1. stage \in Before /\ UNCHANGED <<armVars, setting>> /\ stage' \in Before \cup {"failed"}
    BY <1>2, Zenon DEF SeedStep, ChartAnswer, SeedsChosen, UserAnswer, Send, Before
  <2> QED
    BY <2>1, PoolBefore
<1>3. CASE TagStep
  <2>1. stage \in Before /\ UNCHANGED <<armVars, setting>> /\ stage' \in Before \cup {"failed"}
    BY <1>3, Zenon DEF TagStep, SeedInfo, derive_genre_tags, fetch_tag_artists, Send, Before
  <2> QED
    BY <2>1, PoolBefore
<1>4. CASE ArmStep
  BY <1>4, PoolStarts, PoolSimilar, PoolBudget, PoolDone DEF ArmStep
<1>5. CASE ScoreStep
  <2>1. /\ stage \in After /\ UNCHANGED <<armVars, setting, weights>>
        /\ stage' \in After \cup {"failed"}
    BY <1>5, Zenon DEF ScoreStep, ProfileAnswer, FetchPages, PageAnswer, Score, score_and_rank,
                Send, After, seedVars
  <2> QED
    BY <2>1, PoolAfter
<1>6. CASE \E c \in pending : CallFails(c)
  BY <1>6, PoolFails DEF CallFails, Send
<1>7. CASE \E s \in Names : LbAnswer(s)
  BY <1>7, PoolLb
<1> QED
  BY <1>1, <1>2, <1>3, <1>4, <1>5, <1>6, <1>7 DEF Next, Progress

(* Whatever arm is first and wherever the budget ends: the pool that is    *)
(* merged and scored holds what Last.fm says of every seed that is not     *)
(* refused, and of ListenBrainz exactly the seeds that came in before the  *)
(* budget ended (candidates.rs: race_arms, merge_prov).                    *)
THEOREM PoolIsExact == Spec => []PoolExact
<1>1. Pool => PoolExact
  BY DEF Pool
<1> QED
  BY <1>1, PoolInit, PoolStep, PTL DEF Spec

-----------------------------------------------------------------------------
(* Types.                                                                  *)

LEMMA SeedGainCounts ==
    ASSUME NEW list \in Seq([name : Names, weight : Nat, plays : Nat])
    PROVE  CountsOf(SeedGain(list), Names)
<1> DEFINE top == {i \in DOMAIN list : i <= MaxSeeds}
           of(n) == {j \in top : Clean[list[j].name] = n}
           g(n) == [i \in of(n) |-> list[i].weight]
<1>1. \A i \in DOMAIN list : list[i].name \in Names /\ list[i].weight \in Nat
  <2>1. \A i \in DOMAIN list : list[i] \in [name : Names, weight : Nat, plays : Nat]
    BY ElementType
  <2> QED
    BY <2>1
<1>2. {Clean[list[i].name] : i \in top} \subseteq Names
  BY <1>1, DiscoveryAssumption
<1>3. ASSUME NEW n PROVE SumOf(g(n)) \in Nat
  <2>1. of(n) \subseteq DOMAIN list
    OBVIOUS
  <2>2. IsFiniteSet(of(n))
    BY <2>1, VectorFinite
  <2>3. Counts(g(n))
    BY <1>1, <2>1, <2>2 DEF Counts
  <2> HIDE DEF g
  <2> QED
    BY <2>3, SumIsNat
<1>4. SeedGain(list) = [n \in {Clean[list[i].name] : i \in top} |-> SumOf(g(n))]
  BY DEF SeedGain
<1> HIDE DEF g, top
<1> QED
  BY <1>2, <1>3, <1>4 DEF CountsOf

(* The first spelling stays, and there is one for everybody on the list:   *)
(* one of that key.                                                        *)
SpelledOK(names, list, new) ==
    /\ new \in [Keys -> Names \cup {NoName}]
    /\ \A k \in Keys : new[k] = names[k] \/ Norm[new[k]] = k
    /\ \A k \in Keys : names[k] # NoName => new[k] # NoName
    /\ \A i \in DOMAIN list : new[Norm[list[i]]] # NoName

LEMMA SpelledNames ==
    ASSUME NEW names \in [Keys -> Names \cup {NoName}], NEW list \in Seq(Names)
    PROVE  SpelledOK(names, list, Spelled(names, list))
<1> DEFINE first(k, i) == i \in DOMAIN list /\ Norm[list[i]] = k /\ \A j \in 1..(i - 1) : Norm[list[j]] # k
           new == Spelled(names, list)
<1>1. Len(list) \in Nat /\ DOMAIN list = 1..Len(list) /\ \A i \in DOMAIN list : list[i] \in Names
  OBVIOUS
<1>2. ASSUME NEW k \in Keys, NEW j \in DOMAIN list, Norm[list[j]] = k
      PROVE  \E i : first(k, i)
  <2> DEFINE S == {i \in DOMAIN list : Norm[list[i]] = k}
  <2>1. S \subseteq Nat /\ S # {}
    BY <1>1, <1>2
  <2>2. PICK i \in S : \A m \in S : i <= m
    <3> HIDE DEF S
    <3> QED
      BY <2>1, LeastNumber
  <2>3. ASSUME NEW m \in 1..(i - 1) PROVE Norm[list[m]] # k
    <3>1. m \in DOMAIN list /\ ~(i <= m)
      BY <1>1, <2>2
    <3> QED
      BY <2>2, <3>1
  <2> QED
    BY <2>2, <2>3
<1>3. ASSUME NEW k \in Keys
      PROVE  /\ new[k] \in Names \cup {NoName}
             /\ new[k] = names[k] \/ Norm[new[k]] = k
             /\ names[k] # NoName => new[k] # NoName
             /\ \A j \in DOMAIN list : Norm[list[j]] = k => new[k] # NoName
  <2>1. CASE names[k] # NoName \/ \A i \in DOMAIN list : Norm[list[i]] # k
    BY <2>1 DEF Spelled
  <2>2. CASE ~(names[k] # NoName \/ \A i \in DOMAIN list : Norm[list[i]] # k)
    <3>1. PICK i : first(k, i)
      BY <1>2, <2>2
    <3> DEFINE c == CHOOSE n \in DOMAIN list : Norm[list[n]] = k /\ \A j \in 1..(n - 1) : Norm[list[j]] # k
    <3>2. c \in DOMAIN list /\ Norm[list[c]] = k
      BY <3>1
    <3>3. new[k] = list[c]
      BY <2>2 DEF Spelled
    <3> HIDE DEF c
    <3> QED
      BY <1>1, <2>2, <3>2, <3>3, DiscoveryAssumption
  <2> QED
    BY <2>1, <2>2
<1>4. new = [k \in Keys |-> new[k]]
  BY DEF Spelled
<1> HIDE DEF new
<1>5. new \in [Keys -> Names \cup {NoName}]
  BY <1>3, <1>4
<1>6. \A i \in DOMAIN list : new[Norm[list[i]]] # NoName
  BY <1>1, <1>3, DiscoveryAssumption
<1> QED
  BY <1>3, <1>5, <1>6 DEF SpelledOK, new

(* The inductive form of TypeOK: everybody who was pushed has a spelling,  *)
(* and the calls of the last stages are about seeds and candidates.        *)
Named == /\ \A p \in lf : lfName[p[1]] # NoName
         /\ \A p \in lb : lbName[p[1]] # NoName
AsksKnown == /\ stage = "profile" => pending \subseteq DOMAIN weights
             /\ stage = "pages" => pending \subseteq Candidates
Typed == TypeOK /\ Named /\ AsksKnown

LEMMA TypedInit == Init => Typed
<1> SUFFICES ASSUME Init PROVE Typed
  OBVIOUS
<1>1. raw \in Seq([page : Names, seeds : SUBSET Names])
  BY DEF Init, None
<1>2. Empty \in [DOMAIN Empty -> Nat] /\ DOMAIN Empty = {}
  BY DEF Empty
<1> QED
  BY <1>1, <1>2 DEF Init, Typed, TypeOK, Named, AsksKnown, Candidates, FailsClosed

(* What the pushes of a seed are.                                          *)
LEMMA PushesTypes ==
    ASSUME NEW s, NEW list \in Seq(Names)
    PROVE  Pushes(s, list) \subseteq Keys \X {s} \X Names
           /\ \A p \in Pushes(s, list) : \E i \in DOMAIN list : p[1] = Norm[list[i]]
<1>1. \A i \in DOMAIN list : list[i] \in Names /\ Norm[list[i]] \in Keys
  BY DiscoveryAssumption
<1> QED
  BY <1>1 DEF Pushes

(* A stage that leaves the arms and the pages alone.                       *)
LEMMA TypedBefore ==
    ASSUME Typed, Pool, stage \in Before, UNCHANGED <<setting, armVars, scoreVars>>,
           stage' \in Before \cup {"failed"},
           CountsOf(weights, Names)', CountsOf(freq, Tags)', tagPool' \subseteq Keys
    PROVE  Typed'
<1>1. lf = {} /\ lb = {} /\ lbGot = {} /\ lbPending = {}
  BY DEF Pool
<1>2. Periods' = Periods
  BY DEF Periods
<1> QED
  BY <1>1, <1>2 DEF Typed, TypeOK, Named, AsksKnown, CountsOf, Before, FailsClosed, setting, armVars, scoreVars

LEMMA TypedSeeds ==
    ASSUME Typed, Pool, SeedStep
    PROVE  Typed'
<1>1. /\ stage \in Before /\ UNCHANGED <<setting, armVars, scoreVars, freq, tagPool>>
      /\ stage' \in Before \cup {"failed"}
  BY Zenon DEF SeedStep, ChartAnswer, SeedsChosen, UserAnswer, Send, Before, tagVars
<1>2. CountsOf(weights, Names) /\ CountsOf(freq, Tags)' /\ tagPool' \subseteq Keys
  BY <1>1 DEF Typed, TypeOK, CountsOf
<1>3. CountsOf(weights, Names)'
  <2>1. ASSUME NEW w \in Windows \cup {Year}, ChartAnswer(w) PROVE CountsOf(weights, Names)'
    <3>1. CASE <<"charts", w>> \in Refused
      BY <1>2, <2>1, <3>1 DEF ChartAnswer, seedVars, CountsOf
    <3>2. CASE <<"charts", w>> \notin Refused
      <4> DEFINE list == Chart[w].entries
      <4>1. list \in Seq([name : Names, weight : Nat, plays : Nat])
        BY <3>2, DiscoveryAssumption
      <4>2. CountsOf(SeedGain(list), Names)
        <5> HIDE DEF list
        <5> QED
          BY <4>1, SeedGainCounts
      <4>3. weights' = Gained(weights, SeedGain(list))
        BY <2>1, <3>2 DEF ChartAnswer, accumulate_seed
      <4> HIDE DEF list
      <4>4. CountsOf(Gained(weights, SeedGain(list)), Names)
        BY <1>2, <4>2, GainedCounts
      <4> QED
        BY <4>3, <4>4 DEF CountsOf
    <3> QED
      BY <3>1, <3>2
  <2>2. ASSUME SeedsChosen PROVE CountsOf(weights, Names)'
    <3>1. \/ UNCHANGED weights
          \/ \E top \in SeedCuts(weights, MaxSeeds) : weights' = [s \in top |-> weights[s]]
      BY <2>2 DEF SeedsChosen
    <3>2. \A top \in SeedCuts(weights, MaxSeeds) : top \subseteq DOMAIN weights
      BY DEF SeedCuts, Cuts, kSubset
    <3> QED
      BY <1>2, <3>1, <3>2 DEF CountsOf
  <2>3. ASSUME NEW ok \in BOOLEAN, UserAnswer(ok) PROVE CountsOf(weights, Names)'
    BY <1>2, <2>3 DEF UserAnswer, seedVars, CountsOf
  <2> QED
    BY <2>1, <2>2, <2>3 DEF SeedStep
<1> QED
  BY <1>1, <1>2, <1>3, TypedBefore

LEMMA TypedTags ==
    ASSUME Typed, Pool, TagStep
    PROVE  Typed'
<1>1. /\ stage \in Before /\ UNCHANGED <<setting, armVars, scoreVars, weights>>
      /\ stage' \in Before \cup {"failed"}
  BY Zenon DEF TagStep, SeedInfo, derive_genre_tags, fetch_tag_artists, Send, Before, seedVars
<1>2. CountsOf(weights, Names)' /\ CountsOf(freq, Tags) /\ tagPool \subseteq Keys
  BY <1>1 DEF Typed, TypeOK, CountsOf
<1>3. CountsOf(freq, Tags)' /\ tagPool' \subseteq Keys
  <2>1. ASSUME NEW s \in Names, SeedInfo(s) PROVE CountsOf(freq, Tags)' /\ tagPool' \subseteq Keys
    <3>1. Page[s] \in Names /\ Info[Page[s]].tags \in Seq(Tags)
      BY DiscoveryAssumption
    <3> DEFINE tags == GenreTags(Page[s])
    <3>2. tags \in Seq(Tags)
      BY <3>1 DEF GenreTags, Take
    <3> HIDE DEF tags
    <3>3. CountsOf(TagGain(tags, 1), Tags)
      BY <3>2, TagGainCounts
    <3>4. CountsOf(Gained(freq, TagGain(tags, 1)), Tags)
      BY <1>2, <3>3, GainedCounts
    <3>5. freq' = freq \/ freq' = Gained(freq, TagGain(tags, 1))
      BY <2>1 DEF SeedInfo, tags
    <3>6. tagPool' = tagPool
      BY <2>1 DEF SeedInfo
    <3> QED
      BY <1>2, <3>4, <3>5, <3>6 DEF CountsOf
  <2>2. ASSUME derive_genre_tags PROVE CountsOf(freq, Tags)' /\ tagPool' \subseteq Keys
    BY <1>2, <2>2, Zenon DEF derive_genre_tags, tagVars, CountsOf
  <2>3. ASSUME NEW t \in Tags, fetch_tag_artists(t) PROVE CountsOf(freq, Tags)' /\ tagPool' \subseteq Keys
    <3>1. freq' = freq /\ (tagPool' = tagPool \/ tagPool' = tagPool \cup {Norm[a] : a \in TagTop[t]})
      BY <2>3 DEF fetch_tag_artists
    <3>2. {Norm[a] : a \in TagTop[t]} \subseteq Keys
      BY DiscoveryAssumption
    <3> QED
      BY <1>2, <3>1, <3>2 DEF CountsOf
  <2> QED
    BY <2>1, <2>2, <2>3 DEF TagStep
<1> QED
  BY <1>1, <1>2, <1>3, TypedBefore

(* A step of the arms.                                                     *)
ArmsOK ==
    /\ lbPending \subseteq DOMAIN weights /\ lbGot \subseteq DOMAIN weights \ lbPending
    /\ lf \subseteq Keys \X (DOMAIN weights) \X Names /\ lb \subseteq Keys \X (DOMAIN weights) \X Names
    /\ lfName \in [Keys -> Names \cup {NoName}] /\ lbName \in [Keys -> Names \cup {NoName}]
    /\ Named

LEMMA TypedArmStep ==
    ASSUME Typed, UNCHANGED <<setting, weights, tagVars, scoreVars>>, ArmsOK',
           stage' \in {"similar", "profile"}, stage' = "profile" => pending' \subseteq DOMAIN weights'
    PROVE  Typed'
<1>1. Periods' = Periods
  BY DEF Periods
<1> QED
  BY <1>1 DEF Typed, TypeOK, AsksKnown, ArmsOK, FailsClosed, setting, tagVars, scoreVars

(* More pushes of a seed, and the spellings that come with them.           *)
PushedOK(old, names, s, list, new, newNames) ==
    /\ new = old \cup Pushes(s, list)
    /\ SpelledOK(names, list, newNames)

LEMMA PushedTypes ==
    ASSUME NEW W, NEW s \in W, NEW list \in Seq(Names), NEW old, NEW names, NEW new, NEW newNames,
           old \subseteq Keys \X W \X Names, \A p \in old : names[p[1]] # NoName,
           PushedOK(old, names, s, list, new, newNames)
    PROVE  /\ new \subseteq Keys \X W \X Names /\ newNames \in [Keys -> Names \cup {NoName}]
           /\ \A p \in new : newNames[p[1]] # NoName
<1>1. /\ Pushes(s, list) \subseteq Keys \X {s} \X Names
      /\ \A p \in Pushes(s, list) : \E i \in DOMAIN list : p[1] = Norm[list[i]]
  BY PushesTypes
<1>2. \A p \in old : p[1] \in Keys
  OBVIOUS
<1> QED
  BY <1>1, <1>2 DEF PushedOK, SpelledOK

LEMMA TypedSimilar == ASSUME Typed, Pool, NEW s \in Names, SimilarAnswer(s) PROVE Typed'
<1>1. /\ stage = "similar" /\ stage' = "similar" /\ s \in DOMAIN weights
      /\ UNCHANGED <<setting, weights, tagVars, scoreVars, lb, lbName, lbPending, lbGot>>
  BY DEF SimilarAnswer, Send, Pool, seedVars
<1>2. \/ UNCHANGED <<lf, lfName>>
      \/ lf' = lf \cup Pushes(s, Similar[s]) /\ lfName' = Spelled(lfName, Similar[s])
  BY DEF SimilarAnswer
<1>3. Similar[s] \in Seq(Names)
  BY DiscoveryAssumption
<1>4. /\ lf \subseteq Keys \X (DOMAIN weights) \X Names /\ \A p \in lf : lfName[p[1]] # NoName
      /\ lfName \in [Keys -> Names \cup {NoName}]
  BY DEF Typed, TypeOK, Named
<1>5. /\ lf' \subseteq Keys \X (DOMAIN weights) \X Names /\ lfName' \in [Keys -> Names \cup {NoName}]
      /\ \A p \in lf' : lfName'[p[1]] # NoName
  <2>1. CASE UNCHANGED <<lf, lfName>>
    BY <1>4, <2>1
  <2>2. CASE lf' = lf \cup Pushes(s, Similar[s]) /\ lfName' = Spelled(lfName, Similar[s])
    <3>1. SpelledOK(lfName, Similar[s], lfName')
      BY <1>3, <1>4, <2>2, SpelledNames
    <3>2. PushedOK(lf, lfName, s, Similar[s], lf', lfName')
      BY <2>2, <3>1 DEF PushedOK
    <3> QED
      BY <1>1, <1>3, <1>4, <3>2, PushedTypes
  <2> QED
    BY <1>2, <2>1, <2>2
<1>6. ArmsOK'
  BY <1>1, <1>5 DEF Typed, TypeOK, Named, ArmsOK
<1> QED
  BY <1>1, <1>6, TypedArmStep

LEMMA TypedLb == ASSUME Typed, NEW s \in Names, LbAnswer(s) PROVE Typed'
<1>1. /\ stage = "similar" /\ stage' = "similar" /\ s \in lbPending /\ s \in DOMAIN weights
      /\ UNCHANGED <<setting, weights, tagVars, scoreVars, lf, lfName>>
      /\ lbPending' = lbPending \ {s}
  BY DEF LbAnswer, seedVars, Typed, TypeOK
<1>2. \/ UNCHANGED <<lb, lbName, lbGot>>
      \/ lb' = lb \cup Pushes(s, LbSimilar[s]) /\ lbName' = Spelled(lbName, LbSimilar[s])
         /\ lbGot' = lbGot \cup {s}
  BY DEF LbAnswer
<1>3. LbSimilar[s] \in Seq(Names)
  BY DiscoveryAssumption
<1>4. /\ lb \subseteq Keys \X (DOMAIN weights) \X Names /\ \A p \in lb : lbName[p[1]] # NoName
      /\ lbName \in [Keys -> Names \cup {NoName}]
  BY DEF Typed, TypeOK, Named
<1>5. /\ lb' \subseteq Keys \X (DOMAIN weights) \X Names /\ lbName' \in [Keys -> Names \cup {NoName}]
      /\ \A p \in lb' : lbName'[p[1]] # NoName
  <2>1. CASE UNCHANGED <<lb, lbName>>
    BY <1>4, <2>1
  <2>2. CASE lb' = lb \cup Pushes(s, LbSimilar[s]) /\ lbName' = Spelled(lbName, LbSimilar[s])
    <3>1. SpelledOK(lbName, LbSimilar[s], lbName')
      BY <1>3, <1>4, <2>2, SpelledNames
    <3>2. PushedOK(lb, lbName, s, LbSimilar[s], lb', lbName')
      BY <2>2, <3>1 DEF PushedOK
    <3> QED
      BY <1>1, <1>3, <1>4, <3>2, PushedTypes
  <2> QED
    BY <1>2, <2>1, <2>2
<1>6. lbPending' \subseteq DOMAIN weights /\ lbGot' \subseteq DOMAIN weights \ lbPending'
  BY <1>1, <1>2 DEF Typed, TypeOK
<1>7. ArmsOK'
  BY <1>1, <1>5, <1>6 DEF Typed, TypeOK, Named, ArmsOK
<1> QED
  BY <1>1, <1>7, TypedArmStep

LEMMA TypedArms == ASSUME Typed, Pool, ArmStep PROVE Typed'
<1>1. CASE StartArms
  <2>1. /\ stage' = "similar" /\ UNCHANGED <<setting, weights, tagVars, scoreVars, lf, lb, lfName, lbName, lbGot>>
        /\ lbGot = {} /\ lbPending' \subseteq DOMAIN weights
    BY <1>1 DEF StartArms, Send, seedVars, Pool, Before
  <2>2. ArmsOK'
    BY <2>1 DEF Typed, TypeOK, Named, ArmsOK
  <2> QED
    BY <2>1, <2>2, TypedArmStep
<1>2. CASE \E s \in Names : SimilarAnswer(s)
  BY <1>2, TypedSimilar
<1>3. CASE LbBudgetEnds
  <2>1. /\ stage' = "similar" /\ UNCHANGED <<setting, weights, tagVars, scoreVars, lf, lb, lfName, lbName, lbGot>>
        /\ lbPending' = {}
    BY <1>3 DEF LbBudgetEnds, seedVars
  <2>2. ArmsOK'
    BY <2>1 DEF Typed, TypeOK, Named, ArmsOK
  <2> QED
    BY <2>1, <2>2, TypedArmStep
<1>4. CASE ArmsDone
  <2>1. PICK top \in SeedCuts(weights, ProfileSeeds) :
            stage' = "profile" /\ pending' = top /\ UNCHANGED <<setting, weights, tagVars, scoreVars, armVars>>
    BY <1>4, Zenon DEF ArmsDone, Send, seedVars
  <2>2. top \subseteq DOMAIN weights
    BY DEF SeedCuts, Cuts, kSubset
  <2>3. ArmsOK'
    BY <2>1 DEF Typed, TypeOK, Named, ArmsOK, armVars
  <2> QED
    BY <2>1, <2>2, <2>3, TypedArmStep
<1> QED
  BY <1>1, <1>2, <1>3, <1>4 DEF ArmStep

(* A step after the arms.                                                  *)
LEMMA TypedScoreStep ==
    ASSUME Typed, UNCHANGED <<setting, weights, tagVars, armVars>>,
           stage' \in After, CountsOf(profile, Tags)', raw' \in Seq([page : Names, seeds : SUBSET Names]),
           stage' = "profile" => pending' \subseteq DOMAIN weights,
           stage' = "pages" => pending' \subseteq Candidates
    PROVE  Typed'
<1>1. Periods' = Periods /\ Candidates' = Candidates
  BY DEF Periods, Candidates, armVars
<1> QED
  BY <1>1 DEF Typed, TypeOK, Named, AsksKnown, After, FailsClosed, CountsOf, setting, tagVars, armVars

LEMMA DisplayIsName == ASSUME Typed, NEW k \in Candidates PROVE Display(k) \in Names
<1>1. PICK p \in lf \cup lb : k = p[1]
  BY DEF Candidates
<1>2. /\ lf \subseteq Keys \X (DOMAIN weights) \X Names /\ lb \subseteq Keys \X (DOMAIN weights) \X Names
      /\ lfName \in [Keys -> Names \cup {NoName}] /\ lbName \in [Keys -> Names \cup {NoName}]
  BY DEF Typed, TypeOK
<1>3. k \in Keys
  BY <1>1, <1>2
<1>4. lfName[k] # NoName \/ lbName[k] # NoName
  BY <1>1 DEF Typed, Named
<1> QED
  BY <1>2, <1>3, <1>4 DEF Display

LEMMA TypedScores == ASSUME Typed, ScoreStep PROVE Typed'
<1>1. /\ stage \in After /\ stage' \in After /\ UNCHANGED <<setting, weights, tagVars, armVars>>
  BY Zenon DEF ScoreStep, ProfileAnswer, FetchPages, PageAnswer, Score, score_and_rank, Send, After, seedVars
<1>2. CountsOf(profile, Tags) /\ raw \in Seq([page : Names, seeds : SUBSET Names])
  BY DEF Typed, TypeOK, CountsOf
<1>3. ASSUME NEW s \in Names, ProfileAnswer(s) PROVE Typed'
  <2>1. /\ stage' = "profile" /\ pending' \subseteq pending /\ raw' = raw /\ s \in DOMAIN weights
        /\ pending \subseteq DOMAIN weights
    BY <1>3 DEF ProfileAnswer, Send, Typed, AsksKnown
  <2>2. weights[s] \in Nat /\ TopTags[s] \in Seq(Tags)
    BY <2>1, DiscoveryAssumption DEF Typed, TypeOK
  <2>3. CountsOf(TagGain(TopTags[s], weights[s]), Tags)
    BY <2>2, TagGainCounts
  <2>4. CountsOf(Gained(profile, TagGain(TopTags[s], weights[s])), Tags)
    BY <1>2, <2>3, GainedCounts
  <2>5. profile' = profile \/ profile' = Gained(profile, TagGain(TopTags[s], weights[s]))
    BY <1>3 DEF ProfileAnswer
  <2>6. CountsOf(profile, Tags)'
    BY <1>2, <2>4, <2>5 DEF CountsOf
  <2> QED
    BY <1>1, <1>2, <2>1, <2>6, TypedScoreStep
<1>4. ASSUME FetchPages PROVE Typed'
  <2>1. PICK top \in Cuts(Candidates, MaxInfo, MoreRecommended) :
            stage' = "pages" /\ pending' = top /\ UNCHANGED <<profile, raw>>
    BY <1>4, Zenon DEF FetchPages, Send, scoreVars
  <2>2. top \subseteq Candidates
    BY DEF Cuts, kSubset
  <2>3. CountsOf(profile, Tags)'
    BY <1>2, <2>1 DEF CountsOf
  <2> QED
    BY <1>1, <1>2, <2>1, <2>2, <2>3, TypedScoreStep
<1>5. ASSUME NEW k \in Keys, PageAnswer(k) PROVE Typed'
  <2>1. /\ stage' = "pages" /\ pending' \subseteq pending /\ profile' = profile
        /\ k \in Candidates /\ pending \subseteq Candidates
    BY <1>5 DEF PageAnswer, Send, Typed, AsksKnown
  <2> DEFINE answer == [page |-> Page[Display(k)], seeds |-> Recommenders(k)]
  <2>2. raw' = raw \/ raw' = Append(raw, answer)
    BY <1>5 DEF PageAnswer
  <2>3. Page[Display(k)] \in Names
    BY <2>1, DisplayIsName, DiscoveryAssumption
  <2>4. Recommenders(k) \subseteq Names
    <3>1. \A p \in lf \cup lb : p[2] \in Names
      BY DEF Typed, TypeOK
    <3> QED
      BY <3>1 DEF Recommenders
  <2>5. answer \in [page : Names, seeds : SUBSET Names]
    BY <2>3, <2>4
  <2> HIDE DEF answer
  <2> DEFINE T == [page : Names, seeds : SUBSET Names]
  <2>6. raw' \in Seq(T)
    <3> HIDE DEF T
    <3>1. raw \in Seq(T) /\ answer \in T
      BY <1>2, <2>5 DEF T
    <3> QED
      BY <2>2, <3>1
  <2>7. CountsOf(profile, Tags)'
    BY <1>2, <2>1 DEF CountsOf
  <2> QED
    BY <1>1, <2>1, <2>6, <2>7, TypedScoreStep
<1>6. ASSUME Score PROVE Typed'
  <2>1. stage' = "vetoes" /\ profile' = profile /\ raw' = raw
    BY <1>6 DEF Score, Send
  <2> QED
    BY <1>1, <1>2, <2>1, TypedScoreStep DEF CountsOf
<1>7. ASSUME score_and_rank PROVE Typed'
  <2>1. stage' = "done" /\ profile' = profile /\ raw' = raw
    BY <1>7, Zenon DEF score_and_rank, Send
  <2> QED
    BY <1>1, <1>2, <2>1, TypedScoreStep DEF CountsOf
<1> QED
  BY <1>3, <1>4, <1>5, <1>6, <1>7 DEF ScoreStep

LEMMA TypedStep == ASSUME Typed, Pool, [Next]_vars PROVE Typed'
<1>1. CASE UNCHANGED vars
  BY <1>1 DEF vars, Typed, TypeOK, Named, AsksKnown, Periods, Candidates, setting, seedVars, tagVars,
              armVars, scoreVars
<1>2. CASE \E c \in pending : CallFails(c)
  <2>1. stage' = "failed" /\ UNCHANGED <<setting, seedVars, tagVars, armVars, scoreVars>>
    BY <1>2 DEF CallFails, Send
  <2> QED
    BY <2>1 DEF Typed, TypeOK, Named, AsksKnown, Periods, FailsClosed, setting, seedVars, tagVars,
                armVars, scoreVars
<1> QED
  BY <1>1, <1>2, TypedSeeds, TypedTags, TypedArms, TypedScores, TypedLb DEF Next, Progress

(* In every state of a run the seeds are names with counts, what the arms  *)
(* pushed is about seeds, a candidate has a spelling under which it is     *)
(* looked up, and no seed is both waited for and in (candidates.rs).       *)
THEOREM DiscoveryTypes == Spec => []TypeOK
<1>1. Typed /\ Pool /\ [Next]_vars => Typed' /\ Pool'
  BY TypedStep, PoolStep
<1>2. Init => Typed /\ Pool
  BY TypedInit, PoolInit
<1>3. Typed => TypeOK
  BY DEF Typed
<1> QED
  BY <1>1, <1>2, <1>3, PTL DEF Spec

-----------------------------------------------------------------------------
(* From the answered pages to the reply.                                   *)

Entry == [name : Names, conviction : Nat, composite : Nat]

LEMMA EntryFields == ASSUME NEW e \in Entry PROVE e.name \in Names /\ e.conviction \in Nat /\ e.composite \in Nat
  BY DEF Entry

(* The names of t are names of s, each from a position of its own.         *)
Drawn(t, s) ==
    \E f \in [DOMAIN t -> DOMAIN s] :
        /\ \A k \in DOMAIN t : t[k].name = s[f[k]].name
        /\ \A k, l \in DOMAIN t : f[k] = f[l] => k = l

(* The names of t are those of s, perhaps in another order.                *)
Shuffled(t, s) == Drawn(t, s) /\ Drawn(s, t)

LEMMA DrawnTwice == ASSUME NEW s, NEW t, NEW u, Drawn(t, s), Drawn(u, t) PROVE Drawn(u, s)
<1>1. PICK f \in [DOMAIN t -> DOMAIN s] : /\ \A k \in DOMAIN t : t[k].name = s[f[k]].name
                                          /\ \A k, l \in DOMAIN t : f[k] = f[l] => k = l
  BY DEF Drawn
<1>2. PICK g \in [DOMAIN u -> DOMAIN t] : /\ \A k \in DOMAIN u : u[k].name = t[g[k]].name
                                          /\ \A k, l \in DOMAIN u : g[k] = g[l] => k = l
  BY DEF Drawn
<1> DEFINE h == [k \in DOMAIN u |-> f[g[k]]]
<1>3. h \in [DOMAIN u -> DOMAIN s]
  BY <1>1, <1>2
<1>4. \A k \in DOMAIN u : u[k].name = s[h[k]].name
  BY <1>1, <1>2
<1>5. \A k, l \in DOMAIN u : h[k] = h[l] => k = l
  BY <1>1, <1>2
<1> HIDE DEF h
<1> QED
  BY <1>3, <1>4, <1>5 DEF Drawn

LEMMA KeptDrawn ==
    ASSUME NEW T, NEW s \in Seq(T), NEW I, I \subseteq DOMAIN s
    PROVE  Kept(s, I) \in Seq(T) /\ Drawn(Kept(s, I), s)
<1> DEFINE t == Kept(s, I)
<1>1. /\ t \in Seq(T) /\ Len(t) = Cardinality(I) /\ Cardinality(I) \in 0..Len(s)
      /\ \E f : Along(t, s, I, f)
  BY KeptIsVector
<1> HIDE DEF t
<1>2. PICK f : Along(t, s, I, f)
  BY <1>1
<1>3. DOMAIN t = 1..Cardinality(I) /\ Cardinality(I) \in Nat
  BY <1>1
<1>4. f \in [DOMAIN t -> DOMAIN s] /\ \A k \in DOMAIN t : t[k] = s[f[k]]
  BY <1>2, <1>3 DEF Along, Increasing
<1>5. ASSUME NEW k \in DOMAIN t, NEW l \in DOMAIN t, f[k] = f[l] PROVE k = l
  <2>1. k \in Nat /\ l \in Nat /\ f[k] \in Nat /\ f[l] \in Nat
    BY <1>3, <1>4
  <2>2. k < l => f[k] < f[l]
    BY <1>2, <1>3 DEF Along, Increasing
  <2>3. l < k => f[l] < f[k]
    BY <1>2, <1>3 DEF Along, Increasing
  <2> QED
    BY <1>5, <2>1, <2>2, <2>3
<1>6. Drawn(t, s)
  BY <1>4, <1>5 DEF Drawn
<1> QED
  BY <1>1, <1>6 DEF t

(* Better is a ranking, and a sort by it is a permutation.                 *)
Ahead(s) == {p \in (DOMAIN s) \X (DOMAIN s) : Better(s[p[1]], s[p[2]])}

LEMMA AheadIsWeak == ASSUME NEW s \in Seq(Entry) PROVE WeakOrder(DOMAIN s, Ahead(s))
<1>1. \A i \in DOMAIN s : s[i].name \in Int /\ s[i].composite \in Int
  <2>1. \A i \in DOMAIN s : s[i] \in Entry
    BY ElementType
  <2> QED
    <3>1. \A i \in DOMAIN s : s[i].name \in Names /\ s[i].composite \in Nat
      BY <2>1, EntryFields
    <3>2. Names \subseteq Int
      BY ScoringAssumption
    <3>3. \A i \in DOMAIN s : s[i].name \in Int
      BY <3>1, <3>2
    <3>4. \A i \in DOMAIN s : s[i].composite \in Int
      BY <3>1
    <3> QED
      BY <3>3, <3>4
<1>2. \A i, j \in DOMAIN s : <<i, j>> \in Ahead(s) <=>
          \/ s[i].composite > s[j].composite
          \/ s[i].composite = s[j].composite /\ s[i].name < s[j].name
  BY DEF Ahead, Better
<1>3. Ahead(s) \subseteq (DOMAIN s) \X (DOMAIN s)
  BY DEF Ahead
<1>4. \A i, j \in DOMAIN s : <<i, j>> \in Ahead(s) => <<j, i>> \notin Ahead(s)
  BY <1>1, <1>2
<1>5. \A i, j, k \in DOMAIN s : <<i, k>> \in Ahead(s) => <<i, j>> \in Ahead(s) \/ <<j, k>> \in Ahead(s)
  <2> SUFFICES ASSUME NEW i \in DOMAIN s, NEW j \in DOMAIN s, NEW k \in DOMAIN s, <<i, k>> \in Ahead(s)
               PROVE  <<i, j>> \in Ahead(s) \/ <<j, k>> \in Ahead(s)
    OBVIOUS
  <2>1. /\ {s[i].name, s[j].name, s[k].name} \subseteq Int
        /\ {s[i].composite, s[j].composite, s[k].composite} \subseteq Int
    BY <1>1
  <2>2. \/ s[i].composite > s[k].composite
        \/ s[i].composite = s[k].composite /\ s[i].name < s[k].name
    BY <1>2
  <2>3. \/ s[i].composite > s[j].composite
        \/ s[i].composite = s[j].composite /\ s[i].name < s[j].name
        \/ s[j].composite > s[k].composite
        \/ s[j].composite = s[k].composite /\ s[j].name < s[k].name
    BY <2>1, <2>2
  <2> QED
    BY <1>2, <2>3
<1> QED
  BY <1>3, <1>4, <1>5 DEF WeakOrder

LEMMA SortedByIs == ASSUME NEW s PROVE SortedBy(s, Better) = Sorted(s, Ahead(s))
<1> DEFINE F(t) == Sorted(t, {p \in (DOMAIN t) \X (DOMAIN t) : Better(t[p[1]], t[p[2]])})
<1>1. {F(t) : t \in {s}} = {F(s)}
  OBVIOUS
<1>2. SortedBy(s, Better) = F(s)
  BY <1>1, OfOne DEF SortedBy
<1> QED
  BY <1>2 DEF Ahead

LEMMA SortedShuffled ==
    ASSUME NEW s \in Seq(Entry)
    PROVE  SortedBy(s, Better) \in Seq(Entry) /\ Shuffled(SortedBy(s, Better), s)
<1> DEFINE t == Sorted(s, Ahead(s))
           less == Ahead(s)
<1>1. /\ t \in Seq(Entry) /\ DOMAIN t = DOMAIN s
      /\ \E f : Rearranged(t, s, f)
  <2>1. WeakOrder(DOMAIN s, less)
    BY AheadIsWeak
  <2> HIDE DEF less
  <2> QED
    BY <2>1, SortedElements DEF less
<1> HIDE DEF t
<1>2. PICK f : Rearranged(t, s, f)
  BY <1>1
<1>3. Drawn(t, s)
  <2>1. f \in [DOMAIN t -> DOMAIN s]
    BY <1>1, <1>2 DEF Rearranged
  <2>2. \A k \in DOMAIN t : t[k].name = s[f[k]].name
    BY <1>1, <1>2 DEF Rearranged
  <2>3. \A k, l \in DOMAIN t : f[k] = f[l] => k = l
    BY <1>1, <1>2 DEF Rearranged
  <2> QED
    BY <2>1, <2>2, <2>3 DEF Drawn
<1> DEFINE g == [i \in DOMAIN s |-> CHOOSE k \in DOMAIN s : f[k] = i]
<1>4. \A i \in DOMAIN s : g[i] \in DOMAIN t /\ f[g[i]] = i
  BY <1>1, <1>2 DEF Rearranged
<1>5. g \in [DOMAIN s -> DOMAIN t]
  BY <1>4
<1> HIDE DEF g
<1>6. \A i \in DOMAIN s : s[i].name = t[g[i]].name
  <2> SUFFICES ASSUME NEW i \in DOMAIN s PROVE s[i].name = t[g[i]].name
    OBVIOUS
  <2>1. g[i] \in DOMAIN s /\ f[g[i]] = i
    BY <1>1, <1>4
  <2>2. t[g[i]] = s[f[g[i]]]
    BY <1>2, <2>1 DEF Rearranged
  <2> QED
    BY <2>1, <2>2
<1>7. \A i, j \in DOMAIN s : g[i] = g[j] => i = j
  BY <1>4
<1>8. Drawn(s, t)
  BY <1>5, <1>6, <1>7 DEF Drawn
<1> QED
  BY <1>1, <1>3, <1>8, SortedByIs DEF t, Shuffled

(* Nobody on the list shares a key with another; all are unknown to the    *)
(* user.                                                                   *)
Distinct(s) == \A i, j \in DOMAIN s : Norm[s[i].name] = Norm[s[j].name] => i = j
Unknown(s, W, th) ==
    \A i \in DOMAIN s : ~TooPlayed(s[i].name, th) /\ \A w \in DOMAIN W : Norm[w] # Norm[s[i].name]

LEMMA DrawnKeeps ==
    ASSUME NEW s, NEW t, Drawn(t, s)
    PROVE  /\ Distinct(s) => Distinct(t)
           /\ \A W, th : Unknown(s, W, th) => Unknown(t, W, th)
<1>1. PICK f \in [DOMAIN t -> DOMAIN s] : /\ \A k \in DOMAIN t : t[k].name = s[f[k]].name
                                          /\ \A k, l \in DOMAIN t : f[k] = f[l] => k = l
  BY DEF Drawn
<1>2. ASSUME NEW W, NEW th, Unknown(s, W, th) PROVE Unknown(t, W, th)
  BY <1>1, <1>2 DEF Unknown
<1>3. ASSUME Distinct(s) PROVE Distinct(t)
  BY <1>1, <1>3 DEF Distinct
<1> QED
  BY <1>2, <1>3

(* A candidate's score is a count.                                         *)
LEMMA ScoreIsEntry ==
    ASSUME NEW c \in [page : Names, seeds : SUBSET Names], NEW W, CountsOf(W, Names), NEW tags, NEW prof
    PROVE  score_candidate(c, W, tags, prof) \in Entry /\ score_candidate(c, W, tags, prof).name = c.page
<1> DEFINE g == [s \in c.seeds \cap DOMAIN W |-> Min({W[s], ConvictionCap})]
           conv == conviction(c.page, c.seeds, W, tags, prof)
<1>1. c.page \in Names /\ c.seeds \subseteq Names
  OBVIOUS
<1>2. IsFiniteSet(DOMAIN g)
  <2>1. DOMAIN g \in SUBSET Names
    BY <1>1
  <2> QED
    BY <2>1, FS_Subset, ScoringAssumption
<1>3. \A s \in DOMAIN g : g[s] \in Nat
  <2>1. ConvictionCap \in Nat
    BY ScoringAssumption
  <2> QED
    BY <2>1, MinOfTwo DEF CountsOf
<1>4. SumOf(g) \in Nat
  <2> HIDE DEF g
  <2> QED
    BY <1>2, <1>3, SumIsNat DEF Counts
<1>5. conv \in Nat
  <2>1. CrossBonus \in Nat
    BY ScoringAssumption
  <2>2. conv = SumOf(g) + IF CrossValidated(c.page, tags, prof) THEN CrossBonus ELSE 0
    BY DEF conviction
  <2> HIDE DEF g, conv
  <2> QED
    BY <1>4, <2>1, <2>2
<1> DEFINE st == Info[c.page].stickiness
<1>6. st \in Nat
  BY <1>1, ScoringAssumption
<1>7. score_candidate(c, W, tags, prof) = [name |-> c.page, conviction |-> conv, composite |-> conv * st]
  BY DEF score_candidate
<1> HIDE DEF conv, st
<1>8. conv * st \in Nat
  BY <1>5, <1>6
<1> QED
  BY <1>1, <1>5, <1>7, <1>8 DEF Entry

Answers == [page : Names, seeds : SUBSET Names]

(* Who is scored: the eligible pages.                                      *)
Rated(r, W, tags, prof) == Mapped(r, LAMBDA c : score_candidate(c, W, tags, prof))

LEMMA ScoredEntries ==
    ASSUME NEW r \in Seq(Answers), NEW W, CountsOf(W, Names), NEW tags, NEW prof
    PROVE  LET t == Rated(r, W, tags, prof)
           IN  t \in Seq(Entry) /\ DOMAIN t = DOMAIN r /\ \A i \in DOMAIN r : t[i].name = r[i].page
<1> DEFINE F(u) == [i \in DOMAIN u |-> score_candidate(u[i], W, tags, prof)] \o << >>
           f == [i \in DOMAIN r |-> score_candidate(r[i], W, tags, prof)]
           t == Rated(r, W, tags, prof)
<1>1. {F(u) : u \in {r}} = {F(r)}
  OBVIOUS
<1>2. t = f \o << >>
  BY <1>1, OfOne DEF Rated, Mapped
<1>3. \A i \in DOMAIN r : r[i] \in Answers
  BY ElementType
<1>4. \A i \in DOMAIN r : f[i] \in Entry /\ f[i].name = r[i].page
  BY <1>3, ScoreIsEntry DEF Answers
<1>5. DOMAIN r = 1..Len(r) /\ Len(r) \in Nat
  OBVIOUS
<1>6. f \in [1..Len(r) -> Entry]
  BY <1>4, <1>5
<1> HIDE DEF f
<1>7. f \in Seq(Entry) /\ DOMAIN f = DOMAIN r
  BY <1>5, <1>6
<1>8. t = f
  BY <1>2, <1>7, JoinedEmpty
<1> QED
  BY <1>4, <1>7, <1>8

(* The first of each key, which is what dedup_scored_by_name keeps.        *)
Firsts(s) == {i \in DOMAIN s : \A j \in 1..(i - 1) : Norm[s[j].name] # Norm[s[i].name]}

LEMMA DedupIs == ASSUME NEW s PROVE dedup_scored_by_name(s) = Kept(s, Firsts(s))
<1> DEFINE F(t) == Kept(t, {i \in DOMAIN t : \A j \in 1..(i - 1) : Norm[t[j].name] # Norm[t[i].name]})
<1>1. {F(t) : t \in {s}} = {F(s)}
  OBVIOUS
<1>2. dedup_scored_by_name(s) = F(s)
  BY <1>1, OfOne DEF dedup_scored_by_name, Picked
<1> QED
  BY <1>2 DEF Firsts

LEMMA DedupDistinct ==
    ASSUME NEW s \in Seq(Entry)
    PROVE  /\ dedup_scored_by_name(s) \in Seq(Entry)
           /\ Drawn(dedup_scored_by_name(s), s) /\ Distinct(dedup_scored_by_name(s))
<1> DEFINE I == Firsts(s)
           t == Kept(s, I)
<1>1. I \subseteq DOMAIN s
  BY DEF Firsts
<1>2. /\ t \in Seq(Entry) /\ Drawn(t, s) /\ Len(t) = Cardinality(I) /\ Cardinality(I) \in 0..Len(s)
      /\ \E f : Along(t, s, I, f)
  <2> HIDE DEF I
  <2> QED
    BY <1>1, KeptDrawn, KeptIsVector
<1> HIDE DEF t
<1>3. PICK f : Along(t, s, I, f)
  BY <1>2
<1>4. DOMAIN t = 1..Cardinality(I) /\ Cardinality(I) \in Nat
  BY <1>2
<1>5. DOMAIN s = 1..Len(s) /\ Len(s) \in Nat
  OBVIOUS
<1>6. ASSUME NEW k \in DOMAIN t, NEW l \in DOMAIN t, k < l PROVE Norm[t[k].name] # Norm[t[l].name]
  <2>1. f[k] \in I /\ f[l] \in I /\ f[k] < f[l] /\ t[k] = s[f[k]] /\ t[l] = s[f[l]]
    BY <1>3, <1>4, <1>6 DEF Along, Increasing
  <2>2. f[k] \in 1..(f[l] - 1)
    BY <1>1, <1>5, <2>1
  <2> QED
    BY <2>1, <2>2 DEF Firsts
<1>7. Distinct(t)
  <2> SUFFICES ASSUME NEW k \in DOMAIN t, NEW l \in DOMAIN t, Norm[t[k].name] = Norm[t[l].name]
               PROVE  k = l
    BY DEF Distinct
  <2>1. k \in Nat /\ l \in Nat
    BY <1>4
  <2> QED
    BY <1>6, <2>1
<1> QED
  BY <1>2, <1>7, DedupIs DEF t

(* The ranked list: every entry is an eligible page, no two of them share  *)
(* a key.                                                                  *)
LEMMA RankedList ==
    ASSUME NEW r \in Seq(Answers), NEW W, CountsOf(W, Names), NEW tags, NEW prof, NEW th
    PROVE  LET t == score_all(r, W, tags, prof, th)
           IN  t \in Seq(Entry) /\ Distinct(t) /\ Unknown(t, W, th)
<1> DEFINE I == {i \in DOMAIN r : Eligible(r[i].page, r, W, th)}
           F(u) == Kept(u, {i \in DOMAIN u : Eligible(u[i].page, u, W, th)})
           eligible == Picked(r, LAMBDA u, i : Eligible(u[i].page, u, W, th))
           rated == Rated(eligible, W, tags, prof)
           sorted == SortedBy(rated, Better)
           t == dedup_scored_by_name(sorted)
<1>1. eligible = Kept(r, I)
  <2>1. {F(u) : u \in {r}} = {F(r)}
    OBVIOUS
  <2> QED
    BY <2>1, OfOne, Zenon DEF Picked
<1>2. /\ eligible \in Seq(Answers)
      /\ \A k \in DOMAIN eligible : Eligible(eligible[k].page, r, W, th)
  <2> DEFINE e == Kept(r, I)
  <2>1. I \subseteq DOMAIN r
    OBVIOUS
  <2>2. /\ e \in Seq(Answers) /\ Len(e) = Cardinality(I) /\ Cardinality(I) \in 0..Len(r)
        /\ \E f : Along(e, r, I, f)
    <3> HIDE DEF I
    <3> QED
      BY <2>1, KeptIsVector
  <2> HIDE DEF e
  <2>3. PICK f : Along(e, r, I, f)
    BY <2>2
  <2>4. DOMAIN e = 1..Cardinality(I)
    BY <2>2
  <2>5. \A k \in DOMAIN e : f[k] \in I /\ e[k] = r[f[k]]
    BY <2>3, <2>4 DEF Along, Increasing
  <2> QED
    BY <1>1, <2>2, <2>5 DEF e
<1> HIDE DEF eligible
<1>3. /\ rated \in Seq(Entry) /\ DOMAIN rated = DOMAIN eligible
      /\ \A i \in DOMAIN eligible : rated[i].name = eligible[i].page
  BY <1>2, ScoredEntries
<1> HIDE DEF rated
<1>4. Unknown(rated, W, th)
  BY <1>2, <1>3 DEF Unknown, Eligible
<1>5. sorted \in Seq(Entry) /\ Drawn(sorted, rated)
  BY <1>3, SortedShuffled DEF Shuffled
<1> HIDE DEF sorted
<1>6. t \in Seq(Entry) /\ Drawn(t, sorted) /\ Distinct(t)
  BY <1>5, DedupDistinct
<1> HIDE DEF t
<1>7. Unknown(t, W, th)
  BY <1>4, <1>5, <1>6, DrawnKeeps
<1> QED
  BY <1>6, <1>7, Zenon DEF score_all, t, sorted, rated, eligible, Rated

(* The vetoes drop entries.                                                *)
LEMMA WithoutVetoedDrawn ==
    ASSUME NEW s \in Seq(Entry), NEW out
    PROVE  WithoutVetoed(s, out) \in Seq(Entry) /\ Drawn(WithoutVetoed(s, out), s)
<1> DEFINE F(t) == Kept(t, {i \in DOMAIN t : t[i].name \notin out})
           I == {i \in DOMAIN s : s[i].name \notin out}
<1>1. {F(t) : t \in {s}} = {F(s)}
  OBVIOUS
<1>2. WithoutVetoed(s, out) = Kept(s, I)
  BY <1>1, OfOne, Zenon DEF WithoutVetoed, Picked
<1>3. I \subseteq DOMAIN s
  OBVIOUS
<1> HIDE DEF I
<1> QED
  BY <1>2, <1>3, KeptDrawn

LEMMA UpliftIsEntry ==
    ASSUME NEW a \in Entry, NEW f, CountsOf(f, Tags)
    PROVE  uplift(a, f) \in Entry /\ uplift(a, f).name = a.name
<1> DEFINE full == Heaviest(f)
           tags == Info[a.name].tags
           g == [i \in DOMAIN tags |-> WeightOf(f, tags[i])]
           more == 2 * full + Min({SumOf(g), full})
<1>1. a.name \in Names /\ a.conviction \in Nat /\ a.composite \in Nat
  BY EntryFields
<1>2. tags \in Seq(Tags) /\ IsFiniteSet(Tags)
  BY <1>1, DiscoveryAssumption
<1>3. more \in Nat
  <2> HIDE DEF tags
  <2> QED
    BY <1>2, FactorCount
<1>4. uplift(a, f) = [a EXCEPT !.composite = @ * more]
  BY DEF uplift
<1> HIDE DEF more
<1>5. a.composite * more \in Nat
  BY <1>1, <1>3
<1>6. uplift(a, f) = [name |-> a.name, conviction |-> a.conviction, composite |-> a.composite * more]
  BY <1>4 DEF Entry
<1> QED
  BY <1>1, <1>5, <1>6 DEF Entry

(* The list with the uplift, with the genres, and its names.               *)
Lifted(s, f) == Mapped(s, LAMBDA a : uplift(a, f))
Tagged(s, g) == Mapped(s, LAMBDA a : [name |-> a.name, genre |-> primary_genre(a.name, g)])
NamesOf(s) == Mapped(s, LAMBDA a : a.name)

LEMMA LiftedEntries ==
    ASSUME NEW s \in Seq(Entry), NEW f, CountsOf(f, Tags)
    PROVE  Lifted(s, f) \in Seq(Entry) /\ Shuffled(Lifted(s, f), s)
<1> DEFINE F(u) == [i \in DOMAIN u |-> uplift(u[i], f)] \o << >>
           t == [i \in DOMAIN s |-> uplift(s[i], f)]
<1>1. {F(u) : u \in {s}} = {F(s)}
  OBVIOUS
<1>2. Lifted(s, f) = t \o << >>
  BY <1>1, OfOne, Zenon DEF Lifted, Mapped
<1>3. \A i \in DOMAIN s : s[i] \in Entry
  BY ElementType
<1>4. \A i \in DOMAIN s : t[i] \in Entry /\ t[i].name = s[i].name
  BY <1>3, UpliftIsEntry
<1>5. DOMAIN s = 1..Len(s) /\ Len(s) \in Nat
  OBVIOUS
<1>6. t \in [1..Len(s) -> Entry]
  BY <1>4, <1>5
<1> HIDE DEF t
<1>7. t \in Seq(Entry) /\ DOMAIN t = DOMAIN s
  BY <1>5, <1>6
<1>8. Lifted(s, f) = t
  BY <1>2, <1>7, JoinedEmpty
<1>9. Shuffled(t, s)
  <2> DEFINE h == [i \in DOMAIN s |-> i]
  <2>1. h \in [DOMAIN s -> DOMAIN s] /\ \A i \in DOMAIN s : h[i] = i
    OBVIOUS
  <2> HIDE DEF h
  <2> QED
    BY <1>4, <1>7, <2>1 DEF Shuffled, Drawn
<1> QED
  BY <1>7, <1>8, <1>9

(* The ranking that the reply is cut from.                                 *)
Ranked(s, f) == SortedBy(Lifted(s, f), Better)

LEMMA RankedEntries ==
    ASSUME NEW s \in Seq(Entry), NEW f, CountsOf(f, Tags)
    PROVE  Ranked(s, f) \in Seq(Entry) /\ Shuffled(Ranked(s, f), s)
<1> DEFINE t == Lifted(s, f)
<1>1. t \in Seq(Entry) /\ Shuffled(t, s)
  BY LiftedEntries
<1> HIDE DEF t
<1>2. SortedBy(t, Better) \in Seq(Entry) /\ Shuffled(SortedBy(t, Better), t)
  BY <1>1, SortedShuffled
<1>3. Shuffled(SortedBy(t, Better), s)
  BY <1>1, <1>2, DrawnTwice DEF Shuffled
<1> QED
  BY <1>2, <1>3 DEF Ranked, t

(* A ranked artist with its genre.                                         *)
InGenre(g) == {[name |-> n, genre |-> primary_genre(n, g)] : n \in Names}

LEMMA InGenreFields ==
    ASSUME NEW g, NEW e \in InGenre(g)
    PROVE  e.name \in Names /\ e.genre = primary_genre(e.name, g)
  BY DEF InGenre

LEMMA TaggedElements ==
    ASSUME NEW s \in Seq(Entry), NEW g
    PROVE  /\ Tagged(s, g) \in Seq(InGenre(g)) /\ DOMAIN Tagged(s, g) = DOMAIN s
           /\ \A i \in DOMAIN s : Tagged(s, g)[i].name = s[i].name
<1> DEFINE F(u) == [i \in DOMAIN u |-> [name |-> u[i].name, genre |-> primary_genre(u[i].name, g)]] \o << >>
           t == [i \in DOMAIN s |-> [name |-> s[i].name, genre |-> primary_genre(s[i].name, g)]]
<1>1. {F(u) : u \in {s}} = {F(s)}
  OBVIOUS
<1>2. Tagged(s, g) = t \o << >>
  BY <1>1, OfOne, Zenon DEF Tagged, Mapped
<1>3. \A i \in DOMAIN s : s[i].name \in Names
  BY ElementType, EntryFields
<1>4. \A i \in DOMAIN s : t[i] \in InGenre(g) /\ t[i].name = s[i].name
  BY <1>3 DEF InGenre
<1>5. DOMAIN s = 1..Len(s) /\ Len(s) \in Nat
  OBVIOUS
<1>6. t \in [1..Len(s) -> InGenre(g)]
  BY <1>4, <1>5
<1> HIDE DEF t
<1>7. t \in Seq(InGenre(g)) /\ DOMAIN t = DOMAIN s
  BY <1>5, <1>6
<1>8. Tagged(s, g) = t
  BY <1>2, <1>7, JoinedEmpty
<1> QED
  BY <1>4, <1>7, <1>8

(* The positions with fewer than GenreSlots of the same genre before them. *)
Above(t, i) == {j \in 1..(i - 1) : t[j].genre = t[i].genre}
Slots(t) == {i \in DOMAIN t : Cardinality(Above(t, i)) < GenreSlots}

LEMMA DiverseIs ==
    ASSUME NEW s, NEW g
    PROVE  enforce_diversity(s, g) = Kept(Tagged(s, g), Slots(Tagged(s, g)))
<1> DEFINE F(t) == Kept(t, {i \in DOMAIN t :
                       Cardinality({j \in 1..(i - 1) : t[j].genre = t[i].genre}) < GenreSlots})
           tagged == Tagged(s, g)
<1>1. {F(t) : t \in {tagged}} = {F(tagged)}
  OBVIOUS
<1>2. enforce_diversity(s, g) = F(tagged)
  BY <1>1, OfOne, Zenon DEF enforce_diversity, Picked, Tagged
<1> HIDE DEF tagged
<1>3. F(tagged) = Kept(tagged, Slots(tagged))
  BY DEF Slots, Above
<1> QED
  BY <1>2, <1>3 DEF tagged

LEMMA NamesElements ==
    ASSUME NEW g, NEW s \in Seq(InGenre(g))
    PROVE  /\ NamesOf(s) \in Seq(Names) /\ DOMAIN NamesOf(s) = DOMAIN s /\ Len(NamesOf(s)) = Len(s)
           /\ \A i \in DOMAIN s : NamesOf(s)[i] = s[i].name
<1> DEFINE F(u) == [i \in DOMAIN u |-> u[i].name] \o << >>
           t == [i \in DOMAIN s |-> s[i].name]
<1>1. {F(u) : u \in {s}} = {F(s)}
  OBVIOUS
<1>2. NamesOf(s) = t \o << >>
  BY <1>1, OfOne, Zenon DEF NamesOf, Mapped
<1>3. \A i \in DOMAIN s : s[i].name \in Names
  BY ElementType, InGenreFields
<1>4. DOMAIN s = 1..Len(s) /\ Len(s) \in Nat
  OBVIOUS
<1>5. t \in [1..Len(s) -> Names]
  BY <1>3, <1>4
<1>6. \A i \in DOMAIN s : t[i] = s[i].name
  OBVIOUS
<1> HIDE DEF t
<1>7. t \in Seq(Names) /\ DOMAIN t = DOMAIN s /\ Len(t) = Len(s)
  BY <1>4, <1>5
<1>8. NamesOf(s) = t
  BY <1>2, <1>7, JoinedEmpty
<1> QED
  BY <1>6, <1>7, <1>8

(* The cut of a list in the reply and the reserve.                         *)
CutOf(n, shown, reserve) ==
    /\ shown \in Seq(Names) /\ reserve \in Seq(Names)
    /\ ToSet(shown) \cup ToSet(reserve) = ToSet(n)
    /\ Len(shown) + Len(reserve) = Len(n)
    /\ reserve # << >> => Len(shown) = MaxShown

(* A list that is taken apart after k elements.                            *)
Parts(n, L, k, u, v) ==
    /\ DOMAIN n = 1..L
    /\ DOMAIN u = 1..k /\ \A i \in 1..k : u[i] = n[i]
    /\ DOMAIN v = 1..(L - k) /\ \A i \in 1..(L - k) : v[i] = n[k + i]

LEMMA SplitElements ==
    ASSUME NEW n, NEW L \in Nat, NEW k \in 0..L, NEW u, NEW v, Parts(n, L, k, u, v)
    PROVE  ToSet(u) \cup ToSet(v) = ToSet(n)
<1> USE DEF Parts
<1>1. ASSUME NEW i \in 1..L PROVE n[i] \in ToSet(u) \cup ToSet(v)
  <2>1. CASE i \in 1..k
    BY <2>1 DEF ToSet
  <2>2. CASE i \notin 1..k
    <3>1. i - k \in 1..(L - k) /\ k + (i - k) = i
      BY <2>2
    <3> QED
      BY <3>1 DEF ToSet
  <2> QED
    BY <2>1, <2>2
<1>2. ASSUME NEW i \in 1..(L - k) PROVE v[i] \in ToSet(n)
  <2>1. k + i \in 1..L
    OBVIOUS
  <2> QED
    BY <2>1 DEF ToSet
<1>3. ASSUME NEW i \in 1..k PROVE u[i] \in ToSet(n)
  <2>1. i \in 1..L
    OBVIOUS
  <2> QED
    BY <2>1 DEF ToSet
<1>4. ToSet(u) \cup ToSet(v) \subseteq ToSet(n)
  BY <1>2, <1>3, Zenon DEF ToSet
<1>5. ToSet(n) \subseteq ToSet(u) \cup ToSet(v)
  BY <1>1, Zenon DEF ToSet
<1> QED
  BY <1>4, <1>5

LEMMA CutIsSplit ==
    ASSUME NEW n \in Seq(Names)
    PROVE  CutOf(n, Take(n, MaxShown), SubSeq(n, MaxShown + 1, Len(n)))
<1> DEFINE M == MaxShown
           L == Len(n)
           k == IF L < M THEN L ELSE M
           shown == SubSeq(n, 1, k)
           reserve == SubSeq(n, M + 1, L)
<1>1. M \in Nat /\ L \in Nat /\ DOMAIN n = 1..L /\ \A i \in 1..L : n[i] \in Names
  BY ScoringAssumption
<1>2. Take(n, MaxShown) = shown
  BY DEF Take
<1> HIDE DEF L, M
<1>3. k \in Nat /\ k <= L /\ k <= M /\ (k = M \/ (k = L /\ k < M))
  BY <1>1, LesserOfTwo
<1> HIDE DEF k
<1>4. \A i \in 1..k : n[i] \in Names
  BY <1>1, <1>3
<1>5. /\ shown \in Seq(Names) /\ Len(shown) = IF 1 <= k THEN k - 1 + 1 ELSE 0
      /\ \A i \in 1..(k - 1 + 1) : shown[i] = n[1 + i - 1]
  BY <1>3, <1>4, SubSeqProperties
<1>6. \A i \in (M + 1)..L : n[i] \in Names
  BY <1>1
<1>7. /\ reserve \in Seq(Names)
      /\ Len(reserve) = IF M + 1 <= L THEN L - (M + 1) + 1 ELSE 0
      /\ \A i \in 1..(L - (M + 1) + 1) : reserve[i] = n[M + 1 + i - 1]
  BY <1>1, <1>6, SubSeqProperties
<1> HIDE DEF shown, reserve
<1>8. Len(shown) = k /\ DOMAIN shown = 1..k /\ \A i \in 1..k : shown[i] = n[i]
  BY <1>3, <1>5
<1>9. Len(reserve) = L - k /\ \A i \in 1..(L - k) : reserve[i] = n[k + i]
  <2>1. CASE k = M
    BY <1>1, <1>3, <1>7, <2>1
  <2>2. CASE k = L /\ k < M
    BY <1>1, <1>3, <1>7, <2>2
  <2> QED
    BY <1>3, <2>1, <2>2
<1>10. DOMAIN reserve = 1..(L - k)
  BY <1>7, <1>9
<1>11. ToSet(shown) \cup ToSet(reserve) = ToSet(n)
  <2>1. k \in 0..L
    BY <1>1, <1>3
  <2>2. Parts(n, L, k, shown, reserve)
    BY <1>1, <1>8, <1>9, <1>10 DEF Parts
  <2> QED
    BY <1>1, <2>1, <2>2, SplitElements
<1>12. reserve # << >> => Len(shown) = M
  <2> SUFFICES ASSUME k # M PROVE reserve = << >>
    BY <1>8
  <2>1. Len(reserve) = 0
    BY <1>1, <1>3, <1>9
  <2> QED
    BY <1>7, <2>1
<1>13. Len(shown) + Len(reserve) = L
  BY <1>1, <1>3, <1>8, <1>9
<1> QED
  BY <1>2, <1>5, <1>7, <1>11, <1>12, <1>13 DEF CutOf, reserve, M, L

(* The reply is the cut of the ranked artists that find a slot.            *)
Genred(s, f) == Tagged(Ranked(s, f), aggregate_genres(s))
Diverse(s, f) == Kept(Genred(s, f), Slots(Genred(s, f)))

LEMMA PostProcessIs ==
    ASSUME NEW s, NEW f
    PROVE  LET n == NamesOf(Diverse(s, f))
           IN  /\ post_process(s, f).shown = Take(n, MaxShown)
               /\ post_process(s, f).reserve = SubSeq(n, MaxShown + 1, Len(n))
<1> DEFINE F(g) == rank_and_cut(s, g, f)
           g == aggregate_genres(s)
           n == NamesOf(Diverse(s, f))
           named == Mapped(enforce_diversity(SortedBy(Lifted(s, f), Better), g), LAMBDA a : a.name)
<1>1. {F(h) : h \in {g}} = {F(g)}
  OBVIOUS
<1>2. post_process(s, f) = rank_and_cut(s, g, f)
  BY <1>1, OfOne, Zenon DEF post_process
<1>3. enforce_diversity(Ranked(s, f), g) = Diverse(s, f)
  BY DiverseIs, Zenon DEF Diverse, Genred
<1>4. named = NamesOf(Diverse(s, f))
  BY <1>3, Zenon DEF Ranked, NamesOf
<1>5. rank_and_cut(s, g, f) =
          [shown |-> Take(named, MaxShown), reserve |-> SubSeq(named, MaxShown + 1, Len(named)),
           genres |-> DOMAIN g]
  BY Zenon DEF rank_and_cut, Lifted
<1> HIDE DEF g, named
<1>6. /\ rank_and_cut(s, g, f).shown = Take(named, MaxShown)
      /\ rank_and_cut(s, g, f).reserve = SubSeq(named, MaxShown + 1, Len(named))
  <2> DEFINE a == Take(named, MaxShown)
             b == SubSeq(named, MaxShown + 1, Len(named))
             c == DOMAIN g
             r == rank_and_cut(s, g, f)
  <2>1. r = [shown |-> a, reserve |-> b, genres |-> c]
    BY <1>5
  <2> HIDE DEF a, b, c, r
  <2>2. r.shown = a /\ r.reserve = b
    BY <2>1
  <2> QED
    BY <2>2 DEF a, b, r
<1> QED
  BY <1>2, <1>4, <1>6, Zenon

LEMMA DiverseElements ==
    ASSUME NEW s \in Seq(Entry), NEW f, CountsOf(f, Tags)
    PROVE  LET t == Genred(s, f)
               u == Diverse(s, f)
           IN  /\ t \in Seq(InGenre(aggregate_genres(s))) /\ Shuffled(t, s)
               /\ u \in Seq(InGenre(aggregate_genres(s))) /\ Drawn(u, t)
               /\ \A i \in Slots(t) : \E k \in DOMAIN u : u[k] = t[i]
<1> DEFINE r == Ranked(s, f)
           g == aggregate_genres(s)
           t == Genred(s, f)
           u == Diverse(s, f)
<1>1. r \in Seq(Entry) /\ Shuffled(r, s)
  BY RankedEntries
<1> HIDE DEF r, g
<1>2. t \in Seq(InGenre(g)) /\ DOMAIN t = DOMAIN r /\ \A i \in DOMAIN r : t[i].name = r[i].name
  BY <1>1, TaggedElements DEF Genred, r, g
<1> HIDE DEF t
<1>3. Shuffled(t, r)
  <2> DEFINE h == [i \in DOMAIN r |-> i]
  <2>1. h \in [DOMAIN r -> DOMAIN r] /\ \A i \in DOMAIN r : h[i] = i
    OBVIOUS
  <2> HIDE DEF h
  <2> QED
    BY <1>2, <2>1 DEF Shuffled, Drawn
<1>4. Shuffled(t, s)
  BY <1>1, <1>3, DrawnTwice DEF Shuffled
<1> DEFINE I == Slots(t)
<1>5. I \subseteq DOMAIN t
  BY DEF Slots
<1> HIDE DEF I
<1>6. u = Kept(t, I)
  BY DEF Diverse, t, I
<1> HIDE DEF u
<1>7. u \in Seq(InGenre(g)) /\ Drawn(u, t)
  BY <1>2, <1>5, <1>6, KeptDrawn
<1>8. ASSUME NEW i \in I PROVE \E k \in DOMAIN u : u[k] = t[i]
  <2>1. /\ Len(u) = Cardinality(I) /\ \E h : Along(u, t, I, h)
    BY <1>2, <1>5, <1>6, KeptIsVector
  <2>2. PICK h : Along(u, t, I, h)
    BY <2>1
  <2>3. DOMAIN u = 1..Cardinality(I)
    BY <1>7, <2>1
  <2> QED
    BY <2>2, <2>3 DEF Along, Increasing
<1> QED
  BY <1>2, <1>4, <1>7, <1>8 DEF t, u, g, I

(* The names of a list without repetition are as many as it is long.       *)
LEMMA NamesCounted ==
    ASSUME NEW g, NEW u \in Seq(InGenre(g)), Distinct(u)
    PROVE  /\ ToSet(NamesOf(u)) = {u[k].name : k \in DOMAIN u}
           /\ Cardinality(ToSet(NamesOf(u))) = Len(u) /\ Len(NamesOf(u)) = Len(u)
<1> DEFINE n == NamesOf(u)
           V == {u[k].name : k \in DOMAIN u}
           h == [k \in DOMAIN u |-> u[k].name]
<1>1. /\ n \in Seq(Names) /\ DOMAIN n = DOMAIN u /\ Len(n) = Len(u)
      /\ \A i \in DOMAIN u : n[i] = u[i].name
  BY NamesElements
<1> HIDE DEF n
<1>2. ToSet(n) = V
  BY <1>1, Zenon DEF ToSet
<1>3. h \in Surjection(DOMAIN u, V)
  BY DEF Surjection
<1>4. h \in Injection(DOMAIN u, V)
  <2>1. \A k, l \in DOMAIN u : h[k] = h[l] => k = l
    BY DEF Distinct
  <2> QED
    BY <2>1 DEF Injection, IsInjective
<1>5. IsFiniteSet(DOMAIN u) /\ Cardinality(DOMAIN u) = Len(u)
  <2>1. DOMAIN u = 1..Len(u) /\ Len(u) \in Nat
    OBVIOUS
  <2> QED
    BY <2>1, FS_Interval
<1> HIDE DEF h, V
<1>6. Cardinality(V) = Len(u)
  BY <1>3, <1>4, <1>5, FS_Surjection
<1> QED
  BY <1>1, <1>2, <1>6 DEF n, V

(* Whoever finds no slot has enough of the same genre above that found     *)
(* one: those above the first of the genre that found none.                *)
LEMMA SlotsTaken ==
    ASSUME NEW T, NEW t \in Seq(T), NEW k \in DOMAIN t \ Slots(t)
    PROVE  \E A \in SUBSET Slots(t) : /\ IsFiniteSet(A) /\ Cardinality(A) >= GenreSlots
                                      /\ \A j \in A : t[j].genre = t[k].genre
<1> DEFINE S == {j \in DOMAIN t \ Slots(t) : t[j].genre = t[k].genre}
<1>1. DOMAIN t = 1..Len(t) /\ Len(t) \in Nat
  OBVIOUS
<1>2. S \subseteq Nat /\ S # {}
  BY <1>1
<1>3. PICK first \in S : \A j \in S : first <= j
  <2> HIDE DEF S
  <2> QED
    BY <1>2, LeastNumber
<1> DEFINE A == Above(t, first)
<1>4. A \subseteq DOMAIN t /\ \A j \in A : j < first /\ t[j].genre = t[k].genre
  BY <1>1 DEF Above
<1>5. ASSUME NEW j \in A PROVE j \in Slots(t)
  <2>1. j \in Nat /\ first \in Nat /\ ~(first <= j)
    BY <1>1, <1>4
  <2>2. j \notin S
    BY <1>3, <2>1
  <2> QED
    BY <1>4, <2>2
<1>6. IsFiniteSet(A) /\ Cardinality(A) \in Nat
  <2> HIDE DEF A
  <2> QED
    BY <1>4, VectorFinite
<1>7. Cardinality(A) >= GenreSlots
  <2>1. ~(Cardinality(A) < GenreSlots)
    BY DEF Slots
  <2>2. GenreSlots \in Nat
    BY ScoringAssumption
  <2> HIDE DEF A
  <2> QED
    BY <1>6, <2>1, <2>2
<1> HIDE DEF A
<1> QED
  BY <1>4, <1>5, <1>6, <1>7

(* What the reply to a scored list without the vetoed offers.              *)
Offers(r, u) ==
    LET names == ToSet(r.shown) \cup ToSet(r.reserve)
    IN  /\ names = {u[k].name : k \in DOMAIN u}
        /\ Cardinality(names) = Len(r.shown) + Len(r.reserve)
        /\ r.reserve # << >> => Len(r.shown) = MaxShown
        /\ names \subseteq Names

LEMMA OffersDiverse ==
    ASSUME NEW s \in Seq(Entry), NEW f, CountsOf(f, Tags), Distinct(s), NEW r, r = post_process(s, f)
    PROVE  Offers(r, Diverse(s, f)) /\ Drawn(Diverse(s, f), s)
<1> DEFINE t == Genred(s, f)
           u == Diverse(s, f)
           n == NamesOf(u)
           g == aggregate_genres(s)
<1>1. /\ t \in Seq(InGenre(g)) /\ Drawn(t, s)
      /\ u \in Seq(InGenre(g)) /\ Drawn(u, t)
  BY DiverseElements DEF Shuffled
<1>2. r.shown = Take(n, MaxShown) /\ r.reserve = SubSeq(n, MaxShown + 1, Len(n))
  BY PostProcessIs
<1> HIDE DEF g, u, t
<1>3. Drawn(u, s)
  BY <1>1, DrawnTwice
<1>4. Distinct(u)
  BY <1>3, DrawnKeeps
<1>5. /\ ToSet(n) = {u[k].name : k \in DOMAIN u}
      /\ Cardinality(ToSet(n)) = Len(u) /\ Len(n) = Len(u) /\ n \in Seq(Names)
  BY <1>1, <1>4, NamesCounted, NamesElements
<1> HIDE DEF n
<1>6. CutOf(n, r.shown, r.reserve)
  BY <1>2, <1>5, CutIsSplit
<1>7. ToSet(n) \subseteq Names
  BY <1>5 DEF ToSet
<1> QED
  BY <1>3, <1>5, <1>6, <1>7 DEF CutOf, Offers, u

(* What is ranked stays distinct and unknown to the user, and the reply is *)
(* what is cut from it.                                                    *)
Answered ==
    /\ stage \in {"vetoes", "done"} =>
           scored \in Seq(Entry) /\ Distinct(scored) /\ Unknown(scored, weights, threshold)
    /\ stage = "done" => reply = post_process(WithoutVetoed(scored, vetoed), profile)

LEMMA AnsweredStep == ASSUME Typed, Answered, [Next]_vars PROVE Answered'
<1>1. CASE UNCHANGED vars
  BY <1>1, Zenon DEF vars, Answered, setting, seedVars, scoreVars, Unknown, Distinct
<1>2. CASE stage' \notin {"vetoes", "done"}
  BY <1>2 DEF Answered
<1>3. CASE Score
  <2>1. /\ scored' = score_all(raw, weights, tagPool, profile, threshold)
        /\ stage' = "vetoes" /\ UNCHANGED <<weights, threshold>>
    BY <1>3 DEF Score, Send, seedVars
  <2>2. raw \in Seq(Answers) /\ CountsOf(weights, Names)
    BY DEF Typed, TypeOK, Answers, CountsOf
  <2> DEFINE t == score_all(raw, weights, tagPool, profile, threshold)
  <2>3. t \in Seq(Entry) /\ Distinct(t) /\ Unknown(t, weights, threshold)
    BY <2>2, RankedList
  <2> HIDE DEF t
  <2>4. scored' = t
    BY <2>1 DEF t
  <2> QED
    BY <2>1, <2>3, <2>4 DEF Answered, Distinct, Unknown
<1>4. CASE score_and_rank
  <2>1. stage = "vetoes" /\ stage' = "done" /\ UNCHANGED <<weights, threshold, scored, profile>>
    BY <1>4, Zenon DEF score_and_rank, Send, seedVars
  <2>2. reply' = post_process(WithoutVetoed(scored, vetoed'), profile)
    BY <1>4, Zenon DEF score_and_rank
  <2>3. reply' = post_process(WithoutVetoed(scored, vetoed), profile)'
    BY <2>1, <2>2
  <2> QED
    BY <2>1, <2>3, Zenon DEF Answered, Distinct, Unknown
<1>5. CASE SeedStep \/ TagStep \/ ArmStep
  <2>1. stage' \notin {"vetoes", "done"}
    BY <1>5, Zenon DEF SeedStep, ChartAnswer, SeedsChosen, UserAnswer, TagStep, SeedInfo,
            derive_genre_tags, fetch_tag_artists, ArmStep, StartArms, SimilarAnswer, LbBudgetEnds,
            ArmsDone, Send
  <2> QED
    BY <1>2, <2>1
<1>6. CASE \/ \E s \in Names : ProfileAnswer(s)
           \/ FetchPages
           \/ \E k \in Keys : PageAnswer(k)
  <2>1. stage' \notin {"vetoes", "done"}
    BY <1>6, Zenon DEF ProfileAnswer, FetchPages, PageAnswer, Send
  <2> QED
    BY <1>2, <2>1
<1>7. CASE \/ \E c \in pending : CallFails(c)
           \/ \E s \in Names : LbAnswer(s)
  <2>1. stage' \notin {"vetoes", "done"}
    BY <1>7, Zenon DEF CallFails, LbAnswer, Send
  <2> QED
    BY <1>2, <2>1
<1> QED
  BY <1>1, <1>3, <1>4, <1>5, <1>6, <1>7 DEF Next, Progress, ScoreStep

LEMMA InvAlways == Spec => [](Typed /\ Pool /\ Answered)
<1>1. Init => Typed /\ Pool /\ Answered
  <2>1. Init => Answered
    BY DEF Init, Answered
  <2> QED
    BY <2>1, TypedInit, PoolInit
<1>2. Typed /\ Pool /\ Answered /\ [Next]_vars => Typed' /\ Pool' /\ Answered'
  BY TypedStep, PoolStep, AnsweredStep
<1> QED
  BY <1>1, <1>2, PTL DEF Spec

LEMMA AnsweredIsFair == Typed /\ Answered => NobodyTwiceNorKnown
<1> SUFFICES ASSUME Typed, Answered, stage = "done" PROVE NobodyTwiceNorKnown
  BY DEF NobodyTwiceNorKnown
<1> DEFINE s == WithoutVetoed(scored, vetoed)
           u == Diverse(s, profile)
<1>1. /\ scored \in Seq(Entry) /\ Distinct(scored) /\ Unknown(scored, weights, threshold)
      /\ reply = post_process(s, profile)
  BY DEF Answered
<1>2. s \in Seq(Entry) /\ Drawn(s, scored)
  BY <1>1, WithoutVetoedDrawn
<1>3. CountsOf(profile, Tags)
  BY DEF Typed, TypeOK, CountsOf
<1> HIDE DEF s
<1>4. Distinct(s) /\ Unknown(s, weights, threshold)
  BY <1>1, <1>2, DrawnKeeps
<1>5. /\ Offered = {u[k].name : k \in DOMAIN u}
      /\ Cardinality(Offered) = Len(reply.shown) + Len(reply.reserve)
      /\ Drawn(u, s)
  <2>1. Offers(reply, u) /\ Drawn(u, s)
    BY <1>1, <1>2, <1>3, <1>4, OffersDiverse
  <2> HIDE DEF u
  <2> QED
    BY <2>1 DEF Offers, Offered
<1>6. Distinct(u) /\ Unknown(u, weights, threshold)
  BY <1>4, <1>5, DrawnKeeps
<1> HIDE DEF u
<1>7. \A m, n \in Offered : Norm[m] = Norm[n] => m = n
  BY <1>5, <1>6 DEF Distinct
<1>8. \A n \in Offered : /\ \A w \in DOMAIN weights : Norm[w] # Norm[n]
                         /\ ~TooPlayed(n, threshold)
  BY <1>5, <1>6 DEF Unknown
<1> QED
  BY <1>5, <1>7, <1>8 DEF NobodyTwiceNorKnown

(* A reply offers nobody twice, also when autocorrect leads two candidates *)
(* to one page, and nobody whom the user listens to: no seed under any     *)
(* spelling of its name, nobody played beyond the threshold (scoring.rs:   *)
(* filter_and_score, dedup_scored_by_name).                                *)
THEOREM NobodyOfferedTwice == Spec => []NobodyTwiceNorKnown
  BY InvAlways, AnsweredIsFair, PTL

LEMMA AnsweredWastesNobody == Typed /\ Answered => NobodyWasted
<1> DEFINE s == WithoutVetoed(scored, vetoed)
           u == Diverse(s, profile)
           t == Genred(s, profile)
           g == aggregate_genres(s)
           alike(n) == {m \in Offered : primary_genre(m, g) = primary_genre(n, g)}
<1> SUFFICES ASSUME Typed, Answered, stage = "done"
             PROVE  /\ \A i \in DOMAIN s : s[i].name \notin Offered =>
                           Cardinality(alike(s[i].name)) >= GenreSlots
                    /\ reply.reserve # None => Len(reply.shown) = MaxShown
  BY DEF NobodyWasted
<1>1. scored \in Seq(Entry) /\ Distinct(scored) /\ reply = post_process(s, profile)
  BY DEF Answered
<1>2. s \in Seq(Entry) /\ Drawn(s, scored)
  BY <1>1, WithoutVetoedDrawn
<1>3. CountsOf(profile, Tags)
  BY DEF Typed, TypeOK, CountsOf
<1> HIDE DEF s
<1>4. Distinct(s)
  BY <1>1, <1>2, DrawnKeeps
<1>5. /\ Offered = {u[k].name : k \in DOMAIN u} /\ Offered \subseteq Names
      /\ reply.reserve # << >> => Len(reply.shown) = MaxShown
  <2>1. Offers(reply, u)
    BY <1>1, <1>2, <1>3, <1>4, OffersDiverse
  <2> HIDE DEF u
  <2> QED
    BY <2>1 DEF Offers, Offered
<1>6. /\ t \in Seq(InGenre(g)) /\ Drawn(t, s) /\ Drawn(s, t)
      /\ \A i \in Slots(t) : \E k \in DOMAIN u : u[k] = t[i]
  BY <1>2, <1>3, DiverseElements DEF Shuffled
<1>7. Distinct(t)
  BY <1>4, <1>6, DrawnKeeps
<1> HIDE DEF t, u, g
<1>8. \A j \in DOMAIN t : t[j].name \in Names /\ t[j].genre = primary_genre(t[j].name, g)
  BY <1>6, ElementType, InGenreFields
<1>9. \A j \in Slots(t) : t[j].name \in Offered
  BY <1>5, <1>6
<1>10. ASSUME NEW i \in DOMAIN s, s[i].name \notin Offered
       PROVE  Cardinality(alike(s[i].name)) >= GenreSlots
  <2>1. PICK k \in DOMAIN t : t[k].name = s[i].name
    BY <1>6 DEF Drawn
  <2>2. k \in DOMAIN t \ Slots(t)
    BY <1>9, <1>10, <2>1
  <2>3. PICK A \in SUBSET Slots(t) : /\ IsFiniteSet(A) /\ Cardinality(A) >= GenreSlots
                                     /\ \A j \in A : t[j].genre = t[k].genre
    BY <1>6, <2>2, SlotsTaken
  <2> DEFINE B == alike(s[i].name)
             h == [j \in A |-> t[j].name]
  <2>4. \A j \in A : j \in DOMAIN t /\ t[j].name \in B
    BY <1>8, <1>9, <2>1, <2>3 DEF Slots
  <2>5. IsFiniteSet(B)
    <3>1. B \in SUBSET Names
      BY <1>5
    <3> HIDE DEF B
    <3> QED
      BY <3>1, FS_Subset, ScoringAssumption
  <2>6. h \in Injection(A, B)
    <3>1. h \in [A -> B]
      BY <2>4
    <3>2. \A j, l \in A : h[j] = h[l] => j = l
      BY <1>7, <2>4 DEF Distinct
    <3> QED
      BY <3>1, <3>2 DEF Injection, IsInjective
  <2> HIDE DEF h, B
  <2>7. Cardinality(A) <= Cardinality(B) /\ Cardinality(A) \in Nat /\ Cardinality(B) \in Nat
    BY <2>3, <2>5, <2>6, FS_Injection, FS_CardinalityType
  <2>8. GenreSlots \in Nat
    BY ScoringAssumption
  <2>9. Cardinality(B) >= GenreSlots
    BY <2>3, <2>7, <2>8
  <2> QED
    BY <2>9 DEF B
<1> QED
  BY <1>5, <1>10 DEF None

(* Diversity and the cap waste nothing: whoever is ranked, not vetoed and  *)
(* not offered is of a genre whose slots are taken, and the reserve is     *)
(* empty unless the reply is full (scoring.rs: enforce_diversity,          *)
(* post_process).                                                          *)
THEOREM WastesNobody == Spec => []NobodyWasted
  BY InvAlways, AnsweredWastesNobody, PTL

-----------------------------------------------------------------------------
(* What the answers of a stage add up to, in whatever order they come.     *)

LEMMA WeightOfAbsent == ASSUME NEW f, NEW x, x \notin DOMAIN f PROVE WeightOf(f, x) = 0
  BY DEF WeightOf

LEMMA AddedUpNone == ASSUME NEW g, DOMAIN g = {} PROVE AddedUp(g) = Empty
<1> DEFINE f == AddedUp(g)
<1>1. f = [x \in {} |-> SumOf([c \in DOMAIN g |-> WeightOf(g[c], x)])]
  BY DEF AddedUp
<1> QED
  BY <1>1 DEF Empty

(* The calls without one, and that one's gain.                             *)
LEMMA AddedUpMore ==
    ASSUME NEW S, NEW g, IsFiniteSet(DOMAIN g), \A c \in DOMAIN g : CountsOf(g[c], S),
           NEW d \in DOMAIN g, NEW h, DOMAIN h = DOMAIN g \ {d}, \A c \in DOMAIN h : h[c] = g[c]
    PROVE  AddedUp(g) = Gained(AddedUp(h), g[d])
<1> DEFINE G(x) == [c \in DOMAIN g |-> WeightOf(g[c], x)]
           H(x) == [c \in DOMAIN h |-> WeightOf(h[c], x)]
           X == UNION {DOMAIN g[c] : c \in DOMAIN g}
           Y == UNION {DOMAIN h[c] : c \in DOMAIN h}
<1>1. X = Y \cup DOMAIN g[d]
  OBVIOUS
<1>2. ASSUME NEW x PROVE SumOf(G(x)) = WeightOf(g[d], x) + SumOf(H(x)) /\ Counts(H(x))
  <2>1. \A c \in DOMAIN g : WeightOf(g[c], x) \in Nat
    BY WeightOfCounts
  <2> DEFINE a == G(x)
             b == H(x)
  <2>2. Counts(a)
    BY <2>1 DEF Counts
  <2>3. d \in DOMAIN a /\ DOMAIN b = DOMAIN a \ {d} /\ a[d] = WeightOf(g[d], x)
    OBVIOUS
  <2>4. \A c \in DOMAIN b : b[c] = a[c]
    OBVIOUS
  <2> HIDE DEF a, b
  <2>5. SumOf(a) = a[d] + SumOf(b)
    BY <2>2, <2>3, <2>4, SumOfMore
  <2>6. Counts(b)
    BY <2>2, <2>3, <2>4, SumOfSome
  <2> QED
    BY <2>3, <2>5, <2>6 DEF a, b
<1>3. ASSUME NEW x PROVE WeightOf(AddedUp(h), x) = SumOf(H(x))
  <2>1. CASE x \in Y
    BY <2>1 DEF AddedUp, WeightOf
  <2>2. CASE x \notin Y
    <3>1. WeightOf(AddedUp(h), x) = 0
      BY <2>2 DEF AddedUp, WeightOf
    <3>2. \A c \in DOMAIN h : x \notin DOMAIN h[c]
      BY <2>2
    <3> DEFINE b == H(x)
    <3>3. \A c \in DOMAIN b : b[c] = 0
      BY <3>2, WeightOfAbsent
    <3>4. IsFiniteSet(DOMAIN b)
      <4>1. DOMAIN b \subseteq DOMAIN g
        OBVIOUS
      <4> HIDE DEF b
      <4> QED
        BY <4>1, FS_Subset
    <3> HIDE DEF b
    <3>5. SumOf(b) = 0
      BY <3>3, <3>4, SumOfNoughts
    <3> QED
      BY <3>1, <3>5 DEF b
  <2> QED
    BY <2>1, <2>2
<1>4. ASSUME NEW x PROVE SumOf(G(x)) = WeightOf(AddedUp(h), x) + WeightOf(g[d], x)
  <2>1. WeightOf(g[d], x) \in Nat
    BY WeightOfCounts
  <2> DEFINE b == H(x)
             m == SumOf(G(x))
             n == WeightOf(g[d], x)
  <2>2. SumOf(b) \in Nat
    <3>1. Counts(b)
      BY <1>2
    <3> HIDE DEF b
    <3> QED
      BY <3>1, SumIsNat
  <2>3. m = n + SumOf(b)
    BY <1>2
  <2> HIDE DEF b, m, n
  <2>4. m = SumOf(b) + n
    BY <2>1, <2>2, <2>3 DEF n
  <2> QED
    BY <1>3, <2>4 DEF b, m, n
<1>5. AddedUp(g) = [x \in X |-> SumOf(G(x))]
  BY DEF AddedUp
<1>6. DOMAIN AddedUp(h) = Y
  BY DEF AddedUp
<1>7. Gained(AddedUp(h), g[d]) = [x \in Y \cup DOMAIN g[d] |-> WeightOf(AddedUp(h), x) + WeightOf(g[d], x)]
  BY <1>6 DEF Gained
<1> DEFINE V(x) == WeightOf(AddedUp(h), x) + WeightOf(g[d], x)
           U(x) == SumOf(G(x))
<1>8. \A x : U(x) = V(x)
  BY <1>4
<1> HIDE DEF X, Y, G, U, V
<1>9. AddedUp(g) = [x \in X |-> U(x)] /\ Gained(AddedUp(h), g[d]) = [x \in X |-> V(x)]
  BY <1>1, <1>5, <1>7 DEF U, V
<1> QED
  BY <1>8, <1>9

-----------------------------------------------------------------------------
LEMMA NumberedTags == Keys \subseteq Int /\ Tags \subseteq Int
<1>1. Keys \cup Tags \subseteq Int
  BY DiscoveryAssumption
<1> QED
  BY <1>1

(* The rankings of the run: as names, keys and tags are numbers, no two    *)
(* tie, and so there is one way to cut.                                    *)

HeaviestSeeds(S, w, n) == Best(S, n, LAMBDA s, t : HeavierSeed(w, s, t))
MostFrequent(f, n) == Best(DOMAIN f, n, LAMBDA t, u : MoreFrequent(f, t, u))

LEMMA HeavierSeedOrders ==
    ASSUME NEW w, CountsOf(w, Names)
    PROVE  TotalOrder(DOMAIN w, {p \in (DOMAIN w) \X (DOMAIN w) : HeavierSeed(w, p[1], p[2])})
<1> DEFINE R == {p \in (DOMAIN w) \X (DOMAIN w) : HeavierSeed(w, p[1], p[2])}
<1>1. \A s \in DOMAIN w : s \in Int /\ w[s] \in Int
  BY ScoringAssumption DEF CountsOf
<1>2. \A s, t \in DOMAIN w : <<s, t>> \in R <=> w[s] > w[t] \/ (w[s] = w[t] /\ s < t)
  BY DEF HeavierSeed
<1> HIDE DEF R
<1>3. TotalOrder(DOMAIN w, R)
  BY <1>1, <1>2 DEF TotalOrder
<1> QED
  BY <1>3 DEF R

LEMMA SeedCutIsBest ==
    ASSUME NEW w, CountsOf(w, Names), NEW n \in Nat, NEW top \in SeedCuts(w, n)
    PROVE  top \subseteq DOMAIN w /\ top = HeaviestSeeds(DOMAIN w, w, n)
<1> DEFINE S == DOMAIN w
           R == {p \in S \X S : HeavierSeed(w, p[1], p[2])}
<1>1. IsFiniteSet(S)
  BY FS_Subset, ScoringAssumption DEF CountsOf
<1>2. TotalOrder(S, R)
  BY HeavierSeedOrders
<1>3. /\ top \in kSubset(Min({n, Cardinality(S)}), S)
      /\ \A x \in top, y \in S \ top : ~HeavierSeed(w, y, x)
  BY DEF SeedCuts, Cuts
<1>4. \A x \in top, y \in S \ top : <<y, x>> \notin R
  BY <1>3
<1>5. top = {x \in S : Cardinality({y \in S : <<y, x>> \in R}) < n}
  <2> HIDE DEF R, S
  <2> QED
    BY <1>1, <1>2, <1>3, <1>4, CutIsBest
<1>6. ASSUME NEW x \in S PROVE {y \in S : <<y, x>> \in R} = {y \in S : HeavierSeed(w, y, x)}
  OBVIOUS
<1>7. top = {x \in S : Cardinality({y \in S : HeavierSeed(w, y, x)}) < n}
  <2> HIDE DEF R
  <2> QED
    BY <1>5, <1>6
<1> QED
  BY <1>7 DEF Best, HeaviestSeeds

(* The ranking of a part of the seeds is the one of all of them.           *)
LEMMA BestOfSome ==
    ASSUME NEW w, NEW m, NEW n, DOMAIN w \subseteq DOMAIN m, \A s \in DOMAIN w : w[s] = m[s]
    PROVE  HeaviestSeeds(DOMAIN w, w, n) = HeaviestSeeds(DOMAIN w, m, n)
<1> DEFINE S == DOMAIN w
<1>1. ASSUME NEW x \in S PROVE {y \in S : HeavierSeed(w, y, x)} = {y \in S : HeavierSeed(m, y, x)}
  BY DEF HeavierSeed
<1>2. {x \in S : Cardinality({y \in S : HeavierSeed(w, y, x)}) < n}
          = {x \in S : Cardinality({y \in S : HeavierSeed(m, y, x)}) < n}
  BY <1>1
<1> QED
  BY <1>2 DEF Best, HeaviestSeeds

LEMMA TagCutIsBest ==
    ASSUME NEW f, CountsOf(f, Tags), NEW n \in Nat,
           NEW top \in TagCuts(f, n)
    PROVE  top = MostFrequent(f, n)
<1> DEFINE S == DOMAIN f
           R == {p \in S \X S : MoreFrequent(f, p[1], p[2])}
<1>1. IsFiniteSet(S)
  BY FS_Subset, DiscoveryAssumption DEF CountsOf
<1>2. TotalOrder(S, R)
  <2>1. \A s \in S : s \in Int /\ f[s] \in Int
    BY NumberedTags DEF CountsOf
  <2>2. \A s, t \in S : <<s, t>> \in R <=> f[s] > f[t] \/ (f[s] = f[t] /\ s < t)
    BY DEF MoreFrequent
  <2> HIDE DEF R, S
  <2> QED
    BY <2>1, <2>2 DEF TotalOrder
<1>3. /\ top \in kSubset(Min({n, Cardinality(S)}), S)
      /\ \A x \in top, y \in S \ top : ~MoreFrequent(f, y, x)
  BY DEF TagCuts, Cuts
<1>4. \A x \in top, y \in S \ top : <<y, x>> \notin R
  BY <1>3
<1>5. top = {x \in S : Cardinality({y \in S : <<y, x>> \in R}) < n}
  <2> HIDE DEF R, S
  <2> QED
    BY <1>1, <1>2, <1>3, <1>4, CutIsBest
<1>6. ASSUME NEW x \in S PROVE {y \in S : <<y, x>> \in R} = {y \in S : MoreFrequent(f, y, x)}
  OBVIOUS
<1>7. top = {x \in S : Cardinality({y \in S : MoreFrequent(f, y, x)}) < n}
  <2> HIDE DEF R
  <2> QED
    BY <1>5, <1>6
<1> QED
  BY <1>7 DEF Best, MostFrequent

(* Candidates are counted in finite sets of pushes.                        *)
LEMMA CountIsNat == ASSUME Typed, NEW k PROVE Count(k) \in Nat
<1>1. /\ IsFiniteSet(Keys) /\ IsFiniteSet(Names)
  BY DiscoveryAssumption, ScoringAssumption
<1>2. IsFiniteSet((Keys \X Names) \X Names)
  BY <1>1, FS_Product
<1> DEFINE flat(p) == <<<<p[1], p[2]>>, p[3]>>
           P == {flat(p) : p \in lf}
           Q == {p \in lf : p[1] = k}
<1>3. \A p \in lf \cup lb : p = <<p[1], p[2], p[3]>> /\ p[1] \in Keys /\ p[2] \in Names /\ p[3] \in Names
  BY DEF Typed, TypeOK
<1>4. IsFiniteSet(Q)
  <2> DEFINE g == [q \in {flat(p) : p \in Q} |-> <<q[1][1], q[1][2], q[2]>>]
  <2>1. {flat(p) : p \in Q} \subseteq (Keys \X Names) \X Names
    BY <1>3
  <2>2. IsFiniteSet({flat(p) : p \in Q})
    <3> HIDE DEF Q, flat
    <3> QED
      BY <1>2, <2>1, FS_Subset
  <2>3. g \in Surjection({flat(p) : p \in Q}, Q)
    <3>1. \A p \in Q : g[flat(p)] = p
      BY <1>3
    <3>2. g \in [{flat(p) : p \in Q} -> Q]
      BY <1>3
    <3> HIDE DEF g, flat
    <3> QED
      BY <3>1, <3>2 DEF Surjection
  <2> HIDE DEF g, flat, Q
  <2> QED
    BY <2>2, <2>3, FS_Surjection
<1>5. IsFiniteSet(Recommenders(k))
  <2>1. Recommenders(k) \subseteq Names
    BY <1>3 DEF Recommenders
  <2> QED
    BY <1>1, <2>1, FS_Subset
<1> HIDE DEF Q
<1>6. Cardinality(Q) \in Nat /\ Cardinality(Recommenders(k)) \in Nat
  BY <1>4, <1>5, FS_CardinalityType
<1> QED
  BY <1>6 DEF Count, Q

LEMMA CandidatesAreKeys == ASSUME Typed PROVE Candidates \subseteq Keys /\ IsFiniteSet(Candidates)
<1>1. Candidates \subseteq Keys
  BY DEF Candidates, Typed, TypeOK
<1> QED
  BY <1>1, FS_Subset, DiscoveryAssumption

LEMMA CandidateCutIsBest ==
    ASSUME Typed, NEW top \in Cuts(Candidates, MaxInfo, MoreRecommended)
    PROVE  top = Best(Candidates, MaxInfo, MoreRecommended)
<1> DEFINE S == Candidates
           R == {p \in S \X S : MoreRecommended(p[1], p[2])}
<1>1. IsFiniteSet(S)
  BY CandidatesAreKeys
<1>2. TotalOrder(S, R)
  <2>1. \A k \in S : k \in Int /\ Count(k) \in Nat
    BY CandidatesAreKeys, CountIsNat, NumberedTags
  <2>2. \A k, l \in S : <<k, l>> \in R <=> Count(k) > Count(l) \/ (Count(k) = Count(l) /\ k < l)
    BY DEF MoreRecommended
  <2> HIDE DEF R, S
  <2> QED
    BY <2>1, <2>2 DEF TotalOrder
<1>3. /\ top \in kSubset(Min({MaxInfo, Cardinality(S)}), S)
      /\ \A x \in top, y \in S \ top : ~MoreRecommended(y, x)
  BY DEF Cuts
<1>4. \A x \in top, y \in S \ top : <<y, x>> \notin R
  BY <1>3
<1>5. top = {x \in S : Cardinality({y \in S : <<y, x>> \in R}) < MaxInfo}
  <2>1. MaxInfo \in Nat
    BY DiscoveryAssumption
  <2> HIDE DEF R, S
  <2> QED
    BY <1>1, <1>2, <1>3, <1>4, <2>1, CutIsBest
<1>6. ASSUME NEW x \in S PROVE {y \in S : <<y, x>> \in R} = {y \in S : MoreRecommended(y, x)}
  OBVIOUS
<1>7. top = {x \in S : Cardinality({y \in S : MoreRecommended(y, x)}) < MaxInfo}
  <2> HIDE DEF R
  <2> QED
    BY <1>5, <1>6
<1> QED
  BY <1>7 DEF Best

-----------------------------------------------------------------------------
(* The order in which the pages come in does not matter to the ranking.    *)

(* Pages that share a key are on the same side of the ceiling, and the     *)
(* score of a page that comes in twice tells its seeds apart.              *)
Settled(r) ==
    \A i, j \in DOMAIN r :
        /\ Norm[r[i].page] = Norm[r[j].page] =>
              (Info[r[i].page].listeners > Ceiling <=> Info[r[j].page].listeners > Ceiling)
        /\ r[i].page = r[j].page /\ i # j => Info[r[i].page].stickiness > 0

LEMMA SettledPermuted == ASSUME NEW r, NEW t, Permuted(t, r), Settled(r) PROVE Settled(t)
<1>1. PICK f : Permutes(f, t, r)
  BY DEF Permuted
<1>2. \A i \in DOMAIN t : f[i] \in DOMAIN r /\ t[i] = r[f[i]]
  BY <1>1 DEF Permutes
<1>3. \A i, j \in DOMAIN t : i # j => f[i] # f[j]
  BY <1>1 DEF Permutes
<1> QED
  BY <1>2, <1>3 DEF Settled

(* Then the last page of a key says what each of them says.                *)
LEMMA StarOfAny ==
    ASSUME NEW r \in Seq(Answers), Settled(r), NEW page
    PROVE  StarInside(page, r) <=>
               \E part \in Info[page].parts, i \in DOMAIN r :
                   Norm[r[i].page] = Norm[part] /\ Info[r[i].page].listeners > Ceiling
<1>1. ASSUME NEW part \in Info[page].parts, NEW i \in DOMAIN r,
             Norm[r[i].page] = Norm[part], Info[r[i].page].listeners > Ceiling
      PROVE  StarInside(page, r)
  <2> DEFINE I == {j \in DOMAIN r : Norm[r[j].page] = Norm[part]}
  <2>1. I \subseteq DOMAIN r /\ I # {}
    BY <1>1
  <2>2. IsFiniteSet(I) /\ I \subseteq Int
    <3> HIDE DEF I
    <3>1. DOMAIN r \subseteq Int
      OBVIOUS
    <3> QED
      BY <2>1, <3>1, VectorFinite
  <2>3. PICK l \in I : \A j \in I : l >= j
    <3> HIDE DEF I
    <3> QED
      BY <2>1, <2>2, GreatestNumber
  <2>4. \A j \in I : j <= l
    BY <2>2, <2>3
  <2>5. Info[r[l].page].listeners > Ceiling
    BY <1>1, <2>1, <2>3 DEF Settled
  <2> QED
    BY <1>1, <2>3, <2>4, <2>5 DEF StarInside
<1> QED
  BY <1>1 DEF StarInside

LEMMA EligiblePermuted ==
    ASSUME NEW r \in Seq(Answers), NEW t \in Seq(Answers), Permuted(t, r), Settled(r),
           NEW page, NEW W, NEW th
    PROVE  Eligible(page, t, W, th) <=> Eligible(page, r, W, th)
<1>1. PICK f : Permutes(f, t, r)
  BY DEF Permuted
<1>2. Settled(t)
  BY SettledPermuted
<1>3. \A i \in DOMAIN t : f[i] \in DOMAIN r /\ t[i] = r[f[i]]
  BY <1>1 DEF Permutes
<1>4. \A i \in DOMAIN r : \E k \in DOMAIN t : t[k] = r[i]
  BY <1>1 DEF Permutes
<1> DEFINE Star(u) == \E part \in Info[page].parts, i \in DOMAIN u :
                         Norm[u[i].page] = Norm[part] /\ Info[u[i].page].listeners > Ceiling
<1>5. StarInside(page, t) <=> StarInside(page, r)
  <2>1. StarInside(page, t) <=> Star(t)
    BY <1>2, StarOfAny
  <2>2. StarInside(page, r) <=> Star(r)
    BY StarOfAny
  <2> DEFINE At(u, part, i) == Norm[u[i].page] = Norm[part] /\ Info[u[i].page].listeners > Ceiling
  <2>3. ASSUME NEW part \in Info[page].parts, NEW i \in DOMAIN t, At(t, part, i) PROVE Star(r)
    <3>1. f[i] \in DOMAIN r /\ At(r, part, f[i])
      BY <1>3, <2>3
    <3> QED
      BY <3>1
  <2>4. ASSUME NEW part \in Info[page].parts, NEW i \in DOMAIN r, At(r, part, i) PROVE Star(t)
    <3>1. PICK k \in DOMAIN t : t[k] = r[i]
      BY <1>4
    <3>2. At(t, part, k)
      BY <2>4, <3>1
    <3> QED
      BY <3>2
  <2>5. Star(t) <=> Star(r)
    BY <2>3, <2>4
  <2> HIDE DEF Star
  <2> QED
    BY <2>1, <2>2, <2>5
<1> QED
  BY <1>5 DEF Eligible

(* What is rated: the eligible pages, in the order in which they came.     *)
Chances(r, W, th) == Picked(r, LAMBDA u, i : Eligible(u[i].page, u, W, th))

LEMMA ChancesAre ==
    ASSUME NEW r, NEW W, NEW th
    PROVE  Chances(r, W, th) = Kept(r, {i \in DOMAIN r : Eligible(r[i].page, r, W, th)})
<1> DEFINE F(u) == Kept(u, {i \in DOMAIN u : Eligible(u[i].page, u, W, th)})
<1>1. {F(u) : u \in {r}} = {F(r)}
  OBVIOUS
<1> QED
  BY <1>1, OfOne, Zenon DEF Chances, Picked

LEMMA ChancesPermuted ==
    ASSUME NEW r \in Seq(Answers), NEW t \in Seq(Answers), Permuted(t, r), Settled(r), NEW W, NEW th
    PROVE  Permuted(Chances(t, W, th), Chances(r, W, th))
<1> DEFINE P == {a \in Answers : Eligible(a.page, r, W, th)}
           I == {i \in DOMAIN r : Eligible(r[i].page, r, W, th)}
           J == {i \in DOMAIN t : Eligible(t[i].page, t, W, th)}
<1>1. /\ \A i \in DOMAIN r : r[i] \in Answers
      /\ \A i \in DOMAIN t : t[i] \in Answers
  BY ElementType
<1>2. I = {i \in DOMAIN r : r[i] \in P}
  BY <1>1
<1>3. J = {i \in DOMAIN t : t[i] \in P}
  BY <1>1, EligiblePermuted
<1>4. Chances(r, W, th) = Kept(r, I) /\ Chances(t, W, th) = Kept(t, J)
  BY ChancesAre
<1> HIDE DEF P, I, J
<1> QED
  BY <1>2, <1>3, <1>4, KeptOfPermuted

LEMMA ChancesDrawn ==
    ASSUME NEW r \in Seq(Answers), Settled(r), NEW W, NEW th
    PROVE  Chances(r, W, th) \in Seq(Answers) /\ Settled(Chances(r, W, th))
<1> DEFINE I == {i \in DOMAIN r : Eligible(r[i].page, r, W, th)}
           e == Kept(r, I)
<1>1. I \subseteq DOMAIN r
  OBVIOUS
<1>2. /\ e \in Seq(Answers) /\ Len(e) = Cardinality(I) /\ Cardinality(I) \in 0..Len(r)
      /\ \E f : Along(e, r, I, f)
  <2> HIDE DEF I
  <2> QED
    BY <1>1, KeptIsVector
<1> HIDE DEF e
<1>3. PICK f : Along(e, r, I, f)
  BY <1>2
<1>4. DOMAIN e = 1..Cardinality(I) /\ Cardinality(I) \in Nat /\ DOMAIN r \subseteq Nat
  BY <1>2
<1> HIDE DEF I
<1>5. \A k \in DOMAIN e : f[k] \in DOMAIN r /\ e[k] = r[f[k]]
  BY <1>1, <1>3, <1>4 DEF Along, Increasing
<1>6. ASSUME NEW k \in DOMAIN e, NEW l \in DOMAIN e, k # l PROVE f[k] # f[l]
  <2>1. k \in Nat /\ l \in Nat /\ f[k] \in Nat /\ f[l] \in Nat
    BY <1>4, <1>5
  <2>2. k < l => f[k] < f[l]
    BY <1>3, <1>4 DEF Along, Increasing
  <2>3. l < k => f[l] < f[k]
    BY <1>3, <1>4 DEF Along, Increasing
  <2> QED
    BY <1>6, <2>1, <2>2, <2>3
<1>7. Settled(e)
  BY <1>5, <1>6 DEF Settled
<1>8. Chances(r, W, th) = e
  BY ChancesAre DEF e, I
<1> QED
  BY <1>2, <1>7, <1>8

LEMMA RatedAre ==
    ASSUME NEW r \in Seq(Answers), NEW W, CountsOf(W, Names), NEW tags, NEW prof
    PROVE  /\ Rated(r, W, tags, prof) \in Seq(Entry) /\ DOMAIN Rated(r, W, tags, prof) = DOMAIN r
           /\ \A i \in DOMAIN r : Rated(r, W, tags, prof)[i] = score_candidate(r[i], W, tags, prof)
<1> DEFINE F(u) == [i \in DOMAIN u |-> score_candidate(u[i], W, tags, prof)] \o << >>
           f == [i \in DOMAIN r |-> score_candidate(r[i], W, tags, prof)]
           t == Rated(r, W, tags, prof)
<1>1. {F(u) : u \in {r}} = {F(r)}
  OBVIOUS
<1>2. t = f \o << >>
  BY <1>1, OfOne DEF Rated, Mapped
<1>3. \A i \in DOMAIN r : r[i] \in Answers
  BY ElementType
<1>4. \A i \in DOMAIN r : f[i] \in Entry /\ f[i] = score_candidate(r[i], W, tags, prof)
  BY <1>3, ScoreIsEntry DEF Answers
<1>5. DOMAIN r = 1..Len(r) /\ Len(r) \in Nat
  OBVIOUS
<1>6. f \in [1..Len(r) -> Entry]
  BY <1>4, <1>5
<1> HIDE DEF f
<1>7. f \in Seq(Entry) /\ DOMAIN f = DOMAIN r
  BY <1>5, <1>6
<1>8. t = f
  BY <1>2, <1>7, JoinedEmpty
<1> QED
  BY <1>4, <1>7, <1>8

LEMMA RatedPermuted ==
    ASSUME NEW r \in Seq(Answers), NEW t \in Seq(Answers), Permuted(t, r),
           NEW W, CountsOf(W, Names), NEW tags, NEW prof
    PROVE  Permuted(Rated(t, W, tags, prof), Rated(r, W, tags, prof))
<1> DEFINE a == Rated(r, W, tags, prof)
           b == Rated(t, W, tags, prof)
<1>1. PICK f : Permutes(f, t, r)
  BY DEF Permuted
<1>2. /\ DOMAIN a = DOMAIN r /\ \A i \in DOMAIN r : a[i] = score_candidate(r[i], W, tags, prof)
      /\ DOMAIN b = DOMAIN t /\ \A i \in DOMAIN t : b[i] = score_candidate(t[i], W, tags, prof)
  BY RatedAre
<1> HIDE DEF a, b
<1>3. Permutes(f, b, a)
  BY <1>1, <1>2 DEF Permutes
<1> QED
  BY <1>3 DEF Permuted, a, b

(* The comparison of the sort, of values.                                  *)
Betters == {p \in Entry \X Entry : Better(p[1], p[2])}

LEMMA EntryNumbers == ASSUME NEW e \in Entry PROVE e.name \in Int /\ e.composite \in Int
<1>1. e.name \in Names /\ e.composite \in Nat
  BY EntryFields
<1>2. Names \subseteq Int
  BY ScoringAssumption
<1>3. e.name \in Int
  BY <1>1, <1>2
<1>4. e.composite \in Int
  BY <1>1
<1> QED
  BY <1>3, <1>4

LEMMA BettersRank == Ranks(Betters, Entry)
<1>1. \A e \in Entry : e.name \in Int /\ e.composite \in Int
  BY EntryNumbers
<1>2. \A a, b \in Entry : <<a, b>> \in Betters <=>
          a.composite > b.composite \/ (a.composite = b.composite /\ a.name < b.name)
  BY DEF Betters, Better
<1> QED
  BY <1>1, <1>2 DEF Ranks

LEMMA EntryIs == ASSUME NEW e \in Entry
                 PROVE  e = [name |-> e.name, conviction |-> e.conviction, composite |-> e.composite]
  BY DEF Entry

LEMMA SameFactor ==
    ASSUME NEW a \in Nat, NEW b \in Nat, NEW c \in Nat, c > 0, a * c = b * c
    PROVE  a = b
  BY SMT

(* Of settled pages no two different ratings tie.                          *)
LEMMA RatedWithoutTies ==
    ASSUME NEW r \in Seq(Answers), Settled(r), NEW W, CountsOf(W, Names), NEW tags, NEW prof
    PROVE  NoTies(Rated(r, W, tags, prof), Betters)
<1> DEFINE a == Rated(r, W, tags, prof)
<1>1. /\ a \in Seq(Entry) /\ DOMAIN a = DOMAIN r
      /\ \A i \in DOMAIN r : a[i] = score_candidate(r[i], W, tags, prof)
  BY RatedAre
<1> HIDE DEF a
<1>2. \A i \in DOMAIN r : a[i] \in Entry /\ r[i] \in Answers
  BY <1>1, ElementType
<1>3. ASSUME NEW i \in DOMAIN r
      PROVE  /\ a[i].name = r[i].page /\ a[i].composite = a[i].conviction * Info[r[i].page].stickiness
             /\ Info[r[i].page].stickiness \in Nat
  <2>1. r[i].page \in Names
    BY <1>2 DEF Answers
  <2>2. Info[r[i].page].stickiness \in Nat
    BY <2>1, ScoringAssumption
  <2> DEFINE conv == conviction(r[i].page, r[i].seeds, W, tags, prof)
  <2>3. a[i] = [name |-> r[i].page, conviction |-> conv, composite |-> conv * Info[r[i].page].stickiness]
    BY <1>1 DEF score_candidate
  <2> HIDE DEF conv
  <2> QED
    BY <2>2, <2>3
<1>4. ASSUME NEW i \in DOMAIN r, NEW j \in DOMAIN r, a[i].name = a[j].name, a[i].composite = a[j].composite
      PROVE  a[i] = a[j]
  <2>1. CASE i = j
    BY <2>1
  <2>2. CASE i # j
    <3>1. r[i].page = r[j].page
      BY <1>3, <1>4
    <3> DEFINE st == Info[r[i].page].stickiness
    <3>2. st > 0 /\ st \in Nat
      BY <1>3, <2>2, <3>1 DEF Settled
    <3>3. a[i].conviction * st = a[j].conviction * st
      BY <1>3, <1>4, <3>1
    <3>4. a[i].conviction \in Nat /\ a[j].conviction \in Nat
      BY <1>2, EntryFields
    <3> HIDE DEF st
    <3>5. a[i].conviction = a[j].conviction
      BY <3>2, <3>3, <3>4, SameFactor
    <3>6. /\ a[i] = [name |-> a[i].name, conviction |-> a[i].conviction, composite |-> a[i].composite]
          /\ a[j] = [name |-> a[j].name, conviction |-> a[j].conviction, composite |-> a[j].composite]
      BY <1>2, EntryIs
    <3> QED
      BY <1>4, <3>5, <3>6
  <2> QED
    BY <2>1, <2>2
<1>5. ASSUME NEW i \in DOMAIN a, NEW j \in DOMAIN a
      PROVE  a[i] = a[j] \/ <<a[i], a[j]>> \in Betters \/ <<a[j], a[i]>> \in Betters
  <2>1. /\ a[i] \in Entry /\ a[j] \in Entry /\ a[i].name \in Int /\ a[j].name \in Int
        /\ a[i].composite \in Int /\ a[j].composite \in Int
    <3>1. a[i] \in Entry /\ a[j] \in Entry
      BY <1>1, <1>2
    <3> QED
      BY <3>1, EntryNumbers
  <2>2. a[i] = a[j] \/ Better(a[i], a[j]) \/ Better(a[j], a[i])
    BY <1>1, <1>4, <2>1 DEF Better
  <2> QED
    BY <2>1, <2>2 DEF Betters
<1> QED
  BY <1>5 DEF NoTies, a

LEMMA NoTiesPermuted == ASSUME NEW s, NEW t, Permuted(t, s), NEW R, NoTies(s, R) PROVE NoTies(t, R)
<1>1. PICK f : Permutes(f, t, s)
  BY DEF Permuted
<1> QED
  BY <1>1 DEF NoTies, Permutes

(* A sort of entries puts them in order.                                   *)
LEMMA SortedInOrder ==
    ASSUME NEW s \in Seq(Entry)
    PROVE  /\ SortedBy(s, Better) \in Seq(Entry) /\ Permuted(SortedBy(s, Better), s)
           /\ InOrder(SortedBy(s, Better), Betters)
<1> DEFINE less == Ahead(s)
           t == Sorted(s, less)
<1>1. WeakOrder(DOMAIN s, less)
  BY AheadIsWeak
<1>2. /\ t \in Seq(Entry) /\ DOMAIN t = DOMAIN s
      /\ \E f : /\ Permutes(f, t, s)
                /\ \A k, l \in DOMAIN s : k < l => <<f[l], f[k]>> \notin less
  <2> HIDE DEF less
  <2> QED
    BY <1>1, SortedPermuted
<1>3. SortedBy(s, Better) = t
  BY SortedByIs
<1> HIDE DEF t
<1>4. PICK f : /\ Permutes(f, t, s)
               /\ \A k, l \in DOMAIN s : k < l => <<f[l], f[k]>> \notin less
  BY <1>2
<1>5. \A k \in DOMAIN t : f[k] \in DOMAIN s /\ t[k] = s[f[k]]
  BY <1>4 DEF Permutes
<1>6. ASSUME NEW k \in DOMAIN t, NEW l \in DOMAIN t, k < l PROVE <<t[l], t[k]>> \notin Betters
  <2>1. <<f[l], f[k]>> \notin Ahead(s)
    BY <1>2, <1>4, <1>6
  <2>2. ~Better(s[f[l]], s[f[k]])
    BY <1>5, <2>1 DEF Ahead
  <2> QED
    BY <1>5, <2>2 DEF Betters
<1>7. InOrder(t, Betters)
  BY <1>6 DEF InOrder
<1> QED
  BY <1>2, <1>3, <1>4, <1>7 DEF Permuted

(* The ranked list is the same for every order in which settled pages come *)
(* in.                                                                     *)
LEMMA RankingDetermined ==
    ASSUME NEW r \in Seq(Answers), NEW t \in Seq(Answers), Permuted(t, r), Settled(r),
           NEW W, CountsOf(W, Names), NEW tags, NEW prof, NEW th
    PROVE  score_all(t, W, tags, prof, th) = score_all(r, W, tags, prof, th)
<1> DEFINE d == Chances(r, W, th)
           e == Chances(t, W, th)
           a == Rated(d, W, tags, prof)
           b == Rated(e, W, tags, prof)
           p == SortedBy(a, Better)
           q == SortedBy(b, Better)
<1>1. Settled(t)
  BY SettledPermuted
<1>2. d \in Seq(Answers) /\ Settled(d) /\ e \in Seq(Answers) /\ Permuted(e, d)
  BY <1>1, ChancesDrawn, ChancesPermuted
<1> HIDE DEF d, e
<1>3. a \in Seq(Entry) /\ b \in Seq(Entry) /\ Permuted(b, a) /\ NoTies(a, Betters)
  BY <1>2, RatedAre, RatedPermuted, RatedWithoutTies
<1> HIDE DEF a, b
<1>4. /\ p \in Seq(Entry) /\ Permuted(p, a) /\ InOrder(p, Betters)
      /\ q \in Seq(Entry) /\ Permuted(q, b) /\ InOrder(q, Betters)
  BY <1>3, SortedInOrder
<1> HIDE DEF p, q
<1>5. Permuted(q, p) /\ NoTies(p, Betters)
  <2>1. Permuted(q, a)
    BY <1>3, <1>4, PermutedTwice
  <2>2. Permuted(a, p)
    BY <1>4, PermutedBack
  <2> QED
    BY <1>3, <1>4, <2>1, <2>2, PermutedTwice, NoTiesPermuted
<1>6. q = p
  BY <1>4, <1>5, BettersRank, OneOrder
<1> QED
  BY <1>6, Zenon DEF score_all, p, q, a, b, d, e, Rated, Chances

-----------------------------------------------------------------------------
(* Every stage computes what the answers determine.                        *)

(* A key is shown under a spelling of that key.                            *)
Spelt == \A k \in Keys : /\ lfName[k] # NoName => Norm[lfName[k]] = k
                         /\ lbName[k] # NoName => Norm[lbName[k]] = k

LEMMA SpeltStep == ASSUME Typed, Spelt, [Next]_vars PROVE Spelt'
<1>1. CASE UNCHANGED <<lfName, lbName>>
  BY <1>1 DEF Spelt
<1>2. ASSUME NEW s \in Names, SimilarAnswer(s) PROVE Spelt'
  <2>1. CASE UNCHANGED <<lf, lfName>>
    BY <1>2, <2>1 DEF SimilarAnswer, Spelt
  <2>2. CASE lfName' = Spelled(lfName, Similar[s])
    <3>1. SpelledOK(lfName, Similar[s], lfName')
      BY <2>2, SpelledNames, DiscoveryAssumption DEF Typed, TypeOK
    <3>2. lbName' = lbName
      BY <1>2 DEF SimilarAnswer
    <3> QED
      BY <3>1, <3>2 DEF SpelledOK, Spelt
  <2> QED
    BY <1>2, <2>1, <2>2 DEF SimilarAnswer
<1>3. ASSUME NEW s \in Names, LbAnswer(s) PROVE Spelt'
  <2>1. CASE UNCHANGED <<lb, lbName, lbGot>>
    BY <1>3, <2>1 DEF LbAnswer, Spelt
  <2>2. CASE lbName' = Spelled(lbName, LbSimilar[s])
    <3>1. SpelledOK(lbName, LbSimilar[s], lbName')
      BY <2>2, SpelledNames, DiscoveryAssumption DEF Typed, TypeOK
    <3>2. lfName' = lfName
      BY <1>3 DEF LbAnswer
    <3> QED
      BY <3>1, <3>2 DEF SpelledOK, Spelt
  <2> QED
    BY <1>3, <2>1, <2>2 DEF LbAnswer
<1>4. CASE SeedStep \/ TagStep
  <2>1. UNCHANGED <<lfName, lbName>>
    BY <1>4, Zenon DEF SeedStep, ChartAnswer, SeedsChosen, UserAnswer, TagStep, SeedInfo,
            derive_genre_tags, fetch_tag_artists, armVars
  <2> QED
    BY <1>1, <2>1
<1>5. CASE StartArms \/ LbBudgetEnds \/ ArmsDone
  <2>1. UNCHANGED <<lfName, lbName>>
    BY <1>5, Zenon DEF StartArms, LbBudgetEnds, ArmsDone, armVars
  <2> QED
    BY <1>1, <2>1
<1>6. CASE ScoreStep
  <2>1. UNCHANGED <<lfName, lbName>>
    BY <1>6, Zenon DEF ScoreStep, ProfileAnswer, FetchPages, PageAnswer, Score, score_and_rank, armVars
  <2> QED
    BY <1>1, <2>1
<1>7. CASE \E c \in pending : CallFails(c)
  <2>1. UNCHANGED <<lfName, lbName>>
    BY <1>7, Zenon DEF CallFails, armVars
  <2> QED
    BY <1>1, <2>1
<1>8. CASE UNCHANGED vars
  <2>1. UNCHANGED <<lfName, lbName>>
    BY <1>8, Zenon DEF vars, armVars
  <2> QED
    BY <1>1, <2>1
<1> QED
  BY <1>2, <1>3, <1>4, <1>5, <1>6, <1>7, <1>8 DEF Next, Progress, ArmStep

(* The gains of the calls that are not in P.                               *)
Part(g, P) == [c \in DOMAIN g \ P |-> g[c]]

LEMMA PartMore ==
    ASSUME NEW S, NEW g, IsFiniteSet(DOMAIN g), \A c \in DOMAIN g : CountsOf(g[c], S),
           NEW P, NEW d \in P
    PROVE  AddedUp(Part(g, P \ {d})) = IF d \in DOMAIN g THEN Gained(AddedUp(Part(g, P)), g[d])
                                       ELSE AddedUp(Part(g, P))
<1>1. CASE d \notin DOMAIN g
  <2>1. DOMAIN g \ (P \ {d}) = DOMAIN g \ P
    BY <1>1
  <2> QED
    BY <1>1, <2>1 DEF Part
<1>2. CASE d \in DOMAIN g
  <2> DEFINE a == Part(g, P \ {d})
             b == Part(g, P)
  <2>1. /\ DOMAIN a = DOMAIN g \ (P \ {d}) /\ DOMAIN b = DOMAIN a \ {d} /\ d \in DOMAIN a
        /\ \A c \in DOMAIN a : a[c] = g[c]
        /\ \A c \in DOMAIN b : b[c] = a[c]
    BY <1>2 DEF Part
  <2> HIDE DEF a, b
  <2>2. IsFiniteSet(DOMAIN a)
    BY <2>1, FS_Subset
  <2>3. AddedUp(a) = Gained(AddedUp(b), a[d])
    BY <2>1, <2>2, AddedUpMore
  <2> QED
    BY <1>2, <2>1, <2>3 DEF a, b
<1> QED
  BY <1>1, <1>2

LEMMA PartAll == ASSUME NEW g, NEW P, DOMAIN g \subseteq P PROVE AddedUp(Part(g, P)) = Empty
<1>1. DOMAIN Part(g, P) = {}
  BY DEF Part
<1> QED
  BY <1>1, AddedUpNone

LEMMA PartNone == ASSUME NEW D, NEW g, g = [c \in D |-> g[c]] PROVE Part(g, {}) = g
<1>1. DOMAIN g = D
  OBVIOUS
<1>2. DOMAIN g \ {} = D
  BY <1>1
<1> QED
  BY <1>2 DEF Part

(* The charts that count, and the seeds they give.                         *)
ChartGains == [w \in Heard |-> SeedGain(Chart[w].entries)]

LEMMA ChartGainsCount ==
    ASSUME Typed
    PROVE  /\ DOMAIN ChartGains = Heard /\ IsFiniteSet(Heard) /\ Heard \subseteq Windows \cup {Year}
           /\ \A w \in Heard : /\ ChartGains[w] = SeedGain(Chart[w].entries)
                               /\ CountsOf(ChartGains[w], Names)
<1>1. period \in Periods
  BY DEF Typed, TypeOK
<1>2. Heard \subseteq Asked(period) /\ Asked(period) \subseteq Windows \cup {Year}
  BY <1>1 DEF Heard, Asked, Periods
<1>3. IsFiniteSet(Asked(period))
  <2>1. IsFiniteSet(Windows) /\ IsFiniteSet({period})
    BY DiscoveryAssumption, FS_Singleton
  <2> QED
    BY <2>1 DEF Asked
<1>4. IsFiniteSet(Heard)
  BY <1>2, <1>3, FS_Subset
<1>5. ASSUME NEW w \in Heard PROVE CountsOf(SeedGain(Chart[w].entries), Names)
  <2>1. Chart[w].entries \in Seq([name : Names, weight : Nat, plays : Nat])
    BY <1>2, DiscoveryAssumption DEF Heard
  <2> QED
    BY <2>1, SeedGainCounts
<1> QED
  BY <1>2, <1>4, <1>5 DEF ChartGains

LEMMA SeedsSame ==
    ASSUME period' = period
    PROVE  /\ Heard' = Heard /\ ChartGains' = ChartGains /\ RefMerged' = RefMerged
           /\ RefSeeds' = RefSeeds /\ RefWeights' = RefWeights
           /\ \A n : TopSeeds(n)' = TopSeeds(n)
<1>1. Heard' = Heard
  BY DEF Heard, Asked
<1>2. ChartGains' = ChartGains /\ RefMerged' = RefMerged
  BY <1>1 DEF ChartGains, RefMerged
<1>3. RefSeeds' = RefSeeds
  BY <1>2 DEF RefSeeds, Best, HeavierSeed
<1>4. RefWeights' = RefWeights
  BY <1>2, <1>3 DEF RefWeights
<1>5. ASSUME NEW CONSTANT n PROVE TopSeeds(n)' = TopSeeds(n)
  BY <1>2, <1>3 DEF TopSeeds, Best, HeavierSeed
<1> QED
  BY <1>1, <1>2, <1>3, <1>4, <1>5

(* While the charts come in, the seeds are those of the charts so far.     *)
SeedsExact ==
    /\ stage = "charts" => /\ pending \subseteq Asked(period)
                           /\ weights = AddedUp(Part(ChartGains, pending))
    /\ stage \notin {"charts", "failed"} => weights = RefWeights

LEMMA SeedsInit == Init => SeedsExact
<1> SUFFICES ASSUME Init PROVE SeedsExact
  OBVIOUS
<1>1. DOMAIN ChartGains \subseteq pending
  BY DEF ChartGains, Heard, Init
<1> QED
  BY <1>1, PartAll DEF Init, SeedsExact

LEMMA SeedsChart ==
    ASSUME Typed, SeedsExact, NEW w \in Windows \cup {Year}, ChartAnswer(w)
    PROVE  SeedsExact'
<1>1. /\ stage = "charts" /\ w \in pending /\ period' = period
      /\ pending \subseteq Asked(period) /\ weights = AddedUp(Part(ChartGains, pending))
  BY DEF SeedsExact, ChartAnswer, setting
<1>2. CASE stage' = "failed"
  BY <1>2 DEF SeedsExact
<1>3. CASE stage' # "failed"
  <2>1. /\ stage' = "charts" /\ pending' = pending \ {w}
        /\ weights' = IF <<"charts", w>> \in Refused THEN weights
                      ELSE Gained(weights, SeedGain(Chart[w].entries))
    BY <1>1, <1>3 DEF ChartAnswer, Send, seedVars, accumulate_seed
  <2>2. w \in Heard <=> <<"charts", w>> \notin Refused
    BY <1>1 DEF Heard
  <2> DEFINE g == ChartGains
  <2>3. /\ IsFiniteSet(DOMAIN g) /\ \A c \in DOMAIN g : CountsOf(g[c], Names)
        /\ DOMAIN g = Heard /\ \A c \in Heard : g[c] = SeedGain(Chart[c].entries)
    BY ChartGainsCount
  <2> HIDE DEF g
  <2>4. AddedUp(Part(g, pending \ {w})) = IF w \in DOMAIN g THEN Gained(AddedUp(Part(g, pending)), g[w])
                                          ELSE AddedUp(Part(g, pending))
    BY <1>1, <2>3, PartMore
  <2>5. weights' = AddedUp(Part(ChartGains, pending \ {w}))
    BY <1>1, <2>1, <2>2, <2>3, <2>4 DEF g
  <2>6. weights' = AddedUp(Part(ChartGains, pending))'
    BY <1>1, <2>1, <2>5, SeedsSame
  <2>7. pending' \subseteq Asked(period)'
    BY <1>1, <2>1 DEF Asked
  <2> QED
    BY <2>1, <2>6, <2>7 DEF SeedsExact
<1> QED
  BY <1>2, <1>3

LEMMA MergedIs == ASSUME Typed PROVE CountsOf(RefMerged, Names) /\ RefMerged = AddedUp(Part(ChartGains, {}))
                                     /\ RefMerged = [s \in DOMAIN RefMerged |-> RefMerged[s]]
<1>1. Part(ChartGains, {}) = ChartGains
  BY PartNone DEF ChartGains
<1>2. RefMerged = AddedUp(ChartGains)
  BY DEF RefMerged, ChartGains
<1> DEFINE g == ChartGains
           G(x) == [c \in DOMAIN g |-> WeightOf(g[c], x)]
           X == UNION {DOMAIN g[c] : c \in DOMAIN g}
<1>3. /\ IsFiniteSet(DOMAIN g) /\ \A c \in DOMAIN g : CountsOf(g[c], Names)
  BY ChartGainsCount
<1>4. ASSUME NEW x PROVE SumOf(G(x)) \in Nat
  <2> HIDE DEF g
  <2> DEFINE a == G(x)
  <2>1. Counts(a)
    BY <1>3, WeightOfCounts DEF Counts
  <2> HIDE DEF a
  <2>2. SumOf(a) \in Nat
    BY <2>1, SumIsNat
  <2> QED
    BY <2>2 DEF a
<1>5. X \subseteq Names
  BY <1>3 DEF CountsOf
<1>6. RefMerged = [x \in X |-> SumOf(G(x))]
  BY <1>2 DEF AddedUp
<1> HIDE DEF G, X
<1>7. CountsOf(RefMerged, Names) /\ RefMerged = [s \in DOMAIN RefMerged |-> RefMerged[s]]
  BY <1>4, <1>5, <1>6 DEF CountsOf
<1> QED
  BY <1>1, <1>2, <1>7

LEMMA SeedsCut == ASSUME Typed, SeedsExact, SeedsChosen PROVE SeedsExact'
<1>1. /\ stage = "charts" /\ period' = period /\ weights = RefMerged /\ CountsOf(RefMerged, Names)
      /\ RefMerged = [s \in DOMAIN RefMerged |-> RefMerged[s]]
  BY MergedIs DEF SeedsExact, SeedsChosen, setting
<1>2. CASE stage' = "failed"
  BY <1>2 DEF SeedsExact
<1>3. CASE stage' # "failed"
  <2>1. stage' = "user_info"
    BY <1>3 DEF SeedsChosen, Send
  <2>2. weights' = RefWeights
    <3>1. CASE period = "blend"
      <4>1. PICK top \in SeedCuts(weights, MaxSeeds) : weights' = [s \in top |-> weights[s]]
        BY <1>3, <3>1 DEF SeedsChosen, Send
      <4>2. top \in SeedCuts(RefMerged, MaxSeeds) /\ MaxSeeds \in Nat
        BY <1>1, <4>1, DiscoveryAssumption
      <4>3. top = RefSeeds
        <5>1. top = HeaviestSeeds(DOMAIN RefMerged, RefMerged, MaxSeeds)
          BY <1>1, <4>2, SeedCutIsBest
        <5> QED
          BY <3>1, <5>1, Zenon DEF RefSeeds, HeaviestSeeds
      <4> QED
        BY <1>1, <4>1, <4>3 DEF RefWeights
    <3>2. CASE period # "blend"
      <4>1. weights' = weights
        BY <1>3, <3>2 DEF SeedsChosen, Send
      <4>2. RefSeeds = DOMAIN RefMerged
        BY <3>2, Zenon DEF RefSeeds
      <4> QED
        BY <1>1, <4>1, <4>2 DEF RefWeights
    <3> QED
      BY <3>1, <3>2
  <2>3. weights' = RefWeights'
    BY <1>1, <2>2, SeedsSame
  <2> QED
    BY <2>1, <2>3 DEF SeedsExact
<1> QED
  BY <1>2, <1>3

Later == {"user_info", "seed_info", "tag_top", "similar"} \cup After

(* Once they are cut, the seeds stay.                                      *)
LEMMA LaterSteps ==
    ASSUME [Next]_vars, ~SeedsChosen, \A w \in Windows \cup {Year} : ~ChartAnswer(w)
    PROVE  /\ UNCHANGED setting
           /\ \/ UNCHANGED <<vars>>
              \/ stage \in Later /\ stage' \in Later \cup {"failed"} /\ UNCHANGED weights
              \/ stage' = "failed"
<1>1. CASE \E ok \in BOOLEAN : UserAnswer(ok)
  BY <1>1, Zenon DEF UserAnswer, Send, Later, seedVars
<1>2. CASE TagStep
  BY <1>2, Zenon DEF TagStep, SeedInfo, derive_genre_tags, fetch_tag_artists, Send, Later, seedVars
<1>3. CASE ArmStep
  BY <1>3, Zenon DEF ArmStep, StartArms, SimilarAnswer, LbBudgetEnds, ArmsDone, Send, Later, seedVars, After
<1>4. CASE ScoreStep
  BY <1>4, Zenon DEF ScoreStep, ProfileAnswer, FetchPages, PageAnswer, Score, score_and_rank, Send, Later,
          seedVars, After
<1>5. CASE \E c \in pending : CallFails(c)
  BY <1>5, Zenon DEF CallFails, Send
<1>6. CASE \E s \in Names : LbAnswer(s)
  BY <1>6, Zenon DEF LbAnswer, Later, seedVars
<1>7. CASE UNCHANGED vars
  BY <1>7, Zenon DEF vars
<1> QED
  BY <1>1, <1>2, <1>3, <1>4, <1>5, <1>6, <1>7 DEF Next, Progress, SeedStep

LEMMA SeedsStep == ASSUME Typed, SeedsExact, [Next]_vars PROVE SeedsExact'
<1>1. CASE \E w \in Windows \cup {Year} : ChartAnswer(w)
  BY <1>1, SeedsChart
<1>2. CASE SeedsChosen
  BY <1>2, SeedsCut
<1>3. CASE ~SeedsChosen /\ \A w \in Windows \cup {Year} : ~ChartAnswer(w)
  <2>1. /\ UNCHANGED setting
        /\ \/ UNCHANGED <<vars>>
           \/ stage \in Later /\ stage' \in Later \cup {"failed"} /\ UNCHANGED weights
           \/ stage' = "failed"
    BY <1>3, LaterSteps
  <2>2. period' = period
    BY <2>1 DEF setting
  <2>3. ChartGains' = ChartGains /\ RefWeights' = RefWeights /\ Asked(period)' = Asked(period)
    BY <2>2, SeedsSame DEF Asked
  <2>4. CASE UNCHANGED vars
    <3>1. UNCHANGED <<stage, pending, weights>>
      BY <2>4, Zenon DEF vars, seedVars
    <3> DEFINE g == ChartGains
    <3>2. AddedUp(Part(ChartGains, pending))' = AddedUp(Part(ChartGains, pending))
      BY <2>3, <3>1
    <3> QED
      BY <2>3, <3>1, <3>2 DEF SeedsExact
  <2>5. CASE stage \in Later /\ stage' \in Later \cup {"failed"} /\ UNCHANGED weights
    BY <2>3, <2>5 DEF SeedsExact, Later, After
  <2>6. CASE stage' = "failed"
    BY <2>6 DEF SeedsExact
  <2> QED
    BY <2>1, <2>4, <2>5, <2>6
<1> QED
  BY <1>1, <1>2, <1>3

(* The seeds that are cut are a part of the merged ones, with their        *)
(* weights; and those that are asked about are the heaviest.               *)
LEMMA SeedsAre ==
    ASSUME Typed, SeedsExact, stage \notin {"charts", "failed"}
    PROVE  /\ weights = RefWeights /\ DOMAIN weights = RefSeeds /\ RefSeeds \subseteq Names
           /\ \A s \in RefSeeds : weights[s] = RefMerged[s] /\ RefMerged[s] \in Nat
           /\ IsFiniteSet(RefSeeds)
           /\ \A n \in Nat : /\ TopSeeds(n) \subseteq RefSeeds
                             /\ \A top \in SeedCuts(weights, n) : top = TopSeeds(n)
<1>1. weights = RefWeights
  BY DEF SeedsExact
<1>2. DOMAIN weights = RefSeeds /\ \A s \in RefSeeds : weights[s] = RefMerged[s]
  BY <1>1 DEF RefWeights
<1>3. CountsOf(weights, Names)
  BY DEF Typed, TypeOK, CountsOf
<1>4. RefSeeds \subseteq DOMAIN RefMerged
  BY DEF RefSeeds, Best
<1>5. IsFiniteSet(RefSeeds)
  BY <1>2, <1>3, FS_Subset, ScoringAssumption DEF CountsOf
<1>6. ASSUME NEW n \in Nat PROVE TopSeeds(n) \subseteq RefSeeds
  BY DEF TopSeeds, Best
<1>7. ASSUME NEW n \in Nat, NEW top \in SeedCuts(weights, n) PROVE top = TopSeeds(n)
  <2>1. top = HeaviestSeeds(DOMAIN weights, weights, n)
    BY <1>3, SeedCutIsBest
  <2>2. HeaviestSeeds(DOMAIN weights, weights, n) = HeaviestSeeds(DOMAIN weights, RefMerged, n)
    <3>1. DOMAIN weights \subseteq DOMAIN RefMerged /\ \A s \in DOMAIN weights : weights[s] = RefMerged[s]
      BY <1>2, <1>4
    <3> QED
      BY <3>1, BestOfSome
  <2>3. HeaviestSeeds(DOMAIN weights, RefMerged, n) = TopSeeds(n)
    BY <1>2, Zenon DEF TopSeeds, HeaviestSeeds
  <2> QED
    BY <2>1, <2>2, <2>3
<1> QED
  BY <1>1, <1>2, <1>3, <1>5, <1>6, <1>7 DEF CountsOf

-----------------------------------------------------------------------------
(* The tag graph.                                                          *)

InfoGains == [s \in {t \in TopSeeds(TagSeeds) : <<"seed_info", t>> \notin Refused} |->
                 TagGain(GenreTags(Page[s]), 1)]
TopTagged == MostFrequent(RefFreq, TagsDerived)
Artists(T) == {Norm[a] : a \in UNION {TagTop[t] : t \in {u \in T : <<"tag_top", u>> \notin Refused}}}

LEMMA RefFreqIs == RefFreq = AddedUp(InfoGains)
  BY Zenon DEF RefFreq, InfoGains

LEMMA RefTagPoolIs == RefTagPool = Artists(TopTagged)
  BY Zenon DEF RefTagPool, Artists, TopTagged, MostFrequent

LEMMA TagsSame ==
    ASSUME period' = period
    PROVE  /\ InfoGains' = InfoGains /\ RefFreq' = RefFreq /\ TopTagged' = TopTagged
           /\ RefTagPool' = RefTagPool /\ TopSeeds(TagSeeds)' = TopSeeds(TagSeeds)
<1>1. TopSeeds(TagSeeds)' = TopSeeds(TagSeeds)
  BY SeedsSame
<1>2. InfoGains' = InfoGains
  BY <1>1 DEF InfoGains
<1>3. RefFreq' = RefFreq
  BY <1>1 DEF RefFreq
<1>4. TopTagged' = TopTagged
  BY <1>3 DEF TopTagged
<1>5. RefTagPool' = RefTagPool
  BY <1>3, RefTagPoolIs DEF RefTagPool, Best, MoreFrequent
<1> QED
  BY <1>1, <1>2, <1>3, <1>4, <1>5

LEMMA InfoGainsCount ==
    ASSUME TopSeeds(TagSeeds) \subseteq RefSeeds, RefSeeds \subseteq Names, IsFiniteSet(RefSeeds)
    PROVE  /\ IsFiniteSet(DOMAIN InfoGains)
           /\ \A s \in TopSeeds(TagSeeds) : <<"seed_info", s>> \notin Refused <=> s \in DOMAIN InfoGains
           /\ \A s \in DOMAIN InfoGains : /\ InfoGains[s] = TagGain(GenreTags(Page[s]), 1)
                                          /\ CountsOf(InfoGains[s], Tags)
<1>1. DOMAIN InfoGains \subseteq RefSeeds
  BY DEF InfoGains
<1>2. IsFiniteSet(DOMAIN InfoGains)
  BY <1>1, FS_Subset
<1>3. ASSUME NEW s \in DOMAIN InfoGains PROVE CountsOf(TagGain(GenreTags(Page[s]), 1), Tags)
  <2>1. Page[s] \in Names
    BY <1>1, DiscoveryAssumption
  <2>2. Info[Page[s]].tags \in Seq(Tags)
    BY <2>1, DiscoveryAssumption
  <2> DEFINE tags == GenreTags(Page[s])
  <2>3. tags \in Seq(Tags)
    BY <2>2 DEF GenreTags, Take
  <2> HIDE DEF tags
  <2>4. CountsOf(TagGain(tags, 1), Tags)
    BY <2>3, TagGainCounts
  <2> QED
    BY <2>4 DEF tags
<1>4. \A s \in DOMAIN InfoGains : InfoGains[s] = TagGain(GenreTags(Page[s]), 1)
  BY DEF InfoGains
<1>5. \A s \in TopSeeds(TagSeeds) : <<"seed_info", s>> \notin Refused <=> s \in DOMAIN InfoGains
  BY DEF InfoGains
<1> QED
  BY <1>2, <1>3, <1>4, <1>5

FreqExact ==
    /\ stage \in {"charts", "user_info"} => freq = Empty
    /\ stage = "seed_info" => /\ pending \subseteq TopSeeds(TagSeeds)
                              /\ freq = AddedUp(Part(InfoGains, pending))
    /\ stage \notin {"charts", "user_info", "seed_info", "failed"} => freq = RefFreq

TagPoolExact ==
    /\ stage \in {"charts", "user_info", "seed_info"} => tagPool = {}
    /\ stage = "tag_top" => pending \subseteq TopTagged /\ tagPool = Artists(TopTagged \ pending)
    /\ stage \notin {"charts", "user_info", "seed_info", "tag_top", "failed"} => tagPool = RefTagPool

LEMMA FreqInit == Init => FreqExact /\ TagPoolExact
  BY DEF Init, FreqExact, TagPoolExact

LEMMA FreqUser ==
    ASSUME Typed, SeedsExact, FreqExact, TagPoolExact, NEW ok \in BOOLEAN, UserAnswer(ok)
    PROVE  FreqExact' /\ TagPoolExact'
<1>1. /\ stage = "user_info" /\ stage' = "seed_info" /\ period' = period
      /\ freq' = freq /\ tagPool' = tagPool /\ freq = Empty /\ tagPool = {}
  BY Zenon DEF UserAnswer, Send, setting, tagVars, FreqExact, TagPoolExact
<1>2. PICK top \in SeedCuts(weights, TagSeeds) : pending' = top
  BY Zenon DEF UserAnswer, Send
<1>3. top = TopSeeds(TagSeeds)
  <2>1. TagSeeds \in Nat
    BY DiscoveryAssumption
  <2> QED
    BY <1>1, <1>2, <2>1, SeedsAre
<1>4. DOMAIN InfoGains \subseteq TopSeeds(TagSeeds)
  BY DEF InfoGains
<1>5. AddedUp(Part(InfoGains, TopSeeds(TagSeeds))) = Empty
  BY <1>4, PartAll
<1>6. AddedUp(Part(InfoGains, pending))' = Empty /\ TopSeeds(TagSeeds)' = TopSeeds(TagSeeds)
  BY <1>1, <1>2, <1>3, <1>5, TagsSame
<1> QED
  BY <1>1, <1>2, <1>3, <1>6 DEF FreqExact, TagPoolExact

LEMMA FreqInfo ==
    ASSUME Typed, SeedsExact, FreqExact, TagPoolExact, NEW s \in Names, SeedInfo(s)
    PROVE  FreqExact' /\ TagPoolExact'
<1>1. /\ stage = "seed_info" /\ stage' = "seed_info" /\ period' = period /\ s \in pending
      /\ pending' = pending \ {s} /\ tagPool' = tagPool /\ tagPool = {}
      /\ freq' = IF <<"seed_info", s>> \in Refused THEN freq ELSE Gained(freq, TagGain(GenreTags(Page[s]), 1))
  BY DEF SeedInfo, Send, setting, TagPoolExact
<1>2. pending \subseteq TopSeeds(TagSeeds) /\ freq = AddedUp(Part(InfoGains, pending))
  BY <1>1 DEF FreqExact
<1> DEFINE g == InfoGains
<1>3. /\ IsFiniteSet(DOMAIN g) /\ \A c \in DOMAIN g : CountsOf(g[c], Tags)
      /\ <<"seed_info", s>> \notin Refused <=> s \in DOMAIN g
      /\ s \in DOMAIN g => g[s] = TagGain(GenreTags(Page[s]), 1)
  <2>1. TagSeeds \in Nat
    BY DiscoveryAssumption
  <2>2. TopSeeds(TagSeeds) \subseteq RefSeeds /\ RefSeeds \subseteq Names /\ IsFiniteSet(RefSeeds)
    BY <1>1, <2>1, SeedsAre
  <2> QED
    BY <1>1, <1>2, <2>2, InfoGainsCount
<1> HIDE DEF g
<1>4. AddedUp(Part(g, pending \ {s})) = IF s \in DOMAIN g THEN Gained(AddedUp(Part(g, pending)), g[s])
                                        ELSE AddedUp(Part(g, pending))
  BY <1>1, <1>3, PartMore
<1>5. freq' = AddedUp(Part(InfoGains, pending \ {s}))
  BY <1>1, <1>2, <1>3, <1>4 DEF g
<1>6. freq' = AddedUp(Part(InfoGains, pending))' /\ pending' \subseteq TopSeeds(TagSeeds)'
  BY <1>1, <1>2, <1>5, TagsSame
<1> QED
  BY <1>1, <1>6 DEF FreqExact, TagPoolExact

LEMMA FreqDerived ==
    ASSUME Typed, FreqExact, TagPoolExact, derive_genre_tags
    PROVE  FreqExact' /\ TagPoolExact'
<1>1. /\ stage = "seed_info" /\ stage' = "tag_top" /\ period' = period /\ pending = {}
      /\ freq' = freq /\ tagPool' = tagPool /\ tagPool = {}
  BY Zenon DEF derive_genre_tags, Send, setting, tagVars, TagPoolExact
<1>2. freq = RefFreq
  <2>1. Part(InfoGains, {}) = InfoGains
    BY PartNone DEF InfoGains
  <2> QED
    BY <1>1, <2>1, RefFreqIs DEF FreqExact
<1>3. PICK top \in TagCuts(freq, TagsDerived) : pending' = top
  BY Zenon DEF derive_genre_tags, Send
<1>4. top = TopTagged
  <2>1. CountsOf(freq, Tags) /\ TagsDerived \in Nat
    BY DiscoveryAssumption DEF Typed, TypeOK, CountsOf
  <2> QED
    BY <1>2, <1>3, <2>1, TagCutIsBest DEF TopTagged
<1>5. Artists(TopTagged \ TopTagged) = {}
  BY DEF Artists
<1>6. pending' = TopTagged' /\ RefFreq' = RefFreq /\ Artists(TopTagged \ pending)' = {}
  BY <1>1, <1>3, <1>4, <1>5, TagsSame DEF Artists
<1> QED
  BY <1>1, <1>2, <1>6 DEF FreqExact, TagPoolExact

LEMMA FreqTagTop ==
    ASSUME FreqExact, TagPoolExact, NEW t \in Tags, fetch_tag_artists(t)
    PROVE  FreqExact' /\ TagPoolExact'
<1>1. /\ stage = "tag_top" /\ stage' = "tag_top" /\ period' = period /\ t \in pending
      /\ pending' = pending \ {t} /\ freq' = freq
      /\ tagPool' = IF <<"tag_top", t>> \in Refused THEN tagPool ELSE tagPool \cup {Norm[a] : a \in TagTop[t]}
  BY DEF fetch_tag_artists, Send, setting
<1>2. pending \subseteq TopTagged /\ tagPool = Artists(TopTagged \ pending) /\ freq = RefFreq
  BY <1>1 DEF FreqExact, TagPoolExact
<1> DEFINE heard(P) == {u \in TopTagged \ P : <<"tag_top", u>> \notin Refused}
<1>3. heard(pending \ {t}) = IF <<"tag_top", t>> \in Refused THEN heard(pending) ELSE heard(pending) \cup {t}
  BY <1>1, <1>2
<1>4. /\ Artists(TopTagged \ pending) = {Norm[a] : a \in UNION {TagTop[u] : u \in heard(pending)}}
      /\ Artists(TopTagged \ (pending \ {t})) =
             {Norm[a] : a \in UNION {TagTop[u] : u \in heard(pending \ {t})}}
  BY DEF Artists
<1> HIDE DEF heard
<1> DEFINE of(H) == {Norm[a] : a \in UNION {TagTop[u] : u \in H}}
<1>5. tagPool' = Artists(TopTagged \ (pending \ {t}))
  <2>1. of(heard(pending) \cup {t}) = of(heard(pending)) \cup {Norm[a] : a \in TagTop[t]}
    OBVIOUS
  <2> HIDE DEF of
  <2>2. tagPool = of(heard(pending)) /\ Artists(TopTagged \ (pending \ {t})) = of(heard(pending \ {t}))
    BY <1>2, <1>4 DEF of
  <2> QED
    BY <1>1, <1>3, <2>1, <2>2
<1>6. Artists(TopTagged \ pending)' = Artists(TopTagged \ (pending \ {t})) /\ TopTagged' = TopTagged
      /\ RefFreq' = RefFreq
  BY <1>1, TagsSame DEF Artists
<1> QED
  BY <1>1, <1>2, <1>5, <1>6 DEF FreqExact, TagPoolExact

LEMMA FreqStarts == ASSUME FreqExact, TagPoolExact, StartArms PROVE FreqExact' /\ TagPoolExact'
<1>1. /\ stage = "tag_top" /\ stage' = "similar" /\ period' = period /\ pending = {}
      /\ freq' = freq /\ tagPool' = tagPool
  BY DEF StartArms, Send, setting, tagVars
<1>2. freq = RefFreq /\ tagPool = RefTagPool
  BY <1>1, RefTagPoolIs DEF FreqExact, TagPoolExact
<1> QED
  BY <1>1, <1>2, TagsSame DEF FreqExact, TagPoolExact

(* A step that keeps the period, the counts and the pool, before the tags  *)
(* are counted or after they are used.                                     *)
LEMMA FreqKeeps ==
    ASSUME FreqExact, TagPoolExact, UNCHANGED <<period, freq, tagPool>>,
           \/ UNCHANGED <<stage, pending>>
           \/ stage' = "failed"
           \/ stage = "charts" /\ stage' \in {"charts", "user_info"}
           \/ stage \in {"similar"} \cup After /\ stage' \in {"similar"} \cup After
    PROVE  FreqExact' /\ TagPoolExact'
<1>1. /\ InfoGains' = InfoGains /\ RefFreq' = RefFreq /\ TopTagged' = TopTagged
      /\ RefTagPool' = RefTagPool /\ TopSeeds(TagSeeds)' = TopSeeds(TagSeeds)
  BY TagsSame
<1>2. CASE stage' = "failed"
  BY <1>2 DEF FreqExact, TagPoolExact
<1>3. CASE UNCHANGED <<stage, pending>>
  <2>1. /\ AddedUp(Part(InfoGains, pending))' = AddedUp(Part(InfoGains, pending))
        /\ Artists(TopTagged \ pending)' = Artists(TopTagged \ pending)
    BY <1>1, <1>3 DEF Artists
  <2> QED
    BY <1>1, <1>3, <2>1 DEF FreqExact, TagPoolExact
<1>4. CASE stage = "charts" /\ stage' \in {"charts", "user_info"}
  BY <1>4 DEF FreqExact, TagPoolExact
<1>5. CASE stage \in {"similar"} \cup After /\ stage' \in {"similar"} \cup After
  BY <1>1, <1>5 DEF FreqExact, TagPoolExact, After
<1> QED
  BY <1>2, <1>3, <1>4, <1>5

LEMMA FreqStep ==
    ASSUME Typed, SeedsExact, FreqExact, TagPoolExact, [Next]_vars
    PROVE  FreqExact' /\ TagPoolExact'
<1>1. CASE (\E w \in Windows \cup {Year} : ChartAnswer(w)) \/ SeedsChosen
  <2>1. /\ UNCHANGED <<period, freq, tagPool>> /\ stage = "charts"
        /\ stage' \in {"charts", "user_info", "failed"}
    BY <1>1, Zenon DEF ChartAnswer, SeedsChosen, Send, setting, tagVars
  <2> QED
    BY <2>1, FreqKeeps
<1>2. CASE \E ok \in BOOLEAN : UserAnswer(ok)
  BY <1>2, FreqUser
<1>3. CASE TagStep
  BY <1>3, FreqInfo, FreqDerived, FreqTagTop DEF TagStep
<1>4. CASE StartArms
  BY <1>4, FreqStarts
<1>5. CASE \/ \E s \in Names : SimilarAnswer(s) \/ LbAnswer(s)
           \/ LbBudgetEnds \/ ArmsDone
  <2>1. /\ UNCHANGED <<period, freq, tagPool>> /\ stage = "similar" /\ stage' \in {"similar", "profile"}
    BY <1>5, Zenon DEF SimilarAnswer, LbAnswer, LbBudgetEnds, ArmsDone, Send, setting, tagVars
  <2> QED
    BY <2>1, FreqKeeps DEF After
<1>6. CASE ScoreStep
  <2>1. UNCHANGED <<period, freq, tagPool>> /\ stage \in After /\ stage' \in After
    BY <1>6, Zenon DEF ScoreStep, ProfileAnswer, FetchPages, PageAnswer, Score, score_and_rank, Send,
            setting, tagVars, After
  <2> QED
    BY <2>1, FreqKeeps
<1>7. CASE \E c \in pending : CallFails(c)
  <2>1. UNCHANGED <<period, freq, tagPool>> /\ stage' = "failed"
    BY <1>7, Zenon DEF CallFails, Send, setting, tagVars
  <2> QED
    BY <2>1, FreqKeeps
<1>8. CASE UNCHANGED vars
  <2>1. UNCHANGED <<period, freq, tagPool, stage, pending>>
    BY <1>8, Zenon DEF vars, setting, tagVars
  <2> QED
    BY <2>1, FreqKeeps
<1> QED
  BY <1>1, <1>2, <1>3, <1>4, <1>5, <1>6, <1>7, <1>8 DEF Next, Progress, SeedStep, ArmStep

-----------------------------------------------------------------------------
(* The tag profile of the seeds.                                           *)

ProfileGains == [s \in {t \in TopSeeds(ProfileSeeds) : <<"profile", t>> \notin Refused} |->
                    TagGain(TopTags[s], RefMerged[s])]

LEMMA RefProfileIs == RefProfile = AddedUp(ProfileGains)
  BY Zenon DEF RefProfile, ProfileGains

LEMMA ProfileSame ==
    ASSUME period' = period
    PROVE  /\ ProfileGains' = ProfileGains /\ RefProfile' = RefProfile
           /\ TopSeeds(ProfileSeeds)' = TopSeeds(ProfileSeeds)
<1>1. TopSeeds(ProfileSeeds)' = TopSeeds(ProfileSeeds) /\ RefMerged' = RefMerged
  BY SeedsSame
<1> QED
  BY <1>1 DEF ProfileGains, RefProfile

LEMMA ProfileGainsCount ==
    ASSUME TopSeeds(ProfileSeeds) \subseteq RefSeeds, RefSeeds \subseteq Names, IsFiniteSet(RefSeeds),
           \A s \in RefSeeds : RefMerged[s] \in Nat
    PROVE  /\ IsFiniteSet(DOMAIN ProfileGains)
           /\ \A s \in TopSeeds(ProfileSeeds) : <<"profile", s>> \notin Refused <=> s \in DOMAIN ProfileGains
           /\ \A s \in DOMAIN ProfileGains : /\ ProfileGains[s] = TagGain(TopTags[s], RefMerged[s])
                                             /\ CountsOf(ProfileGains[s], Tags)
<1>1. DOMAIN ProfileGains \subseteq RefSeeds
  BY DEF ProfileGains
<1>2. IsFiniteSet(DOMAIN ProfileGains)
  BY <1>1, FS_Subset
<1>3. ASSUME NEW s \in DOMAIN ProfileGains PROVE CountsOf(TagGain(TopTags[s], RefMerged[s]), Tags)
  <2>1. s \in Names /\ RefMerged[s] \in Nat
    BY <1>1
  <2>2. TopTags[s] \in Seq(Tags)
    BY <2>1, DiscoveryAssumption
  <2> QED
    BY <2>1, <2>2, TagGainCounts
<1>4. \A s \in DOMAIN ProfileGains : ProfileGains[s] = TagGain(TopTags[s], RefMerged[s])
  BY DEF ProfileGains
<1>5. \A s \in TopSeeds(ProfileSeeds) : <<"profile", s>> \notin Refused <=> s \in DOMAIN ProfileGains
  BY DEF ProfileGains
<1> QED
  BY <1>2, <1>3, <1>4, <1>5

ProfileExact ==
    /\ stage \in Before \cup {"similar"} => profile = Empty
    /\ stage = "profile" => /\ pending \subseteq TopSeeds(ProfileSeeds)
                            /\ profile = AddedUp(Part(ProfileGains, pending))
    /\ stage \in After \ {"profile"} => profile = RefProfile

LEMMA ProfileStarts == ASSUME Typed, SeedsExact, ProfileExact, ArmsDone PROVE ProfileExact'
<1>1. /\ stage = "similar" /\ stage' = "profile" /\ period' = period /\ profile' = profile /\ profile = Empty
  BY Zenon DEF ArmsDone, Send, setting, scoreVars, ProfileExact
<1>2. PICK top \in SeedCuts(weights, ProfileSeeds) : pending' = top
  BY Zenon DEF ArmsDone, Send
<1>3. top = TopSeeds(ProfileSeeds)
  <2>1. ProfileSeeds \in Nat
    BY DiscoveryAssumption
  <2> QED
    BY <1>1, <1>2, <2>1, SeedsAre
<1>4. DOMAIN ProfileGains \subseteq TopSeeds(ProfileSeeds)
  BY DEF ProfileGains
<1>5. AddedUp(Part(ProfileGains, TopSeeds(ProfileSeeds))) = Empty
  BY <1>4, PartAll
<1>6. AddedUp(Part(ProfileGains, pending))' = Empty /\ TopSeeds(ProfileSeeds)' = TopSeeds(ProfileSeeds)
  BY <1>1, <1>2, <1>3, <1>5, ProfileSame
<1> QED
  BY <1>1, <1>2, <1>3, <1>6 DEF ProfileExact, Before, After

LEMMA ProfileAnswers ==
    ASSUME Typed, SeedsExact, ProfileExact, NEW s \in Names, ProfileAnswer(s)
    PROVE  ProfileExact'
<1>1. /\ stage = "profile" /\ stage' = "profile" /\ period' = period /\ s \in pending
      /\ pending' = pending \ {s}
      /\ profile' = IF <<"profile", s>> \in Refused THEN profile ELSE Gained(profile, TagGain(TopTags[s], weights[s]))
  BY DEF ProfileAnswer, Send, setting
<1>2. pending \subseteq TopSeeds(ProfileSeeds) /\ profile = AddedUp(Part(ProfileGains, pending))
  BY <1>1 DEF ProfileExact
<1> DEFINE g == ProfileGains
<1>3. /\ IsFiniteSet(DOMAIN g) /\ \A c \in DOMAIN g : CountsOf(g[c], Tags)
      /\ <<"profile", s>> \notin Refused <=> s \in DOMAIN g
      /\ s \in DOMAIN g => g[s] = TagGain(TopTags[s], weights[s])
  <2>1. ProfileSeeds \in Nat
    BY DiscoveryAssumption
  <2>2. /\ TopSeeds(ProfileSeeds) \subseteq RefSeeds /\ RefSeeds \subseteq Names /\ IsFiniteSet(RefSeeds)
        /\ \A t \in RefSeeds : RefMerged[t] \in Nat /\ weights[t] = RefMerged[t]
    BY <1>1, <2>1, SeedsAre
  <2>3. s \in RefSeeds /\ weights[s] = RefMerged[s]
    BY <1>1, <1>2, <2>2
  <2> QED
    BY <1>1, <1>2, <2>2, <2>3, ProfileGainsCount
<1> HIDE DEF g
<1>4. AddedUp(Part(g, pending \ {s})) = IF s \in DOMAIN g THEN Gained(AddedUp(Part(g, pending)), g[s])
                                        ELSE AddedUp(Part(g, pending))
  BY <1>1, <1>3, PartMore
<1>5. profile' = AddedUp(Part(ProfileGains, pending \ {s}))
  BY <1>1, <1>2, <1>3, <1>4 DEF g
<1>6. profile' = AddedUp(Part(ProfileGains, pending))' /\ pending' \subseteq TopSeeds(ProfileSeeds)'
  BY <1>1, <1>2, <1>5, ProfileSame
<1> QED
  BY <1>1, <1>6 DEF ProfileExact, Before, After

LEMMA ProfileEnds == ASSUME ProfileExact, FetchPages PROVE ProfileExact'
<1>1. stage = "profile" /\ stage' = "pages" /\ pending = {} /\ period' = period /\ profile' = profile
  BY Zenon DEF FetchPages, Send, setting, scoreVars
<1>2. Part(ProfileGains, {}) = ProfileGains
  BY PartNone DEF ProfileGains
<1>3. profile = RefProfile
  BY <1>1, <1>2, RefProfileIs DEF ProfileExact
<1> QED
  BY <1>1, <1>3, ProfileSame DEF ProfileExact, Before, After

LEMMA ProfileKeeps ==
    ASSUME ProfileExact, UNCHANGED <<period, profile>>,
           \/ UNCHANGED <<stage, pending>>
           \/ stage' = "failed"
           \/ stage \in Before \cup {"similar"} /\ stage' \in Before \cup {"similar"}
           \/ stage \in After \ {"profile"} /\ stage' \in After \ {"profile"}
    PROVE  ProfileExact'
<1>1. /\ ProfileGains' = ProfileGains /\ RefProfile' = RefProfile
      /\ TopSeeds(ProfileSeeds)' = TopSeeds(ProfileSeeds)
  BY ProfileSame
<1>2. CASE stage' = "failed"
  BY <1>2 DEF ProfileExact, Before, After
<1>3. CASE UNCHANGED <<stage, pending>>
  <2>1. AddedUp(Part(ProfileGains, pending))' = AddedUp(Part(ProfileGains, pending))
    BY <1>1, <1>3
  <2> QED
    BY <1>1, <1>3, <2>1 DEF ProfileExact
<1>4. CASE stage \in Before \cup {"similar"} /\ stage' \in Before \cup {"similar"}
  BY <1>4 DEF ProfileExact, Before, After
<1>5. CASE stage \in After \ {"profile"} /\ stage' \in After \ {"profile"}
  BY <1>1, <1>5 DEF ProfileExact, Before, After
<1> QED
  BY <1>2, <1>3, <1>4, <1>5

LEMMA ProfileStep == ASSUME Typed, SeedsExact, ProfileExact, [Next]_vars PROVE ProfileExact'
<1>1. CASE SeedStep \/ TagStep \/ StartArms
  <2>1. /\ UNCHANGED <<period, profile>> /\ stage \in Before \cup {"similar"}
        /\ stage' \in Before \cup {"similar", "failed"}
    BY <1>1, Zenon DEF SeedStep, ChartAnswer, SeedsChosen, UserAnswer, TagStep, SeedInfo,
            derive_genre_tags, fetch_tag_artists, StartArms, Send, setting, scoreVars, Before
  <2> QED
    BY <2>1, ProfileKeeps
<1>2. CASE (\E s \in Names : SimilarAnswer(s) \/ LbAnswer(s)) \/ LbBudgetEnds
  <2>1. /\ UNCHANGED <<period, profile>> /\ stage = "similar" /\ stage' = "similar"
    BY <1>2, Zenon DEF SimilarAnswer, LbAnswer, LbBudgetEnds, Send, setting, scoreVars
  <2> QED
    BY <2>1, ProfileKeeps
<1>3. CASE ArmsDone
  BY <1>3, ProfileStarts
<1>4. CASE \E s \in Names : ProfileAnswer(s)
  BY <1>4, ProfileAnswers
<1>5. CASE FetchPages
  BY <1>5, ProfileEnds
<1>6. CASE (\E k \in Keys : PageAnswer(k)) \/ Score \/ score_and_rank
  <2>1. /\ UNCHANGED <<period, profile>> /\ stage \in After \ {"profile"} /\ stage' \in After \ {"profile"}
    BY <1>6, Zenon DEF PageAnswer, Score, score_and_rank, Send, setting, After
  <2> QED
    BY <2>1, ProfileKeeps
<1>7. CASE \E c \in pending : CallFails(c)
  <2>1. UNCHANGED <<period, profile>> /\ stage' = "failed"
    BY <1>7, Zenon DEF CallFails, Send, setting, scoreVars
  <2> QED
    BY <2>1, ProfileKeeps
<1>8. CASE UNCHANGED vars
  <2>1. UNCHANGED <<period, profile, stage, pending>>
    BY <1>8, Zenon DEF vars, setting, scoreVars
  <2> QED
    BY <2>1, ProfileKeeps
<1> QED
  BY <1>1, <1>2, <1>3, <1>4, <1>5, <1>6, <1>7, <1>8 DEF Next, Progress, ArmStep, ScoreStep

-----------------------------------------------------------------------------
(* The pages.                                                              *)

Foremost == Best(Candidates, MaxInfo, MoreRecommended)
PageMap == [k \in Asks |-> [page |-> Page[Display(k)], seeds |-> Recommenders(k)]]

LEMMA AsksAre == Asks = {k \in Foremost : <<"pages", Display(k)>> \notin Refused} /\ Foremost \subseteq Candidates
  BY Zenon DEF Asks, Foremost, Best

LEMMA PagesSame ==
    ASSUME UNCHANGED <<armVars, setting>>
    PROVE  Foremost' = Foremost /\ PageMap' = PageMap /\ RefRaw' = RefRaw
<1>1. Candidates' = Candidates /\ Foremost' = Foremost
  BY DEF Foremost, Best, MoreRecommended, Count, Recommenders, Candidates, armVars, setting
<1>2. Asks' = Asks
  BY <1>1, AsksAre DEF Asks, Best, MoreRecommended, Count, Recommenders, Candidates, Display, armVars, setting
<1>3. PageMap' = PageMap
  BY <1>2 DEF PageMap, Display, Recommenders, armVars
<1>4. RefRaw' = RefRaw
  BY <1>2, <1>3 DEF RefRaw, Display, Recommenders, armVars
<1> QED
  BY <1>1, <1>3, <1>4

LEMMA PageMapAnswers ==
    ASSUME Typed
    PROVE  /\ DOMAIN PageMap = Asks /\ Asks \subseteq Candidates /\ Asks \subseteq Int /\ IsFiniteSet(Asks)
           /\ \A k \in Asks : /\ PageMap[k] = [page |-> Page[Display(k)], seeds |-> Recommenders(k)]
                              /\ PageMap[k] \in Answers /\ Display(k) \in Names
<1>1. DOMAIN PageMap = Asks /\ Asks \subseteq Candidates
  BY AsksAre DEF PageMap
<1>2. Asks \subseteq Int
  BY <1>1, CandidatesAreKeys, NumberedTags
<1>3. IsFiniteSet(Asks)
  BY <1>1, CandidatesAreKeys, FS_Subset
<1>4. ASSUME NEW k \in Asks PROVE /\ PageMap[k] = [page |-> Page[Display(k)], seeds |-> Recommenders(k)]
                                  /\ PageMap[k] \in Answers /\ Display(k) \in Names
  <2>1. Display(k) \in Names
    BY <1>1, DisplayIsName
  <2>2. Page[Display(k)] \in Names
    BY <2>1, DiscoveryAssumption
  <2>3. Recommenders(k) \subseteq Names
    <3>1. \A p \in lf \cup lb : p[2] \in Names
      BY DEF Typed, TypeOK
    <3> QED
      BY <3>1 DEF Recommenders
  <2>4. PageMap[k] = [page |-> Page[Display(k)], seeds |-> Recommenders(k)]
    BY DEF PageMap
  <2> QED
    BY <2>1, <2>2, <2>3, <2>4 DEF Answers
<1> QED
  BY <1>1, <1>2, <1>3, <1>4

LEMMA RefRawIs == ASSUME Typed PROVE RefRaw \in Seq(Answers) /\ Permuted(RefRaw, PageMap)
<1>1. RefRaw = Kept(PageMap, Asks)
  BY Zenon DEF RefRaw, PageMap
<1>2. /\ Asks \subseteq Int /\ IsFiniteSet(Asks) /\ DOMAIN PageMap = Asks
      /\ \A k \in Asks : PageMap[k] \in Answers
  BY PageMapAnswers
<1> QED
  BY <1>1, <1>2, KeptOfMap

(* Without ambiguities the pages are settled: two candidates have two      *)
(* keys, and so two spellings.                                             *)
LEMMA PagesSettled == ASSUME Unambiguous, Typed, Spelt PROVE Settled(PageMap)
<1>1. /\ DOMAIN PageMap = Asks /\ Asks \subseteq Candidates
      /\ \A k \in Asks : PageMap[k].page = Page[Display(k)] /\ Display(k) \in Names
  BY PageMapAnswers
<1>2. ASSUME NEW k \in Asks PROVE Norm[Display(k)] = k
  <2>1. k \in Keys
    BY <1>1, CandidatesAreKeys
  <2>2. Display(k) \in Names /\ NoName \notin Names
    BY <1>1, DiscoveryAssumption
  <2> QED
    BY <2>1, <2>2 DEF Spelt, Display
<1> HIDE DEF PageMap
<1>3. ASSUME NEW k \in Asks, NEW l \in Asks
      PROVE  /\ Norm[PageMap[k].page] = Norm[PageMap[l].page] =>
                    (Info[PageMap[k].page].listeners > Ceiling <=> Info[PageMap[l].page].listeners > Ceiling)
             /\ PageMap[k].page = PageMap[l].page /\ k # l => Info[PageMap[k].page].stickiness > 0
  <2>1. /\ PageMap[k].page = Page[Display(k)] /\ PageMap[l].page = Page[Display(l)]
        /\ Display(k) \in Names /\ Display(l) \in Names
        /\ Norm[Display(k)] = k /\ Norm[Display(l)] = l
    BY <1>1, <1>2
  <2> QED
    BY <2>1 DEF Unambiguous
<1> QED
  BY <1>1, <1>3 DEF Settled

RawExact ==
    /\ stage \in Before \cup {"similar", "profile"} => raw = None
    /\ stage = "pages" => pending \subseteq Foremost /\ Permuted(raw, Part(PageMap, pending))
    /\ stage \in {"vetoes", "done"} => scored = RefScored

LEMMA RawStarts == ASSUME Typed, RawExact, FetchPages PROVE RawExact'
<1>1. /\ stage = "profile" /\ stage' = "pages" /\ raw' = raw /\ raw = None /\ UNCHANGED <<armVars, setting>>
  BY Zenon DEF FetchPages, Send, scoreVars, RawExact
<1>2. PICK top \in Cuts(Candidates, MaxInfo, MoreRecommended) : pending' = top
  BY Zenon DEF FetchPages, Send
<1>3. top = Foremost
  BY <1>2, CandidateCutIsBest, Zenon DEF Foremost
<1>4. Asks \subseteq Foremost
  BY AsksAre
<1>5. DOMAIN Part(PageMap, Foremost) = {}
  BY <1>4 DEF Part, PageMap
<1>6. Permuted(raw, Part(PageMap, Foremost))
  <2> DEFINE m == Part(PageMap, Foremost)
  <2>1. DOMAIN m = {}
    BY <1>5
  <2> HIDE DEF m
  <2>2. Permuted(<< >>, m)
    BY <2>1, PermutedNone
  <2> QED
    BY <1>1, <2>2 DEF m, None
<1>7. Foremost' = Foremost /\ PageMap' = PageMap
  BY <1>1, PagesSame
<1>8. Permuted(raw, Part(PageMap, pending))'
  BY <1>1, <1>2, <1>3, <1>6, <1>7
<1> QED
  BY <1>1, <1>2, <1>3, <1>7, <1>8 DEF RawExact, Before

LEMMA RawAnswer == ASSUME Typed, RawExact, NEW k \in Keys, PageAnswer(k) PROVE RawExact'
<1>1. /\ stage = "pages" /\ stage' = "pages" /\ k \in pending /\ pending' = pending \ {k}
      /\ UNCHANGED <<armVars, setting>>
      /\ raw' = IF <<"pages", Display(k)>> \in Refused THEN raw
                ELSE Append(raw, [page |-> Page[Display(k)], seeds |-> Recommenders(k)])
  BY DEF PageAnswer, Send
<1>2. pending \subseteq Foremost /\ Permuted(raw, Part(PageMap, pending)) /\ k \in Foremost
  BY <1>1 DEF RawExact
<1> DEFINE m == Part(PageMap, pending)
           n == Part(PageMap, pending \ {k})
<1>3. DOMAIN PageMap = Asks /\ \A c \in Asks : PageMap[c] \in Answers
  BY PageMapAnswers
<1>4. k \in Asks <=> <<"pages", Display(k)>> \notin Refused
  BY <1>2, AsksAre
<1>5. Permuted(raw', n)
  <2>1. CASE k \notin Asks
    <3>1. DOMAIN PageMap \ (pending \ {k}) = DOMAIN PageMap \ pending
      BY <1>3, <2>1
    <3>2. m = n
      BY <3>1 DEF Part
    <3> QED
      BY <1>1, <1>2, <1>4, <2>1, <3>2
  <2>2. CASE k \in Asks
    <3> DEFINE a == PageMap[k]
    <3>1. raw' = Append(raw, a)
      BY <1>1, <1>4, <2>2 DEF PageMap
    <3>2. a \in Answers /\ raw \in Seq(Answers)
      BY <1>3, <2>2 DEF Typed, TypeOK, Answers
    <3>3. /\ k \notin DOMAIN m /\ DOMAIN n = DOMAIN m \cup {k} /\ n[k] = a
          /\ \A c \in DOMAIN m : n[c] = m[c]
      BY <1>1, <1>3, <2>2 DEF Part
    <3> HIDE DEF m, n, a
    <3>4. Permuted(raw, m)
      BY <1>2 DEF m
    <3>5. OneMore(m, k, a, n)
      BY <3>3 DEF OneMore
    <3>6. Permuted(Append(raw, a), n)
      BY <3>2, <3>4, <3>5, PermutedMore, Zenon
    <3> QED
      BY <3>1, <3>6
  <2> QED
    BY <2>1, <2>2
<1>6. Foremost' = Foremost /\ PageMap' = PageMap
  BY <1>1, PagesSame
<1>7. Permuted(raw, Part(PageMap, pending))'
  BY <1>1, <1>5, <1>6
<1> QED
  BY <1>1, <1>2, <1>6, <1>7 DEF RawExact, Before

LEMMA ScoredSame ==
    ASSUME UNCHANGED <<armVars, setting, threshold>>
    PROVE  RefScored' = RefScored
<1>1. period' = period
  BY DEF setting
<1>2. /\ RefRaw' = RefRaw /\ RefWeights' = RefWeights /\ RefTagPool' = RefTagPool
      /\ RefProfile' = RefProfile /\ threshold' = threshold
  BY <1>1, PagesSame, SeedsSame, TagsSame, ProfileSame
<1> QED
  BY <1>2 DEF RefScored

(* What is scored is what the answers determine, in the order of the keys. *)
LEMMA RawScored ==
    ASSUME Unambiguous, Typed, Spelt, SeedsExact, TagPoolExact, ProfileExact, RawExact, Score
    PROVE  RawExact'
<1>1. /\ stage = "pages" /\ stage' = "vetoes" /\ pending = {} /\ UNCHANGED <<armVars, setting, threshold>>
      /\ scored' = score_all(raw, weights, tagPool, profile, threshold)
  BY DEF Score, Send
<1>2. weights = RefWeights /\ tagPool = RefTagPool /\ profile = RefProfile
  BY <1>1 DEF SeedsExact, TagPoolExact, ProfileExact, After
<1>3. Permuted(raw, PageMap)
  <2>1. Part(PageMap, {}) = PageMap
    BY PartNone DEF PageMap
  <2> QED
    BY <1>1, <2>1 DEF RawExact
<1>4. /\ RefRaw \in Seq(Answers) /\ Permuted(RefRaw, PageMap) /\ Settled(PageMap)
  BY RefRawIs, PagesSettled
<1>5. Permuted(raw, RefRaw) /\ Settled(RefRaw)
  <2>1. Permuted(PageMap, RefRaw)
    BY <1>4, PermutedBack
  <2> QED
    BY <1>3, <1>4, <2>1, PermutedTwice, SettledPermuted
<1>6. raw \in Seq(Answers) /\ CountsOf(weights, Names)
  BY DEF Typed, TypeOK, Answers, CountsOf
<1>7. score_all(raw, weights, tagPool, profile, threshold)
          = score_all(RefRaw, weights, tagPool, profile, threshold)
  BY <1>4, <1>5, <1>6, RankingDetermined
<1>8. scored' = RefScored
  BY <1>1, <1>2, <1>7 DEF RefScored
<1>9. RefScored' = RefScored
  BY <1>1, ScoredSame
<1> QED
  BY <1>1, <1>8, <1>9 DEF RawExact, Before

LEMMA RawKeeps ==
    ASSUME RawExact, UNCHANGED <<raw, scored>>,
           \/ stage' = "failed"
           \/ stage \in Before \cup {"similar", "profile"} /\ stage' \in Before \cup {"similar", "profile"}
           \/ UNCHANGED <<armVars, setting, threshold, stage, pending>>
           \/ /\ UNCHANGED <<armVars, setting, threshold>>
              /\ stage \in {"vetoes", "done"} /\ stage' \in {"vetoes", "done"}
    PROVE  RawExact'
<1>1. CASE stage' = "failed"
  BY <1>1 DEF RawExact, Before
<1>2. CASE stage \in Before \cup {"similar", "profile"} /\ stage' \in Before \cup {"similar", "profile"}
  BY <1>2 DEF RawExact, Before
<1>3. CASE UNCHANGED <<armVars, setting, threshold, stage, pending>>
  <2>1. Foremost' = Foremost /\ PageMap' = PageMap
    BY <1>3, PagesSame
  <2>2. RefScored' = RefScored
    BY <1>3, ScoredSame
  <2>3. Permuted(raw, Part(PageMap, pending))' <=> Permuted(raw, Part(PageMap, pending))
    BY <1>3, <2>1
  <2> QED
    BY <1>3, <2>1, <2>2, <2>3 DEF RawExact
<1>4. CASE /\ UNCHANGED <<armVars, setting, threshold>>
           /\ stage \in {"vetoes", "done"} /\ stage' \in {"vetoes", "done"}
  <2>1. RefScored' = RefScored
    BY <1>4, ScoredSame
  <2> QED
    BY <1>4, <2>1 DEF RawExact, Before
<1> QED
  BY <1>1, <1>2, <1>3, <1>4

LEMMA RawStep ==
    ASSUME Unambiguous, Typed, Spelt, SeedsExact, TagPoolExact, ProfileExact, RawExact, [Next]_vars
    PROVE  RawExact'
<1>1. CASE SeedStep \/ TagStep \/ StartArms
  <2>1. /\ UNCHANGED <<raw, scored>> /\ stage \in Before
        /\ stage' \in Before \cup {"similar", "failed"}
    BY <1>1, Zenon DEF SeedStep, ChartAnswer, SeedsChosen, UserAnswer, TagStep, SeedInfo,
            derive_genre_tags, fetch_tag_artists, StartArms, Send, scoreVars, Before
  <2> QED
    BY <2>1, RawKeeps
<1>2. CASE (\E s \in Names : SimilarAnswer(s) \/ LbAnswer(s)) \/ LbBudgetEnds \/ ArmsDone
  <2>1. UNCHANGED <<raw, scored>> /\ stage = "similar" /\ stage' \in {"similar", "profile"}
    BY <1>2, Zenon DEF SimilarAnswer, LbAnswer, LbBudgetEnds, ArmsDone, Send, scoreVars
  <2> QED
    BY <2>1, RawKeeps
<1>3. CASE \E s \in Names : ProfileAnswer(s)
  <2>1. UNCHANGED <<raw, scored>> /\ stage = "profile" /\ stage' = "profile"
    BY <1>3, Zenon DEF ProfileAnswer, Send
  <2> QED
    BY <2>1, RawKeeps
<1>4. CASE FetchPages
  BY <1>4, RawStarts
<1>5. CASE \E k \in Keys : PageAnswer(k)
  BY <1>5, RawAnswer
<1>6. CASE Score
  BY <1>6, RawScored
<1>7. CASE score_and_rank
  <2>1. /\ UNCHANGED <<raw, scored>> /\ UNCHANGED <<armVars, setting, threshold>>
        /\ stage = "vetoes" /\ stage' = "done"
    BY <1>7, Zenon DEF score_and_rank, Send
  <2> QED
    BY <2>1, RawKeeps
<1>8. CASE \E c \in pending : CallFails(c)
  <2>1. UNCHANGED <<raw, scored>> /\ stage' = "failed"
    BY <1>8, Zenon DEF CallFails, Send, scoreVars
  <2> QED
    BY <2>1, RawKeeps
<1>9. CASE UNCHANGED vars
  <2>1. UNCHANGED <<raw, scored>> /\ UNCHANGED <<armVars, setting, threshold, stage, pending>>
    BY <1>9, Zenon DEF vars, scoreVars
  <2> QED
    BY <2>1, RawKeeps
<1> QED
  BY <1>1, <1>2, <1>3, <1>4, <1>5, <1>6, <1>7, <1>8, <1>9 DEF Next, Progress, ArmStep, ScoreStep

-----------------------------------------------------------------------------
Determined == Spelt /\ SeedsExact /\ FreqExact /\ TagPoolExact /\ ProfileExact /\ RawExact

LEMMA DeterminedInit == Init => Determined
<1>1. Init => Spelt /\ ProfileExact /\ RawExact
  <2> SUFFICES ASSUME Init PROVE Spelt /\ ProfileExact /\ RawExact
    OBVIOUS
  <2>1. /\ stage = "charts" /\ profile = Empty /\ raw = None
        /\ \A k \in Keys : lfName[k] = NoName /\ lbName[k] = NoName
    BY DEF Init
  <2> QED
    BY <2>1 DEF Spelt, ProfileExact, RawExact, Before, After
<1> QED
  BY <1>1, SeedsInit, FreqInit DEF Determined

LEMMA DeterminedStep ==
    ASSUME Unambiguous, Typed, Determined, [Next]_vars
    PROVE  Determined'
<1>1. Spelt /\ SeedsExact /\ FreqExact /\ TagPoolExact /\ ProfileExact /\ RawExact
  BY Zenon DEF Determined
<1>2. Spelt' /\ SeedsExact'
  BY <1>1, SpeltStep, SeedsStep, Zenon
<1>3. FreqExact' /\ TagPoolExact'
  BY <1>1, FreqStep, Zenon
<1>4. ProfileExact' /\ RawExact'
  BY <1>1, ProfileStep, RawStep, Zenon
<1> QED
  BY <1>2, <1>3, <1>4, Zenon DEF Determined

LEMMA DeterminedReply ==
    ASSUME Determined, Answered
    PROVE  ReplyReproducible
<1>1. stage \in {"vetoes", "done"} => weights = RefWeights /\ scored = RefScored /\ profile = RefProfile
  BY DEF Determined, SeedsExact, ProfileExact, RawExact, After
<1>2. stage = "done" => reply = post_process(WithoutVetoed(scored, vetoed), profile)
  BY Zenon DEF Answered
<1> QED
  BY <1>1, <1>2, Zenon DEF ReplyReproducible

(* A run that is not failed gives what the answers determine, in whatever  *)
(* order the calls of a stage are answered and whichever are refused: the  *)
(* seeds, the ranking and, up to what the vetoes drop, the reply.  This    *)
(* needs answers without ambiguities: listener_map (scoring.rs) is         *)
(* collected in the order of arrival, and of two pages with equal scores   *)
(* and names the one that was first is kept.                               *)
THEOREM ReplyIsDetermined == Unambiguous /\ Spec => []ReplyReproducible
<1>1. Init => Determined
  BY DeterminedInit
<1>2. Unambiguous /\ Typed /\ Determined /\ [Next]_vars => Determined'
  BY DeterminedStep
<1>3. Determined /\ Answered => ReplyReproducible
  BY DeterminedReply
<1>4. Spec => [](Typed /\ Pool /\ Answered)
  BY InvAlways
<1>5. Spec => Init /\ [][Next]_vars
  BY DEF Spec
<1>6. CASE Unambiguous
  <2>1. Typed /\ Determined /\ [Next]_vars => Determined'
    BY <1>2, <1>6
  <2> QED
    BY <1>1, <1>3, <1>4, <1>5, <2>1, PTL
<1> QED
  BY <1>6
=============================================================================
